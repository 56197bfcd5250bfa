---------------------------- MODULE PlvDirection ----------------------------
(***************************************************************************)
(* The direction of a message (direction.go) and the Postfix facts it      *)
(* rests on (Store.pcfg and Store.pcfgByOrigin): inbound, outbound,        *)
(* internal or relayed, decided over all the rows of one Message-ID, each  *)
(* judged with the configuration of the server it comes from.              *)
(*                                                                         *)
(* The code decides it twice: directionResolver builds sets of Message-IDs *)
(* for Search and Stats, GetDetail makes one pass over the rows.           *)
(*                                                                         *)
(* Abstraction.  A host is a model value that is public or not; Mailbox is *)
(* the relay of a local delivery.  An address is its domain.  Of the raw   *)
(* lines a row keeps whether one has sasl_username= or orig_client=.       *)
(***************************************************************************)
EXTENDS Naturals, Sequences, FiniteSets

CONSTANTS
  Origins, Local,        \* server names, and that of this instance itself
  QIDs, NoQid,           \* queue ids, and the empty one
  Mids, NoMid,           \* Message-IDs, and the empty one
  Hosts, NoHost,         \* IPs in client= and relay=, and none
  Mailbox,               \* a relay that is a local mailbox
  Public,                \* the hosts with a public IP
  Domains, NoDomain,     \* the domains of addresses, and the empty address
  Statuses, NoStatus,    \* dispositions, and none yet
  Details, NoDetail,     \* the replies of NOQUEUE rejects, and none
  MaxTime,               \* timestamps are 1 .. MaxTime, 0 when unknown
  Confs, NoConf          \* derived configurations, and none loaded

\* A configuration is the trusted networks and the local domains.
ASSUME ConfAssumption ==
  /\ Local \in Origins
  /\ Public \subseteq Hosts
  /\ NoMid \notin Mids /\ NoHost \notin Hosts /\ NoConf \notin Confs
  /\ NoDomain \notin Domains /\ Mailbox \notin Hosts
  /\ Confs \subseteq [nets : SUBSET Hosts, doms : SUBSET Domains]
  /\ MaxTime \in Nat

VARIABLES
  records,       \* Store.records
  pcfg,          \* Store.pcfg
  pcfgByOrigin   \* Store.pcfgByOrigin

Row ==
  [origin : Origins, qid : QIDs, dqid : QIDs \cup {NoQid},
   mid    : Mids \cup {NoMid},
   from   : Domains \cup {NoDomain}, to : Domains \cup {NoDomain},
   client : Hosts \cup {NoHost}, relay : Hosts \cup {NoHost, Mailbox},
   saved  : BOOLEAN,     \* the status detail says: put into a mailbox
   sasl   : BOOLEAN, orig : BOOLEAN,
   ts     : 0 .. MaxTime,
   status : Statuses \cup {NoStatus},
   detail : Details \cup {NoDetail},
   subsumed : BOOLEAN]

RecKey(r) == <<r.origin, r.qid>>
Listed == {i \in DOMAIN records : ~records[i].subsumed}

-----------------------------------------------------------------------------
(* The Postfix configurations.                                             *)

\* A reload of this instance's own configuration, when it differs.
SetPostfixConf(pc) ==
  /\ pc # pcfg
  /\ pcfg' = pc
  /\ UNCHANGED <<records, pcfgByOrigin>>

BadSetPostfixConfForOrigin(origin, pc) ==  \* it replaces the common one
  /\ origin # Local
  /\ pc # pcfgByOrigin[origin]
  /\ pcfg' = pc
  /\ pcfgByOrigin' = [pcfgByOrigin EXCEPT ![origin] = pc]
  /\ UNCHANGED records

BadSetPostfixConfAnyOrigin(origin, pc) ==  \* it takes the empty origin too
  /\ pc # pcfgByOrigin[origin]
  /\ pcfgByOrigin' = [pcfgByOrigin EXCEPT ![origin] = pc]
  /\ UNCHANGED <<records, pcfg>>

\* A forwarder's batch brings its configuration, when it differs.
SetPostfixConfForOrigin(origin, pc) ==
  /\ origin # Local
  /\ pc # pcfgByOrigin[origin]
  /\ pcfgByOrigin' = [pcfgByOrigin EXCEPT ![origin] = pc]
  /\ UNCHANGED <<records, pcfg>>

ConfFor(origin) ==
  IF origin # Local /\ pcfgByOrigin[origin] # NoConf
  THEN pcfgByOrigin[origin]
  ELSE pcfg

InMyNetworks(pc, host) == pc # NoConf /\ host \in pc.nets
IsLocalDomain(pc, d)   == pc # NoConf /\ d \in pc.doms

-----------------------------------------------------------------------------
(* The signals of one leg and what they add up to.                         *)

DeliversLocal(r) == r.relay = Mailbox \/ r.saved

LegReceivedPublicUnauth(r, pc) ==
  r.client \in Public /\ ~InMyNetworks(pc, r.client) /\ ~r.sasl

LegSendsPublic(r, pc) ==
  r.relay \in Public /\ ~DeliversLocal(r) /\ ~InMyNetworks(pc, r.relay)

\* One queue id that took the message from the internet and sent it straight
\* back there, without a content filter in between.
IsRelayLeg(r, pc) ==
  /\ LegReceivedPublicUnauth(r, pc)
  /\ LegSendsPublic(r, pc)
  /\ r.dqid = NoQid
  /\ ~r.orig

ClassifyDirection(in, out, local, relay, fromLocal, toLocal) ==
  IF relay /\ ~local THEN "relayed"
  ELSE IF in THEN "inbound"
  ELSE IF out THEN "outbound"
  ELSE IF toLocal = fromLocal THEN "internal"
  ELSE IF toLocal THEN "inbound"
  ELSE "outbound"

\* From the signals of one row alone, for rows without a Message-ID.
OwnDirection(r) ==
  LET pc == ConfFor(r.origin)
  IN  ClassifyDirection(LegReceivedPublicUnauth(r, pc), LegSendsPublic(r, pc),
        DeliversLocal(r), IsRelayLeg(r, pc),
        IsLocalDomain(pc, r.from), IsLocalDomain(pc, r.to))

\* Search and Stats: per signal the set of Message-IDs that show it.
DirectionResolver ==
  LET legs == {records[i] : i \in {j \in Listed : records[j].mid # NoMid}}
      midIn    == {r.mid : r \in {l \in legs : LegReceivedPublicUnauth(l, ConfFor(l.origin))}}
      midOut   == {r.mid : r \in {l \in legs : LegSendsPublic(l, ConfFor(l.origin))}}
      midLocal == {r.mid : r \in {l \in legs : DeliversLocal(l)}}
      midRelay == {r.mid : r \in {l \in legs : IsRelayLeg(l, ConfFor(l.origin))}}
      midFromLocal == {r.mid : r \in {l \in legs : IsLocalDomain(ConfFor(l.origin), l.from)}}
      midToLocal   == {r.mid : r \in {l \in legs : IsLocalDomain(ConfFor(l.origin), l.to)}}
  IN  [i \in DOMAIN records |->
         LET m == records[i].mid
         IN  IF m = NoMid THEN OwnDirection(records[i])
             ELSE ClassifyDirection(m \in midIn, m \in midOut, m \in midLocal,
                    m \in midRelay, m \in midFromLocal, m \in midToLocal)]

BadDetailDirection(i) ==  \* each leg is judged with the opened row's config
  LET r  == records[i]
      pc == ConfFor(r.origin)
      legs == {records[j] : j \in {k \in Listed : records[k].mid = r.mid}}
  IN  IF r.mid = NoMid THEN OwnDirection(r)
      ELSE ClassifyDirection(
             \E l \in legs : LegReceivedPublicUnauth(l, pc),
             \E l \in legs : LegSendsPublic(l, pc),
             \E l \in legs : DeliversLocal(l),
             \E l \in legs : IsRelayLeg(l, pc),
             \E l \in legs : IsLocalDomain(pc, l.from),
             \E l \in legs : IsLocalDomain(pc, l.to))

\* GetDetail: one pass over the rows with the Message-ID of row i.
DetailDirection(i) ==
  LET r == records[i]
      legs == {records[j] : j \in {k \in Listed : records[k].mid = r.mid}}
  IN  IF r.mid = NoMid THEN OwnDirection(r)
      ELSE ClassifyDirection(
             \E l \in legs : LegReceivedPublicUnauth(l, ConfFor(l.origin)),
             \E l \in legs : LegSendsPublic(l, ConfFor(l.origin)),
             \E l \in legs : DeliversLocal(l),
             \E l \in legs : IsRelayLeg(l, ConfFor(l.origin)),
             \E l \in legs : IsLocalDomain(ConfFor(l.origin), l.from),
             \E l \in legs : IsLocalDomain(ConfFor(l.origin), l.to))
=============================================================================
