\* A receiver that parses its own log beside two forwarders.
CONSTANTS
  Origins   = {"local", "gateway", "mailbox"}
  Local     = "local"
  QIDs      = {"q1", "q2", "q3", "q4", "q5", "q6", "q7", "q8"}
  NoQid     = "none"
  Mids      = {"m1", "m2"}
  NoMid     = "none"
  Hosts     = {"sender", "backend", "relayhost", "filter"}
  NoHost    = "none"
  Mailbox   = "into mailbox"
  Public    = {"sender", "backend", "relayhost"}
  Domains   = {"ours", "theirs"}
  NoDomain  = "none"
  Statuses  = {1, 2}
  NoStatus  = 0
  Details   = {"front", "back"}
  NoDetail  = "none"
  MaxTime   = 2
  Confs     <- MCConfs
  NoConf    = noConf
  Incoming  <- MCIncoming
  Queries   <- MCQueries
  Window    = 1
  Embeds    <- MCEmbeds
  MaxRows   = 4
SPECIFICATION Spec
INVARIANTS TypeOK PagesTile GroupsStandTogether EdgesAgree
INVARIANTS CardsMatchTable DetailAgrees RelatedIsMutual
PROPERTIES ForeignConfHarmless
CHECK_DEADLOCK FALSE
