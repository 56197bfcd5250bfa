------------------------------ MODULE PlvConf --------------------------------
(***************************************************************************)
(* How a receiver comes to judge a forwarder's mail by that forwarder's    *)
(* own Postfix configuration: loadPostfixConf and watchPostfixConf read it *)
(* from disk, Forwarder.Run posts it with every batch and every twenty     *)
(* seconds without one, handleIngest keeps it in memory under the name in  *)
(* the client certificate.  Around that, what PlvEnrol has: enrolment,     *)
(* processes that are restarted, connections that are refused.             *)
(*                                                                         *)
(* A configuration is a number, equal to another where signature() is;     *)
(* the rows of a batch are here or not.                                    *)
(***************************************************************************)
EXTENDS PlvEnrol

CONSTANTS
  MaxEdits,  \* bound on changes of a node's Postfix configuration
  MaxLate    \* bound on handlers that outlive their request, at one time

ASSUME ConfAssumption == MaxEdits \in Nat \ {0} /\ MaxLate \in Nat

VARIABLES
  etc,      \* etc[n]: what main.cf of node n says, or Unreadable
  edits,
  last,     \* last[n]: what watchPostfixConf applied last
  conf,     \* conf[n]: Forwarder.conf
  request,  \* request[n]: the post Run waits for
  late,     \* the posts it gave up, still in handleIngest
  known,    \* known[n]: the receiver's pcfgByOrigin
  rows,     \* rows[n]: the receiver has taken rows of n since it started
  blind     \* blind[n]: some forwarder process of n found no configuration

cvars == <<etc, edits, last, conf, request, late, known, rows, blind>>
vars  == <<evars, cvars>>

Unreadable == 0
NoConf     == 0
Conf       == 1 .. MaxEdits
NoPost     == [stage |-> "none", conf |-> NoConf, rows |-> FALSE]

-----------------------------------------------------------------------------
(* The node's configuration and its watcher.                               *)

EditPostfix(n) ==
  /\ edits < MaxEdits
  /\ edits' = edits + 1
  /\ \E c \in (Conf \cup {Unreadable}) \ {etc[n]} : etc' = [etc EXCEPT ![n] = c]
  /\ UNCHANGED <<evars, last, conf, request, late, known, rows, blind>>

\* apply: an unreadable file leaves everything as it was.
Poll(n) ==
  /\ role[n] = "forwarder"
  /\ etc[n] # Unreadable
  /\ etc[n] # last[n]
  /\ conf' = [conf EXCEPT ![n] = etc[n]]
  /\ last' = [last EXCEPT ![n] = etc[n]]
  /\ UNCHANGED <<evars, etc, edits, request, late, known, rows, blind>>

-----------------------------------------------------------------------------
(* Forwarder.Run and handleIngest.                                         *)

\* A changed form of Post: there is no heartbeat.
BadPost(n, r) ==
  /\ role[n] = "forwarder"
  /\ request[n].stage = "none"
  /\ r
  /\ request' = [request EXCEPT ![n] = [stage |-> "posted", conf |-> conf[n], rows |-> r]]
  /\ UNCHANGED <<evars, etc, edits, last, conf, late, known, rows, blind>>

\* Rows to ship, or the heartbeat: a batch without rows needs a configuration.
Post(n, r) ==
  /\ role[n] = "forwarder"
  /\ request[n].stage = "none"
  /\ r \/ conf[n] # NoConf
  /\ request' = [request EXCEPT ![n] = [stage |-> "posted", conf |-> conf[n], rows |-> r]]
  /\ UNCHANGED <<evars, etc, edits, last, conf, late, known, rows, blind>>

\* SetPostfixConfForOrigin; a batch may carry none.
SetConfForOrigin(n, c) == known' = [known EXCEPT ![n] = IF c = NoConf THEN @ ELSE c]

\* IngestSnapshots, after it has released the lock once in between.
IngestRows(n, r) == rows' = [rows EXCEPT ![n] = @ \/ r]

HandleConf(n) ==
  /\ request[n].stage = "posted"
  /\ Connects(n)
  /\ SetConfForOrigin(n, request[n].conf)
  /\ request' = [request EXCEPT ![n].stage = "taken"]
  /\ UNCHANGED <<evars, etc, edits, last, conf, late, rows, blind>>

\* The answer arrives with it.
HandleRows(n) ==
  /\ request[n].stage = "taken"
  /\ IngestRows(n, request[n].rows)
  /\ request' = [request EXCEPT ![n] = NoPost]
  /\ UNCHANGED <<evars, etc, edits, last, conf, late, known, blind>>

\* handleIngest is at work on it.
Arrived(n) ==
  \/ request[n].stage = "taken"
  \/ request[n].stage = "posted" /\ Connects(n)

\* No answer, an error, a timeout.  The handler may go on all the same.
PostFails(n) ==
  /\ request[n].stage # "none"
  /\ request' = [request EXCEPT ![n] = NoPost]
  /\ \/ UNCHANGED late
     \/ /\ Arrived(n)
        /\ Cardinality(late) < MaxLate
        /\ late' = late \cup {[node |-> n, post |-> request[n]]}
  /\ UNCHANGED <<evars, etc, edits, last, conf, known, rows, blind>>

LateConf(h) ==
  /\ h.post.stage = "posted"
  /\ SetConfForOrigin(h.node, h.post.conf)
  /\ late' = (late \ {h}) \cup {[h EXCEPT !.post.stage = "taken"]}
  /\ UNCHANGED <<evars, etc, edits, last, conf, request, rows, blind>>

LateRows(h) ==
  /\ h.post.stage = "taken"
  /\ IngestRows(h.node, h.post.rows)
  /\ late' = late \ {h}
  /\ UNCHANGED <<evars, etc, edits, last, conf, request, known, blind>>

-----------------------------------------------------------------------------
(* Processes, with what they have in memory.                               *)

\* A changed form of StartProcess: the watcher alone is to load it.
BadStartProcess(h) ==
  /\ Start(h)
  /\ UNCHANGED cvars

\* main loads the configuration before Run and the watcher start.
StartProcess(h) ==
  /\ Start(h)
  /\ IF role'[h] = "forwarder"
     THEN /\ conf' = [conf EXCEPT ![h] = etc[h]]
          /\ blind' = [blind EXCEPT ![h] = @ \/ etc[h] = Unreadable]
     ELSE UNCHANGED <<conf, blind>>
  /\ UNCHANGED <<etc, edits, last, request, late, known, rows>>

StopForwarder(n) ==
  /\ Stop(n)
  /\ conf' = [conf EXCEPT ![n] = NoConf]
  /\ last' = [last EXCEPT ![n] = Unreadable]
  /\ request' = [request EXCEPT ![n] = NoPost]
  /\ UNCHANGED <<etc, edits, late, known, rows, blind>>

\* Posts under way break off; their handlers are gone.
StopReceiver ==
  /\ Stop(Receiver)
  /\ known' = [n \in Nodes |-> NoConf]
  /\ rows' = [n \in Nodes |-> FALSE]
  /\ late' = {}
  /\ request' = [n \in Nodes |->
       IF request[n].stage = "none" THEN NoPost ELSE [request[n] EXCEPT !.stage = "broken"]]
  /\ UNCHANGED <<etc, edits, last, conf, blind>>

-----------------------------------------------------------------------------
CInit ==
  /\ EInit
  /\ etc \in [Nodes -> {Unreadable, 1}]
  /\ edits = 1
  /\ last = [n \in Nodes |-> Unreadable]
  /\ conf = [n \in Nodes |-> NoConf]
  /\ request = [n \in Nodes |-> NoPost]
  /\ late = {}
  /\ known = [n \in Nodes |-> NoConf]
  /\ rows = [n \in Nodes |-> FALSE]
  /\ blind = [n \in Nodes |-> FALSE]

CNext ==
  \/ Command /\ UNCHANGED cvars
  \/ \E h \in Hosts : StartProcess(h)
  \/ StopReceiver
  \/ \E n \in Nodes :
       \/ StopForwarder(n) \/ EditPostfix(n) \/ Poll(n)
       \/ \E r \in BOOLEAN : Post(n, r)
       \/ HandleConf(n) \/ HandleRows(n) \/ PostFails(n)
  \/ \E h \in late : LateConf(h) \/ LateRows(h)

CSpec == CInit /\ [][CNext]_vars

\* Commands run to their end and the service manager starts what is down.
\* Operators do what the documentation asks of them: a CA and a server
\* certificate where they are missing, a ticket and an enrolment where the
\* node's certificate is not the CA's, a restart for new files, one release
\* on all hosts in the end.
Setup ==
  /\ \A h \in Hosts :
       /\ WF_vars((Truncate(h) \/ Fill(h)) /\ UNCHANGED cvars)
       /\ WF_vars(StartProcess(h))
       /\ WF_vars((\E g \in Hosts : binary[h] < binary[g]) /\ Upgrade(h) /\ UNCHANGED cvars)
  /\ WF_vars(PkiInit /\ UNCHANGED cvars)
  /\ WF_vars(~InOrder(Receiver) /\ PkiServer /\ UNCHANGED cvars)
  /\ WF_vars(Outdated(Receiver) /\ StopReceiver)
  /\ \A n \in Nodes :
       /\ WF_vars(PkiTicket(n) /\ UNCHANGED cvars)
       /\ WF_vars(~InOrder(n) /\ PlvEnroll(n) /\ UNCHANGED cvars)
       /\ WF_vars(Outdated(n) /\ StopForwarder(n))

\* The forwarder's tickers keep ticking, rows or no rows, a post comes to an
\* end, a handler too, and one tried again and again is answered in time.
Running ==
  \A n \in Nodes :
    /\ WF_vars(Poll(n))
    /\ WF_vars(Post(n, FALSE))
    /\ SF_vars(HandleConf(n))
    /\ WF_vars(HandleRows(n) \/ PostFails(n))
    /\ WF_vars(\E h \in late : LateConf(h) \/ LateRows(h))

LiveSpec == CSpec /\ Setup /\ Running
-----------------------------------------------------------------------------
(* Properties.                                                             *)

\* "The very first batch carries it": no row of a node is judged without the
\* node's configuration, from the receiver's first moment on, unless a
\* forwarder had none to send.
ConfBeforeRows == \A n \in Nodes : rows[n] /\ ~blind[n] => known[n] # NoConf

\* "The receiver always has each forwarder's mynetworks/domains - and recovers
\* them after a receiver restart": whatever is set up, lost, enrolled again or
\* restarted, in the end it has what main.cf says, if that can be read.
ReceiverHasConf ==
  \A n \in Nodes : <>[](etc[n] # Unreadable => known[n] = etc[n])
=============================================================================
