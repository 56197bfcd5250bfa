------------------------------ MODULE PlvEnrol -------------------------------
(***************************************************************************)
(* The data directories of a receiver and its forwarders: plv pki init,    *)
(* plv pki server, plv pki ticket and plv enroll write their files one by  *)
(* one, each by truncating it first, and can end in between; a process     *)
(* reads its files when it starts, handleEnroll reads them on every call.  *)
(*                                                                         *)
(* A CA, with its key and ticket salt, is the number of the pki init that  *)
(* made it.  A certificate and its key are the number under which they     *)
(* were issued; LoadX509KeyPair accepts a pair of equal numbers.           *)
(***************************************************************************)
EXTENDS Integers, Sequences, FiniteSets

CONSTANTS
  Receiver,    \* the receiver's host
  Nodes,       \* the forwarders' hosts, and the names they enrol under
  MaxCAs,      \* bound on runs of pki init
  MaxRelease,  \* bound on releases of PLV
  MaxIssued,   \* bound on certificates nobody had to ask for
  MaxFaults,   \* bound on commands and processes that die, and on losses
  InitMayDie   \* pki init may be among them

Hosts == {Receiver} \cup Nodes

ASSUME EnrolAssumption ==
  /\ Receiver \notin Nodes
  /\ MaxCAs \in Nat /\ MaxRelease \in Nat \ {0} /\ MaxIssued \in Nat /\ MaxFaults \in Nat
  /\ InitMayDie \in BOOLEAN

Absent == 0
Torn   == -1  \* created or truncated, its content not written
File   == {"ca.pem", "ca-key.pem", "ticket-salt", "cert.pem", "key.pem"}

VARIABLES
  disk,    \* disk[h][f]: file f of host h's data directory
  todo,    \* todo[h]: what the command running on h has yet to write
  binary,  \* binary[h]: the release of PLV installed on h
  cas,     \* the number of CAs made
  issued,  \* the certificates issued, each with its CA and its name
  grant,   \* grant[n]: the ticket and the CA certificate handed to node n
  role,    \* role[h]: what PLV runs as on h
  loaded,  \* loaded[h]: the certificate, the CA and the release it runs with
  died,    \* died[h]: the last command that wrote on h died
  faults

evars == <<disk, todo, binary, cas, issued, grant, role, loaded, died, faults>>

Whole(h, f)  == disk[h][f] \notin {Absent, Torn}
FileExists(h, f) == disk[h][f] # Absent

\* Both roles ask for these before they start as such.
PkiReady(h) == \A f \in {"ca.pem", "cert.pem", "key.pem"} : FileExists(h, f)

\* serverTLSConfig and clientTLSConfig: the pair matches, the CA parses.
TLSConfigOK(h) ==
  /\ \A f \in {"ca.pem", "cert.pem", "key.pem"} : Whole(h, f)
  /\ disk[h]["cert.pem"] = disk[h]["key.pem"]

LoadCA == Whole(Receiver, "ca.pem") /\ Whole(Receiver, "ca-key.pem")

-----------------------------------------------------------------------------
(* os.WriteFile, and commands as lists of files to write.  The operator of *)
(* a host runs them one after another.                                     *)

Idle(h) == todo[h] = <<>>

Begin(h, writes) ==
  /\ Idle(h)
  /\ todo' = [todo EXCEPT ![h] = writes]
  /\ died' = [died EXCEPT ![h] = FALSE]

Truncate(h) ==
  /\ ~Idle(h)
  /\ disk[h][Head(todo[h]).file] # Torn
  /\ disk' = [disk EXCEPT ![h][Head(todo[h]).file] = Torn]
  /\ UNCHANGED <<todo, binary, cas, issued, grant, role, loaded, died, faults>>

Fill(h) ==
  /\ ~Idle(h)
  /\ disk[h][Head(todo[h]).file] = Torn
  /\ disk' = [disk EXCEPT ![h][Head(todo[h]).file] = Head(todo[h]).content]
  /\ todo' = [todo EXCEPT ![h] = Tail(@)]
  /\ UNCHANGED <<binary, cas, issued, grant, role, loaded, died, faults>>

Fault == faults < MaxFaults /\ faults' = faults + 1

\* pki init is running: the salt comes last.
Initialising(h) == \E i \in DOMAIN todo[h] : todo[h][i].file = "ticket-salt"

CommandDies(h) ==
  /\ ~Idle(h)
  /\ Initialising(h) => InitMayDie
  /\ Fault
  /\ todo' = [todo EXCEPT ![h] = <<>>]
  /\ died' = [died EXCEPT ![h] = TRUE]
  /\ UNCHANGED <<disk, binary, cas, issued, grant, role, loaded>>

\* "Losing it breaks every forwarder's trust"; a node "must re-enrol".
LoseDataDir(h) ==
  /\ Idle(h)
  /\ h = Receiver => cas < MaxCAs
  /\ Fault
  /\ disk' = [disk EXCEPT ![h] = [f \in File |-> Absent]]
  /\ UNCHANGED <<todo, binary, cas, issued, grant, role, loaded, died>>

\* "Drop in the new binary."
Upgrade(h) ==
  /\ binary[h] < MaxRelease
  /\ binary' = [binary EXCEPT ![h] = @ + 1]
  /\ UNCHANGED <<disk, todo, cas, issued, grant, role, loaded, died, faults>>

-----------------------------------------------------------------------------
(* The commands.                                                           *)

Write(f, c) == [file |-> f, content |-> c]

PkiInit ==
  /\ ~FileExists(Receiver, "ca.pem")
  /\ cas < MaxCAs
  /\ cas' = cas + 1
  /\ Begin(Receiver, <<Write("ca.pem", cas'), Write("ca-key.pem", cas'),
                       Write("ticket-salt", cas')>>)
  /\ UNCHANGED <<disk, binary, issued, grant, role, loaded, faults>>

Issue(ca, cn) == issued' = Append(issued, [ca |-> ca, cn |-> cn])
IssuedBy(c)   == issued[c].ca

\* Host h can start with what it has, and the other side will accept it.
InOrder(h) ==
  /\ TLSConfigOK(h)
  /\ disk[h]["ca.pem"] = disk[Receiver]["ca.pem"]
  /\ IssuedBy(disk[h]["cert.pem"]) = disk[Receiver]["ca.pem"]

\* The operator has a reason to issue a certificate, or does it all the same.
Reason(h) == ~InOrder(h) \/ Len(issued) < MaxIssued

PkiServer ==
  /\ LoadCA
  /\ Reason(Receiver)
  /\ Issue(disk[Receiver]["ca.pem"], Receiver)
  /\ Begin(Receiver, <<Write("cert.pem", Len(issued')), Write("key.pem", Len(issued'))>>)
  /\ UNCHANGED <<disk, binary, cas, grant, role, loaded, faults>>

\* The ticket is a function of the salt and the name.  A truncated salt is
\* an empty one, as good as any to both sides.
PkiTicket(n) ==
  /\ Idle(Receiver)
  /\ FileExists(Receiver, "ticket-salt")
  /\ grant' = [grant EXCEPT ![n] = [ticket |-> disk[Receiver]["ticket-salt"],
                                    ca     |-> disk[Receiver]["ca.pem"]]]
  /\ grant' # grant
  /\ UNCHANGED <<disk, todo, binary, cas, issued, role, loaded, died, faults>>

\* A changed form of ValidTicket: any ticket, while there is a salt.
BadValidTicket(n) == FileExists(Receiver, "ticket-salt")

\* handleEnroll: the ticket is checked against the salt on disk, ...
ValidTicket(n) ==
  /\ FileExists(Receiver, "ticket-salt")
  /\ grant[n].ticket = disk[Receiver]["ticket-salt"]

\* ... and the certificate signed by the CA on disk.  The connection was
\* accepted because the node's copy of the CA signed what the receiver
\* presents, which it loaded when it started.
PlvEnroll(n) ==
  /\ grant[n].ca \notin {Absent, Torn}
  /\ role[Receiver] = "receiver"
  /\ IssuedBy(loaded[Receiver].cert) = grant[n].ca
  /\ ValidTicket(n)
  /\ LoadCA
  /\ Reason(n)
  /\ Issue(disk[Receiver]["ca.pem"], n)
  /\ Begin(n, <<Write("cert.pem", Len(issued')), Write("key.pem", Len(issued')),
                Write("ca.pem", grant[n].ca)>>)
  /\ UNCHANGED <<disk, binary, cas, grant, role, loaded, faults>>

-----------------------------------------------------------------------------
(* Processes.                                                              *)

Role(h) == IF h = Receiver THEN "receiver" ELSE "forwarder"

OnDisk(h) ==
  [cert |-> disk[h]["cert.pem"], ca |-> disk[h]["ca.pem"], plv |-> binary[h]]
Nothing == [cert |-> Absent, ca |-> Absent, plv |-> 0]

\* Without the files it falls back to standalone; with files that do not
\* load it ends at once, and the service manager starts it again.
Start(h) ==
  /\ role[h] = "down"
  /\ \/ /\ ~PkiReady(h)
        /\ role' = [role EXCEPT ![h] = "standalone"]
        /\ UNCHANGED loaded
     \/ /\ PkiReady(h) /\ TLSConfigOK(h)
        /\ role' = [role EXCEPT ![h] = Role(h)]
        /\ loaded' = [loaded EXCEPT ![h] = OnDisk(h)]
  /\ UNCHANGED <<disk, todo, binary, cas, issued, grant, died, faults>>

\* The files on disk are not those the process runs with.
Outdated(h) == TLSConfigOK(h) /\ (role[h] = "standalone" \/ loaded[h] # OnDisk(h))

\* The process ends: the operator restarts it for new files, or a fault.
Stop(h) ==
  /\ role[h] # "down"
  /\ \/ Outdated(h) /\ UNCHANGED faults
     \/ Fault
  /\ role' = [role EXCEPT ![h] = "down"]
  /\ loaded' = [loaded EXCEPT ![h] = Nothing]
  /\ UNCHANGED <<disk, todo, binary, cas, issued, grant, died>>

\* Version lockstep of handleIngest.
Accepts(n) == loaded[n].plv = loaded[Receiver].plv

\* A post of node n gets through both certificate checks of the connection
\* and is not refused.
Connects(n) ==
  /\ role[Receiver] = "receiver" /\ role[n] = "forwarder"
  /\ IssuedBy(loaded[Receiver].cert) = loaded[n].ca
  /\ IssuedBy(loaded[n].cert) = loaded[Receiver].ca
  /\ Accepts(n)

-----------------------------------------------------------------------------
EInit ==
  /\ disk = [h \in Hosts |-> [f \in File |-> Absent]]
  /\ todo = [h \in Hosts |-> <<>>]
  /\ binary = [h \in Hosts |-> 1]
  /\ cas = 0
  /\ issued = <<>>
  /\ grant = [n \in Nodes |-> [ticket |-> Absent, ca |-> Absent]]
  /\ role = [h \in Hosts |-> "down"]
  /\ loaded = [h \in Hosts |-> Nothing]
  /\ died = [h \in Hosts |-> FALSE]
  /\ faults = 0

\* What leaves the processes alone.
Command ==
  \/ PkiInit \/ PkiServer
  \/ \E n \in Nodes : PkiTicket(n) \/ PlvEnroll(n)
  \/ \E h \in Hosts : \/ Truncate(h) \/ Fill(h) \/ CommandDies(h)
                      \/ LoseDataDir(h) \/ Upgrade(h)

ENext == Command \/ \E h \in Hosts : Start(h) \/ Stop(h)

ESpec == EInit /\ [][ENext]_evars
-----------------------------------------------------------------------------
(* Properties.                                                             *)

\* "Enrolled": once a command ran to its end, what it left is complete - the
\* pair matches and was signed by the CA beside it - whatever became of the
\* receiver's directory, and of what its process still runs with, meanwhile.
EnrolledIsWhole ==
  \A n \in Nodes : Idle(n) /\ ~died[n] /\ PkiReady(n) =>
    TLSConfigOK(n) /\ IssuedBy(disk[n]["cert.pem"]) = disk[n]["ca.pem"]
=============================================================================
