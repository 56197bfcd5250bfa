--------------------------- MODULE PlvConfProofs ----------------------------
(***************************************************************************)
(* Enrolment leaves whole data directories, and no row is judged without   *)
(* its node's configuration, for all hosts, bounds and numbers of faults.  *)
(***************************************************************************)
EXTENDS PlvConf, SequenceTheorems, TLAPS

-----------------------------------------------------------------------------
(* Enrolment.                                                              *)

Writes == [file : File, content : Int]

EnrolTypes ==
  /\ disk \in [Hosts -> [File -> Int]]
  /\ todo \in [Hosts -> Seq(Writes)]
  /\ cas \in Nat
  /\ issued \in Seq([ca : Int, cn : Hosts])
  /\ grant \in [Nodes -> [ticket : Int, ca : Int]]
  /\ died \in [Hosts -> BOOLEAN]

\* The receiver's salt is that of the CA beside it, but while pki init has not
\* come to it; then it is empty or not there.
CAInv ==
  LET D == disk[Receiver]
      T == todo[Receiver]
      k == Len(T)
  IN  IF Initialising(Receiver)
      THEN /\ k \in 1 .. 3
           /\ T[k].file = "ticket-salt" /\ T[k].content > 0
           /\ k >= 2 => T[k - 1].file = "ca-key.pem"
           /\ k = 3 => T[1] = Write("ca.pem", T[k].content)
           /\ k < 3 => D["ca.pem"] = T[k].content
           /\ D["ticket-salt"] \in {Absent, Torn}
      ELSE /\ \A i \in 1 .. k : T[i].file \in {"cert.pem", "key.pem"}
           /\ D["ticket-salt"] = D["ca.pem"]
           /\ D["ticket-salt"] >= 0

\* A node is handed a ticket with the CA certificate it goes with.
GrantInv ==
  \A n \in Nodes : /\ grant[n].ticket >= 0
                   /\ grant[n].ticket > 0 => grant[n].ca = grant[n].ticket

\* What plv enroll has yet to write: always the last of its three files.
Pending(n) ==
  LET T == todo[n]
      k == Len(T)
  IN  /\ k \in 0 .. 3
      /\ k >= 1 => T[k].file = "ca.pem"
      /\ k >= 2 => T[k - 1].file = "key.pem"
      /\ k = 3 => T[1].file = "cert.pem"

\* What n's directory holds in the end.
CertOf(n) == IF Len(todo[n]) = 3 THEN todo[n][1].content ELSE disk[n]["cert.pem"]
KeyOf(n)  == IF Len(todo[n]) = 3 THEN todo[n][2].content
             ELSE IF Len(todo[n]) = 2 THEN todo[n][1].content ELSE disk[n]["key.pem"]
CAOf(n)   == IF Len(todo[n]) = 3 THEN todo[n][3].content
             ELSE IF Len(todo[n]) = 2 THEN todo[n][2].content
             ELSE IF Len(todo[n]) = 1 THEN todo[n][1].content ELSE disk[n]["ca.pem"]

Fits(n) ==
  /\ CertOf(n) \in 1 .. Len(issued)
  /\ KeyOf(n) = CertOf(n)
  /\ CAOf(n) > 0
  /\ IssuedBy(CertOf(n)) = CAOf(n)

NodeInv(n) ==
  /\ Pending(n)
  /\ died[n] => Idle(n)
  /\ ~died[n] /\ (Idle(n) => PkiReady(n)) => Fits(n)

EnrolInv == EnrolTypes /\ CAInv /\ GrantInv /\ \A n \in Nodes : NodeInv(n)

USE DEF Absent, Torn

LEMMA HostsOf == Receiver \in Hosts /\ \A n \in Nodes : n \in Hosts /\ n # Receiver
BY EnrolAssumption DEF Hosts

LEMMA FilesOf == /\ "ca.pem" \in File /\ "ca-key.pem" \in File /\ "ticket-salt" \in File
                 /\ "cert.pem" \in File /\ "key.pem" \in File
BY DEF File

\* What a host has yet to write, once the first write is done.
LEMMA WritesLeft ==
  ASSUME NEW T \in Seq(Writes), T # <<>>
  PROVE  /\ Head(T) = T[1] /\ T[1] \in Writes /\ Tail(T) \in Seq(Writes)
         /\ Len(T) \in Nat \ {0} /\ Len(Tail(T)) = Len(T) - 1
         /\ \A i \in 1 .. Len(Tail(T)) : Tail(T)[i] = T[i + 1]
<1>1. Len(T) \in Nat \ {0}
  BY EmptySeq, LenProperties
<1> QED
  BY <1>1, HeadTailProperties, ElementOfSeq

LEMMA NodeFrame ==
  ASSUME NEW n \in Nodes, NodeInv(n), issued \in Seq([ca : Int, cn : Hosts]),
         disk'[n] = disk[n], todo'[n] = todo[n], died'[n] = died[n],
         Len(issued') \in Nat, Len(issued') >= Len(issued),
         \A i \in 1 .. Len(issued) : issued'[i] = issued[i]
  PROVE  NodeInv(n)'
<1>1. Pending(n)' /\ (died[n] => Idle(n))'
  BY DEF NodeInv, Pending, Idle
<1>2. CertOf(n)' = CertOf(n) /\ KeyOf(n)' = KeyOf(n) /\ CAOf(n)' = CAOf(n)
  BY DEF CertOf, KeyOf, CAOf
<1>3. Fits(n) => Fits(n)'
  BY <1>2, LenProperties DEF Fits, IssuedBy
<1> QED
  BY <1>1, <1>3 DEF NodeInv, Idle, PkiReady, FileExists

LEMMA NodeStays ==
  ASSUME NEW n \in Nodes, NodeInv(n),
         disk'[n] = disk[n], todo'[n] = todo[n], died'[n] = died[n], issued' = issued
  PROVE  NodeInv(n)'
<1>1. Pending(n)' /\ (died[n] => Idle(n))'
  BY DEF NodeInv, Pending, Idle
<1>2. CertOf(n)' = CertOf(n) /\ KeyOf(n)' = KeyOf(n) /\ CAOf(n)' = CAOf(n)
  BY DEF CertOf, KeyOf, CAOf
<1>3. Fits(n) => Fits(n)'
  BY <1>2 DEF Fits, IssuedBy
<1> QED
  BY <1>1, <1>3 DEF NodeInv, Idle, PkiReady, FileExists

LEMMA CAFrame ==
  ASSUME CAInv, disk'[Receiver] = disk[Receiver], todo'[Receiver] = todo[Receiver]
  PROVE  CAInv'
BY DEF CAInv, Initialising

LEMMA EnrolInit == EInit => EnrolInv
<1> SUFFICES ASSUME EInit PROVE EnrolInv
  OBVIOUS
<1> USE HostsOf, FilesOf DEF EInit
<1>1. EnrolTypes
  BY DEF EnrolTypes
<1>2. CAInv
  BY DEF CAInv, Initialising
<1>3. GrantInv
  BY DEF GrantInv
<1>4. ASSUME NEW n \in Nodes PROVE NodeInv(n)
  BY DEF NodeInv, Pending, Idle, PkiReady, FileExists
<1> QED
  BY <1>1, <1>2, <1>3, <1>4 DEF EnrolInv

LEMMA EnrolTruncate ==
  ASSUME EnrolInv, NEW h \in Hosts, Truncate(h)
  PROVE  EnrolInv'
<1> DEFINE T == todo[h]
<1>t. T \in Seq(Writes) /\ T # <<>>
  BY DEF EnrolInv, EnrolTypes, Truncate, Idle
<1>f. T[1] \in Writes /\ Head(T) = T[1] /\ Len(T) \in Nat \ {0}
  BY <1>t, WritesLeft
<1>d. disk' = [disk EXCEPT ![h][T[1].file] = Torn]
  BY <1>f DEF Truncate
<1>u. UNCHANGED <<todo, cas, issued, grant, died>>
  BY DEF Truncate
<1>w. T[1].file \in File
  BY <1>f DEF Writes
<1>1. EnrolTypes'
  <2>1. disk' \in [Hosts -> [File -> Int]]
    BY <1>d, <1>w DEF EnrolInv, EnrolTypes
  <2> QED
    BY <2>1, <1>u DEF EnrolInv, EnrolTypes
<1>2. GrantInv'
  BY <1>u DEF EnrolInv, GrantInv
<1>3. CAInv'
  <2>1. CASE h # Receiver
    BY <2>1, <1>d, <1>u, CAFrame, HostsOf DEF EnrolInv, EnrolTypes
  <2>2. CASE h = Receiver
    <3> DEFINE D == disk[Receiver]
               E == disk'[Receiver]
    <3>1. E = [D EXCEPT ![T[1].file] = Torn]
      BY <1>d, <2>2, HostsOf DEF EnrolInv, EnrolTypes
    <3>2. D \in [File -> Int]
      BY HostsOf DEF EnrolInv, EnrolTypes
    <3>3. DOMAIN T = 1 .. Len(T) /\ (Initialising(Receiver))' = Initialising(Receiver)
      BY <1>t, <1>u, LenProperties DEF Initialising
    <3>4. CASE Initialising(Receiver)
      BY <3>4, <3>1, <3>2, <3>3, <1>f, <1>w, <1>u, <2>2, FilesOf
      DEF EnrolInv, CAInv, Write
    <3>5. CASE ~Initialising(Receiver)
      BY <3>5, <3>1, <3>2, <3>3, <1>f, <1>w, <1>u, <2>2, FilesOf DEF EnrolInv, CAInv
    <3> QED
      BY <3>4, <3>5
  <2> QED
    BY <2>1, <2>2
<1>4. ASSUME NEW n \in Nodes PROVE NodeInv(n)'
  <2>0. NodeInv(n) /\ n \in Hosts /\ n # Receiver
    BY HostsOf DEF EnrolInv
  <2>1. CASE h # n
    BY <2>0, <2>1, <1>d, <1>u, NodeFrame, LenProperties DEF EnrolInv, EnrolTypes
  <2>2. CASE h = n
    <3>1. disk'[n] = [disk[n] EXCEPT ![T[1].file] = Torn] /\ disk[n] \in [File -> Int]
      BY <1>d, <2>2, <2>0 DEF EnrolInv, EnrolTypes
    <3>2. Pending(n) /\ ~Idle(n) /\ ~died[n] /\ Fits(n)
      BY <2>0, <2>2, <1>t DEF NodeInv, Idle
    <3>3. Pending(n)' /\ ~(Idle(n)') /\ ~(died'[n])
      BY <3>2, <1>u DEF Pending, Idle
    <3>4. CertOf(n)' = CertOf(n) /\ KeyOf(n)' = KeyOf(n) /\ CAOf(n)' = CAOf(n)
      <4>0. todo[n] = T /\ todo'[n] = T /\ Len(T) \in 1 .. 3 /\ T[Len(T)].file = "ca.pem"
        BY <3>2, <1>f, <1>u, <2>2 DEF Pending
      <4>1. CASE Len(T) = 1
        <5>1. \A f \in {"cert.pem", "key.pem"} : disk'[n][f] = disk[n][f]
          BY <4>0, <4>1, <3>1, FilesOf
        <5> QED
          BY <4>0, <4>1, <5>1 DEF CertOf, KeyOf, CAOf
      <4>2. CASE Len(T) = 2
        <5>1. T[1].file = "key.pem"
          BY <4>0, <4>2, <3>2 DEF Pending
        <5>2. disk'[n]["cert.pem"] = disk[n]["cert.pem"]
          BY <5>1, <3>1, FilesOf
        <5> QED
          BY <4>0, <4>2, <5>2 DEF CertOf, KeyOf, CAOf
      <4>3. CASE Len(T) = 3
        BY <4>0, <4>3 DEF CertOf, KeyOf, CAOf
      <4> QED
        BY <4>0, <4>1, <4>2, <4>3
    <3> QED
      BY <3>2, <3>3, <3>4, <1>u DEF NodeInv, Fits, IssuedBy
  <2> QED
    BY <2>1, <2>2
<1> QED
  BY <1>1, <1>2, <1>3, <1>4 DEF EnrolInv

LEMMA EnrolFill ==
  ASSUME EnrolInv, NEW h \in Hosts, Fill(h)
  PROVE  EnrolInv'
<1> DEFINE T == todo[h]
           U == Tail(T)
<1>t. T \in Seq(Writes) /\ T # <<>>
  BY DEF EnrolInv, EnrolTypes, Fill, Idle
<1>f. /\ T[1] \in Writes /\ Head(T) = T[1] /\ Len(T) \in Nat \ {0}
      /\ U \in Seq(Writes) /\ Len(U) = Len(T) - 1
      /\ \A i \in 1 .. Len(U) : U[i] = T[i + 1]
  BY <1>t, WritesLeft
<1>d. /\ disk' = [disk EXCEPT ![h][T[1].file] = T[1].content]
      /\ todo' = [todo EXCEPT ![h] = U]
  BY <1>f DEF Fill
<1>u. UNCHANGED <<cas, issued, grant, died>>
  BY DEF Fill
<1> HIDE DEF U
<1>w. T[1].file \in File /\ T[1].content \in Int
  BY <1>f DEF Writes
<1>1. EnrolTypes'
  <2>1. disk' \in [Hosts -> [File -> Int]]
    BY <1>d, <1>w DEF EnrolInv, EnrolTypes
  <2>2. todo' \in [Hosts -> Seq(Writes)]
    BY <1>d, <1>f DEF EnrolInv, EnrolTypes
  <2> QED
    BY <2>1, <2>2, <1>u DEF EnrolInv, EnrolTypes
<1>2. GrantInv'
  BY <1>u DEF EnrolInv, GrantInv
<1>3. CAInv'
  <2>1. CASE h # Receiver
    BY <2>1, <1>d, <1>u, CAFrame, HostsOf DEF EnrolInv, EnrolTypes
  <2>2. CASE h = Receiver
    <3> DEFINE D == disk[Receiver]
               E == disk'[Receiver]
    <3>1. E = [D EXCEPT ![T[1].file] = T[1].content] /\ todo'[Receiver] = U
      BY <1>d, <2>2, HostsOf DEF EnrolInv, EnrolTypes
    <3>2. D \in [File -> Int]
      BY HostsOf DEF EnrolInv, EnrolTypes
    <3>3. DOMAIN T = 1 .. Len(T) /\ DOMAIN U = 1 .. Len(U)
      BY <1>t, <1>f, LenProperties
    <3>4. CASE Initialising(Receiver)
      <4>1. /\ Len(T) \in 1 .. 3
            /\ T[Len(T)].file = "ticket-salt" /\ T[Len(T)].content > 0
            /\ Len(T) >= 2 => T[Len(T) - 1].file = "ca-key.pem"
            /\ Len(T) = 3 => T[1] = Write("ca.pem", T[Len(T)].content)
            /\ Len(T) < 3 => D["ca.pem"] = T[Len(T)].content
            /\ D["ticket-salt"] \in {Absent, Torn}
        BY <3>4, <2>2 DEF EnrolInv, CAInv
      <4>2. CASE Len(T) = 1
        BY <4>1, <4>2, <3>1, <3>2, <3>3, <1>f, <2>2, FilesOf DEF CAInv, Initialising
      <4>3. CASE Len(T) = 2
        BY <4>1, <4>3, <3>1, <3>2, <3>3, <1>f, <2>2, FilesOf DEF CAInv, Initialising
      <4>4. CASE Len(T) = 3
        BY <4>1, <4>4, <3>1, <3>2, <3>3, <1>f, <2>2, FilesOf DEF CAInv, Initialising, Write
      <4> QED
        BY <4>1, <4>2, <4>3, <4>4
    <3>5. CASE ~Initialising(Receiver)
      <4>1. /\ \A i \in 1 .. Len(T) : T[i].file \in {"cert.pem", "key.pem"}
            /\ D["ticket-salt"] = D["ca.pem"] /\ D["ticket-salt"] >= 0
        BY <3>5, <2>2 DEF EnrolInv, CAInv
      <4>2. \A i \in 1 .. Len(U) : U[i].file \in {"cert.pem", "key.pem"}
        BY <4>1, <1>f
      <4>3. ~(Initialising(Receiver)')
        BY <4>2, <3>1, <3>3 DEF Initialising
      <4>4. E["ticket-salt"] = D["ticket-salt"] /\ E["ca.pem"] = D["ca.pem"]
        <5>1. T[1].file \in {"cert.pem", "key.pem"}
          BY <4>1, <1>f
        <5> QED
          BY <5>1, <3>1, <3>2, FilesOf
      <4> QED
        BY <4>1, <4>2, <4>3, <4>4, <3>1 DEF CAInv
    <3> QED
      BY <3>4, <3>5
  <2> QED
    BY <2>1, <2>2
<1>4. ASSUME NEW n \in Nodes PROVE NodeInv(n)'
  <2>0. NodeInv(n) /\ n \in Hosts /\ n # Receiver
    BY HostsOf DEF EnrolInv
  <2>1. CASE h # n
    <3>1. disk'[n] = disk[n] /\ todo'[n] = todo[n] /\ died'[n] = died[n]
      BY <2>0, <2>1, <1>d, <1>u DEF EnrolInv, EnrolTypes
    <3> QED
      BY <2>0, <3>1, <1>u, NodeStays
  <2>2. CASE h = n
    <3>1. /\ disk'[n] = [disk[n] EXCEPT ![T[1].file] = T[1].content]
          /\ disk[n] \in [File -> Int] /\ todo'[n] = U
      BY <1>d, <2>2, <2>0 DEF EnrolInv, EnrolTypes
    <3>2. Pending(n) /\ ~Idle(n) /\ ~died[n] /\ Fits(n)
      BY <2>0, <2>2, <1>t DEF NodeInv, Idle
    <3>3. Pending(n)' /\ ~(died'[n])
      <4>1. CASE Len(T) = 1
        BY <4>1, <3>1, <3>2, <1>u, <1>f, <2>2 DEF Pending
      <4>2. CASE Len(T) = 2
        BY <4>2, <3>1, <3>2, <1>u, <1>f, <2>2 DEF Pending
      <4>3. CASE Len(T) = 3
        BY <4>3, <3>1, <3>2, <1>u, <1>f, <2>2 DEF Pending
      <4> QED
        BY <4>1, <4>2, <4>3, <3>2, <1>f, <2>2 DEF Pending
    <3>4. CertOf(n)' = CertOf(n) /\ KeyOf(n)' = KeyOf(n) /\ CAOf(n)' = CAOf(n)
      <4>0. todo[n] = T /\ Len(T) \in 1 .. 3 /\ T[Len(T)].file = "ca.pem"
        BY <3>2, <1>f, <2>2 DEF Pending
      <4>1. CASE Len(T) = 1
        <5>1. /\ T[1].file = "ca.pem" /\ Len(U) = 0
              /\ disk'[n]["ca.pem"] = T[1].content
              /\ \A f \in {"cert.pem", "key.pem"} : disk'[n][f] = disk[n][f]
          BY <4>0, <4>1, <3>1, <1>f, FilesOf
        <5>2. /\ CertOf(n)' = disk'[n]["cert.pem"] /\ KeyOf(n)' = disk'[n]["key.pem"]
              /\ CAOf(n)' = disk'[n]["ca.pem"]
          BY <5>1, <3>1 DEF CertOf, KeyOf, CAOf
        <5> QED
          BY <4>0, <4>1, <5>1, <5>2 DEF CertOf, KeyOf, CAOf
      <4>2. CASE Len(T) = 2
        <5>1. /\ T[1].file = "key.pem" /\ Len(U) = 1 /\ U[1] = T[2]
              /\ disk'[n]["key.pem"] = T[1].content /\ disk'[n]["cert.pem"] = disk[n]["cert.pem"]
          <6>1. T[1].file = "key.pem" /\ Len(U) = 1 /\ U[1] = T[2]
            BY <4>0, <4>2, <3>2, <1>f DEF Pending
          <6> QED
            BY <6>1, <3>1, FilesOf
        <5>2. /\ CertOf(n)' = disk'[n]["cert.pem"] /\ KeyOf(n)' = disk'[n]["key.pem"]
              /\ CAOf(n)' = U[1].content
          BY <5>1, <3>1 DEF CertOf, KeyOf, CAOf
        <5> QED
          BY <4>0, <4>2, <5>1, <5>2 DEF CertOf, KeyOf, CAOf
      <4>3. CASE Len(T) = 3
        <5>1. /\ T[1].file = "cert.pem" /\ Len(U) = 2 /\ U[1] = T[2] /\ U[2] = T[3]
              /\ disk'[n]["cert.pem"] = T[1].content
          <6>1. T[1].file = "cert.pem" /\ Len(U) = 2 /\ U[1] = T[2] /\ U[2] = T[3]
            BY <4>0, <4>3, <3>2, <1>f DEF Pending
          <6> QED
            BY <6>1, <3>1, FilesOf
        <5>2. /\ CertOf(n)' = disk'[n]["cert.pem"] /\ KeyOf(n)' = U[1].content
              /\ CAOf(n)' = U[2].content
          BY <5>1, <3>1 DEF CertOf, KeyOf, CAOf
        <5> QED
          BY <4>0, <4>3, <5>1, <5>2 DEF CertOf, KeyOf, CAOf
      <4> QED
        BY <4>0, <4>1, <4>2, <4>3
    <3> QED
      BY <3>2, <3>3, <3>4, <1>u DEF NodeInv, Fits, IssuedBy
  <2> QED
    BY <2>1, <2>2
<1> QED
  BY <1>1, <1>2, <1>3, <1>4 DEF EnrolInv

LEMMA EnrolPkiInit ==
  ASSUME EnrolInv, PkiInit
  PROVE  EnrolInv'
<1> DEFINE W == <<Write("ca.pem", cas'), Write("ca-key.pem", cas'), Write("ticket-salt", cas')>>
<1>r. Receiver \in Hosts /\ \A n \in Nodes : n \in Hosts /\ n # Receiver
  BY HostsOf
<1>t. EnrolTypes
  BY DEF EnrolInv
<1>c. cas' \in Nat \ {0}
  BY <1>t DEF EnrolTypes, PkiInit
<1>w. W \in Seq(Writes) /\ Len(W) = 3
  BY <1>c, FilesOf DEF Writes, Write
<1>u. /\ todo' = [todo EXCEPT ![Receiver] = W] /\ died' = [died EXCEPT ![Receiver] = FALSE]
      /\ disk' = disk /\ issued' = issued /\ grant' = grant /\ todo[Receiver] = <<>>
      /\ disk[Receiver]["ca.pem"] = Absent
  BY DEF PkiInit, Begin, FileExists, Idle
<1> HIDE DEF W
<1>1. EnrolTypes'
  BY <1>c, <1>w, <1>u, <1>t, <1>r DEF EnrolTypes
<1>2. GrantInv'
  BY <1>u DEF EnrolInv, GrantInv
<1>3. CAInv'
  <2>1. todo'[Receiver] = W
    BY <1>u, <1>t, <1>r DEF EnrolTypes
  <2>2. ~Initialising(Receiver)
    BY <1>u DEF Initialising
  <2>3. disk[Receiver]["ticket-salt"] = Absent
    BY <2>2, <1>u DEF EnrolInv, CAInv
  <2>4. /\ W[1] = Write("ca.pem", cas') /\ W[2].file = "ca-key.pem"
        /\ W[3].file = "ticket-salt" /\ W[3].content = cas' /\ 3 \in DOMAIN W
    BY DEF W, Write
  <2> QED
    BY <2>1, <2>3, <2>4, <1>w, <1>c, <1>u DEF CAInv, Initialising
<1>4. ASSUME NEW n \in Nodes PROVE NodeInv(n)'
  <2>1. disk'[n] = disk[n] /\ todo'[n] = todo[n] /\ died'[n] = died[n]
    BY <1>u, <1>t, <1>r DEF EnrolTypes
  <2> QED
    BY <2>1, <1>u, NodeStays DEF EnrolInv
<1> QED
  BY <1>1, <1>2, <1>3, <1>4 DEF EnrolInv

\* What pki server and plv enroll write first, and the certificate they issue.
LEMMA Issuing ==
  ASSUME EnrolTypes, NEW ca \in Int, NEW h \in Hosts, Issue(ca, h)
  PROVE  /\ issued' \in Seq([ca : Int, cn : Hosts])
         /\ Len(issued) \in Nat /\ Len(issued') = Len(issued) + 1
         /\ \A i \in 1 .. Len(issued) : issued'[i] = issued[i]
         /\ issued'[Len(issued')].ca = ca
<1>1. issued \in Seq([ca : Int, cn : Hosts]) /\ [ca |-> ca, cn |-> h] \in [ca : Int, cn : Hosts]
  BY DEF EnrolTypes
<1>2. Len(issued) \in Nat
  BY <1>1, LenProperties
<1> QED
  BY <1>1, <1>2, AppendProperties DEF Issue

LEMMA EnrolPkiServer ==
  ASSUME EnrolInv, PkiServer
  PROVE  EnrolInv'
<1> DEFINE W == <<Write("cert.pem", Len(issued')), Write("key.pem", Len(issued'))>>
<1>r. Receiver \in Hosts /\ \A n \in Nodes : n \in Hosts /\ n # Receiver
  BY HostsOf
<1>t. EnrolTypes
  BY DEF EnrolInv
<1>i. disk[Receiver]["ca.pem"] \in Int /\ Issue(disk[Receiver]["ca.pem"], Receiver)
  BY <1>t, <1>r, FilesOf DEF EnrolTypes, PkiServer
<1>s. /\ issued' \in Seq([ca : Int, cn : Hosts])
      /\ Len(issued) \in Nat /\ Len(issued') = Len(issued) + 1
      /\ \A i \in 1 .. Len(issued) : issued'[i] = issued[i]
  BY <1>i, <1>r, <1>t, Issuing
<1>w. W \in Seq(Writes) /\ Len(W) = 2
  BY <1>s, FilesOf DEF Writes, Write
<1>u. /\ todo' = [todo EXCEPT ![Receiver] = W] /\ died' = [died EXCEPT ![Receiver] = FALSE]
      /\ disk' = disk /\ cas' = cas /\ grant' = grant /\ todo[Receiver] = <<>>
  BY DEF PkiServer, Begin, Idle
<1> HIDE DEF W
<1>1. EnrolTypes'
  BY <1>s, <1>w, <1>u, <1>t, <1>r DEF EnrolTypes
<1>2. GrantInv'
  BY <1>u DEF EnrolInv, GrantInv
<1>3. CAInv'
  <2>1. todo'[Receiver] = W
    BY <1>u, <1>t, <1>r DEF EnrolTypes
  <2>2. ~Initialising(Receiver)
    BY <1>u DEF Initialising
  <2>3. \A i \in 1 .. 2 : W[i].file \in {"cert.pem", "key.pem"}
    BY DEF W, Write
  <2>4. ~(Initialising(Receiver)')
    BY <2>1, <2>3, <1>w DEF Initialising
  <2> QED
    BY <2>1, <2>2, <2>3, <2>4, <1>w, <1>u DEF EnrolInv, CAInv
<1>4. ASSUME NEW n \in Nodes PROVE NodeInv(n)'
  <2>1. disk'[n] = disk[n] /\ todo'[n] = todo[n] /\ died'[n] = died[n]
    BY <1>u, <1>t, <1>r DEF EnrolTypes
  <2>2. issued \in Seq([ca : Int, cn : Hosts]) /\ Len(issued') >= Len(issued) /\ Len(issued') \in Nat
    BY <1>s, <1>t DEF EnrolTypes
  <2> QED
    BY <2>1, <2>2, <1>s, NodeFrame DEF EnrolInv
<1> QED
  BY <1>1, <1>2, <1>3, <1>4 DEF EnrolInv

LEMMA EnrolPkiTicket ==
  ASSUME EnrolInv, NEW n \in Nodes, PkiTicket(n)
  PROVE  EnrolInv'
<1> DEFINE G == [ticket |-> disk[Receiver]["ticket-salt"], ca |-> disk[Receiver]["ca.pem"]]
<1>t. EnrolTypes
  BY DEF EnrolInv
<1>u. /\ grant' = [grant EXCEPT ![n] = G] /\ todo[Receiver] = <<>>
      /\ UNCHANGED <<disk, todo, cas, issued, died>>
  BY DEF PkiTicket, Idle
<1>g. G \in [ticket : Int, ca : Int]
  BY <1>t, HostsOf, FilesOf DEF EnrolTypes
<1>c. G.ticket = G.ca /\ G.ticket >= 0
  BY <1>u DEF EnrolInv, CAInv, Initialising
<1> HIDE DEF G
<1>1. EnrolTypes'
  BY <1>g, <1>u, <1>t DEF EnrolTypes
<1>2. GrantInv'
  BY <1>c, <1>u, <1>t DEF EnrolInv, EnrolTypes, GrantInv
<1>3. CAInv'
  BY <1>u, CAFrame DEF EnrolInv
<1>4. ASSUME NEW m \in Nodes PROVE NodeInv(m)'
  <2>1. disk'[m] = disk[m] /\ todo'[m] = todo[m] /\ died'[m] = died[m]
    BY <1>u
  <2> QED
    BY <2>1, <1>u, NodeStays DEF EnrolInv
<1> QED
  BY <1>1, <1>2, <1>3, <1>4 DEF EnrolInv

\* The ticket proves that the CA which signs is the one the node was given.
LEMMA EnrolPlvEnroll ==
  ASSUME EnrolInv, NEW n \in Nodes, PlvEnroll(n)
  PROVE  EnrolInv'
<1> DEFINE W == <<Write("cert.pem", Len(issued')), Write("key.pem", Len(issued')),
                  Write("ca.pem", grant[n].ca)>>
<1>r. Receiver \in Hosts /\ \A m \in Nodes : m \in Hosts /\ m # Receiver
  BY HostsOf
<1>t. EnrolTypes
  BY DEF EnrolInv
<1>i. disk[Receiver]["ca.pem"] \in Int /\ Issue(disk[Receiver]["ca.pem"], n)
  BY <1>t, <1>r, FilesOf DEF EnrolTypes, PlvEnroll
<1>s. /\ issued' \in Seq([ca : Int, cn : Hosts])
      /\ Len(issued) \in Nat /\ Len(issued') = Len(issued) + 1
      /\ \A i \in 1 .. Len(issued) : issued'[i] = issued[i]
      /\ issued'[Len(issued')].ca = disk[Receiver]["ca.pem"]
  BY <1>i, <1>r, <1>t, Issuing
<1>g. grant[n].ca \in Int /\ grant[n].ticket \in Int
  BY <1>t DEF EnrolTypes
<1>w. W \in Seq(Writes) /\ Len(W) = 3
  BY <1>s, <1>g, FilesOf DEF Writes, Write
<1>u. /\ todo' = [todo EXCEPT ![n] = W] /\ died' = [died EXCEPT ![n] = FALSE]
      /\ disk' = disk /\ cas' = cas /\ grant' = grant /\ todo[n] = <<>>
  BY DEF PlvEnroll, Begin, Idle
<1>c. grant[n].ca = disk[Receiver]["ca.pem"] /\ grant[n].ca > 0
  <2>1. grant[n].ticket = disk[Receiver]["ticket-salt"] /\ disk[Receiver]["ticket-salt"] # Absent
    BY DEF PlvEnroll, ValidTicket, FileExists
  <2>2. grant[n].ticket > 0 /\ grant[n].ca = grant[n].ticket
    BY <2>1, <1>g DEF EnrolInv, GrantInv
  <2>3. ~Initialising(Receiver)
    BY <2>1, <2>2 DEF EnrolInv, CAInv
  <2> QED
    BY <2>1, <2>2, <2>3 DEF EnrolInv, CAInv
<1>x. /\ W[1].file = "cert.pem" /\ W[2].file = "key.pem" /\ W[3].file = "ca.pem"
      /\ W[1].content = Len(issued') /\ W[2].content = Len(issued') /\ W[3].content = grant[n].ca
  BY DEF Write
<1> HIDE DEF W
<1>1. EnrolTypes'
  BY <1>s, <1>w, <1>u, <1>t, <1>r DEF EnrolTypes
<1>2. GrantInv'
  BY <1>u DEF EnrolInv, GrantInv
<1>3. CAInv'
  BY <1>u, <1>t, <1>r, CAFrame DEF EnrolInv, EnrolTypes
<1>4. ASSUME NEW m \in Nodes PROVE NodeInv(m)'
  <2>1. CASE m # n
    <3>1. disk'[m] = disk[m] /\ todo'[m] = todo[m] /\ died'[m] = died[m]
      BY <2>1, <1>u, <1>t, <1>r DEF EnrolTypes
    <3>2. issued \in Seq([ca : Int, cn : Hosts]) /\ Len(issued') >= Len(issued) /\ Len(issued') \in Nat
      BY <1>s, <1>t DEF EnrolTypes
    <3> QED
      BY <3>1, <3>2, <1>s, NodeFrame DEF EnrolInv
  <2>2. CASE m = n
    <3>1. todo'[n] = W /\ died'[n] = FALSE
      BY <1>u, <1>t, <1>r DEF EnrolTypes
    <3>2. Pending(n)'
      BY <3>1, <1>w, <1>x DEF Pending
    <3>3. /\ CertOf(n)' = Len(issued') /\ KeyOf(n)' = Len(issued')
          /\ CAOf(n)' = grant[n].ca
      BY <3>1, <1>w, <1>x DEF CertOf, KeyOf, CAOf
    <3>4. Fits(n)'
      BY <3>3, <1>s, <1>c DEF Fits, IssuedBy
    <3> QED
      BY <2>2, <3>1, <3>2, <3>4 DEF NodeInv
  <2> QED
    BY <2>1, <2>2
<1> QED
  BY <1>1, <1>2, <1>3, <1>4 DEF EnrolInv

LEMMA EnrolCommandDies ==
  ASSUME EnrolInv, ~InitMayDie, NEW h \in Hosts, CommandDies(h)
  PROVE  EnrolInv'
<1>r. Receiver \in Hosts /\ \A n \in Nodes : n \in Hosts /\ n # Receiver
  BY HostsOf
<1>t. EnrolTypes
  BY DEF EnrolInv
<1>u. /\ todo' = [todo EXCEPT ![h] = <<>>] /\ died' = [died EXCEPT ![h] = TRUE]
      /\ UNCHANGED <<disk, cas, issued, grant>> /\ ~Initialising(h)
  BY DEF CommandDies
<1>1. EnrolTypes'
  BY <1>u, <1>t, EmptySeq DEF EnrolTypes
<1>2. GrantInv'
  BY <1>u DEF EnrolInv, GrantInv
<1>3. CAInv'
  <2>1. CASE h # Receiver
    BY <2>1, <1>u, <1>t, <1>r, CAFrame DEF EnrolInv, EnrolTypes
  <2>2. CASE h = Receiver
    BY <2>2, <1>u, <1>t, <1>r DEF EnrolInv, EnrolTypes, CAInv, Initialising
  <2> QED
    BY <2>1, <2>2
<1>4. ASSUME NEW n \in Nodes PROVE NodeInv(n)'
  <2>1. CASE h # n
    <3>1. disk'[n] = disk[n] /\ todo'[n] = todo[n] /\ died'[n] = died[n]
      BY <2>1, <1>u, <1>t, <1>r DEF EnrolTypes
    <3> QED
      BY <3>1, <1>u, NodeStays DEF EnrolInv
  <2>2. CASE h = n
    <3>1. todo'[n] = <<>> /\ died'[n] = TRUE
      BY <2>2, <1>u, <1>t, <1>r DEF EnrolTypes
    <3> QED
      BY <3>1 DEF NodeInv, Pending, Idle
  <2> QED
    BY <2>1, <2>2
<1> QED
  BY <1>1, <1>2, <1>3, <1>4 DEF EnrolInv

LEMMA EnrolLoseDataDir ==
  ASSUME EnrolInv, NEW h \in Hosts, LoseDataDir(h)
  PROVE  EnrolInv'
<1>r. Receiver \in Hosts /\ \A n \in Nodes : n \in Hosts /\ n # Receiver
  BY HostsOf
<1>t. EnrolTypes
  BY DEF EnrolInv
<1>u. /\ disk' = [disk EXCEPT ![h] = [f \in File |-> Absent]] /\ todo[h] = <<>>
      /\ UNCHANGED <<todo, cas, issued, grant, died>>
  BY DEF LoseDataDir, Idle
<1>1. EnrolTypes'
  BY <1>u, <1>t DEF EnrolTypes
<1>2. GrantInv'
  BY <1>u DEF EnrolInv, GrantInv
<1>3. CAInv'
  <2>1. CASE h # Receiver
    BY <2>1, <1>u, <1>t, <1>r, CAFrame DEF EnrolInv, EnrolTypes
  <2>2. CASE h = Receiver
    <3>1. \A f \in File : disk'[Receiver][f] = Absent
      BY <2>2, <1>u, <1>t, <1>r DEF EnrolTypes
    <3> QED
      BY <2>2, <3>1, <1>u, FilesOf DEF CAInv, Initialising
  <2> QED
    BY <2>1, <2>2
<1>4. ASSUME NEW n \in Nodes PROVE NodeInv(n)'
  <2>1. CASE h # n
    <3>1. disk'[n] = disk[n] /\ todo'[n] = todo[n] /\ died'[n] = died[n]
      BY <2>1, <1>u, <1>t, <1>r DEF EnrolTypes
    <3> QED
      BY <3>1, <1>u, NodeStays DEF EnrolInv
  <2>2. CASE h = n
    <3>1. /\ \A f \in File : disk'[n][f] = Absent
          /\ todo'[n] = <<>>
      BY <2>2, <1>u, <1>t, <1>r DEF EnrolTypes
    <3> QED
      BY <3>1, FilesOf DEF NodeInv, Pending, Idle, PkiReady, FileExists
  <2> QED
    BY <2>1, <2>2
<1> QED
  BY <1>1, <1>2, <1>3, <1>4 DEF EnrolInv

\* Steps of a process, of a Postfix configuration, or none.
LEMMA EnrolFrame ==
  ASSUME EnrolInv, UNCHANGED <<disk, todo, cas, issued, grant, died>>
  PROVE  EnrolInv'
<1>1. EnrolTypes' /\ GrantInv' /\ CAInv'
  BY CAFrame DEF EnrolInv, EnrolTypes, GrantInv
<1>2. ASSUME NEW n \in Nodes PROVE NodeInv(n)'
  BY NodeStays DEF EnrolInv
<1> QED
  BY <1>1, <1>2 DEF EnrolInv

LEMMA EnrolStep ==
  ASSUME EnrolInv, ~InitMayDie, [ENext]_evars
  PROVE  EnrolInv'
<1>1. CASE PkiInit
  BY <1>1, EnrolPkiInit
<1>2. CASE PkiServer
  BY <1>2, EnrolPkiServer
<1>3. ASSUME NEW n \in Nodes, PkiTicket(n) PROVE EnrolInv'
  BY <1>3, EnrolPkiTicket
<1>4. ASSUME NEW n \in Nodes, PlvEnroll(n) PROVE EnrolInv'
  BY <1>4, EnrolPlvEnroll
<1>5. ASSUME NEW h \in Hosts, Truncate(h) PROVE EnrolInv'
  BY <1>5, EnrolTruncate
<1>6. ASSUME NEW h \in Hosts, Fill(h) PROVE EnrolInv'
  BY <1>6, EnrolFill
<1>7. ASSUME NEW h \in Hosts, CommandDies(h) PROVE EnrolInv'
  BY <1>7, EnrolCommandDies
<1>8. ASSUME NEW h \in Hosts, LoseDataDir(h) PROVE EnrolInv'
  BY <1>8, EnrolLoseDataDir
<1>9. ASSUME NEW h \in Hosts, Upgrade(h) \/ Start(h) \/ Stop(h) PROVE EnrolInv'
  BY <1>9, EnrolFrame DEF Upgrade, Start, Stop
<1>10. CASE UNCHANGED evars
  BY <1>10, EnrolFrame DEF evars
<1> QED
  BY <1>1, <1>2, <1>3, <1>4, <1>5, <1>6, <1>7, <1>8, <1>9, <1>10 DEF ENext, Command

\* A file that is complete was written by a command that got past it.
LEMMA InvIsWhole == EnrolInv => EnrolledIsWhole
<1> SUFFICES ASSUME EnrolInv, NEW n \in Nodes, Idle(n), ~died[n], PkiReady(n)
             PROVE  TLSConfigOK(n) /\ IssuedBy(disk[n]["cert.pem"]) = disk[n]["ca.pem"]
  BY DEF EnrolledIsWhole
<1>1. Fits(n) /\ todo[n] = <<>>
  BY DEF EnrolInv, NodeInv, Idle
<1>2. CertOf(n) = disk[n]["cert.pem"] /\ KeyOf(n) = disk[n]["key.pem"] /\ CAOf(n) = disk[n]["ca.pem"]
  BY <1>1 DEF CertOf, KeyOf, CAOf
<1>3. disk[n]["cert.pem"] \in 1 .. Len(issued) /\ disk[n]["ca.pem"] > 0
  BY <1>1, <1>2 DEF Fits
<1>4. disk[n]["cert.pem"] > 0 /\ disk[n]["key.pem"] = disk[n]["cert.pem"]
  BY <1>1, <1>2, <1>3 DEF Fits
<1> QED
  BY <1>1, <1>2, <1>3, <1>4 DEF Fits, TLSConfigOK, Whole

LEMMA EnrolsInConf == [CNext]_vars => [ENext]_evars
<1> SUFFICES ASSUME [CNext]_vars PROVE [ENext]_evars
  OBVIOUS
<1>1. CASE Command /\ UNCHANGED cvars
  BY <1>1 DEF ENext
<1>2. ASSUME NEW h \in Hosts, StartProcess(h) PROVE ENext
  BY <1>2 DEF ENext, StartProcess
<1>3. CASE StopReceiver
  BY <1>3, HostsOf DEF ENext, StopReceiver
<1>4. ASSUME NEW n \in Nodes, StopForwarder(n) PROVE ENext
  BY <1>4, HostsOf DEF ENext, StopForwarder
<1>5. ASSUME NEW n \in Nodes, \/ EditPostfix(n) \/ Poll(n) \/ HandleConf(n)
                              \/ HandleRows(n) \/ PostFails(n)
      PROVE  UNCHANGED evars
  BY <1>5 DEF EditPostfix, Poll, HandleConf, HandleRows, PostFails
<1>6. ASSUME NEW n \in Nodes, NEW r \in BOOLEAN, Post(n, r) PROVE UNCHANGED evars
  BY <1>6 DEF Post
<1>7. ASSUME NEW h \in late, LateConf(h) \/ LateRows(h) PROVE UNCHANGED evars
  BY <1>7 DEF LateConf, LateRows
<1>8. CASE UNCHANGED vars
  BY <1>8 DEF vars
<1> QED
  BY <1>1, <1>2, <1>3, <1>4, <1>5, <1>6, <1>7, <1>8 DEF CNext

\* A data directory that plv enroll left complete holds a pair that matches
\* and was signed by the CA beside it (enrollNode, handleEnroll, ticketFor), as
\* long as no pki init died half-way.
THEOREM EnrolmentIsWhole ==
  ASSUME ~InitMayDie
  PROVE  CSpec => []EnrolledIsWhole
<1>1. CInit => EnrolInv
  BY EnrolInit DEF CInit
<1>2. EnrolInv /\ [CNext]_vars => EnrolInv'
  BY EnrolStep, EnrolsInConf
<1> QED
  BY <1>1, <1>2, InvIsWhole, PTL DEF CSpec

-----------------------------------------------------------------------------
(* The configuration before the rows.                                      *)

Roles == {"down", "standalone", "receiver", "forwarder"}
Posts == [stage : {"none", "posted", "taken", "broken"}, conf : Int, rows : BOOLEAN]

ConfTypes ==
  /\ role \in [Hosts -> Roles]
  /\ etc \in [Nodes -> Int] /\ conf \in [Nodes -> Int] /\ known \in [Nodes -> Int]
  /\ request \in [Nodes -> Posts]
  /\ late \in SUBSET [node : Nodes, post : Posts]
  /\ rows \in [Nodes -> BOOLEAN] /\ blind \in [Nodes -> BOOLEAN]

\* From where it is read on, the configuration is never behind the rows.
Carried(n) ==
  /\ role[n] = "forwarder" => conf[n] # NoConf
  /\ request[n].stage # "none" => request[n].conf # NoConf
  /\ request[n].stage = "taken" => known[n] # NoConf
  /\ \A h \in late : h.node = n => /\ h.post.conf # NoConf
                                   /\ h.post.stage = "taken" => known[n] # NoConf
  /\ rows[n] => known[n] # NoConf

ConfInv == ConfTypes /\ \A n \in Nodes : ~blind[n] => Carried(n)

USE DEF NoConf, Unreadable

LEMMA ConfInit == CInit => ConfInv
<1> SUFFICES ASSUME CInit PROVE ConfInv
  OBVIOUS
<1>1. ConfTypes
  <2>1. NoPost \in Posts
    BY DEF NoPost, Posts
  <2>2. etc \in [Nodes -> Int]
    BY DEF CInit
  <2>3. role \in [Hosts -> Roles]
    BY DEF CInit, EInit, Roles
  <2> QED
    BY <2>1, <2>2, <2>3 DEF CInit, ConfTypes
<1>2. ASSUME NEW n \in Nodes PROVE Carried(n)
  BY HostsOf DEF CInit, EInit, Carried, NoPost
<1> QED
  BY <1>1, <1>2 DEF ConfInv

\* Nothing that Carried speaks of changes.
LEMMA ConfFrame ==
  ASSUME ConfInv, UNCHANGED <<role, conf, request, late, known, rows, blind>>,
         etc' \in [Nodes -> Int]
  PROVE  ConfInv'
BY DEF ConfInv, ConfTypes, Carried

LEMMA ConfPoll ==
  ASSUME ConfInv, NEW n \in Nodes, Poll(n)
  PROVE  ConfInv'
<1>u. /\ etc[n] # Unreadable /\ conf' = [conf EXCEPT ![n] = etc[n]]
      /\ UNCHANGED <<role, etc, request, late, known, rows, blind>>
  BY DEF Poll, evars
<1>1. ConfTypes'
  BY <1>u DEF ConfInv, ConfTypes
<1>2. ASSUME NEW m \in Nodes, ~blind'[m] PROVE Carried(m)'
  BY <1>2, <1>u DEF ConfInv, ConfTypes, Carried
<1> QED
  BY <1>1, <1>2 DEF ConfInv

LEMMA ConfPost ==
  ASSUME ConfInv, NEW n \in Nodes, NEW r \in BOOLEAN, Post(n, r)
  PROVE  ConfInv'
<1> DEFINE p == [stage |-> "posted", conf |-> conf[n], rows |-> r]
<1>u. /\ role[n] = "forwarder" /\ request' = [request EXCEPT ![n] = p]
      /\ UNCHANGED <<role, etc, conf, late, known, rows, blind>>
  BY DEF Post, evars
<1>p. p \in Posts /\ p.stage = "posted" /\ p.conf = conf[n]
  BY DEF ConfInv, ConfTypes, Posts
<1> HIDE DEF p
<1>1. ConfTypes'
  BY <1>u, <1>p DEF ConfInv, ConfTypes
<1>2. ASSUME NEW m \in Nodes, ~blind'[m] PROVE Carried(m)'
  BY <1>2, <1>u, <1>p DEF ConfInv, ConfTypes, Carried
<1> QED
  BY <1>1, <1>2 DEF ConfInv

LEMMA ConfHandleConf ==
  ASSUME ConfInv, NEW n \in Nodes, HandleConf(n)
  PROVE  ConfInv'
<1> DEFINE p == [request[n] EXCEPT !.stage = "taken"]
           c == IF request[n].conf = NoConf THEN known[n] ELSE request[n].conf
<1>t. request[n] \in Posts /\ known[n] \in Int
  BY DEF ConfInv, ConfTypes
<1>u. /\ request[n].stage = "posted"
      /\ known' = [known EXCEPT ![n] = c]
      /\ request' = [request EXCEPT ![n] = p]
      /\ UNCHANGED <<role, etc, conf, late, rows, blind>>
  BY DEF HandleConf, SetConfForOrigin, evars
<1>p. /\ p \in Posts /\ p.stage = "taken" /\ p.conf = request[n].conf /\ c \in Int
      /\ p.conf # NoConf \/ known[n] # NoConf => c # NoConf
  BY <1>t DEF Posts
<1> HIDE DEF p, c
<1>1. ConfTypes'
  BY <1>u, <1>p DEF ConfInv, ConfTypes
<1>2. ASSUME NEW m \in Nodes, ~blind'[m] PROVE Carried(m)'
  BY <1>2, <1>u, <1>p DEF ConfInv, ConfTypes, Carried
<1> QED
  BY <1>1, <1>2 DEF ConfInv

LEMMA ConfHandleRows ==
  ASSUME ConfInv, NEW n \in Nodes, HandleRows(n)
  PROVE  ConfInv'
<1>t. request[n] \in Posts /\ rows[n] \in BOOLEAN
  BY DEF ConfInv, ConfTypes
<1>u. /\ request[n].stage = "taken"
      /\ rows' = [rows EXCEPT ![n] = rows[n] \/ request[n].rows]
      /\ request' = [request EXCEPT ![n] = NoPost]
      /\ UNCHANGED <<role, etc, conf, late, known, blind>>
  BY DEF HandleRows, IngestRows, evars
<1>p. NoPost \in Posts /\ NoPost.stage = "none"
  BY DEF NoPost, Posts
<1>r. (rows[n] \/ request[n].rows) \in BOOLEAN
  BY <1>t DEF Posts
<1>1. ConfTypes'
  BY <1>u, <1>p, <1>r DEF ConfInv, ConfTypes
<1>2. ASSUME NEW m \in Nodes, ~blind'[m] PROVE Carried(m)'
  <2>1. Carried(m)
    BY <1>2, <1>u DEF ConfInv
  <2>2. CASE m = n
    BY <2>1, <2>2, <1>u, <1>p DEF ConfInv, ConfTypes, Carried
  <2>3. CASE m # n
    BY <2>1, <2>3, <1>u DEF ConfInv, ConfTypes, Carried
  <2> QED
    BY <2>2, <2>3
<1> QED
  BY <1>1, <1>2 DEF ConfInv

LEMMA ConfPostFails ==
  ASSUME ConfInv, NEW n \in Nodes, PostFails(n)
  PROVE  ConfInv'
<1> DEFINE g == [node |-> n, post |-> request[n]]
<1>u. /\ request' = [request EXCEPT ![n] = NoPost] /\ request[n].stage # "none"
      /\ UNCHANGED <<role, etc, conf, known, rows, blind>>
      /\ late' = late \/ late' = late \cup {g}
  BY DEF PostFails, evars
<1>p. NoPost \in Posts /\ NoPost.stage = "none"
  BY DEF NoPost, Posts
<1>g. g \in [node : Nodes, post : Posts] /\ g.node = n /\ g.post = request[n]
  BY DEF ConfInv, ConfTypes
<1> HIDE DEF g
<1>1. ConfTypes'
  BY <1>u, <1>p, <1>g DEF ConfInv, ConfTypes
<1>2. ASSUME NEW m \in Nodes, ~blind'[m] PROVE Carried(m)'
  <2>1. Carried(m)
    BY <1>2, <1>u DEF ConfInv
  <2>2. request'[m].stage # "none" => request'[m] = request[m]
    BY <1>u, <1>p DEF ConfInv, ConfTypes
  <2>3. ASSUME NEW h \in late', h.node = m
        PROVE  h.post.conf # NoConf /\ (h.post.stage = "taken" => known[m] # NoConf)
    <3>1. CASE h \in late
      BY <2>1, <2>3, <3>1 DEF Carried
    <3>2. CASE h = g
      BY <2>1, <2>3, <3>2, <1>g, <1>u DEF Carried
    <3> QED
      BY <3>1, <3>2, <1>u
  <2> QED
    BY <2>1, <2>2, <2>3, <1>u DEF Carried
<1> QED
  BY <1>1, <1>2 DEF ConfInv

LEMMA ConfLateConf ==
  ASSUME ConfInv, NEW g \in late, LateConf(g)
  PROVE  ConfInv'
<1> DEFINE t == [g EXCEPT !.post.stage = "taken"]
           n == g.node
           c == IF g.post.conf = NoConf THEN known[n] ELSE g.post.conf
<1>t. g \in [node : Nodes, post : Posts] /\ n \in Nodes /\ known[n] \in Int
  BY DEF ConfInv, ConfTypes
<1>u. /\ known' = [known EXCEPT ![n] = c]
      /\ late' = (late \ {g}) \cup {t}
      /\ UNCHANGED <<role, etc, conf, request, rows, blind>>
  BY DEF LateConf, SetConfForOrigin, evars
<1>p. /\ t \in [node : Nodes, post : Posts] /\ t.node = n /\ t.post.conf = g.post.conf
      /\ c \in Int /\ (g.post.conf # NoConf \/ known[n] # NoConf => c # NoConf)
  BY <1>t DEF Posts
<1> HIDE DEF t, c, n
<1>1. ConfTypes'
  BY <1>t, <1>u, <1>p DEF ConfInv, ConfTypes
<1>2. ASSUME NEW m \in Nodes, ~blind'[m] PROVE Carried(m)'
  <2>1. Carried(m)
    BY <1>2, <1>u DEF ConfInv
  <2>2. known[m] # NoConf => known'[m] # NoConf
    BY <1>u, <1>p, <1>t DEF ConfInv, ConfTypes
  <2>3. ASSUME NEW h \in late', h.node = m
        PROVE  h.post.conf # NoConf /\ (h.post.stage = "taken" => known'[m] # NoConf)
    <3>1. CASE h \in late
      BY <2>1, <2>2, <2>3, <3>1 DEF Carried
    <3>2. CASE h = t
      <4>1. m = n
        BY <2>3, <3>2, <1>p
      <4>2. g.post.conf # NoConf
        BY <2>1, <4>1 DEF Carried, n
      <4>3. known'[m] = c
        BY <4>1, <1>u, <1>t DEF ConfInv, ConfTypes
      <4> QED
        BY <3>2, <4>2, <4>3, <1>p
    <3> QED
      BY <3>1, <3>2, <1>u
  <2> QED
    BY <2>1, <2>2, <2>3, <1>u DEF Carried
<1> QED
  BY <1>1, <1>2 DEF ConfInv

LEMMA ConfLateRows ==
  ASSUME ConfInv, NEW g \in late, LateRows(g)
  PROVE  ConfInv'
<1> DEFINE n == g.node
<1>t. g.post \in Posts /\ n \in Nodes /\ rows[n] \in BOOLEAN
  BY DEF ConfInv, ConfTypes
<1>u. /\ g.post.stage = "taken"
      /\ rows' = [rows EXCEPT ![n] = rows[n] \/ g.post.rows]
      /\ late' = late \ {g}
      /\ UNCHANGED <<role, etc, conf, request, known, blind>>
  BY DEF LateRows, IngestRows, evars
<1>r. (rows[n] \/ g.post.rows) \in BOOLEAN
  BY <1>t DEF Posts
<1> HIDE DEF n
<1>1. ConfTypes'
  BY <1>t, <1>u, <1>r DEF ConfInv, ConfTypes
<1>2. ASSUME NEW m \in Nodes, ~blind'[m] PROVE Carried(m)'
  <2>1. Carried(m)
    BY <1>2, <1>u DEF ConfInv
  <2>2. m = n => known[m] # NoConf
    BY <2>1, <1>u DEF Carried, n
  <2>3. m # n => rows'[m] = rows[m]
    BY <1>u DEF ConfInv, ConfTypes
  <2> QED
    BY <2>1, <2>2, <2>3, <1>u DEF Carried
<1> QED
  BY <1>1, <1>2 DEF ConfInv

\* main loads the configuration before the forwarder runs.
LEMMA ConfStartProcess ==
  ASSUME ConfInv, NEW h \in Hosts, StartProcess(h)
  PROVE  ConfInv'
<1>t. ConfTypes
  BY DEF ConfInv
<1>r. role' \in [Hosts -> Roles] /\ \A m \in Hosts : m # h => role'[m] = role[m]
  BY <1>t DEF ConfTypes, Roles, StartProcess, Start, Role
<1>u. UNCHANGED <<etc, request, late, known, rows>>
  BY DEF StartProcess
<1>1. CASE role'[h] = "forwarder"
  <2>1. h \in Nodes
    BY <1>1, <1>t, HostsOf DEF ConfTypes, StartProcess, Start, Role, Hosts
  <2>2. /\ conf' = [conf EXCEPT ![h] = etc[h]]
        /\ blind' = [blind EXCEPT ![h] = blind[h] \/ etc[h] = Unreadable]
    BY <1>1 DEF StartProcess
  <2>3. ConfTypes'
    BY <2>1, <2>2, <1>t, <1>r, <1>u DEF ConfTypes
  <2>4. ASSUME NEW m \in Nodes, ~blind'[m] PROVE Carried(m)'
    <3>1. ~blind[m] /\ (m = h => etc[m] # Unreadable)
      BY <2>2, <2>4, <1>t DEF ConfTypes
    <3>2. Carried(m)
      BY <3>1 DEF ConfInv
    <3>3. role'[m] = "forwarder" => conf'[m] # NoConf
      BY <2>2, <3>1, <3>2, <1>r, <1>t, HostsOf DEF ConfTypes, Carried
    <3> QED
      BY <3>2, <3>3, <1>u DEF Carried
  <2> QED
    BY <2>3, <2>4 DEF ConfInv
<1>2. CASE role'[h] # "forwarder"
  <2>1. UNCHANGED <<conf, blind>>
    BY <1>2 DEF StartProcess
  <2>2. ASSUME NEW m \in Nodes, ~blind'[m] PROVE Carried(m)'
    <3>1. Carried(m)
      BY <2>1, <2>2 DEF ConfInv
    <3>2. role'[m] = "forwarder" => conf'[m] # NoConf
      BY <2>1, <3>1, <1>2, <1>r, HostsOf DEF Carried
    <3> QED
      BY <3>1, <3>2, <1>u DEF Carried
  <2> QED
    BY <2>1, <2>2, <1>t, <1>r, <1>u DEF ConfInv, ConfTypes
<1> QED
  BY <1>1, <1>2

LEMMA ConfStopForwarder ==
  ASSUME ConfInv, NEW n \in Nodes, StopForwarder(n)
  PROVE  ConfInv'
<1>t. ConfTypes /\ n \in Hosts
  BY HostsOf DEF ConfInv
<1>u. /\ role' = [role EXCEPT ![n] = "down"] /\ conf' = [conf EXCEPT ![n] = NoConf]
      /\ request' = [request EXCEPT ![n] = NoPost]
      /\ UNCHANGED <<etc, late, known, rows, blind>>
  BY DEF StopForwarder, Stop
<1>p. NoPost \in Posts /\ NoPost.stage = "none"
  BY DEF NoPost, Posts
<1>1. ConfTypes'
  <2>1. role' \in [Hosts -> Roles]
    BY <1>t, <1>u DEF ConfTypes, Roles
  <2>2. request' \in [Nodes -> Posts]
    BY <1>t, <1>u, <1>p DEF ConfTypes
  <2> QED
    BY <2>1, <2>2, <1>t, <1>u DEF ConfTypes
<1>2. ASSUME NEW m \in Nodes, ~blind'[m] PROVE Carried(m)'
  <2>1. Carried(m) /\ m \in Hosts
    BY <1>2, <1>u, HostsOf DEF ConfInv
  <2>2. m = n => role'[m] = "down" /\ request'[m].stage = "none"
    BY <1>t, <1>u, <1>p DEF ConfTypes
  <2>3. m # n => role'[m] = role[m] /\ conf'[m] = conf[m] /\ request'[m] = request[m]
    BY <1>t, <1>u DEF ConfTypes
  <2> QED
    BY <2>1, <2>2, <2>3, <1>u DEF Carried
<1> QED
  BY <1>1, <1>2 DEF ConfInv

LEMMA ConfStopReceiver ==
  ASSUME ConfInv, StopReceiver
  PROVE  ConfInv'
<1> DEFINE after(n) == IF request[n].stage = "none" THEN NoPost
                       ELSE [request[n] EXCEPT !.stage = "broken"]
<1>t. ConfTypes
  BY DEF ConfInv
<1>u. /\ role' = [role EXCEPT ![Receiver] = "down"]
      /\ known' = [n \in Nodes |-> NoConf] /\ rows' = [n \in Nodes |-> FALSE] /\ late' = {}
      /\ request' = [n \in Nodes |-> after(n)]
      /\ UNCHANGED <<etc, conf, blind>>
  BY DEF StopReceiver, Stop
<1>p. ASSUME NEW n \in Nodes
      PROVE  /\ after(n) \in Posts /\ after(n).stage # "taken"
             /\ after(n).stage # "none" => /\ request[n].stage # "none"
                                           /\ after(n).conf = request[n].conf
  <2>1. request[n] \in Posts
    BY <1>t DEF ConfTypes
  <2> QED
    BY <2>1 DEF Posts, NoPost
<1> HIDE DEF after
<1>1. ConfTypes'
  <2>1. role' \in [Hosts -> Roles]
    BY <1>t, <1>u DEF ConfTypes, Roles
  <2>2. request' \in [Nodes -> Posts]
    BY <1>t, <1>u, <1>p DEF ConfTypes
  <2> QED
    BY <2>1, <2>2, <1>t, <1>u DEF ConfTypes
<1>2. ASSUME NEW m \in Nodes, ~blind'[m] PROVE Carried(m)'
  <2>1. Carried(m) /\ m \in Hosts /\ m # Receiver
    BY <1>2, <1>u, HostsOf DEF ConfInv
  <2>2. role'[m] = role[m] /\ request'[m] = after(m) /\ ~rows'[m]
    BY <2>1, <1>t, <1>u DEF ConfTypes
  <2> QED
    BY <2>1, <2>2, <1>u, <1>p DEF Carried
<1> QED
  BY <1>1, <1>2 DEF ConfInv

LEMMA ConfStep ==
  ASSUME ConfInv, [CNext]_vars
  PROVE  ConfInv'
<1>0. etc \in [Nodes -> Int]
  BY DEF ConfInv, ConfTypes
<1>1. CASE Command /\ UNCHANGED cvars
  <2>1. UNCHANGED role
    BY <1>1 DEF Command, PkiInit, PkiServer, PkiTicket, PlvEnroll, Truncate, Fill,
                CommandDies, LoseDataDir, Upgrade
  <2> QED
    BY <2>1, <1>0, <1>1, ConfFrame DEF cvars
<1>2. ASSUME NEW h \in Hosts, StartProcess(h) PROVE ConfInv'
  BY <1>2, ConfStartProcess
<1>3. CASE StopReceiver
  BY <1>3, ConfStopReceiver
<1>4. ASSUME NEW n \in Nodes, StopForwarder(n) PROVE ConfInv'
  BY <1>4, ConfStopForwarder
<1>5. ASSUME NEW n \in Nodes, EditPostfix(n) PROVE ConfInv'
  <2>1. PICK c \in (Conf \cup {Unreadable}) \ {etc[n]} : etc' = [etc EXCEPT ![n] = c]
    BY <1>5 DEF EditPostfix
  <2>2. etc' \in [Nodes -> Int]
    BY <2>1, <1>0, ConfAssumption DEF Conf
  <2> QED
    BY <2>2, <1>5, ConfFrame DEF EditPostfix, evars
<1>6. ASSUME NEW n \in Nodes, Poll(n) PROVE ConfInv'
  BY <1>6, ConfPoll
<1>7. ASSUME NEW n \in Nodes, NEW r \in BOOLEAN, Post(n, r) PROVE ConfInv'
  BY <1>7, ConfPost
<1>8. ASSUME NEW n \in Nodes, HandleConf(n) PROVE ConfInv'
  BY <1>8, ConfHandleConf
<1>9. ASSUME NEW n \in Nodes, HandleRows(n) PROVE ConfInv'
  BY <1>9, ConfHandleRows
<1>10. ASSUME NEW n \in Nodes, PostFails(n) PROVE ConfInv'
  BY <1>10, ConfPostFails
<1>11. ASSUME NEW h \in late, LateConf(h) PROVE ConfInv'
  BY <1>11, ConfLateConf
<1>12. ASSUME NEW h \in late, LateRows(h) PROVE ConfInv'
  BY <1>12, ConfLateRows
<1>13. CASE UNCHANGED vars
  BY <1>13, <1>0, ConfFrame DEF vars, evars, cvars
<1> QED
  BY <1>1, <1>2, <1>3, <1>4, <1>5, <1>6, <1>7, <1>8, <1>9, <1>10, <1>11, <1>12, <1>13
  DEF CNext

\* The receiver has taken no row of a node whose configuration it has not
\* (main, Forwarder.Run, handleIngest), whatever breaks off, comes late or is
\* restarted, unless a forwarder of that node found none when it started.
THEOREM NoRowWithoutConf == CSpec => []ConfBeforeRows
<1>1. ConfInv => ConfBeforeRows
  BY DEF ConfInv, Carried, ConfBeforeRows
<1> QED
  BY <1>1, ConfInit, ConfStep, PTL DEF CSpec
=============================================================================
