---------------------------- MODULE PlvTailProofs ----------------------------
(***************************************************************************)
(* Two theorems about PlvTail, for any number of lines, rotations and      *)
(* restarts.  The lines that one process hands on are in the order of the  *)
(* log and none comes twice, at any moment; and whenever the watcher finds *)
(* nothing to read, nothing was left behind, at gentle moments.            *)
(***************************************************************************)
EXTENDS PlvTail, SequenceTheorems, FiniteSetTheorems, TLAPS

USE DEF mailLog  \* the number of the newest file

Size == Cardinality(Logged)

\* The lines have the numbers from 1 on, and syslogd is at most one file late.
LogsOK ==
  /\ files \in Seq(Seq(Nat)) /\ mailLog >= 1
  /\ Size \in Nat /\ Logged = 1 .. Size
  /\ writing \in 1 .. mailLog
  /\ writing # mailLog => writing = mailLog - 1 /\ files[mailLog] = <<>>

\* A file has newer lines than the files before it.
Ordered(fs) ==
  \A a, b \in 1 .. Len(fs) : \A i \in 1 .. Len(fs[a]) : \A j \in 1 .. Len(fs[b]) :
    a < b \/ (a = b /\ i < j) => fs[a][i] < fs[b][j]

TailOK ==
  /\ phase \in {"start", "list", "parse", "stat", "idle", "open", "read"}
  /\ phase = "parse" => todo \in 1 .. mailLog
  /\ ~Booting => tailed \in 1 .. mailLog /\ offset \in 0 .. Len(files[tailed])
  /\ phase = "read" => fd \in tailed .. mailLog
  /\ saved.at \in Nat

\* Line j of file b may still be read.
Unread(b, j) ==
  \/ phase = "parse" /\ b > mailLog - todo
  \/ ~Booting /\ (b > tailed \/ (b = tailed /\ j > offset))

HandedOn ==
  /\ processed \in Seq(Nat)
  /\ phase \in {"start", "list"} => processed = <<>>
  /\ \A k \in 1 .. Len(processed) : processed[k] <= Size

\* What is still to be read is newer than what was handed on.
Ahead ==
  \A k \in 1 .. Len(processed) :
    \A b \in 1 .. mailLog : \A j \in 1 .. Len(files[b]) :
      Unread(b, j) => processed[k] < files[b][j]

TailInv == LogsOK /\ Ordered(files) /\ TailOK /\ HandedOn /\ Ahead /\ InOrderOnce

-----------------------------------------------------------------------------

LEMMA LoggedLines ==
  ASSUME NEW fs \in Seq(Seq(Nat))
  PROVE  \A l : l \in UNION {ToSet(fs[a]) : a \in DOMAIN fs} <=>
               \E a \in 1 .. Len(fs) : \E i \in 1 .. Len(fs[a]) : l = fs[a][i]
<1>1. DOMAIN fs = 1 .. Len(fs)
  OBVIOUS
<1>2. \A a \in 1 .. Len(fs) : DOMAIN fs[a] = 1 .. Len(fs[a])
  OBVIOUS
<1>3. ASSUME NEW l
      PROVE  l \in UNION {ToSet(fs[a]) : a \in DOMAIN fs} <=>
               \E a \in 1 .. Len(fs) : \E i \in 1 .. Len(fs[a]) : l = fs[a][i]
  <2>1. \A a \in 1 .. Len(fs) :
          l \in ToSet(fs[a]) <=> \E i \in 1 .. Len(fs[a]) : l = fs[a][i]
    BY <1>2, Zenon DEF ToSet
  <2>2. l \in UNION {ToSet(fs[a]) : a \in DOMAIN fs} <=>
          \E a \in 1 .. Len(fs) : l \in ToSet(fs[a])
    BY <1>1, Zenon
  <2> QED  BY <2>1, <2>2, Zenon
<1> QED  BY <1>3

LEMMA TailInit == Init => TailInv
<1> SUFFICES ASSUME Init PROVE TailInv
  OBVIOUS
\* The line of file a has the number a.
<1>1. /\ files \in Seq(Seq(Nat)) /\ mailLog \in {1, 2}
      /\ \A a \in 1 .. mailLog : Len(files[a]) \in {0, 1}
      /\ \A a \in 1 .. mailLog : Len(files[a]) = 0 => mailLog = 1
      /\ \A a \in 1 .. mailLog : Len(files[a]) = 1 => files[a][1] = a
  <2>1. CASE files = <<<<>>>>
    <3>1. files[1] = <<>> /\ Len(files) = 1
      BY <2>1
    <3>2. Len(files[1]) = 0 /\ \A a \in 1 .. Len(files) : a = 1
      BY <3>1
    <3> QED  BY <2>1, <3>1, <3>2
  <2>2. CASE files = <<<<1>>>>
    <3>1. files[1] = <<1>> /\ Len(files) = 1
      BY <2>2
    <3>2. Len(files[1]) = 1 /\ files[1][1] = 1 /\ \A a \in 1 .. Len(files) : a = 1
      BY <3>1
    <3> QED  BY <2>2, <3>1, <3>2
  <2>3. CASE files = <<<<1>>, <<2>>>>
    <3>1. files[1] = <<1>> /\ files[2] = <<2>> /\ Len(files) = 2
      BY <2>3
    <3>2. /\ Len(files[1]) = 1 /\ files[1][1] = 1
          /\ Len(files[2]) = 1 /\ files[2][1] = 2
          /\ \A a \in 1 .. Len(files) : a = 1 \/ a = 2
      BY <3>1
    <3> QED  BY <2>3, <3>1, <3>2
  <2> QED  BY <2>1, <2>2, <2>3 DEF Init
<1>2. \/ mailLog = 2 /\ Len(files[1]) = 1 /\ Len(files[2]) = 1
      \/ mailLog = 1 /\ Len(files[1]) \in {0, 1}
  <2>1. 1 \in 1 .. mailLog /\ (mailLog = 2 => 2 \in 1 .. mailLog)
    BY <1>1
  <2> QED  BY <1>1, <2>1
<1> DEFINE n == IF mailLog = 2 THEN 2 ELSE Len(files[1])
<1>3. n \in 0 .. 2
  BY <1>2
<1>4. Logged = 1 .. n
  <2>1. \A l : l \in Logged <=>
               \E a \in 1 .. mailLog : \E i \in 1 .. Len(files[a]) : l = files[a][i]
    BY <1>1, LoggedLines DEF Logged
  <2>2. ASSUME NEW l \in Logged PROVE l \in 1 .. n
    <3>1. PICK a \in 1 .. mailLog : \E i \in 1 .. Len(files[a]) : l = files[a][i]
      BY <2>1, <2>2
    <3>2. Len(files[a]) = 1 /\ l = a
      BY <1>1, <3>1
    <3>3. CASE mailLog = 2
      BY <3>2, <3>3
    <3>4. CASE mailLog = 1
      <4>1. a = 1
        BY <3>4
      <4> QED  BY <3>2, <3>4, <4>1
    <3> QED  BY <1>2, <3>3, <3>4
  <2>3. ASSUME NEW l \in 1 .. n PROVE l \in Logged
    <3>1. l \in 1 .. mailLog /\ Len(files[l]) = 1
      <4>1. CASE mailLog = 2
        <5>1. l = 1 \/ l = 2
          BY <2>3, <4>1
        <5> QED  BY <1>2, <4>1, <5>1
      <4>2. CASE mailLog = 1
        <5>1. Len(files[1]) = 1 /\ l = 1
          <6>1. l \in 1 .. Len(files[1]) /\ Len(files[1]) \in {0, 1}
            BY <1>2, <2>3, <4>2
          <6>2. l \in Int /\ 1 <= l /\ l <= Len(files[1])
            BY <6>1
          <6>3. Len(files[1]) = 1
            BY <6>1, <6>2
          <6> QED  BY <6>2, <6>3
        <5> QED  BY <4>2, <5>1
      <4> QED  BY <1>2, <4>1, <4>2
    <3> QED  BY <1>1, <2>1, <3>1
  <2> QED  BY <2>2, <2>3
<1>5. Size = n
  <2>1. n \in Int /\ n >= 0
    BY <1>3
  <2> HIDE DEF n
  <2>2. Cardinality(1 .. n) = IF 1 > n THEN 0 ELSE n - 1 + 1
    BY <2>1, FS_Interval
  <2> QED  BY <1>4, <2>1, <2>2 DEF Size
<1>6. LogsOK
  BY <1>1, <1>4, <1>5 DEF Init, LogsOK
<1>7. Ordered(files)
  BY <1>1 DEF Ordered
<1>8. TailOK /\ HandedOn /\ Ahead /\ InOrderOnce
  BY <1>1 DEF Init, TailOK, HandedOn, Ahead, InOrderOnce, Booting
<1> QED  BY <1>6, <1>7, <1>8 DEF TailInv

-----------------------------------------------------------------------------
(* The log.                                                                *)

\* A new line is the newest, and nothing stands behind it.
LEMMA LogLineStep == TailInv /\ LogLine => TailInv'
<1> SUFFICES ASSUME TailInv, LogLine PROVE TailInv'
  OBVIOUS
<1> DEFINE n == Size + 1
           f == Append(files[writing], n)
<1>1. /\ files \in Seq(Seq(Nat)) /\ Size \in Nat /\ Logged = 1 .. Size
      /\ mailLog \in Nat /\ mailLog >= 1
      /\ writing \in 1 .. mailLog
      /\ writing # mailLog => writing = mailLog - 1 /\ files[mailLog] = <<>>
  BY DEF TailInv, LogsOK
<1>2. /\ files' = [files EXCEPT ![writing] = f]
      /\ UNCHANGED <<writing, phase, todo, offset, fd, tailed, processed, saved>>
  BY DEF LogLine, tail, Size
<1>3. files[writing] \in Seq(Nat) /\ n \in Nat
  BY <1>1
<1>4. /\ f \in Seq(Nat) /\ Len(f) = Len(files[writing]) + 1
      /\ \A j \in 1 .. Len(files[writing]) : f[j] = files[writing][j]
      /\ f[Len(files[writing]) + 1] = n
      /\ Len(files[writing]) \in Nat
  BY <1>3, AppendProperties
<1> HIDE DEF f
<1>5. /\ files' \in Seq(Seq(Nat)) /\ mailLog' = mailLog
      /\ \A a \in 1 .. mailLog :
           files'[a] = IF a = writing THEN f ELSE files[a]
  BY <1>1, <1>2, <1>4, ExceptSeq
<1>6. \A a \in 1 .. mailLog : files[a] \in Seq(Nat) /\ Len(files[a]) \in Nat
  BY <1>1
\* A line of the log is an old one where it was, or the new one.
<1>7. ASSUME NEW a \in 1 .. mailLog, NEW i \in 1 .. Len(files'[a])
      PROVE  \/ /\ i \in 1 .. Len(files[a]) /\ files'[a][i] = files[a][i]
             \/ /\ a = writing /\ i = Len(files[a]) + 1 /\ files'[a][i] = n
  <2>1. CASE a = writing
    <3>1. files'[a] = f /\ files[a] = files[writing]
      BY <1>5, <2>1
    <3>2. i \in 1 .. Len(files[a]) \/ i = Len(files[a]) + 1
      BY <1>4, <3>1
    <3> QED  BY <1>4, <2>1, <3>1, <3>2
  <2>2. CASE a # writing
    BY <1>5, <2>2
  <2> QED  BY <2>1, <2>2
<1>8. ASSUME NEW a \in 1 .. mailLog, NEW i \in 1 .. Len(files[a])
      PROVE  files[a][i] \in 1 .. Size
  BY <1>1, <1>6 DEF Logged, ToSet
<1>9. Logged' = 1 .. n
  <2>1. \A l : l \in Logged <=>
               \E a \in 1 .. mailLog : \E i \in 1 .. Len(files[a]) : l = files[a][i]
    BY <1>1, LoggedLines DEF Logged
  <2>2. \A l : l \in Logged' <=>
               \E a \in 1 .. mailLog : \E i \in 1 .. Len(files'[a]) : l = files'[a][i]
    <3>1. \A l : l \in Logged' <=>
                 \E a \in 1 .. Len(files') : \E i \in 1 .. Len(files'[a]) : l = files'[a][i]
      BY <1>5, LoggedLines DEF Logged
    <3> QED  BY <1>5, <3>1
  <2>3. ASSUME NEW l \in Logged' PROVE l \in Logged \/ l = n
    BY <1>7, <2>1, <2>2
  <2>4. ASSUME NEW l \in Logged PROVE l \in Logged'
    <3>1. PICK a \in 1 .. mailLog : \E i \in 1 .. Len(files[a]) : l = files[a][i]
      BY <2>1
    <3>2. PICK i \in 1 .. Len(files[a]) : l = files[a][i]
      BY <3>1
    <3>3. i \in 1 .. Len(files'[a]) /\ files'[a][i] = files[a][i]
      <4>1. CASE a = writing
        <5>1. files'[a] = f /\ files[a] = files[writing]
          BY <1>5, <4>1
        <5> QED  BY <1>4, <3>2, <5>1
      <4>2. CASE a # writing
        BY <1>5, <3>2, <4>2
      <4> QED  BY <4>1, <4>2
    <3> QED  BY <2>2, <3>2, <3>3
  <2>5. n \in Logged'
    <3>1. /\ Len(f) \in 1 .. Len(files'[writing]) /\ files'[writing][Len(f)] = n
      <4>1. files'[writing] = f
        BY <1>1, <1>5
      <4> QED  BY <1>4, <4>1
    <3> QED  BY <1>1, <2>2, <3>1
  <2>6. \A l : l \in Logged' <=> l \in 1 .. Size \/ l = n
    BY <1>1, <2>3, <2>4, <2>5
  <2>7. 1 .. n = {l \in 1 .. n : l \in 1 .. Size \/ l = n}
    BY <1>1
  <2>8. \A l : l \in 1 .. n <=> l \in 1 .. Size \/ l = n
    BY <1>1
  <2> QED  BY <2>6, <2>8, Zenon
<1>10. Size' = n
  BY <1>3, <1>9, FS_Interval DEF Size
<1>11. LogsOK'
  <2>1. writing' # mailLog' => writing' = mailLog' - 1 /\ files'[mailLog'] = <<>>
    BY <1>1, <1>2, <1>5
  <2>2. n \in Nat
    BY <1>1
  <2>3. mailLog' >= 1 /\ writing' \in 1 .. mailLog'
    BY <1>1, <1>2, <1>5
  <2> QED  BY <1>5, <1>9, <1>10, <2>1, <2>2, <2>3 DEF LogsOK
<1>12. Ordered(files')
  <2> SUFFICES ASSUME NEW a \in 1 .. mailLog, NEW b \in 1 .. mailLog,
                      NEW i \in 1 .. Len(files'[a]), NEW j \in 1 .. Len(files'[b]),
                      a < b \/ (a = b /\ i < j)
               PROVE  files'[a][i] < files'[b][j]
    BY <1>5 DEF Ordered
  <2>1. CASE j \in 1 .. Len(files[b]) /\ files'[b][j] = files[b][j]
    <3>1. ~(a = writing /\ i = Len(files[a]) + 1)
      <4> SUFFICES ASSUME a = writing, i = Len(files[a]) + 1 PROVE FALSE
        OBVIOUS
      <4>1. CASE a = b
        BY <1>6, <2>1, <4>1
      <4>2. CASE a < b
        <5>1. b = mailLog /\ files[b] = <<>>
          BY <1>1, <4>2
        <5> QED  BY <2>1, <5>1
      <4> QED  BY <4>1, <4>2
    <3>2. i \in 1 .. Len(files[a]) /\ files'[a][i] = files[a][i]
      BY <1>7, <3>1
    <3> QED  BY <2>1, <3>2 DEF TailInv, Ordered
  <2>2. CASE b = writing /\ j = Len(files[b]) + 1 /\ files'[b][j] = n
    <3>1. i \in 1 .. Len(files[a]) /\ files'[a][i] = files[a][i]
      BY <1>6, <1>7, <2>2
    <3>2. files[a][i] \in 1 .. Size
      BY <1>8, <3>1
    <3> QED  BY <1>1, <2>2, <3>1, <3>2
  <2> QED  BY <1>7, <2>1, <2>2
<1>13. TailOK'
  <2>1. ASSUME tailed \in 1 .. mailLog
        PROVE  Len(files[tailed]) <= Len(files'[tailed])
    <3>1. CASE tailed = writing
      <4>1. files'[tailed] = f /\ files[tailed] = files[writing]
        BY <1>1, <1>5, <3>1
      <4> QED  BY <1>4, <4>1
    <3>2. CASE tailed # writing
      BY <1>5, <1>6, <2>1, <3>2
    <3> QED  BY <3>1, <3>2
  <2>2. \A a \in 1 .. mailLog : Len(files'[a]) \in Nat
    BY <1>4, <1>5, <1>6
  <2> QED  BY <1>2, <1>5, <1>6, <2>1, <2>2 DEF TailInv, TailOK, Booting
<1>14. HandedOn'
  BY <1>1, <1>2, <1>10 DEF TailInv, HandedOn
<1>15. Ahead'
  <2> SUFFICES ASSUME NEW k \in 1 .. Len(processed), NEW b \in 1 .. mailLog,
                      NEW j \in 1 .. Len(files'[b]), Unread(b, j)
               PROVE  processed[k] < files'[b][j]
    BY <1>2, <1>5 DEF Ahead, Unread, Booting
  <2>1. processed[k] \in Nat /\ processed[k] <= Size
    BY DEF TailInv, HandedOn
  <2>2. CASE j \in 1 .. Len(files[b]) /\ files'[b][j] = files[b][j]
    BY <2>2 DEF TailInv, Ahead
  <2>3. CASE files'[b][j] = n
    BY <1>1, <2>1, <2>3
  <2> QED  BY <1>7, <2>2, <2>3
<1>16. InOrderOnce'
  BY <1>2 DEF TailInv, InOrderOnce
<1> QED  BY <1>11, <1>12, <1>13, <1>14, <1>15, <1>16 DEF TailInv

\* mail.log is a new, empty file; what was to be read still is.
LEMMA RotateStep == TailInv /\ Rotate => TailInv'
<1> SUFFICES ASSUME TailInv, Rotate PROVE TailInv'
  OBVIOUS
<1>1. /\ files \in Seq(Seq(Nat)) /\ Size \in Nat /\ Logged = 1 .. Size
      /\ mailLog \in Nat /\ mailLog >= 1 /\ writing = mailLog
  BY DEF TailInv, LogsOK, Rotate
<1>2. /\ files' = Append(files, <<>>)
      /\ writing' = mailLog \/ writing' = mailLog + 1
      /\ UNCHANGED <<phase, todo, offset, fd, tailed, processed, saved>>
  BY <1>1 DEF Rotate, tail
<1>3. /\ files' \in Seq(Seq(Nat)) /\ mailLog' = mailLog + 1
      /\ \A a \in 1 .. mailLog : files'[a] = files[a]
      /\ files'[mailLog + 1] = <<>>
  <2>1. <<>> \in Seq(Nat)
    OBVIOUS
  <2> QED  BY <1>1, <1>2, <2>1, AppendProperties
<1>4. ASSUME NEW a \in 1 .. mailLog', NEW i \in 1 .. Len(files'[a])
      PROVE  a \in 1 .. mailLog /\ files'[a] = files[a] /\ i \in 1 .. Len(files[a])
  <2>1. CASE a = mailLog + 1
    <3>1. Len(files'[a]) = 0
      BY <1>3, <2>1
    <3> QED  BY <3>1
  <2>2. CASE a \in 1 .. mailLog
    BY <1>3, <2>2
  <2> QED  BY <1>1, <1>3, <2>1, <2>2
<1>5. Logged' = Logged
  <2>1. \A l : l \in Logged <=>
               \E a \in 1 .. mailLog : \E i \in 1 .. Len(files[a]) : l = files[a][i]
    BY <1>1, LoggedLines DEF Logged
  <2>2. \A l : l \in Logged' <=>
               \E a \in 1 .. mailLog' : \E i \in 1 .. Len(files'[a]) : l = files'[a][i]
    BY <1>3, LoggedLines DEF Logged
  <2>3. ASSUME NEW l \in Logged PROVE l \in Logged'
    <3>1. PICK a \in 1 .. mailLog : \E i \in 1 .. Len(files[a]) : l = files[a][i]
      BY <2>1
    <3>2. a \in 1 .. mailLog' /\ files'[a] = files[a]
      BY <1>1, <1>3
    <3> QED  BY <2>2, <3>1, <3>2
  <2>4. ASSUME NEW l \in Logged' PROVE l \in Logged
    <3>1. PICK a \in 1 .. mailLog' : \E i \in 1 .. Len(files'[a]) : l = files'[a][i]
      BY <2>2
    <3> QED  BY <1>4, <2>1, <3>1
  <2> QED  BY <2>3, <2>4
<1>6. Size' = Size
  BY <1>5 DEF Size
<1>7. LogsOK'
  BY <1>1, <1>2, <1>3, <1>5, <1>6 DEF LogsOK
<1>8. Ordered(files')
  BY <1>4 DEF TailInv, Ordered
<1>9. TailOK'
  BY <1>1, <1>2, <1>3 DEF TailInv, TailOK, Booting
<1>10. HandedOn'
  BY <1>2, <1>6 DEF TailInv, HandedOn
<1>11. Ahead'
  <2> SUFFICES ASSUME NEW k \in 1 .. Len(processed), NEW b \in 1 .. mailLog',
                      NEW j \in 1 .. Len(files'[b]), Unread(b, j)'
               PROVE  processed[k] < files'[b][j]
    BY <1>2 DEF Ahead
  <2>1. b \in 1 .. mailLog /\ files'[b] = files[b] /\ j \in 1 .. Len(files[b])
    BY <1>4
  <2>2. Unread(b, j)
    BY <1>1, <1>2, <1>3, <2>1 DEF TailInv, TailOK, Unread, Booting
  <2> QED  BY <2>1, <2>2 DEF TailInv, Ahead
<1>12. InOrderOnce'
  BY <1>2 DEF TailInv, InOrderOnce
<1> QED  BY <1>7, <1>8, <1>9, <1>10, <1>11, <1>12 DEF TailInv

-----------------------------------------------------------------------------
(* The watcher.                                                            *)

LEMMA LogStands ==
  ASSUME LogsOK, UNCHANGED files, writing' \in {writing, mailLog}
  PROVE  LogsOK' /\ Ordered(files)' = Ordered(files)
         /\ Size' = Size /\ mailLog' = mailLog
<1>1. Logged' = Logged /\ mailLog' = mailLog
  BY DEF Logged
<1>2. Size' = Size
  BY <1>1 DEF Size
<1>3. LogsOK'
  BY <1>1, <1>2 DEF LogsOK
<1> QED  BY <1>1, <1>2, <1>3 DEF Ordered

\* A step that hands on nothing, and after which no line may still be read
\* that might not have been before.
LEMMA SilentStep ==
  ASSUME TailInv, UNCHANGED <<files, processed>>, writing' \in {writing, mailLog},
         TailOK',
         phase' \in {"start", "list"} => processed = <<>>,
         \A b \in 1 .. mailLog : \A j \in 1 .. Len(files[b]) :
           Unread(b, j)' => Unread(b, j) \/ Len(processed) = 0
  PROVE  TailInv'
<1>1. LogsOK' /\ Ordered(files)' /\ Size' = Size /\ mailLog' = mailLog
  BY LogStands DEF TailInv
<1>2. HandedOn' /\ InOrderOnce'
  BY <1>1 DEF TailInv, HandedOn, InOrderOnce
<1>3. Ahead'
  <2> SUFFICES ASSUME NEW k \in 1 .. Len(processed), NEW b \in 1 .. mailLog,
                      NEW j \in 1 .. Len(files[b]), Unread(b, j)'
               PROVE  processed[k] < files[b][j]
    BY DEF Ahead
  <2>1. Len(processed) # 0
    OBVIOUS
  <2> QED  BY <2>1 DEF TailInv, Ahead
<1> QED  BY <1>1, <1>2, <1>3 DEF TailInv

\* A smaller mail.log than was read is not the file that was read.
LEMMA SilentSteps ==
  TailInv /\ (Reopen \/ BringUp \/ DiscoverLogFiles \/ TickStat \/ TickOpen
              \/ TickEnd \/ SaveCheckpoint) => TailInv'
<1> SUFFICES ASSUME TailInv PROVE Reopen \/ BringUp \/ DiscoverLogFiles \/ TickStat
                                  \/ TickOpen \/ TickEnd \/ SaveCheckpoint => TailInv'
  OBVIOUS
<1>1. /\ TailOK /\ HandedOn /\ mailLog \in Nat /\ mailLog >= 1
      /\ \A a \in 1 .. mailLog : Len(files[a]) \in Nat
  BY DEF TailInv, LogsOK
<1>2. CASE Reopen
  <2>1. UNCHANGED <<files, phase, todo, offset, fd, tailed, processed, saved>>
        /\ writing' = mailLog
    BY <1>2 DEF Reopen, tail
  <2>2. TailOK'
    BY <1>1, <2>1 DEF TailOK, Booting
  <2>3. phase' \in {"start", "list"} => processed = <<>>
    BY <1>1, <2>1 DEF HandedOn
  <2>4. \A b, j : Unread(b, j)' => Unread(b, j)
    BY <2>1 DEF Unread, Booting
  <2> QED  BY <2>1, <2>2, <2>3, <2>4, SilentStep
<1>3. CASE BringUp
  <2>1. /\ UNCHANGED <<files, writing, processed, saved>> /\ phase = "start"
        /\ \/ /\ phase' = "idle" /\ tailed' = mailLog
              /\ offset' = saved.at /\ Len(files[mailLog]) >= saved.at
           \/ phase' = "list"
    BY <1>3 DEF BringUp, ResumeOffset, logs
  <2>2. processed = <<>>
    BY <1>1, <2>1 DEF HandedOn
  <2>3. TailOK'
    BY <1>1, <2>1 DEF TailOK, Booting
  <2> QED  BY <2>1, <2>2, <2>3, SilentStep
<1>4. CASE DiscoverLogFiles
  <2>1. /\ UNCHANGED <<files, writing, processed, saved>> /\ phase = "list"
        /\ phase' = "parse" /\ todo' = mailLog
    BY <1>4 DEF DiscoverLogFiles, logs
  <2>2. processed = <<>>
    BY <1>1, <2>1 DEF HandedOn
  <2>3. TailOK'
    BY <1>1, <2>1 DEF TailOK, Booting
  <2> QED  BY <2>1, <2>2, <2>3, SilentStep
<1>5. CASE TickStat
  <2>1. /\ UNCHANGED <<files, writing, processed, saved>>
        /\ phase = "idle" /\ phase' \in {"idle", "open"}
        /\ \/ offset' = offset /\ tailed' = tailed
           \/ offset' = 0 /\ tailed' = mailLog /\ Len(files[mailLog]) < offset
    BY <1>5 DEF TickStat, logs, Rotated
  <2>2. tailed \in 1 .. mailLog /\ offset \in 0 .. Len(files[tailed])
    BY <1>1, <2>1 DEF TailOK, Booting
  <2>3. Len(files[mailLog]) < offset => tailed < mailLog
    BY <1>1, <2>2
  <2>4. TailOK'
    BY <1>1, <2>1, <2>2 DEF TailOK, Booting
  <2>5. ASSUME NEW b \in 1 .. mailLog, NEW j \in 1 .. Len(files[b]), Unread(b, j)'
        PROVE  Unread(b, j)
    <3>1. b > tailed' \/ (b = tailed' /\ j > offset')
      BY <2>1, <2>5 DEF Unread, Booting
    <3>2. b > tailed \/ (b = tailed /\ j > offset)
      <4>1. CASE offset' = offset /\ tailed' = tailed
        BY <3>1, <4>1
      <4>2. CASE tailed' = mailLog /\ Len(files[mailLog]) < offset
        <5>1. tailed < mailLog /\ mailLog \in Nat /\ tailed \in Nat /\ b \in Nat
          BY <1>1, <2>2, <2>3, <4>2
        <5>2. mailLog <= b
          BY <3>1, <4>2, <5>1
        <5> QED  BY <5>1, <5>2
      <4> QED  BY <2>1, <4>1, <4>2
    <3> QED  BY <2>1, <3>2 DEF Unread, Booting
  <2>6. phase' \notin {"start", "list"}
    BY <2>1
  <2> QED  BY <2>1, <2>4, <2>5, <2>6, SilentStep
<1>6. CASE TickOpen
  <2>1. /\ UNCHANGED <<files, writing, offset, tailed, processed, saved>>
        /\ phase = "open" /\ phase' = "read" /\ fd' = mailLog
    BY <1>6 DEF TickOpen, logs
  <2>2. TailOK'
    BY <1>1, <2>1 DEF TailOK, Booting
  <2>3. \A b, j : Unread(b, j)' => Unread(b, j)
    BY <2>1 DEF Unread, Booting
  <2> QED  BY <2>1, <2>2, <2>3, SilentStep
<1>7. CASE TickEnd
  <2>1. /\ UNCHANGED <<files, writing, offset, tailed, processed, saved>>
        /\ phase = "read" /\ phase' = "idle"
    BY <1>7 DEF TickEnd, logs
  <2>2. TailOK'
    BY <1>1, <2>1 DEF TailOK, Booting
  <2>3. \A b, j : Unread(b, j)' => Unread(b, j)
    BY <2>1 DEF Unread, Booting
  <2> QED  BY <2>1, <2>2, <2>3, SilentStep
<1>8. CASE SaveCheckpoint
  <2>1. /\ UNCHANGED <<files, writing, phase, todo, offset, fd, tailed, processed>>
        /\ ~Booting /\ saved' = [at |-> offset, file |-> tailed]
    BY <1>8 DEF SaveCheckpoint, logs, tail
  <2>2. saved'.at = offset /\ offset \in Nat
    BY <1>1, <2>1 DEF TailOK
  <2>3. TailOK'
    BY <1>1, <2>1, <2>2 DEF TailOK, Booting
  <2>4. \A b, j : Unread(b, j)' => Unread(b, j)
    BY <2>1 DEF Unread, Booting
  <2>5. phase' \notin {"start", "list"}
    BY <2>1 DEF Booting
  <2> QED  BY <2>1, <2>3, <2>4, <2>5, SilentStep
<1> QED  BY <1>2, <1>3, <1>4, <1>5, <1>6, <1>7, <1>8

\* The tail starts behind all that was parsed and, if something was written
\* in between, behind that as well.
LEMMA StatLogStep == TailInv /\ StatLog => TailInv'
<1> SUFFICES ASSUME TailInv, StatLog PROVE TailInv'
  OBVIOUS
<1>1. /\ TailOK /\ mailLog \in Nat /\ mailLog >= 1
      /\ \A a \in 1 .. mailLog : Len(files[a]) \in Nat
  BY DEF TailInv, LogsOK
<1>2. /\ UNCHANGED <<files, writing, processed, saved>> /\ phase' = "idle"
      /\ tailed' = mailLog /\ offset' = Len(files[mailLog])
  BY DEF StatLog, StatOffset, logs
<1>3. TailOK'
  BY <1>1, <1>2 DEF TailOK, Booting
<1>4. \A b \in 1 .. mailLog : \A j \in 1 .. Len(files[b]) : ~Unread(b, j)'
  BY <1>1, <1>2 DEF Unread, Booting
<1>5. phase' \notin {"start", "list"}
  BY <1>2
<1> QED  BY <1>2, <1>3, <1>4, <1>5, SilentStep

\* A file is parsed: it is newer than the files before it, older than the rest.
LEMMA ParseFileStep == TailInv /\ ParseFile => TailInv'
<1> SUFFICES ASSUME TailInv, ParseFile PROVE TailInv'
  OBVIOUS
<1> DEFINE p == mailLog - (todo - 1)
           lines == files[p]
<1>1. /\ LogsOK /\ Ordered(files) /\ TailOK /\ HandedOn /\ Ahead /\ InOrderOnce
      /\ mailLog \in Nat /\ mailLog >= 1 /\ files \in Seq(Seq(Nat)) /\ Size \in Nat
  BY DEF TailInv, LogsOK
<1>2. /\ UNCHANGED <<files, writing, saved>> /\ phase = "parse"
      /\ phase' \in {"parse", "stat"} /\ (phase' = "parse" => todo # 1)
      /\ todo' = todo - 1 /\ processed' = processed \o lines
  BY DEF ParseFile, logs
<1>3. todo \in 1 .. mailLog /\ p \in 1 .. mailLog /\ p > mailLog - todo
  BY <1>1, <1>2 DEF TailOK
<1>4. lines \in Seq(Nat) /\ processed \in Seq(Nat)
  BY <1>1, <1>3 DEF HandedOn
<1>5. ASSUME NEW i \in 1 .. Len(lines) PROVE lines[i] <= Size
  <2>1. \A l : l \in Logged <=>
               \E a \in 1 .. mailLog : \E j \in 1 .. Len(files[a]) : l = files[a][j]
    BY <1>1, LoggedLines DEF Logged
  <2>2. lines[i] \in Logged
    BY <1>3, <2>1
  <2> QED  BY <1>1, <2>2 DEF LogsOK
<1>6. \A i \in 1 .. Len(lines) : \A k \in 1 .. Len(processed) : processed[k] < lines[i]
  <2>1. \A i : Unread(p, i)
    BY <1>2, <1>3 DEF Unread
  <2> QED  BY <1>1, <1>3, <2>1 DEF Ahead
<1>7. \A i, j \in 1 .. Len(lines) : i < j => lines[i] < lines[j]
  BY <1>1, <1>3 DEF Ordered
<1>8. ASSUME NEW b \in 1 .. mailLog, NEW j \in 1 .. Len(files[b]),
             NEW i \in 1 .. Len(lines), p < b
      PROVE  lines[i] < files[b][j]
  <2>1. p \in 1 .. Len(files) /\ lines = files[p]
    BY <1>3
  <2> HIDE DEF p, lines
  <2> QED  BY <1>1, <1>8, <2>1 DEF Ordered
<1>9. LogsOK' /\ Ordered(files)' /\ Size' = Size /\ mailLog' = mailLog
  BY <1>1, <1>2, LogStands
<1>10. TailOK'
  BY <1>1, <1>2, <1>3 DEF TailOK, Booting
<1>11. \A b \in 1 .. mailLog : \A j : Unread(b, j)' => p < b /\ Unread(b, j)
  BY <1>1, <1>2, <1>3 DEF Unread, Booting
<1> HIDE DEF lines, p
<1>12. /\ processed' \in Seq(Nat) /\ Len(processed') = Len(processed) + Len(lines)
       /\ \A k \in 1 .. Len(processed') :
            \/ k \in 1 .. Len(processed) /\ processed'[k] = processed[k]
            \/ /\ k > Len(processed) /\ k - Len(processed) \in 1 .. Len(lines)
               /\ processed'[k] = lines[k - Len(processed)]
  BY <1>2, <1>4, ConcatProperties
<1>13. HandedOn'
  BY <1>1, <1>2, <1>5, <1>9, <1>12 DEF HandedOn
<1>14. Ahead'
  <2> SUFFICES ASSUME NEW k \in 1 .. Len(processed'), NEW b \in 1 .. mailLog,
                      NEW j \in 1 .. Len(files[b]), Unread(b, j)'
               PROVE  processed'[k] < files[b][j]
    BY <1>2, <1>9 DEF Ahead
  <2>1. p < b /\ Unread(b, j)
    BY <1>11
  <2> QED  BY <1>1, <1>8, <1>12, <2>1 DEF Ahead
<1>15. InOrderOnce'
  <2> SUFFICES ASSUME NEW k \in 1 .. Len(processed'), NEW l \in 1 .. Len(processed'),
                      k < l
               PROVE  processed'[k] < processed'[l]
    BY <1>12 DEF InOrderOnce
  <2>1. CASE l \in 1 .. Len(processed) /\ processed'[l] = processed[l]
    <3>1. k \in 1 .. Len(processed) /\ processed'[k] = processed[k]
      BY <1>4, <1>12, <2>1
    <3>2. processed[k] < processed[l]
      BY <1>1, <1>4, <2>1, <3>1 DEF InOrderOnce
    <3> QED  BY <2>1, <3>1, <3>2
  <2>2. CASE /\ l > Len(processed) /\ l - Len(processed) \in 1 .. Len(lines)
             /\ processed'[l] = lines[l - Len(processed)]
    <3> DEFINE g == l - Len(processed)
    <3>1. CASE k \in 1 .. Len(processed) /\ processed'[k] = processed[k]
      BY <1>6, <2>2, <3>1
    <3>2. CASE /\ k > Len(processed) /\ k - Len(processed) \in 1 .. Len(lines)
               /\ processed'[k] = lines[k - Len(processed)]
      <4> DEFINE h == k - Len(processed)
      <4>1. h \in 1 .. Len(lines) /\ g \in 1 .. Len(lines) /\ h < g
        BY <1>4, <1>12, <2>2, <3>2
      <4> HIDE DEF g, h
      <4>2. lines[h] < lines[g]
        BY <1>7, <4>1
      <4> QED  BY <2>2, <3>2, <4>2 DEF g, h
    <3> QED  BY <1>12, <3>1, <3>2
  <2> QED  BY <1>12, <2>1, <2>2
<1> QED  BY <1>9, <1>10, <1>13, <1>14, <1>15 DEF TailInv

\* A line is read where the tail stands, in the file it stands in or a later one.
LEMMA TickReadStep == TailInv /\ TickRead => TailInv'
<1> SUFFICES ASSUME TailInv, TickRead PROVE TailInv'
  OBVIOUS
<1> DEFINE line == files[fd][offset + 1]
<1>1. /\ LogsOK /\ Ordered(files) /\ TailOK /\ HandedOn /\ Ahead /\ InOrderOnce
      /\ mailLog \in Nat /\ mailLog >= 1 /\ files \in Seq(Seq(Nat)) /\ Size \in Nat
  BY DEF TailInv, LogsOK
<1>2. /\ UNCHANGED <<files, writing, phase, fd, saved>> /\ phase = "read"
      /\ offset < Len(files[fd]) /\ offset' = offset + 1 /\ tailed' = fd
      /\ processed' = Append(processed, line)
  BY DEF TickRead, logs
<1>3. /\ tailed \in 1 .. mailLog /\ offset \in Nat /\ fd \in tailed .. mailLog
  BY <1>1, <1>2 DEF TailOK, Booting
<1>4. /\ fd \in 1 .. mailLog /\ Len(files[fd]) \in Nat
      /\ offset + 1 \in 1 .. Len(files[fd])
  BY <1>1, <1>2, <1>3
<1>5. line \in Nat /\ line <= Size
  <2>1. \A l : l \in Logged <=>
               \E a \in 1 .. mailLog : \E i \in 1 .. Len(files[a]) : l = files[a][i]
    BY <1>1, LoggedLines DEF Logged
  <2>2. line \in Logged
    BY <1>4, <2>1
  <2> QED  BY <1>1, <2>2 DEF LogsOK
<1>6. \A k \in 1 .. Len(processed) : processed[k] < line
  <2>1. Unread(fd, offset + 1)
    BY <1>2, <1>3 DEF Unread, Booting
  <2> QED  BY <1>1, <1>4, <2>1 DEF Ahead
<1>7. \A b \in 1 .. mailLog : \A j \in 1 .. Len(files[b]) :
        fd < b \/ (fd = b /\ offset + 1 < j) => line < files[b][j]
  BY <1>1, <1>4 DEF Ordered
<1>8. LogsOK' /\ Ordered(files)' /\ Size' = Size /\ mailLog' = mailLog
  BY <1>1, <1>2, LogStands
<1>9. TailOK'
  BY <1>1, <1>2, <1>3, <1>4 DEF TailOK, Booting
<1>10. \A b \in 1 .. mailLog : \A j \in 1 .. Len(files[b]) :
         Unread(b, j)' => /\ fd < b \/ (fd = b /\ offset + 1 < j)
                          /\ Unread(b, j)
  BY <1>1, <1>2, <1>3 DEF Unread, Booting
<1> HIDE DEF line
<1>11. /\ processed' \in Seq(Nat) /\ Len(processed') = Len(processed) + 1
       /\ Len(processed) \in Nat
       /\ \A k \in 1 .. Len(processed) : processed'[k] = processed[k]
       /\ processed'[Len(processed) + 1] = line
  BY <1>1, <1>2, <1>5, AppendProperties DEF HandedOn
<1>12. \A k \in 1 .. Len(processed') :
         \/ k \in 1 .. Len(processed) /\ processed'[k] = processed[k]
         \/ k = Len(processed) + 1 /\ processed'[k] = line
  BY <1>11
<1>13. HandedOn'
  BY <1>1, <1>2, <1>5, <1>8, <1>11, <1>12 DEF HandedOn
<1>14. Ahead'
  <2> SUFFICES ASSUME NEW k \in 1 .. Len(processed'), NEW b \in 1 .. mailLog,
                      NEW j \in 1 .. Len(files[b]), Unread(b, j)'
               PROVE  processed'[k] < files[b][j]
    BY <1>2, <1>8 DEF Ahead
  <2> QED  BY <1>1, <1>7, <1>10, <1>12 DEF Ahead
<1>15. InOrderOnce'
  <2> SUFFICES ASSUME NEW k \in 1 .. Len(processed'), NEW l \in 1 .. Len(processed'),
                      k < l
               PROVE  processed'[k] < processed'[l]
    BY <1>11 DEF InOrderOnce
  <2>1. k \in 1 .. Len(processed) /\ processed'[k] = processed[k]
    BY <1>11, <1>12
  <2>2. CASE l \in 1 .. Len(processed) /\ processed'[l] = processed[l]
    BY <1>1, <2>1, <2>2 DEF InOrderOnce, HandedOn
  <2>3. CASE processed'[l] = line
    BY <1>6, <2>1, <2>3
  <2> QED  BY <1>12, <2>2, <2>3
<1> QED  BY <1>8, <1>9, <1>13, <1>14, <1>15 DEF TailInv

\* The next process hands on what it reads from the beginning.
LEMMA CrashStep == TailInv /\ Crash => TailInv'
<1> SUFFICES ASSUME TailInv, Crash PROVE TailInv'
  OBVIOUS
<1>1. /\ UNCHANGED <<files, writing, saved>>
      /\ phase' = "start" /\ processed' = <<>>
  BY DEF Crash, logs
<1>2. LogsOK' /\ Ordered(files)'
  BY <1>1, LogStands DEF TailInv
<1>3. TailOK' /\ HandedOn' /\ Ahead' /\ InOrderOnce'
  BY <1>1 DEF TailInv, TailOK, HandedOn, Ahead, InOrderOnce, Booting
<1> QED  BY <1>2, <1>3 DEF TailInv

\* TailInv is kept.
LEMMA TailStep == TailInv /\ [Next]_vars => TailInv'
<1>1. TailInv /\ UNCHANGED vars => TailInv'
  <2> SUFFICES ASSUME TailInv, UNCHANGED vars PROVE TailInv'
    OBVIOUS
  <2>1. UNCHANGED <<files, writing, phase, todo, offset, fd, tailed, processed, saved>>
    BY DEF vars, logs, tail
  <2>2. TailOK' /\ (phase' \in {"start", "list"} => processed = <<>>)
    BY <2>1 DEF TailInv, TailOK, HandedOn, Booting
  <2>3. \A b, j : Unread(b, j)' => Unread(b, j)
    BY <2>1 DEF Unread, Booting
  <2> QED  BY <2>1, <2>2, <2>3, SilentStep
<1> QED  BY <1>1, LogLineStep, RotateStep, SilentSteps, StatLogStep, ParseFileStep,
            TickReadStep, CrashStep
         DEF Next, Watch

\* In every state, whatever rotations, reopenings and restarts came before it
\* and whatever tick was at in the meantime, the lines handed on by the process
\* are strictly in the order of the log.
THEOREM LinesComeInOrder == Spec => []InOrderOnce
<1>1. TailInv => InOrderOnce
  BY DEF TailInv
<1> QED  BY <1>1, TailInit, TailStep, PTL DEF Spec

-----------------------------------------------------------------------------
(* Nothing is left behind at gentle moments.  The checkpoint and the tail  *)
(* stand at places up to which all was handed on, and the tail stands in   *)
(* mail.log or at the end of the file before it.                           *)

\* The lines up to line n of file f are in e.
ReadUpTo(fs, e, f, n) ==
  \A b \in 1 .. Len(fs) : \A j \in 1 .. Len(fs[b]) :
    b < f \/ (b = f /\ j <= n) => fs[b][j] \in e

Read(f, n) == ReadUpTo(files, ever, f, n)

CheckpointOK ==
  /\ saved.at > 0 => /\ saved.file \in 1 .. mailLog
                     /\ saved.at <= Len(files[saved.file])
                     /\ Read(saved.file, saved.at)
  /\ Booting => saved.at = 0 \/ saved.file = mailLog

BootOK ==
  /\ phase = "parse" => Read(mailLog - todo + 1, 0)
  /\ phase = "stat" => Read(mailLog, Len(files[mailLog]))

PlaceOK ==
  ~Booting =>
    /\ Read(tailed, offset)
    /\ \/ tailed = mailLog
       \/ /\ phase = "idle" /\ tailed = mailLog - 1 /\ offset = Len(files[tailed])
          /\ Len(files[mailLog]) < offset \/ Len(files[mailLog]) = 0

GentleInv == writing = mailLog /\ CheckpointOK /\ BootOK /\ PlaceOK

LEMMA ReadMore ==
  ASSUME NEW fs, NEW e, NEW d, e \subseteq d, NEW f, NEW n, ReadUpTo(fs, e, f, n)
  PROVE  ReadUpTo(fs, d, f, n)
BY DEF ReadUpTo

\* What is behind the place does not matter.
LEMMA ReadGrown ==
  ASSUME NEW fs \in Seq(Seq(Nat)), NEW gs \in Seq(Seq(Nat)), Len(fs) <= Len(gs),
         \A a \in 1 .. Len(fs) : a < Len(fs) => gs[a] = fs[a],
         \A a \in 1 .. Len(fs) : \A j \in 1 .. Len(fs[a]) : gs[a][j] = fs[a][j],
         NEW e, NEW f \in 1 .. Len(fs), NEW n \in Nat, n <= Len(fs[f]),
         ReadUpTo(fs, e, f, n)
  PROVE  ReadUpTo(gs, e, f, n)
<1> SUFFICES ASSUME NEW b \in 1 .. Len(gs), NEW j \in 1 .. Len(gs[b]),
                    b < f \/ (b = f /\ j <= n)
             PROVE  gs[b][j] \in e
  BY DEF ReadUpTo
<1>1. Len(fs) \in Nat /\ b \in 1 .. Len(fs) /\ Len(fs[f]) \in Nat /\ j \in Nat /\ j >= 1
  <2>1. Len(fs) \in Nat /\ Len(gs) \in Nat
    BY LenProperties
  <2>2. fs[f] \in Seq(Nat) /\ gs[b] \in Seq(Nat)
    OBVIOUS
  <2>3. Len(fs[f]) \in Nat /\ Len(gs[b]) \in Nat
    BY <2>2, LenProperties
  <2>4. b \in 1 .. Len(fs)
    BY <2>1
  <2> QED  BY <2>1, <2>3, <2>4
<1>2. j \in 1 .. Len(fs[b])
  <2>1. CASE b < f
    <3>1. b < Len(fs)
      BY <1>1, <2>1
    <3> QED  BY <1>1, <3>1
  <2>2. CASE b = f /\ j <= n
    BY <1>1, <2>2
  <2> QED  BY <2>1, <2>2
<1>3. fs[b][j] \in e
  BY <1>1, <1>2 DEF ReadUpTo
<1> QED  BY <1>1, <1>2, <1>3

LEMMA GentleInit == Init => GentleInv
<1> SUFFICES ASSUME Init PROVE GentleInv
  OBVIOUS
<1>1. writing = mailLog /\ phase = "start" /\ saved.at = 0
  BY DEF Init
<1>2. CheckpointOK /\ BootOK /\ PlaceOK
  BY <1>1 DEF CheckpointOK, BootOK, PlaceOK, Booting
<1> QED  BY <1>1, <1>2 DEF GentleInv

\* What the steps below need of both invariants.
LEMMA GentleParts ==
  ASSUME TailInv, GentleInv
  PROVE  /\ files \in Seq(Seq(Nat)) /\ mailLog \in Nat /\ mailLog >= 1 /\ writing = mailLog
         /\ \A a \in 1 .. mailLog : files[a] \in Seq(Nat) /\ Len(files[a]) \in Nat
         /\ saved.at \in Nat
         /\ phase = "parse" => todo \in 1 .. mailLog
         /\ ~Booting => tailed \in 1 .. mailLog /\ offset \in 0 .. Len(files[tailed])
         /\ CheckpointOK /\ BootOK /\ PlaceOK
BY LenProperties DEF TailInv, LogsOK, TailOK, GentleInv

\* The log changes while the tail stands in mail.log, or far enough from it.
LEMMA LogGentle ==
  ASSUME TailInv, GentleInv, Gentle, LogLine \/ Rotate
  PROVE  GentleInv'
<1>1. /\ files \in Seq(Seq(Nat)) /\ mailLog \in Nat /\ mailLog >= 1 /\ writing = mailLog
      /\ \A a \in 1 .. mailLog : files[a] \in Seq(Nat) /\ Len(files[a]) \in Nat
      /\ saved.at \in Nat /\ CheckpointOK /\ PlaceOK
  BY GentleParts
<1>2. ~Booting /\ UNCHANGED <<phase, todo, offset, tailed, ever, saved>>
  BY DEF LogLine, Rotate, Gentle, tail
<1>3. tailed \in 1 .. mailLog /\ offset \in 0 .. Len(files[tailed]) /\ Read(tailed, offset)
  BY <1>2, GentleParts DEF PlaceOK
\* Either a line is added to mail.log, or mail.log is a new, empty file.
<1>4. CASE LogLine
  <2> DEFINE line == Size + 1
             f == Append(files[mailLog], line)
  <2>1. files' = [files EXCEPT ![mailLog] = f] /\ writing' = writing
    BY <1>1, <1>4 DEF LogLine, Size
  <2>2. /\ f \in Seq(Nat) /\ Len(f) = Len(files[mailLog]) + 1
        /\ \A j \in 1 .. Len(files[mailLog]) : f[j] = files[mailLog][j]
    <3>1. line \in Nat
      BY DEF TailInv, LogsOK
    <3> HIDE DEF line
    <3> QED  BY <1>1, <3>1, AppendProperties
  <2> HIDE DEF f
  <2>3. /\ files' \in Seq(Seq(Nat)) /\ mailLog' = mailLog
        /\ \A a \in 1 .. mailLog : files'[a] = IF a = mailLog THEN f ELSE files[a]
    BY <1>1, <2>1, <2>2, ExceptSeq
  <2>4. /\ \A a \in 1 .. mailLog : a < mailLog => files'[a] = files[a]
        /\ \A a \in 1 .. mailLog : \A j \in 1 .. Len(files[a]) : files'[a][j] = files[a][j]
        /\ \A a \in 1 .. mailLog : Len(files[a]) <= Len(files'[a])
    <3>1. ASSUME NEW a \in 1 .. mailLog, a < mailLog PROVE files'[a] = files[a]
      BY <1>1, <2>3, <3>1
    <3>2. ASSUME NEW a \in 1 .. mailLog
          PROVE  /\ Len(files[a]) <= Len(files'[a])
                 /\ \A j \in 1 .. Len(files[a]) : files'[a][j] = files[a][j]
      <4>1. CASE a = mailLog
        <5>1. files'[a] = f /\ files[a] = files[mailLog] /\ Len(files[a]) \in Nat
          BY <1>1, <2>3, <4>1
        <5> QED  BY <2>2, <5>1
      <4>2. CASE a # mailLog
        BY <1>1, <2>3, <4>2
      <4> QED  BY <4>1, <4>2
    <3> QED  BY <3>1, <3>2
  <2>5. \A p \in 1 .. mailLog : \A n \in Nat :
          n <= Len(files[p]) /\ Read(p, n) => ReadUpTo(files', ever, p, n)
    <3>1. Len(files) <= Len(files')
      BY <1>1, <2>3
    <3> QED  BY <1>1, <2>3, <2>4, <3>1, ReadGrown DEF Read
  <2>6. Read(tailed, offset)'
    <3>1. offset \in Nat /\ offset <= Len(files[tailed])
      BY <1>1, <1>3
    <3> QED  BY <1>2, <1>3, <2>5, <3>1 DEF Read
  <2>7. CheckpointOK'
    <3>1. saved.at > 0 => /\ saved.file \in 1 .. mailLog
                          /\ saved.at <= Len(files[saved.file])
                          /\ ReadUpTo(files', ever, saved.file, saved.at)
      BY <1>1, <2>5 DEF CheckpointOK
    <3>2. saved.at > 0 => saved.at <= Len(files'[saved.file])
      <4>1. \A a \in 1 .. mailLog : Len(files'[a]) \in Nat
        BY <2>3, LenProperties
      <4> QED  BY <1>1, <2>4, <3>1, <4>1
    <3> QED  BY <1>2, <2>3, <3>1, <3>2 DEF CheckpointOK, Read, Booting
  <2>8. PlaceOK'
    <3>1. tailed = mailLog \/ Len(files[mailLog]) + 1 < offset
      BY <1>4 DEF LogLine, Gentle
    <3>2. CASE tailed = mailLog
      BY <1>2, <2>3, <2>6, <3>2 DEF PlaceOK
    <3>3. CASE tailed # mailLog
      <4>1. phase = "idle" /\ tailed = mailLog - 1 /\ offset = Len(files[tailed])
        BY <1>1, <1>2, <3>3 DEF PlaceOK
      <4>2. files'[tailed] = files[tailed] /\ Len(files'[mailLog]) < offset
        BY <1>1, <1>3, <2>2, <2>3, <3>1, <3>3
      <4> QED  BY <1>2, <2>3, <2>6, <4>1, <4>2 DEF PlaceOK
    <3> QED  BY <3>2, <3>3
  <2> QED  BY <1>1, <1>2, <2>1, <2>3, <2>7, <2>8 DEF GentleInv, BootOK, Booting
<1>5. CASE Rotate
  <2>1. /\ phase = "idle" /\ tailed = mailLog /\ offset = Len(files[mailLog])
        /\ files' = Append(files, <<>>) /\ writing' = mailLog + 1
    BY <1>5 DEF Rotate, Gentle
  <2>2. /\ files' \in Seq(Seq(Nat)) /\ mailLog' = mailLog + 1
        /\ \A a \in 1 .. mailLog : files'[a] = files[a]
        /\ files'[mailLog + 1] = <<>>
    <3>1. <<>> \in Seq(Nat)
      OBVIOUS
    <3> QED  BY <1>1, <2>1, <3>1, AppendProperties
  <2>3. \A p \in 1 .. mailLog : \A n \in Nat :
          n <= Len(files[p]) /\ Read(p, n) => ReadUpTo(files', ever, p, n)
    <3>1. Len(files) <= Len(files')
      BY <1>1, <2>2
    <3>2. \A a \in 1 .. Len(files) : \A j \in 1 .. Len(files[a]) :
            files'[a][j] = files[a][j]
      BY <2>2
    <3> QED  BY <1>1, <2>2, <3>1, <3>2, ReadGrown DEF Read
  <2>4. Read(tailed, offset)'
    <3>1. offset \in Nat /\ offset <= Len(files[tailed])
      BY <1>1, <1>3
    <3> QED  BY <1>2, <1>3, <2>3, <3>1 DEF Read
  <2>5. CheckpointOK'
    <3>1. saved.at > 0 => /\ saved.file \in 1 .. mailLog
                          /\ saved.at <= Len(files[saved.file])
                          /\ ReadUpTo(files', ever, saved.file, saved.at)
      BY <1>1, <2>3 DEF CheckpointOK
    <3>2. saved.at > 0 => /\ saved.file \in 1 .. mailLog'
                          /\ saved.at <= Len(files'[saved.file])
      <4>1. 1 .. mailLog \subseteq 1 .. mailLog'
        BY <1>1, <2>2
      <4> QED  BY <2>2, <3>1, <4>1
    <3> QED  BY <1>2, <3>1, <3>2 DEF CheckpointOK, Read, Booting
  <2>6. PlaceOK'
    <3>1. tailed = mailLog' - 1 /\ offset = Len(files'[tailed]) /\ Len(files'[mailLog']) = 0
      BY <1>1, <2>1, <2>2
    <3> QED  BY <1>2, <2>1, <2>4, <3>1 DEF PlaceOK
  <2> QED  BY <1>2, <2>1, <2>2, <2>5, <2>6 DEF GentleInv, BootOK, Booting
<1> QED  BY <1>4, <1>5

\* The files stand, and more may have been handed on.
LEMMA PlacesStand ==
  ASSUME UNCHANGED files, ever \subseteq ever'
  PROVE  /\ \A p, n : Read(p, n) => ReadUpTo(files', ever', p, n)
         /\ mailLog' = mailLog
BY ReadMore DEF Read

\* A start parses from the oldest file on, or resumes where all was read.
LEMMA BootGentle ==
  ASSUME TailInv, GentleInv, BringUp \/ DiscoverLogFiles \/ ParseFile \/ StatLog
  PROVE  GentleInv'
<1>1. /\ files \in Seq(Seq(Nat)) /\ mailLog \in Nat /\ mailLog >= 1 /\ writing = mailLog
      /\ \A a \in 1 .. mailLog : files[a] \in Seq(Nat) /\ Len(files[a]) \in Nat
      /\ saved.at \in Nat /\ CheckpointOK /\ BootOK
  BY GentleParts
<1>2. UNCHANGED <<files, writing, saved>> /\ ever \subseteq ever' /\ Booting
  BY DEF BringUp, DiscoverLogFiles, ParseFile, StatLog, logs, Booting
<1>3. /\ \A p, n : Read(p, n) => ReadUpTo(files', ever', p, n)
      /\ mailLog' = mailLog
  BY <1>2, PlacesStand
<1>4. CheckpointOK'
  BY <1>1, <1>2, <1>3 DEF CheckpointOK, Read
<1>5. CASE BringUp
  <2>1. CASE phase' = "idle" /\ saved.at > 0 /\ offset' = saved.at /\ tailed' = mailLog
    <3>1. Read(mailLog, saved.at)
      BY <1>1, <1>2, <2>1 DEF CheckpointOK
    <3>2. Read(tailed, offset)'
      BY <1>3, <2>1, <3>1 DEF Read
    <3> QED  BY <1>1, <1>2, <1>3, <1>4, <2>1, <3>2
             DEF GentleInv, BootOK, PlaceOK, Booting
  <2>2. CASE phase' = "list"
    BY <1>1, <1>2, <1>3, <1>4, <2>2 DEF GentleInv, BootOK, PlaceOK, Booting
  <2> QED  BY <1>5, <2>1, <2>2 DEF BringUp, ResumeOffset
<1>6. CASE DiscoverLogFiles
  <2>1. phase' = "parse" /\ todo' = mailLog
    BY <1>6 DEF DiscoverLogFiles
  <2>2. Read(mailLog - todo + 1, 0)'
    <3>1. mailLog' - todo' + 1 = 1
      BY <1>1, <1>3, <2>1
    <3>2. ReadUpTo(files', ever', 1, 0)
      BY DEF ReadUpTo
    <3> QED  BY <3>1, <3>2 DEF Read
  <2> QED  BY <1>1, <1>2, <1>3, <1>4, <2>1, <2>2 DEF GentleInv, BootOK, PlaceOK, Booting
<1>7. CASE ParseFile
  <2> DEFINE p == mailLog - (todo - 1)
  <2>1. /\ phase = "parse" /\ todo \in 1 .. mailLog /\ p \in 1 .. mailLog
        /\ p = mailLog - todo + 1
        /\ Read(p, 0) /\ ever' = ever \cup ToSet(files[p]) /\ todo' = todo - 1
        /\ phase' = IF todo = 1 THEN "stat" ELSE "parse"
    <3>1. phase = "parse" /\ todo \in 1 .. mailLog
      BY <1>7, GentleParts DEF ParseFile
    <3>2. p = mailLog - todo + 1 /\ p \in 1 .. mailLog
      BY <1>1, <3>1
    <3>3. Read(p, 0)
      BY <1>1, <3>1, <3>2 DEF BootOK
    <3> QED  BY <1>7, <3>1, <3>2, <3>3 DEF ParseFile
  <2> HIDE DEF p
  <2>2. ASSUME NEW b \in 1 .. mailLog, NEW j \in 1 .. Len(files[b]), b <= p
        PROVE  files[b][j] \in ever'
    <3>1. CASE b < p
      BY <1>2, <2>1, <2>2, <3>1 DEF Read, ReadUpTo
    <3>2. CASE b = p
      <4>1. files[p][j] \in ToSet(files[p])
        BY <1>1, <2>1, <2>2, <3>2 DEF ToSet
      <4> QED  BY <2>1, <3>2, <4>1
    <3> QED  BY <2>1, <2>2, <3>1, <3>2
  <2>3. CASE todo = 1
    <3>1. p = mailLog
      BY <1>1, <2>1, <2>3
    <3>2. Read(mailLog, Len(files[mailLog]))'
      BY <1>1, <1>2, <2>2, <3>1 DEF Read, ReadUpTo
    <3> QED  BY <1>1, <1>2, <1>3, <1>4, <2>1, <2>3, <3>2
             DEF GentleInv, BootOK, PlaceOK, Booting
  <2>4. CASE todo # 1
    <3>1. mailLog' - todo' + 1 = p + 1
      BY <1>1, <1>3, <2>1
    <3>2. ReadUpTo(files', ever', p + 1, 0)
      <4> SUFFICES ASSUME NEW b \in 1 .. mailLog, NEW j \in 1 .. Len(files[b]),
                          b < p + 1 \/ (b = p + 1 /\ j <= 0)
                   PROVE  files[b][j] \in ever'
        BY <1>2 DEF ReadUpTo
      <4>1. b <= p
        BY <1>1, <2>1
      <4> QED  BY <2>2, <4>1
    <3>3. Read(mailLog - todo + 1, 0)'
      BY <3>1, <3>2 DEF Read
    <3> QED  BY <1>1, <1>2, <1>3, <1>4, <2>1, <2>4, <3>3
             DEF GentleInv, BootOK, PlaceOK, Booting
  <2> QED  BY <2>3, <2>4
<1>8. CASE StatLog
  <2>1. /\ phase = "stat" /\ phase' = "idle" /\ tailed' = mailLog
        /\ offset' = Len(files[mailLog])
    BY <1>8 DEF StatLog, StatOffset
  <2>2. Read(tailed, offset)'
    BY <1>1, <1>3, <2>1 DEF BootOK, Read
  <2> QED  BY <1>1, <1>2, <1>3, <1>4, <2>1, <2>2 DEF GentleInv, BootOK, PlaceOK, Booting
<1> QED  BY <1>5, <1>6, <1>7, <1>8

\* A file that is smaller than the offset is the next one; one that is not is
\* read on from where the tail stands.
LEMMA TickGentle ==
  ASSUME TailInv, GentleInv, TickStat \/ TickOpen \/ TickRead \/ TickEnd
  PROVE  GentleInv'
<1>1. /\ files \in Seq(Seq(Nat)) /\ mailLog \in Nat /\ mailLog >= 1 /\ writing = mailLog
      /\ \A a \in 1 .. mailLog : files[a] \in Seq(Nat) /\ Len(files[a]) \in Nat
      /\ saved.at \in Nat /\ CheckpointOK
  BY GentleParts
<1>2. UNCHANGED <<files, writing, saved>> /\ ever \subseteq ever' /\ ~Booting /\ ~Booting'
  BY DEF TickStat, TickOpen, TickRead, TickEnd, logs, Booting
<1>3. /\ \A p, n : Read(p, n) => ReadUpTo(files', ever', p, n)
      /\ mailLog' = mailLog
  BY <1>2, PlacesStand
<1>4. CheckpointOK' /\ BootOK'
  BY <1>1, <1>2, <1>3 DEF CheckpointOK, BootOK, Read, Booting
<1>5. /\ tailed \in 1 .. mailLog /\ offset \in 0 .. Len(files[tailed])
      /\ Read(tailed, offset)
      /\ \/ tailed = mailLog
         \/ /\ phase = "idle" /\ tailed = mailLog - 1 /\ offset = Len(files[tailed])
            /\ Len(files[mailLog]) < offset \/ Len(files[mailLog]) = 0
  BY <1>2, GentleParts DEF PlaceOK
<1>6. PlaceOK'
  <2>1. CASE TickStat /\ Len(files[mailLog]) < offset
    <3>1. phase = "idle" /\ phase' \in {"idle", "open"} /\ offset' = 0 /\ tailed' = mailLog
      BY <2>1 DEF TickStat, Rotated
    <3>2. tailed = mailLog - 1 /\ offset = Len(files[tailed])
      BY <1>1, <1>5, <2>1
    <3>3. Read(mailLog, 0)
      <4> SUFFICES ASSUME NEW b \in 1 .. mailLog, NEW j \in 1 .. Len(files[b]),
                          b < mailLog \/ (b = mailLog /\ j <= 0)
                   PROVE  files[b][j] \in ever
        BY DEF Read, ReadUpTo
      <4>1. b < mailLog
        <5>1. Len(files[b]) \in Nat
          BY <1>1
        <5> QED  BY <5>1
      <4>2. b < tailed \/ b = tailed
        BY <1>1, <3>2, <4>1
      <4>3. b = tailed => j <= offset
        BY <3>2
      <4> QED  BY <1>5, <4>2, <4>3 DEF Read, ReadUpTo
    <3>4. Read(tailed, offset)'
      BY <1>3, <3>1, <3>3 DEF Read
    <3> QED  BY <1>3, <3>1, <3>4 DEF PlaceOK
  <2>2. CASE TickStat /\ ~(Len(files[mailLog]) < offset)
    <3>1. /\ phase = "idle" /\ offset' = offset /\ tailed' = tailed
          /\ phase' = IF Len(files[mailLog]) = offset THEN "idle" ELSE "open"
      BY <2>2 DEF TickStat, Rotated
    <3>2. tailed # mailLog => phase' = "idle"
      BY <1>1, <1>5, <2>2, <3>1
    <3>3. Read(tailed, offset)'
      BY <1>3, <1>5, <3>1 DEF Read
    <3> QED  BY <1>2, <1>3, <1>5, <3>1, <3>2, <3>3 DEF PlaceOK
  <2>3. CASE TickOpen \/ TickEnd
    <3>1. phase # "idle" /\ UNCHANGED <<offset, tailed>>
      BY <2>3 DEF TickOpen, TickEnd
    <3>2. Read(tailed, offset)'
      BY <1>3, <1>5, <3>1 DEF Read
    <3> QED  BY <1>3, <1>5, <3>1, <3>2 DEF PlaceOK
  <2>4. CASE TickRead
    <3>1. /\ phase = "read" /\ fd = tailed /\ tailed = mailLog
          /\ offset' = offset + 1 /\ tailed' = fd
          /\ ever' = ever \cup {files[fd][offset + 1]}
      <4>1. phase = "read" /\ tailed = mailLog /\ fd \in tailed .. mailLog
        BY <1>5, <2>4 DEF TickRead, TailInv, TailOK
      <4>2. fd = tailed
        BY <1>1, <4>1
      <4> QED  BY <2>4, <4>1, <4>2 DEF TickRead
    <3>2. Read(tailed, offset)'
      <4> SUFFICES ASSUME NEW b \in 1 .. mailLog, NEW j \in 1 .. Len(files[b]),
                          b < tailed \/ (b = tailed /\ j <= offset + 1)
                   PROVE  files[b][j] \in ever'
        BY <1>2, <3>1 DEF Read, ReadUpTo
      <4>1. CASE j = offset + 1 /\ b = tailed
        BY <3>1, <4>1
      <4>2. CASE b < tailed \/ (b = tailed /\ j <= offset)
        BY <1>2, <1>5, <4>2 DEF Read, ReadUpTo
      <4>3. j \in Nat /\ offset \in Nat
        BY <1>1, <1>5
      <4> QED  BY <4>1, <4>2, <4>3
    <3> QED  BY <1>3, <3>1, <3>2 DEF PlaceOK
  <2> QED  BY <2>1, <2>2, <2>3, <2>4
<1> QED  BY <1>1, <1>2, <1>3, <1>4, <1>6 DEF GentleInv

LEMMA GentleStep == TailInv /\ Gentle /\ GentleInv /\ [Next]_vars => GentleInv'
<1> SUFFICES ASSUME TailInv, Gentle, GentleInv, [Next]_vars PROVE GentleInv'
  OBVIOUS
<1>1. /\ mailLog \in Nat /\ saved.at \in Nat /\ writing = mailLog
      /\ ~Booting => tailed \in 1 .. mailLog /\ offset \in 0 .. Len(files[tailed])
      /\ \A a \in 1 .. mailLog : Len(files[a]) \in Nat
      /\ CheckpointOK /\ BootOK /\ PlaceOK
  BY GentleParts
<1>2. CASE LogLine \/ Rotate
  BY <1>2, LogGentle
<1>3. CASE Watch
  BY <1>3, BootGentle, TickGentle DEF Watch
<1>4. CASE Reopen
  BY <1>1, <1>4 DEF Reopen
<1>5. CASE SaveCheckpoint
  <2>1. /\ ~Booting /\ saved' = [at |-> offset, file |-> tailed]
        /\ UNCHANGED <<files, writing, phase, todo, offset, tailed, ever>>
    BY <1>5 DEF SaveCheckpoint, logs, tail
  <2>2. saved'.at = offset /\ saved'.file = tailed
    BY <2>1
  <2>3. CheckpointOK'
    <3>1. tailed \in 1 .. mailLog /\ offset <= Len(files[tailed]) /\ Read(tailed, offset)
      BY <1>1, <2>1 DEF PlaceOK
    <3> QED  BY <2>1, <2>2, <3>1 DEF CheckpointOK, Read, Booting
  <2> QED  BY <1>1, <2>1, <2>3 DEF GentleInv, BootOK, PlaceOK, Read, Booting
<1>6. CASE Crash
  <2>1. /\ phase' = "start" /\ UNCHANGED <<files, writing, ever, saved>>
        /\ saved.at = 0 \/ saved.file = mailLog
    BY <1>6 DEF Crash, Gentle, logs
  <2> QED  BY <1>1, <2>1 DEF GentleInv, CheckpointOK, BootOK, PlaceOK, Read, Booting
<1>7. CASE UNCHANGED vars
  BY <1>1, <1>7 DEF vars, logs, tail, GentleInv, CheckpointOK, BootOK, PlaceOK, Read, Booting
<1> QED  BY <1>2, <1>3, <1>4, <1>5, <1>6, <1>7 DEF Next

\* A mail.log as long as the offset is the file the tail stands in, or both it
\* and the one before are empty.
LEMMA NothingIsLeft == TailInv /\ GentleInv => NothingLeftBehind
<1> SUFFICES ASSUME TailInv, GentleInv, phase = "idle", offset = Len(files[mailLog]),
                    NEW l \in Logged
             PROVE  l \in ever
  BY DEF NothingLeftBehind
<1>1. /\ files \in Seq(Seq(Nat)) /\ mailLog \in Nat
      /\ \A a \in 1 .. mailLog : Len(files[a]) \in Nat
      /\ tailed \in 1 .. mailLog /\ Read(tailed, offset)
      /\ \/ tailed = mailLog
         \/ /\ tailed = mailLog - 1 /\ offset = Len(files[tailed])
            /\ Len(files[mailLog]) = 0
  BY GentleParts DEF PlaceOK, Booting
<1>2. PICK b \in 1 .. mailLog : \E j \in 1 .. Len(files[b]) : l = files[b][j]
  <2>1. \A x : x \in Logged <=>
               \E a \in 1 .. mailLog : \E i \in 1 .. Len(files[a]) : x = files[a][i]
    BY <1>1, LoggedLines DEF Logged
  <2> QED  BY <2>1
<1>3. PICK j \in 1 .. Len(files[b]) : l = files[b][j]
  BY <1>2
<1>4. b < tailed \/ (b = tailed /\ j <= offset)
  <2>1. CASE tailed = mailLog
    <3>1. b = tailed => j <= offset
      BY <2>1
    <3> QED  BY <1>1, <2>1, <3>1
  <2>2. CASE /\ tailed = mailLog - 1 /\ offset = Len(files[tailed])
             /\ Len(files[mailLog]) = 0
    <3>1. b # mailLog
      BY <1>1, <2>2
    <3>2. b = tailed => j <= offset
      BY <2>2
    <3>3. b < tailed \/ b = tailed
      BY <1>1, <2>2, <3>1
    <3> QED  BY <3>2, <3>3
  <2> QED  BY <1>1, <2>1, <2>2
<1> QED  BY <1>1, <1>3, <1>4 DEF Read, ReadUpTo

\* Whenever tick finds nothing to read, nothing that was logged is left: not at
\* the end of a renamed file, not between boot and tail, not before the
\* checkpoint, if boot, rotations and restarts come at gentle moments.
THEOREM NothingIsLeftBehind == Spec => []NothingLeftBehind
<1>1. [Next]_vars => (Gentle' <=> Gentle)
  BY DEF Next, Watch, LogLine, Rotate, Reopen, BringUp, DiscoverLogFiles, ParseFile,
     StatLog, TickStat, TickOpen, TickRead, TickEnd, SaveCheckpoint, Crash, vars, Gentle
<1>2. TailInv /\ (Gentle => GentleInv) /\ [Next]_vars => TailInv' /\ (Gentle => GentleInv)'
  BY <1>1, TailStep, GentleStep
<1>3. TailInv /\ (Gentle => GentleInv) => NothingLeftBehind
  BY NothingIsLeft DEF NothingLeftBehind
<1> QED  BY <1>2, <1>3, TailInit, GentleInit, PTL DEF Spec
=============================================================================
