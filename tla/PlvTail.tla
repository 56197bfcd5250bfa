------------------------------- MODULE PlvTail -------------------------------
(***************************************************************************)
(* Which lines of mail.log reach the parser: the parse at boot, the tail   *)
(* after it, and the log files under them.  logrotate renames mail.log and *)
(* creates a new one; syslogd goes on writing to the old file until it is  *)
(* told to reopen.  PLV keeps a single number, the offset, and finds out   *)
(* about a rotation by a file that is smaller than the offset.             *)
(*                                                                         *)
(* Lines are numbered in the order they are logged, offsets count lines.   *)
(***************************************************************************)
EXTENDS Naturals, Sequences, FiniteSets, SequencesExt

CONSTANTS
  MaxLines, MaxFiles, MaxCrashes,  \* bounds on what happens
  Forwarder,     \* a forwarder resumes at its checkpoint
  Surroundings   \* the values of gentle to look at

ASSUME TailAssumption ==
  /\ MaxLines \in Nat /\ MaxFiles \in Nat \ {0} /\ MaxCrashes \in Nat
  /\ Forwarder \in BOOLEAN
  /\ Surroundings \subseteq SUBSET {"boot", "rotation", "restart"}

VARIABLES
  files,      \* the files in the order they were mail.log; the last one is
  writing,    \* the file syslogd has open
  phase,      \* what the watcher is at
  todo,       \* boot: how many of the names found are still to be parsed
  offset,     \* Watcher.offset
  fd,         \* the file tick has open
  tailed,     \* the file whose lines offset counts
  processed,  \* the lines handed on since the start of the process
  ever,       \* the lines handed on by any process
  saved,      \* forward-state.json: an offset (.at), and the file it counts in,
              \*   which PLV does not save
  crashes,
  gentle      \* what the surroundings spare PLV: nothing happens to the log
              \*   during "boot"; a "rotation" is at once, comes when the tail
              \*   has caught up, and the new file stays small until it is seen;
              \*   a "restart" finds the mail.log that the checkpoint counts in

logs == <<files, writing>>
tail == <<phase, todo, offset, fd, tailed>>
vars == <<logs, tail, processed, ever, saved, crashes, gentle>>

mailLog == Len(files)
Logged  == UNION {ToSet(files[i]) : i \in DOMAIN files}
Booting == phase \in {"start", "list", "parse", "stat"}
-----------------------------------------------------------------------------
(* The log.                                                                *)

LogLine ==
  /\ Cardinality(Logged) < MaxLines
  /\ "boot" \in gentle => ~Booting
  /\ "rotation" \in gentle => tailed = mailLog \/ Len(files[mailLog]) + 1 < offset
  /\ files' = [files EXCEPT ![writing] = Append(@, Cardinality(Logged) + 1)]
  /\ UNCHANGED <<writing, tail, processed, ever, saved, crashes, gentle>>

Rotate ==
  /\ mailLog < MaxFiles /\ writing = mailLog
  /\ "boot" \in gentle => ~Booting
  /\ "rotation" \in gentle =>
       phase = "idle" /\ tailed = mailLog /\ offset = Len(files[mailLog])
  /\ files' = Append(files, <<>>)
  /\ writing' = IF "rotation" \in gentle THEN mailLog + 1 ELSE writing
  /\ UNCHANGED <<tail, processed, ever, saved, crashes, gentle>>

Reopen ==
  /\ writing # mailLog
  /\ writing' = mailLog
  /\ UNCHANGED <<files, tail, processed, ever, saved, crashes, gentle>>

-----------------------------------------------------------------------------
(* bringUpParsing and parseAllLogs.                                        *)

BadResumeOffset == Len(files[mailLog])  \* what came in the meantime is skipped
ResumeOffset == saved.at

\* "A rotated/shrunk log": only one that shrank below the offset is noticed.
BringUp ==
  /\ phase = "start"
  /\ IF Forwarder /\ saved.at > 0 /\ Len(files[mailLog]) >= saved.at
     THEN /\ phase' = "idle"
          /\ offset' = ResumeOffset
          /\ tailed' = mailLog
     ELSE /\ phase' = "list"
          /\ UNCHANGED <<offset, tailed>>
  /\ UNCHANGED <<logs, todo, fd, processed, ever, saved, crashes, gentle>>

DiscoverLogFiles ==
  /\ phase = "list"
  /\ todo' = mailLog
  /\ phase' = "parse"
  /\ UNCHANGED <<logs, offset, fd, tailed, processed, ever, saved, crashes, gentle>>

\* The names are opened one after the other, mail.log last: n files behind
\* mail.log as it is when it is opened.
ParseFile ==
  /\ phase = "parse"
  /\ LET lines == files[mailLog - (todo - 1)]
     IN  processed' = processed \o lines /\ ever' = ever \cup ToSet(lines)
  /\ todo' = todo - 1
  /\ phase' = IF todo = 1 THEN "stat" ELSE phase
  /\ UNCHANGED <<logs, offset, fd, tailed, saved, crashes, gentle>>

BadStatOffset == 0  \* the tail starts at the top
StatOffset == Len(files[mailLog])

\* The tail starts at the size the file has by now.
StatLog ==
  /\ phase = "stat"
  /\ offset' = StatOffset
  /\ tailed' = mailLog
  /\ phase' = "idle"
  /\ UNCHANGED <<logs, todo, fd, processed, ever, saved, crashes, gentle>>

-----------------------------------------------------------------------------
(* Watcher.tick: stat, open, read to the end.                              *)

BadRotated(size) == FALSE  \* a smaller file is not noticed
Rotated(size) == size < offset

TickStat ==
  /\ phase = "idle"
  /\ LET size == Len(files[mailLog])
     IN  /\ offset' = IF Rotated(size) THEN 0 ELSE offset
         /\ tailed' = IF Rotated(size) THEN mailLog ELSE tailed
         /\ phase' = IF size = offset' THEN "idle" ELSE "open"
  /\ UNCHANGED <<logs, todo, fd, processed, ever, saved, crashes, gentle>>

TickOpen ==
  /\ phase = "open"
  /\ fd' = mailLog
  /\ phase' = "read"
  /\ UNCHANGED <<logs, todo, offset, tailed, processed, ever, saved, crashes, gentle>>

TickRead ==
  /\ phase = "read"
  /\ offset < Len(files[fd])
  /\ LET line == files[fd][offset + 1]
     IN  processed' = Append(processed, line) /\ ever' = ever \cup {line}
  /\ offset' = offset + 1
  /\ tailed' = fd
  /\ UNCHANGED <<logs, phase, todo, fd, saved, crashes, gentle>>

TickEnd ==
  /\ phase = "read"
  /\ offset >= Len(files[fd])
  /\ phase' = "idle"
  /\ UNCHANGED <<logs, todo, offset, fd, tailed, processed, ever, saved, crashes, gentle>>

-----------------------------------------------------------------------------
\* The receiver acknowledges what was sent at the present offset.
SaveCheckpoint ==
  /\ Forwarder /\ ~Booting
  /\ saved' = [at |-> offset, file |-> tailed]
  /\ UNCHANGED <<logs, tail, processed, ever, crashes, gentle>>

Crash ==
  /\ crashes < MaxCrashes /\ ~Booting
  /\ "restart" \in gentle => saved.at = 0 \/ saved.file = mailLog
  /\ crashes' = crashes + 1
  /\ phase' = "start"
  /\ offset' = 0
  /\ processed' = <<>>
  /\ UNCHANGED <<logs, todo, fd, tailed, ever, saved, gentle>>

Init ==
  /\ files \in {<<<<>>>>, <<<<1>>>>, <<<<1>>, <<2>>>>}
  /\ writing = Len(files)
  /\ phase = "start"
  /\ todo = 0 /\ offset = 0 /\ fd = 1 /\ tailed = Len(files)
  /\ processed = <<>> /\ ever = {}
  /\ saved = [at |-> 0, file |-> Len(files)]
  /\ crashes = 0
  /\ gentle \in Surroundings

Watch ==
  \/ BringUp \/ DiscoverLogFiles \/ ParseFile \/ StatLog
  \/ TickStat \/ TickOpen \/ TickRead \/ TickEnd

Next == LogLine \/ Rotate \/ Reopen \/ Watch \/ SaveCheckpoint \/ Crash

Spec == Init /\ [][Next]_vars

\* The watcher's goroutine keeps running and syslogd is told to reopen.
LiveSpec == Spec /\ WF_vars(Watch) /\ WF_vars(Reopen)
-----------------------------------------------------------------------------
(* Properties.                                                             *)

\* No line is handed on twice by one process, and none before an older one,
\* whatever rotations do and at whatever moment: a message's parts reach the
\* store in the order in which they were logged.
InOrderOnce ==
  \A i, j \in DOMAIN processed : i < j => processed[i] < processed[j]

\* "Parses all logs on startup, then live-tails mail.log for new entries":
\* every line that is logged is handed on.
EveryLineRead ==
  \A l \in 1 .. MaxLines : (l \in Logged) ~> (l \in ever)

\* What the code does keep of it: every line is handed on, by this process or
\* by an earlier one, if boot, rotations and restarts come at gentle moments.
Gentle == gentle = {"boot", "rotation", "restart"}
GentleLinesRead == Gentle => EveryLineRead

\* The same at each moment: whenever tick finds mail.log as long as its offset
\* and leaves it at that, no line of any file is left behind.
NothingLeftBehind ==
  Gentle /\ phase = "idle" /\ offset = Len(files[mailLog]) => Logged \subseteq ever
=============================================================================
