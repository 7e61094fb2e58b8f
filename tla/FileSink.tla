------------------------------ MODULE FileSink ------------------------------
(***************************************************************************)
(* A log file (log/file_sink.h on spdlog's file_helper).  The path has the *)
(* hour in it; a file that would become larger than max_size_ is closed    *)
(* and renamed, and those before it too, up to max_rotation_ of them.  The *)
(* clock is read anew for every name, system calls may fail, which throws, *)
(* and the process may end anywhere and be started again.                  *)
(***************************************************************************)
EXTENDS Integers, Sequences, SequencesExt, Folds

CONSTANTS
  max_size, max_rotation,
  Sizes,       \* of messages
  MaxHour,     \* bound: hours
  MaxMsgs      \* bound: messages

VARIABLES
  hour,
  files,         \* content by hour and index; Absent when there is no such file
  current_path,  \* the hour of current_path_
  filename,      \* the hour of file_helper's _filename
  fd,            \* file_helper's file is open
  current_size,
  job,           \* what _sink_it() is doing
  calls,         \* messages given to the sink
  logged,        \* the messages written, by hour of the path
  late,          \* an hour passed while files were renamed
  unopened,      \* a file for a new hour could not be opened
  emptied,       \* hours whose file was truncated by a rotation of another hour's files
  crashed        \* a message was written to a file that is not open

sinkVars == <<hour, files, current_path, filename, fd, current_size, job, calls, logged, late, unopened,
              emptied, crashed>>

Hours == 1 .. MaxHour
Absent == <<[number |-> 0, size |-> 0]>>
Idle == [at |-> "idle", msg |-> Head(Absent), i |-> 0]
Down == [Idle EXCEPT !.at = "down"]
\* file_helper::size()
SizeOf(content) == MapThenFoldSet(+, 0, LAMBDA i : content[i].size, LAMBDA s : CHOOSE i \in s : TRUE, DOMAIN content)

Init ==
  /\ hour = 1 /\ files = [h \in Hours, i \in 0 .. max_rotation |-> Absent]
  /\ current_path = 0 /\ filename = 0 /\ fd = FALSE /\ current_size = 0 /\ job = Down
  /\ calls = 0 /\ logged = [h \in Hours |-> <<>>]
  /\ late = FALSE /\ unopened = FALSE /\ emptied = {} /\ crashed = FALSE
-----------------------------------------------------------------------------
\* The constructor opens the file at its end.
Start ==
  /\ job = Down /\ ~crashed /\ job' = Idle
  /\ current_path' = hour /\ filename' = hour /\ fd' = TRUE
  /\ \E old \in {IF files[hour, 0] = Absent THEN <<>> ELSE files[hour, 0]} :
       files' = [files EXCEPT ![<<hour, 0>>] = old] /\ current_size' = SizeOf(old)
  /\ UNCHANGED <<hour, calls, logged, late, unopened, emptied, crashed>>

\* file_helper::write(), the end of _sink_it()
WriteTo(content, name, msg, open) ==
  IF open
  THEN /\ files' = [content EXCEPT ![<<name, 0>>] = Append(@, msg)]
       /\ logged' = [logged EXCEPT ![name] = Append(@, msg)]
       /\ UNCHANGED crashed
  ELSE crashed' = TRUE /\ files' = content /\ UNCHANGED logged

\* The size decides between the write and a rotation.
WriteOrRotate(content, name, msg, open, size) ==
  /\ current_path' = hour /\ filename' = name /\ current_size' = size + msg.size
  /\ IF size + msg.size > max_size
     THEN /\ fd' = FALSE /\ job' = [at |-> "rotate", msg |-> msg, i |-> max_rotation]
          /\ files' = content /\ UNCHANGED <<logged, crashed>>
     ELSE /\ fd' = open /\ WriteTo(content, name, msg, open) /\ job' = (IF open THEN Idle ELSE Down)

\* ensure_directory() throws: file_helper has closed the old file and still has
\* its name, the path is the new one.
DirectoryFails ==
  /\ current_path' = hour /\ fd' = FALSE /\ unopened' = TRUE
  /\ UNCHANGED <<files, filename, current_size, job, logged, crashed>>

\* open() throws, after it has taken the new name.
OpenFails ==
  /\ current_path' = hour /\ filename' = hour /\ fd' = FALSE /\ unopened' = TRUE
  /\ UNCHANGED <<files, current_size, job, logged, crashed>>

\* _sink_it() up to rotate(): a new hour has a new file, which is truncated.
Log(size) ==
  /\ job = Idle /\ calls < MaxMsgs /\ calls' = calls + 1
  /\ \E msg \in {[number |-> calls + 1, size |-> size]} :
       \/ /\ hour # current_path
          /\ WriteOrRotate([files EXCEPT ![<<hour, 0>>] = <<>>], hour, msg, TRUE, 0)
          /\ UNCHANGED unopened
       \/ hour # current_path /\ DirectoryFails
       \/ hour # current_path /\ OpenFails
       \/ /\ hour = current_path
          /\ WriteOrRotate(files, filename, msg, fd, current_size)
          /\ UNCHANGED unopened
  /\ UNCHANGED <<hour, late, emptied>>

\* Mutant: the files are renamed from the first on.
SourceUp(i) == max_rotation - i

Source(i) == i - 1

\* The name of a file, from the hour at which it is asked for
real_path(h, index) == <<h, index>>

\* One turn of the loop of rotate().  The hour may pass between the two names,
\* and remove() or rename() may fail.
Rotate(passes) ==
  /\ job.at = "rotate" /\ job.i > 0
  /\ hour + passes <= MaxHour /\ hour' = hour + passes
  /\ late' = (late \/ passes = 1)
  /\ \E src \in {real_path(hour, Source(job.i))}, dst \in {real_path(hour + passes, Source(job.i) + 1)} :
       \/ /\ files' = IF files[src] = Absent THEN [files EXCEPT ![dst] = Absent]
                      ELSE [files EXCEPT ![dst] = files[src], ![src] = Absent]
          /\ job' = [job EXCEPT !.i = @ - 1]
       \/ files[dst] # Absent /\ job' = Idle /\ UNCHANGED files                     \* remove() fails
       \/ files[src] # Absent /\ job' = Idle /\ files' = [files EXCEPT ![dst] = Absent]  \* rename() fails
  /\ UNCHANGED <<current_path, filename, fd, current_size, calls, logged, unopened, emptied, crashed>>

\* reopen(true) of the file that was open last, which after DirectoryFails is
\* not the one that was renamed, and the message.
Reopen ==
  /\ job.at = "rotate" /\ job.i = 0
  /\ fd' = TRUE /\ current_size' = job.msg.size /\ job' = Idle
  /\ WriteTo([files EXCEPT ![<<filename, 0>>] = <<>>], filename, job.msg, TRUE)
  /\ emptied' = (IF filename = current_path THEN emptied ELSE emptied \cup {filename})
  /\ UNCHANGED <<hour, current_path, filename, calls, late, unopened>>

ReopenFails ==
  /\ job.at = "rotate" /\ job.i = 0 /\ job' = Idle
  /\ UNCHANGED <<hour, files, current_path, filename, fd, current_size, calls, logged, late, unopened, emptied, crashed>>

HourPasses ==
  /\ hour < MaxHour /\ hour' = hour + 1
  /\ late' = (late \/ job.at = "rotate")
  /\ UNCHANGED <<files, current_path, filename, fd, current_size, job, calls, logged, unopened, emptied, crashed>>

\* The process ends, wherever it is.
End ==
  /\ job # Down /\ job' = Down /\ fd' = FALSE
  /\ UNCHANGED <<hour, files, current_path, filename, current_size, calls, logged, late, unopened, emptied, crashed>>

Next ==
  \/ Start \/ Reopen \/ ReopenFails \/ HourPasses \/ End
  \/ \E size \in Sizes : Log(size)
  \/ \E passes \in {0, 1} : Rotate(passes)
-----------------------------------------------------------------------------
\* The files of an hour, the oldest first
Kept(h) == FlattenSeq([k \in 1 .. max_rotation + 1 |->
                         IF files[h, max_rotation + 1 - k] = Absent THEN <<>> ELSE files[h, max_rotation + 1 - k]])

\* The files of an hour hold the last of its messages, in order and without a
\* gap, whatever fails in a rotation or ends it, unless the hour passed in the
\* middle of one: then the names are those of the new hour, nothing is renamed
\* and the open file is truncated.  The file of an earlier hour is also lost
\* when ensure_directory() threw and a rotation comes next: reopen() has the
\* earlier name, and what is logged from then on goes there too.  A file is
\* larger than max_size_ only with a single message.  A message is written to
\* a closed file, which ends the process, only after a file for a new hour
\* could not be opened, and an earlier hour's file is emptied only then.
LogKept ==
  /\ ~late => \A h \in Hours \ emptied : IsSuffix(Kept(h), logged[h])
  /\ emptied # {} => unopened
  /\ \A h \in Hours, i \in 0 .. max_rotation :
       Len(files[h, i]) > 1 => SizeOf(files[h, i]) <= max_size
  /\ crashed => unopened
=============================================================================
