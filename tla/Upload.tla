--------------------------------- MODULE Upload ---------------------------------
(***************************************************************************)
(* One multipart upload: handle_multipart_streaming reads the body piece   *)
(* by piece, MultipartProcessor cuts it into files, IOTaskPool's thread    *)
(* appends to them.                                                        *)
(*                                                                         *)
(* The body is a sequence of units that the processor can tell apart, and  *)
(* a read may end after any of them: "crlf", "delim" (the boundary and its *)
(* dashes), the header of a part, the units of its data, and "end".        *)
(*                                                                         *)
(* Request.tla calls it: an upload starts when a header has announced it.  *)
(***************************************************************************)
EXTENDS Naturals, Sequences, SequencesExt, TLC

CONSTANTS
  File,      \* names of files
  Data,      \* units of data
  MaxData,   \* bound on the units of a part; a line break counts as one
  MaxParts   \* bound on the number of parts

Part == [file : File, data : UNION {[1..n -> Data \cup {"crlf"}] :
                                      n \in 0..MaxData}]

ASSUME UnitAssumption ==
  /\ (File \cup Data) \cap {"crlf", "delim", "end"} = {}
  /\ File \cap Data = {}
ASSUME BoundAssumption == MaxData \in Nat /\ MaxParts \in Nat

NoFile == ""

VARIABLES
  parts,       \* what the client sends
  content_length,  \* content_length
  received,    \* total_received
  phase,       \* where handle_multipart_streaming is; "header" before its call
  buffer,      \* buffer_
  state,       \* state_
  current,     \* current_filename_
  saved,       \* saved_filenames_
  tasks,       \* tasks_ of the pool
  notify,      \* addTask is between its critical section and notify_one
  worker,      \* the thread of the pool
  task,        \* the task it executes
  stop,        \* stop_
  disk,        \* external: the files
  failed,      \* history: a file could not be opened, its task was dropped
  swallowed    \* history: the search for the first boundary skipped a part

processor == <<buffer, state, current, saved>>
pool == <<tasks, notify, worker, task, stop>>
hist == <<failed, swallowed>>
reader == <<parts, content_length, received>>
upvars == <<reader, phase, processor, pool, disk, hist>>

boundary == <<"crlf", "delim">>
first_boundary == <<"delim">>

Unit == File \cup Data \cup {"crlf", "delim", "end"}

\* "late" is history: added when the thread of the pool had ended.
IOTask == [path : File, data : Seq(Unit), late : BOOLEAN]
NoTask == <<>>

\* The whole body, as browsers send it: no line break before the first boundary.
Body ==
  FoldLeft(LAMBDA body, p : body \o <<"crlf", p.file, "crlf", "crlf">>
                                 \o p.data \o boundary,
           first_boundary, parts)
  \o <<"end">>

UploadTypeOK ==
  /\ content_length \in Nat
  /\ received \in 0..Len(Body)
  /\ phase \in {"header", "read", "feed", "finish", "done"}
  /\ buffer \in Seq(Unit)
  /\ state \in {"FIND_BOUNDARY", "READ_PART_HEADER", "READ_PART_BODY"}
  /\ current \in File \cup {NoFile}
  /\ saved \in Seq(File)
  /\ tasks \in Seq(IOTask)
  /\ notify \in BOOLEAN
  /\ worker \in {"test", "asleep", "execute", "gone"}
  /\ task = NoTask \/ task \in IOTask
  /\ stop \in BOOLEAN
  /\ disk \in [File -> Seq(Unit)]
  /\ failed \in BOOLEAN
  /\ swallowed \in BOOLEAN

UploadInit ==
  /\ parts \in UNION {[1..n -> Part] : n \in 0..MaxParts}
  /\ content_length = 0
  /\ received = 0
  /\ phase = "header"
  /\ buffer = <<>>
  /\ state = "FIND_BOUNDARY"
  /\ current = NoFile
  /\ saved = <<>>
  /\ tasks = <<>>
  /\ notify = FALSE
  /\ worker = "test"
  /\ task = NoTask
  /\ stop = FALSE
  /\ disk = [f \in File |-> <<>>]
  /\ failed = FALSE
  /\ swallowed = FALSE

-----------------------------------------------------------------------------
\* std::string::find, from 0; -1 is npos.
Places(s, t) ==
  {i \in 0..Len(s) : i + Len(t) <= Len(s) /\ SubSeq(s, i + 1, i + Len(t)) = t}
Found(s, t) == Places(s, t) # {}
Find(s, t) == CHOOSE i \in Places(s, t) : \A j \in Places(s, t) : i <= j
Erase(s, n) == SubSeq(s, n + 1, Len(s))

\* Faulty: nothing is kept back, a boundary may be cut in two.
Safe_all(s) == Len(s)

\* How much of the buffer can be let go while no boundary is in it: all but the
\* length of a boundary.
Safe(s) == IF Len(s) > Len(boundary) THEN Len(s) - Len(boundary) ELSE 0

\* Faulty: what was read along with the header is not fed to the processor.
Starts_skipping(n) ==
  /\ phase = "header"
  /\ received' = n
  /\ phase' = "read"
  /\ UNCHANGED <<parts, processor, pool, disk, hist>>

\* The call, when n units of the body were read along with the header.
Starts(n) ==
  /\ phase = "header"
  /\ received' = n
  /\ buffer' = SubSeq(Body, 1, n)
  /\ phase' = IF n > 0 THEN "feed" ELSE "read"
  /\ UNCHANGED <<parts, state, current, saved, pool, disk, hist>>

\* web_read returned some more of the body.
Receive ==
  /\ phase = "read" /\ received < content_length
  /\ \E n \in 1..Len(Body) - received :
       /\ received' = received + n
       /\ buffer' = buffer \o SubSeq(Body, received + 1, received + n)
  /\ phase' = "feed"
  /\ UNCHANGED <<parts, content_length, state, current, saved, pool, disk, hist>>

\* The body is complete, or web_read failed: both end the loop alike.
Stops ==
  /\ phase = "read"
  /\ phase' = "finish"
  /\ UNCHANGED <<reader, processor, pool, disk, hist>>

\* addTask, but for the notification.  When the destructor has returned the pool
\* is no more, and the call is undefined behaviour: here the task stays where it
\* is, and nothing obliges the reader to go on.
AddTask(path, data) ==
  /\ tasks' = Append(tasks, [path |-> path, data |-> data,
                             late |-> worker = "gone"])
  /\ notify' = TRUE
  /\ UNCHANGED <<worker, task, stop>>

\* Faulty: no notification.
Notify_lost ==
  /\ notify
  /\ notify' = FALSE
  /\ UNCHANGED <<reader, phase, processor, tasks, worker, task, stop,
                 disk, hist>>

\* notify_one().
Notify ==
  /\ notify
  /\ notify' = FALSE
  /\ worker' = IF worker = "asleep" THEN "test" ELSE worker
  /\ UNCHANGED <<reader, phase, processor, tasks, task, stop, disk,
                 hist>>

\* One turn of the loop of feed() in state s.
Feeds(s) == phase = "feed" /\ ~notify /\ buffer # <<>> /\ state = s

FindBoundary ==
  /\ Feeds("FIND_BOUNDARY")
  /\ IF Found(buffer, boundary)
     THEN /\ buffer' = Erase(buffer, Find(buffer, boundary) + Len(boundary))
          /\ state' = "READ_PART_HEADER"
          /\ swallowed' = (swallowed \/ Find(buffer, boundary) > 0)
          /\ UNCHANGED phase
     ELSE IF IsPrefix(first_boundary, buffer)
     THEN /\ buffer' = Erase(buffer, Len(first_boundary))
          /\ state' = "READ_PART_HEADER"
          /\ UNCHANGED <<phase, swallowed>>
     ELSE /\ buffer' = Erase(buffer, Safe(buffer))
          /\ phase' = "read"
          /\ UNCHANGED <<state, swallowed>>
  /\ UNCHANGED <<reader, current, saved, pool, disk, failed>>

HeaderEnd == <<"crlf", "crlf">>

\* parse_part_header takes the name out of the header, without directories.
ReadPartHeader ==
  /\ Feeds("READ_PART_HEADER")
  /\ IF Found(buffer, HeaderEnd)
     THEN /\ current' = buffer[Find(buffer, HeaderEnd)]
          /\ buffer' = Erase(buffer, Find(buffer, HeaderEnd) + Len(HeaderEnd))
          /\ state' = "READ_PART_BODY"
          /\ UNCHANGED phase
     ELSE /\ phase' = "read"
          /\ UNCHANGED <<current, buffer, state>>
  /\ UNCHANGED <<reader, saved, pool, disk, hist>>

\* The end of a part is in the buffer; its boundary stays there.
EndPart ==
  /\ Feeds("READ_PART_BODY")
  /\ Found(buffer, boundary)
  /\ LET pos == Find(buffer, boundary)
     IN  /\ IF pos > 0 THEN AddTask(current, SubSeq(buffer, 1, pos))
            ELSE UNCHANGED pool
         /\ buffer' = Erase(buffer, pos)
  /\ saved' = Append(saved, current)
  /\ state' = "FIND_BOUNDARY"
  /\ UNCHANGED <<reader, phase, current, disk, hist>>

MorePart ==
  /\ Feeds("READ_PART_BODY")
  /\ ~Found(buffer, boundary)
  /\ IF Safe(buffer) > 0 THEN AddTask(current, SubSeq(buffer, 1, Safe(buffer)))
     ELSE UNCHANGED pool
  /\ buffer' = Erase(buffer, Safe(buffer))
  /\ phase' = "read"
  /\ UNCHANGED <<reader, state, current, saved, disk, hist>>

\* The loop of feed() ends with an empty buffer.
FeedEnds ==
  /\ phase = "feed" /\ ~notify /\ buffer = <<>>
  /\ phase' = "read"
  /\ UNCHANGED <<reader, processor, pool, disk, hist>>

\* Faulty: a task even if no header of a part has been read.
finish_always ==
  /\ phase = "finish" /\ ~notify
  /\ phase' = "done"
  /\ AddTask(current, <<>>)
  /\ saved' = IF Contains(saved, current) THEN saved ELSE Append(saved, current)
  /\ UNCHANGED <<reader, buffer, state, current, disk, hist>>

\* Faulty: the name is saved again.
finish_again ==
  /\ phase = "finish" /\ ~notify
  /\ phase' = "done"
  /\ IF current = NoFile THEN UNCHANGED <<saved, pool>>
     ELSE AddTask(current, <<>>) /\ saved' = Append(saved, current)
  /\ UNCHANGED <<reader, buffer, state, current, disk, hist>>

\* finish(): an empty task, and the name of a file that was cut short.
finish ==
  /\ phase = "finish" /\ ~notify
  /\ phase' = "done"
  /\ IF current = NoFile THEN UNCHANGED <<saved, pool>>
     ELSE /\ AddTask(current, <<>>)
          /\ saved' = IF Contains(saved, current) THEN saved
                      ELSE Append(saved, current)
  /\ UNCHANGED <<reader, buffer, state, current, disk, hist>>

-----------------------------------------------------------------------------
(***************************************************************************)
(* The thread of the pool.                                                 *)
(***************************************************************************)

\* Faulty: stop_ ends the thread at once.
Tests_stop ==
  /\ worker = "test"
  /\ IF tasks # <<>> /\ ~stop
     THEN /\ task' = Head(tasks)
          /\ tasks' = Tail(tasks)
          /\ worker' = "execute"
     ELSE /\ worker' = IF stop THEN "gone" ELSE "asleep"
          /\ UNCHANGED <<task, tasks>>
  /\ UNCHANGED <<reader, phase, processor, notify, stop, disk, hist>>

\* The critical section of the thread: the predicate of wait(), and what
\* follows.
Tests ==
  /\ worker = "test"
  /\ IF tasks # <<>>
     THEN /\ task' = Head(tasks)
          /\ tasks' = Tail(tasks)
          /\ worker' = "execute"
     ELSE /\ worker' = IF stop THEN "gone" ELSE "asleep"
          /\ UNCHANGED <<task, tasks>>
  /\ UNCHANGED <<reader, phase, processor, notify, stop, disk, hist>>

\* execute_task appends to the file.
Executes ==
  /\ worker = "execute"
  /\ disk' = [disk EXCEPT ![task.path] = @ \o task.data]
  /\ worker' = "test"
  /\ task' = NoTask
  /\ UNCHANGED <<reader, phase, processor, tasks, notify, stop, hist>>

\* execute_task cannot create the directory or open the file.
Fails ==
  /\ worker = "execute"
  /\ failed' = TRUE
  /\ worker' = "test"
  /\ task' = NoTask
  /\ UNCHANGED <<reader, phase, processor, tasks, notify, stop, disk,
                 swallowed>>

\* The destructor: stop_ and notify_all(); it waits until the thread is gone.  The
\* pool is static: the process ends at any time, whatever the uploads do.
Shutdown ==
  /\ ~stop
  /\ stop' = TRUE
  /\ worker' = IF worker = "asleep" THEN "test" ELSE worker
  /\ UNCHANGED <<reader, phase, processor, tasks, notify, task, disk,
                 hist>>

Worker == Tests \/ Executes \/ Fails

Feed == FindBoundary \/ ReadPartHeader \/ EndPart \/ MorePart \/ FeedEnds

Reader == Receive \/ Stops \/ Feed \/ finish

-----------------------------------------------------------------------------
(***************************************************************************)
(* Properties.                                                             *)
(***************************************************************************)

\* What the client sent for a file; parts of one name follow each other.
Sent(f) ==
  FoldLeft(\o, <<>>,
           [i \in DOMAIN parts |->
              IF parts[i].file = f THEN parts[i].data ELSE <<>>])

\* s is what is left of t without some of its elements: the first of s is looked
\* for, then the next one.
IsSubSequence(s, t) ==
  FoldLeft(LAMBDA rest, e : IF rest # <<>> /\ rest[1] = e THEN Tail(rest) ELSE rest,
           s, t) = <<>>

AtRest == phase = "done" /\ tasks = <<>> /\ worker \in {"asleep", "gone"}

\* However the body is cut into reads, no boundary gets into a file and no data
\* is skipped: a file holds a prefix of what was sent for it.  A task that fails
\* leaves a hole, and what follows is in order still.  When the body has arrived
\* and the pool has nothing left, the files are complete and each part is in the
\* list of saved files.
FilesAsSent ==
  ~swallowed =>
    /\ \A f \in File :
         IF failed THEN IsSubSequence(disk[f], Sent(f)) ELSE IsPrefix(disk[f], Sent(f))
    /\ AtRest /\ received = Len(Body) =>
         /\ saved = [i \in DOMAIN parts |-> parts[i].file]
         /\ ~failed => \A f \in File : disk[f] = Sent(f)

\* A task that a thread has yet to execute.
Owed == \E i \in DOMAIN tasks : ~tasks[i].late

\* Every task that is added is executed, whenever its notification comes and
\* whenever the destructor is called, which returns in the end: it waits for the
\* thread.  (Not so for what is added when the thread has ended.)
TasksExecuted == (Owed ~> ~Owed) /\ (stop ~> worker = "gone")

\* The thread that ends has left nothing behind, though tasks are added before
\* and after stop_ is set and behind its back: what is in the queue was added when
\* it had ended.
NothingLeftBehind == worker = "gone" => ~Owed

\* "Compatible with first data that has no line break" (the comment in the
\* constructor): the first part is found however the body is cut.
FirstPartFound == ~swallowed

=============================================================================
