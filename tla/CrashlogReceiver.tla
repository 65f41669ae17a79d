--------------------------- MODULE CrashlogReceiver ---------------------------
(***************************************************************************)
(* crashlogReceiver (xpumd/receiver/intelcrashlog/receiver.go): one        *)
(* goroutine scans the crash log directory once and then follows the file  *)
(* system's notifications, emitting every eligible file as a log record.   *)
(* The directory changes while it does: a notification tells that          *)
(* something happened to a name, what is under the name is looked up only  *)
(* when the notification is handled, and once more when the file is read.  *)
(***************************************************************************)
EXTENDS Integers, Sequences, FiniteSets

CONSTANTS
  Names,        \* file names in the directory
  Matching,     \* the names that match config.Glob
  NoName,       \* no file name
  MaxFiles,     \* bound: files ever put into the directory
  MaxQueued     \* length of the kernel's notification queue

ASSUME CrashlogAssumption ==
  /\ Matching \subseteq Names
  /\ NoName \notin Names
  /\ MaxFiles \in Nat
  /\ MaxQueued \in Nat \ {0}

VARIABLES
  dir,         \* the number of the file under each name, 0 if there is none
  made,        \* the files put into the directory so far; a file's number is
               \* its index
  events,      \* notifications not yet taken from the watcher
  overflowed,  \* a notification was dropped by the kernel
  owner,       \* progress of Start() and Shutdown()
  run,         \* program counter of the goroutine
  scanning,    \* the goroutine is in scanDirectory()
  toScan,      \* names of scanDirectory()'s entries still to be handled
  path,        \* the name being handled, NoName outside handlePath()
  body,        \* the file whose content was read
  processedFiles,
  emitted,     \* history: number of records handed to the consumer per file
  failed       \* history: files with a failed ReadDir, ReadFile or ConsumeLogs

environment == <<dir, made>>
history == <<emitted, failed>>
goroutine == <<run, scanning, toScan, path, body, processedFiles, history>>
vars == <<environment, events, overflowed, owner, goroutine>>

(* Where a queue of notifications tells of op on name n.                   *)
EventsAt(queue, op, n) == {i \in 1..Len(queue) : queue[i].op = op /\ queue[i].name = n}

(* A file: its name and whether it is a regular file not older than        *)
(* ignoreOlderThan.  Two histories say what it met when it was put there:  *)
(* over, that it replaced a file whose name is processed, with no Remove   *)
(* of that name still to come; stale, how many Removes of earlier files of *)
(* its name were still to come.                                            *)
File == [name : Names, eligible : BOOLEAN, over : BOOLEAN, stale : Nat]
Event == [op : {"create", "remove", "overflow"}, name : Names]
Files == 1..Len(made)

NewFile(n, eligible) ==
  LET removes == EventsAt(events, "remove", n)
  IN  [name |-> n, eligible |-> eligible,
       over |-> dir[n] # 0 /\ n \in processedFiles /\ removes = {},
       stale |-> Cardinality(removes)]

TypeOK ==
  /\ made \in Seq(File)
  /\ dir \in [Names -> 0..Len(made)]
  /\ \A n \in Names : dir[n] # 0 => made[dir[n]].name = n
  /\ events \in Seq(Event)
  /\ overflowed \in BOOLEAN
  /\ owner \in {"new", "started", "cancelled", "closed", "down"}
  /\ run \in {"none", "readdir", "scan", "select", "stat", "read", "consume",
              "returned"}
  /\ scanning \in BOOLEAN
  /\ toScan \subseteq Names
  /\ path \in Names \cup {NoName}
  /\ body \in 0..Len(made)
  /\ run = "consume" => body \in Files
  /\ processedFiles \subseteq Names
  /\ emitted \in [1..MaxFiles -> Nat]
  /\ failed \subseteq Files

Init ==
  /\ dir = [n \in Names |-> 0] /\ made = <<>>
  /\ events = <<>> /\ overflowed = FALSE
  /\ owner = "new"
  /\ run = "none" /\ scanning = FALSE /\ toScan = {}
  /\ path = NoName /\ body = 0
  /\ processedFiles = {}
  /\ emitted = [g \in 1..MaxFiles |-> 0] /\ failed = {}

-----------------------------------------------------------------------------
(* The directory and its notifications (inotify through fsnotify).  A      *)
(* rename to a name is a Create of that name also when it replaces a file, *)
(* and then there is no Remove.  A full queue drops the notification and   *)
(* ends in an overflow error.  What happens in the directory after         *)
(* Shutdown() is left out.                                                 *)

Watched == owner \in {"started", "cancelled"}

Notify(op, n) ==
  IF ~Watched
  THEN UNCHANGED <<events, overflowed>>
  ELSE IF Len(events) < MaxQueued
       THEN events' = Append(events, [op |-> op, name |-> n]) /\ UNCHANGED overflowed
       ELSE /\ events' = IF events[Len(events)].op = "overflow" THEN events
                         ELSE Append(events, [op |-> "overflow", name |-> n])
            /\ overflowed' = TRUE

PutFile(n) ==
  /\ Len(made) < MaxFiles /\ owner # "down"
  /\ \E e \in BOOLEAN : made' = Append(made, NewFile(n, e))
  /\ dir' = [dir EXCEPT ![n] = Len(made) + 1]
  /\ Notify("create", n)
  /\ UNCHANGED <<owner, goroutine>>

RemoveFile(n) ==
  /\ dir[n] # 0 /\ owner # "down"
  /\ dir' = [dir EXCEPT ![n] = 0]
  /\ Notify("remove", n)
  /\ UNCHANGED <<made, owner, goroutine>>

-----------------------------------------------------------------------------
(* Mutant: the goroutine goes to its event loop at once.                   *)
StartMutant ==
  /\ owner = "new"
  /\ owner' = "started"
  /\ run' = "select"
  /\ UNCHANGED <<environment, events, overflowed, scanning, toScan, path, body,
                 processedFiles, history>>

(* Start(): the directory is watched before it is scanned.  An error       *)
(* leaves the receiver as it was.                                          *)
Start ==
  /\ owner = "new"
  /\ owner' = "started"
  /\ run' = "readdir"
  /\ UNCHANGED <<environment, events, overflowed, scanning, toScan, path, body,
                 processedFiles, history>>

ctxDone == owner \in {"cancelled", "closed"}

(* Shutdown(): cancel, close the watcher, wait for the goroutine.          *)
ShutdownCancel ==
  /\ owner = "started"
  /\ owner' = "cancelled"
  /\ UNCHANGED <<environment, events, overflowed, goroutine>>

ShutdownClose ==
  /\ owner = "cancelled"
  /\ owner' = "closed"
  /\ events' = <<>>
  /\ UNCHANGED <<environment, overflowed, goroutine>>

(* Mutant: Shutdown() does not wait for the goroutine.                     *)
ShutdownWaitMutant ==
  /\ owner = "closed"
  /\ owner' = "down"
  /\ UNCHANGED <<environment, events, overflowed, goroutine>>

ShutdownWait ==
  /\ owner = "closed" /\ run = "returned"
  /\ owner' = "down"
  /\ UNCHANGED <<environment, events, overflowed, goroutine>>

-----------------------------------------------------------------------------
(* scanDirectory() *)

(* os.ReadDir() takes the names, or fails and ends the scan.               *)
ScanReadDir ==
  /\ run = "readdir"
  /\ \/ /\ toScan' = {n \in Names : dir[n] # 0}
        /\ run' = "scan" /\ scanning' = TRUE
        /\ UNCHANGED failed
     \/ /\ run' = "select"
        /\ failed' = failed \cup {dir[n] : n \in {m \in Names : dir[m] # 0}}
        /\ UNCHANGED <<toScan, scanning>>
  /\ UNCHANGED <<environment, events, overflowed, owner, path, body,
                 processedFiles, emitted>>

ScanNext ==
  /\ run = "scan" /\ ~ctxDone
  /\ \E n \in toScan :
       /\ toScan' = toScan \ {n}
       /\ path' = n
       /\ run' = "stat"
  /\ UNCHANGED <<environment, events, overflowed, owner, scanning, body,
                 processedFiles, history>>

(* Every name is handled, or the context was cancelled.                    *)
ScanEnd ==
  /\ run = "scan"
  /\ toScan = {} \/ ctxDone
  /\ run' = "select" /\ scanning' = FALSE /\ toScan' = {}
  /\ UNCHANGED <<environment, events, overflowed, owner, path, body,
                 processedFiles, history>>

-----------------------------------------------------------------------------
(* The event loop of run().  With several channels ready select picks any. *)

(* Mutant: the loop does not look at the context.                          *)
RunDoneMutant == FALSE /\ UNCHANGED vars

RunDone ==
  /\ run = "select" /\ ctxDone
  /\ run' = "returned"
  /\ UNCHANGED <<environment, events, overflowed, owner, scanning, toScan, path,
                 body, processedFiles, history>>

RunCreateEvent ==
  /\ run = "select" /\ events # <<>>
  /\ Head(events).op = "create"
  /\ events' = Tail(events)
  /\ path' = Head(events).name
  /\ run' = "stat"
  /\ UNCHANGED <<environment, overflowed, owner, scanning, toScan, body,
                 processedFiles, history>>

(* Mutant: the processed-files map is not pruned.                          *)
RunRemoveEventMutant ==
  /\ run = "select" /\ events # <<>>
  /\ Head(events).op = "remove"
  /\ events' = Tail(events)
  /\ UNCHANGED <<environment, overflowed, owner, goroutine>>

(* Remove or Rename: prune the processed-files map.                        *)
RunRemoveEvent ==
  /\ run = "select" /\ events # <<>>
  /\ Head(events).op = "remove"
  /\ events' = Tail(events)
  /\ processedFiles' = processedFiles \ {Head(events).name}
  /\ UNCHANGED <<environment, overflowed, owner, run, scanning, toScan, path,
                 body, history>>

(* A watcher error is logged, nothing else.                                *)
RunErrorEvent ==
  /\ run = "select" /\ events # <<>>
  /\ Head(events).op = "overflow"
  /\ events' = Tail(events)
  /\ UNCHANGED <<environment, overflowed, owner, goroutine>>

-----------------------------------------------------------------------------
(* handlePath() and emitFile() *)

(* handlePath() returns to the loop that called it; its locals are gone.   *)
Return ==
  /\ run' = IF scanning THEN "scan" ELSE "select"
  /\ path' = NoName
  /\ body' = 0

(* Mutant: the processed-files map is not consulted.                       *)
ToBeEmittedMutant ==
  /\ path \in Matching
  /\ dir[path] # 0
  /\ made[dir[path]].eligible

(* What handlePath() demands before it calls emitFile(): a matching name,  *)
(* Lstat() succeeds, a regular and recent file, not processed yet.         *)
ToBeEmitted ==
  /\ path \in Matching
  /\ dir[path] # 0
  /\ made[dir[path]].eligible
  /\ path \notin processedFiles

HandlePath ==
  /\ run = "stat"
  /\ IF ToBeEmitted
     THEN run' = "read" /\ UNCHANGED <<path, body>>
     ELSE Return
  /\ UNCHANGED <<environment, events, overflowed, owner, scanning, toScan,
                 processedFiles, history>>

(* emitFile(): os.ReadFile() of whatever is under the name by now.         *)
ReadFile ==
  /\ run = "read" /\ dir[path] # 0
  /\ body' = dir[path]
  /\ processedFiles' = processedFiles \cup {path}
  /\ run' = "consume"
  /\ UNCHANGED <<environment, events, overflowed, owner, scanning, toScan, path,
                 history>>

(* The read fails: the file is gone or unreadable, and it is not marked.   *)
ReadFileError ==
  /\ run = "read"
  /\ Return
  /\ failed' = failed \cup ({dir[path]} \ {0})
  /\ UNCHANGED <<environment, events, overflowed, owner, scanning, toScan,
                 processedFiles, emitted>>

(* ConsumeLogs(): a failure is logged, the record is not sent again.       *)
ConsumeLogs ==
  /\ run = "consume"
  /\ \/ /\ emitted' = [emitted EXCEPT ![body] = @ + 1]
        /\ UNCHANGED failed
     \/ /\ failed' = failed \cup {body}
        /\ UNCHANGED emitted
  /\ Return
  /\ UNCHANGED <<environment, events, overflowed, owner, scanning, toScan,
                 processedFiles>>

-----------------------------------------------------------------------------
(* The receiver is shut down and nothing more happens in the directory.    *)
Terminated ==
  /\ owner = "down" \/ owner = "new"
  /\ UNCHANGED vars

Run ==
  \/ ScanReadDir \/ ScanNext \/ ScanEnd
  \/ RunDone \/ RunCreateEvent \/ RunRemoveEvent \/ RunErrorEvent
  \/ HandlePath \/ ReadFile \/ ReadFileError \/ ConsumeLogs

Next ==
  \/ \E n \in Names : PutFile(n) \/ RemoveFile(n)
  \/ Start \/ ShutdownCancel \/ ShutdownClose \/ ShutdownWait
  \/ Run
  \/ Terminated

Spec == Init /\ [][Next]_vars

(* The goroutine is scheduled and ConsumeLogs() returns; select cannot     *)
(* pass over a cancelled context for ever; a Shutdown() that was begun is  *)
(* carried on.  Nobody has to change the directory or to call Shutdown().  *)
Fairness ==
  /\ WF_vars(Run)
  /\ SF_vars(RunDone)
  /\ WF_vars(ShutdownClose \/ ShutdownWait)

FairSpec == Spec /\ Fairness

-----------------------------------------------------------------------------
(* Correctness properties *)

(* The goroutine has caught up with everything that happened.              *)
Settled == owner = "started" /\ run = "select" /\ events = <<>> /\ ~overflowed

Missed(g) ==
  /\ made[g].name \in Matching
  /\ made[g].eligible
  /\ emitted[g] = 0
  /\ g \notin failed

(* "emits each file content as a log record" (README.md:6): once the       *)
(* receiver has caught up, no eligible file that is in the directory was   *)
(* left out, whether it came before, during or after the scan.  Exceptions *)
(* that the code makes: a failed read or consumer is not retried (Missed); *)
(* a lost notification (Settled) leaves its file out; and a file renamed   *)
(* over one whose name is processed, which yields a Create and no Remove,  *)
(* is taken for the old one (over).                                        *)
EachNewFileEmitted ==
  Settled => \A n \in Names : dir[n] # 0 => made[dir[n]].over \/ ~Missed(dir[n])

(* The scan and the notifications of a file do not both emit it: it yields *)
(* one record.  The exception is a file put under a name while Removes of  *)
(* earlier files of that name are still in the queue: each of them prunes  *)
(* the name of the new file too, and may give it one record more.          *)
NoDuplicate == \A g \in Files : emitted[g] <= 1 + made[g].stale

(* Crash logs reach the consumer, and once, but for the exceptions that    *)
(* the two parts name: in whatever order the scan, the notifications and   *)
(* the changes of the directory come, nothing else is left out or emitted  *)
(* again.                                                                  *)
EmittedOnce == EachNewFileEmitted /\ NoDuplicate

(* processedFiles is pruned: it names no file that is gone for good, so it *)
(* cannot grow with the number of crash logs ever written.                 *)
ProcessedPruned == Settled => \A n \in processedFiles : dir[n] # 0

(* After Shutdown() has returned no record is emitted.                     *)
Silent == [][owner = "down" => UNCHANGED emitted]_vars

(* Shutdown() returns, also while the directory is scanned, a file is read *)
(* or notifications keep coming.                                           *)
ShutdownEnds == owner = "cancelled" ~> owner = "down"

(* Shutdown() of receiver.go ends, and with it the receiver.               *)
ShutdownIsFinal == Silent /\ ShutdownEnds
=============================================================================
