----------------------------- MODULE BrainFile -----------------------------
(***************************************************************************)
(* One brain in the file system: what the commands that create, open,      *)
(* migrate, compact, back up and restore it do to files, step by step, in  *)
(* processes that run side by side and may be killed between two steps.    *)
(*                                                                         *)
(* A path names a file (an inode); a process that has opened a file keeps  *)
(* that file, whatever becomes of the path.  bbolt locks the file it has   *)
(* opened, not the path: a process opens first, creating the file if there *)
(* is none, and then waits for the lock.                                   *)
(*                                                                         *)
(* Abstractions.  Of a file's content there is left: whether it is a whole *)
(* database, which of the namespaces it has, the format version of its     *)
(* manifest ("none" without one) and the writes it holds.  A write is one  *)
(* transaction of MemoryEngine.  The file systems are those where a file   *)
(* may be renamed while it is open.  An I/O error other than a missing     *)
(* file or a lock that is not free ends a command as a crash does.         *)
(***************************************************************************)
EXTENDS Naturals, FiniteSets

CONSTANTS
  Procs,        \* processes: fmem commands, front ends, daemons
  Inodes,       \* files that can exist at a time, linked or open
  Writes,       \* writes
  Old,          \* writes a brain of the legacy format holds at the beginning
  MaxCompacts,  \* bound: compactions
  MaxCrashes,   \* bound: processes killed
  None          \* "no value"

Paths == {"brain", "tmp", "bak", "backup", "restored"}

(* What a process is asked to do.  "default": use the default brain, which *)
(* is created if there is none; it becomes "use" when there is one.        *)
Operations == {"init", "use", "default", "compact", "backup", "restore"}

(* Operations that users run after they have stopped the processes that    *)
(* use the brain (backup-restore.md).                                      *)
Alone == {"backup", "restore"}

ASSUME FilesAssumption ==
  /\ Old \subseteq Writes
  /\ Inodes # {} /\ None \notin Procs \cup Inodes
  /\ MaxCompacts \in Nat /\ MaxCrashes \in Nat

VARIABLES
  (* the file system *)
  dir,       \* [Paths -> Inodes or None]
  content,   \* [Inodes -> Content]
  lock,      \* [Inodes -> Procs or None], the file locks
  (* processes *)
  op,        \* [Procs -> Operations or "none"]
  pc,        \* what each does next
  file,      \* [Procs -> Inodes or None], the file it has open
  source,    \* [Procs -> Inodes or None], the file it copies from or to
  (* history and bounds *)
  expected,  \* writes the brain must hold: acknowledged, and not rolled back
  saved,     \* {the data of the backup}, or {} if it is not whole
  compacts, crashes,
  risky      \* a compaction began beside another process, or after one that was killed

diskVars == <<dir, content, lock>>
procVars == <<op, pc, file, source>>
histVars == <<expected, saved, compacts, crashes, risky>>
vars == <<diskVars, procVars, histVars>>

Content == [whole : BOOLEAN, spaces : {"none", "some", "all"},
            format : {"none", "legacy", "current"}, data : SUBSET Writes]
Empty == [whole |-> TRUE, spaces |-> "none", format |-> "none", data |-> {}]
Torn == [Empty EXCEPT !.whole = FALSE]
Legacy == [whole |-> TRUE, spaces |-> "some", format |-> "legacy", data |-> Old]

Steps == {"idle", "stat", "open", "lock", "manifest", "spaces", "stamp", "ready",
          "copy", "copy_part", "copy_done", "swap",
          "clean_tmp", "clean_bak", "make_tmp", "compact", "close_db", "to_bak", "to_path",
          "reopen", "relock", "drop_bak", "undo_path", "undo_bak", "drop_tmp"}

TypeOK ==
  /\ dir \in [Paths -> Inodes \cup {None}]
  /\ content \in [Inodes -> Content]
  /\ lock \in [Inodes -> Procs \cup {None}]
  /\ op \in [Procs -> Operations \cup {"none"}]
  /\ pc \in [Procs -> Steps]
  /\ file \in [Procs -> Inodes \cup {None}]
  /\ source \in [Procs -> Inodes \cup {None}]
  /\ expected \subseteq Writes
  /\ saved \in SUBSET (SUBSET Writes)
  /\ compacts \in 0 .. MaxCompacts /\ crashes \in 0 .. MaxCrashes /\ risky \in BOOLEAN
  /\ \A p \in Procs :
       /\ pc[p] = "idle" <=> op[p] = "none"
       /\ pc[p] \in {"lock", "manifest", "spaces", "stamp", "ready", "relock"} => file[p] # None

-----------------------------------------------------------------------------
(* Files and steps. *)

Used == {dir[x] : x \in Paths} \cup {file[p] : p \in Procs} \cup {source[p] : p \in Procs}
Fresh == CHOOSE i \in Inodes : i \notin Used

PathOf(p) == IF op[p] = "restore" THEN "restored" ELSE "brain"

(* Process p goes on at a step; Closes its file, and so gives up its lock; *)
(* Ends its operation, leaving the file system as the caller says.         *)
Goto(p, step) == pc' = [pc EXCEPT ![p] = step]
Unlocked(p) == [i \in Inodes |-> IF lock[i] = p THEN None ELSE lock[i]]
Closes(p) == file' = [file EXCEPT ![p] = None] /\ lock' = Unlocked(p)
Ends(p) ==
  /\ Goto(p, "idle") /\ Closes(p)
  /\ op' = [op EXCEPT ![p] = "none"]
  /\ source' = [source EXCEPT ![p] = None]

Removed(x) == [dir EXCEPT ![x] = None]
Renamed(x, y) == [dir EXCEPT ![y] = dir[x], ![x] = None]

(* The operation returns an error; Restore removes its temporary file.     *)
Fails(p) ==
  /\ Ends(p)
  /\ dir' = IF op[p] = "restore" THEN Removed("restored") ELSE dir
  /\ UNCHANGED <<content, histVars>>

(* Opening creates an empty file where there is none.                      *)
OpenPath(p, x, step) ==
  /\ IF dir[x] = None
     THEN /\ ~(Inodes \subseteq Used)
          /\ dir' = [dir EXCEPT ![x] = Fresh]
          /\ content' = [content EXCEPT ![Fresh] = Empty]
          /\ file' = [file EXCEPT ![p] = Fresh]
     ELSE /\ file' = [file EXCEPT ![p] = dir[x]]
          /\ UNCHANGED <<dir, content>>
  /\ Goto(p, step)
  /\ UNCHANGED <<lock, op, source, histVars>>

(* A transaction on the file that p has open and locked.                   *)
Put(p, c, step) ==
  /\ content' = [content EXCEPT ![file[p]] = c]
  /\ Goto(p, step)
  /\ UNCHANGED <<dir, lock, op, file, source>>

-----------------------------------------------------------------------------
(* Commands begin; a default brain is looked for by its path.  (What is    *)
(* left in files that no path names and no process has open is forgotten.) *)

FirstStep == [init |-> "open", use |-> "open", compact |-> "open", backup |-> "open",
              default |-> "stat", restore |-> "copy"]

Begin(p, o) ==
  /\ pc[p] = "idle"
  /\ \A q \in Procs : op[q] \notin Alone
  /\ o \in Alone => \A q \in Procs : op[q] = "none"
  /\ o = "compact" => compacts < MaxCompacts
  /\ compacts' = IF o = "compact" THEN compacts + 1 ELSE compacts
  /\ risky' = \/ risky
              \/ o = "compact" /\ dir["bak"] # None
              \/ \E q \in Procs \ {p} : op[q] # "none" /\ "compact" \in {o, op[q]}
  /\ op' = [op EXCEPT ![p] = o]
  /\ Goto(p, FirstStep[o])
  /\ content' = [i \in Inodes |-> IF i \in Used THEN content[i] ELSE Empty]
  /\ UNCHANGED <<dir, lock, file, source, expected, saved, crashes>>

EnsureExists(p) ==
  /\ pc[p] = "stat"
  /\ op' = IF dir["brain"] = None THEN op ELSE [op EXCEPT ![p] = "use"]
  /\ Goto(p, "open")
  /\ UNCHANGED <<diskVars, file, source, histVars>>

-----------------------------------------------------------------------------
(* Opening a database (OpenBboltStore), and a brain (Create, Open, Migrate).*)

OpenFile(p) == pc[p] = "open" /\ OpenPath(p, PathOf(p), "lock")

OnceLocked == [init |-> "spaces", default |-> "spaces", compact |-> "clean_tmp",
               use |-> "manifest", backup |-> "manifest", restore |-> "manifest"]

Lock(p) ==
  /\ pc[p] = "lock" /\ lock[file[p]] = None /\ content[file[p]].whole
  /\ lock' = [lock EXCEPT ![file[p]] = p]
  /\ Goto(p, OnceLocked[op[p]])
  /\ UNCHANGED <<dir, content, op, file, source, histVars>>

(* The lock is not free in time, or the file is no database.               *)
LockFails(p) ==
  /\ pc[p] = "lock" /\ (lock[file[p]] # None \/ ~content[file[p]].whole)
  /\ Fails(p)

ReadManifest(p) ==
  /\ pc[p] = "manifest" /\ content[file[p]].format # "none"
  /\ \/ content[file[p]].format = "legacy" /\ Goto(p, "spaces")
     \/ /\ content[file[p]].format = "current" /\ content[file[p]].spaces = "all"
        /\ Goto(p, "ready")
  /\ UNCHANGED <<diskVars, op, file, source, histVars>>

(* No manifest, or a namespace missing (validateIntegrity).                *)
OpenFails(p) ==
  /\ pc[p] = "manifest"
  /\ \/ content[file[p]].format = "none"
     \/ content[file[p]].format = "current" /\ content[file[p]].spaces # "all"
  /\ Fails(p)

(* Faulty variant: the manifest is written before the namespaces are all   *)
(* there.                                                                  *)
EnsureSomeNamespaces(p) ==
  /\ pc[p] = "spaces"
  /\ Put(p, [content[file[p]] EXCEPT !.spaces = IF @ = "none" THEN "some" ELSE @], "stamp")
  /\ UNCHANGED histVars

(* Each namespace is a transaction of its own, also in a migration.        *)
EnsureNamespace(p) ==
  /\ pc[p] = "spaces"
  /\ IF content[file[p]].spaces = "none"
     THEN Put(p, [content[file[p]] EXCEPT !.spaces = "some"], "spaces")
     ELSE Put(p, [content[file[p]] EXCEPT !.spaces = "all"], "stamp")
  /\ UNCHANGED histVars

WriteManifest(p) ==
  /\ pc[p] = "stamp"
  /\ Put(p, [content[file[p]] EXCEPT !.format = "current"], "ready")
  /\ UNCHANGED histVars

-----------------------------------------------------------------------------
(* An open brain.                                                          *)

Write(p, w) ==
  /\ pc[p] = "ready" /\ op[p] = "use" /\ w \notin expected
  /\ Put(p, [content[file[p]] EXCEPT !.data = @ \cup {w}], "ready")
  /\ expected' = expected \cup {w}
  /\ UNCHANGED <<saved, compacts, crashes, risky>>

(* What follows the closing of the brain, if anything does.                *)
OnceClosed == [default |-> "open", backup |-> "copy", restore |-> "swap"]

Close(p) ==
  /\ pc[p] = "ready"
  /\ \/ op[p] \in {"init", "use"} /\ Ends(p)
     \/ /\ op[p] \in DOMAIN OnceClosed
        /\ Closes(p) /\ Goto(p, OnceClosed[op[p]])
        /\ op' = IF op[p] = "default" THEN [op EXCEPT ![p] = "use"] ELSE op
        /\ UNCHANGED source
  /\ UNCHANGED <<dir, content, histVars>>

-----------------------------------------------------------------------------
(* Backup and Restore: copyFile, and Restore's check of its copy before it *)
(* takes the place of the brain.                                           *)

From(p) == IF op[p] = "backup" THEN "brain" ELSE "backup"
To(p) == IF op[p] = "backup" THEN "backup" ELSE "restored"

(* The destination is created or truncated.                                *)
CopyCreate(p) ==
  /\ pc[p] = "copy" /\ dir[From(p)] # None
  /\ source' = [source EXCEPT ![p] = dir[From(p)]]
  /\ \E i \in Inodes :
       /\ IF dir[To(p)] = None THEN ~(Inodes \subseteq Used) /\ i = Fresh ELSE i = dir[To(p)]
       /\ dir' = [dir EXCEPT ![To(p)] = i]
       /\ content' = [content EXCEPT ![i] = Empty]
       /\ file' = [file EXCEPT ![p] = i]
  /\ saved' = IF op[p] = "backup" THEN {} ELSE saved
  /\ Goto(p, "copy_part")
  /\ UNCHANGED <<lock, op, expected, compacts, crashes, risky>>

CopyFails(p) ==
  /\ pc[p] = "copy" /\ dir[From(p)] = None
  /\ Ends(p)
  /\ UNCHANGED <<dir, content, histVars>>

CopyPart(p) ==
  /\ pc[p] = "copy_part"
  /\ Put(p, Torn, "copy_done")
  /\ UNCHANGED histVars

Copied(p) == content' = [content EXCEPT ![file[p]] = content[source[p]]]

BackupDone(p) ==
  /\ pc[p] = "copy_done" /\ op[p] = "backup"
  /\ Copied(p) /\ Ends(p)
  /\ saved' = {content[source[p]].data}
  /\ UNCHANGED <<dir, expected, compacts, crashes, risky>>

(* Faulty variant: the copy is not opened before it takes the brain's      *)
(* place.                                                                  *)
RestoreUnchecked(p) ==
  /\ pc[p] = "copy_done" /\ op[p] = "restore"
  /\ Copied(p) /\ Closes(p)
  /\ Goto(p, "swap")
  /\ UNCHANGED <<dir, op, source, histVars>>

RestoreCopied(p) ==
  /\ pc[p] = "copy_done" /\ op[p] = "restore"
  /\ Copied(p) /\ Closes(p)
  /\ Goto(p, "open")
  /\ UNCHANGED <<dir, op, source, histVars>>

Restore(p) ==
  /\ pc[p] = "swap"
  /\ dir' = Renamed("restored", "brain")
  /\ expected' = content[dir["restored"]].data
  /\ Ends(p)
  /\ UNCHANGED <<content, saved, compacts, crashes, risky>>

-----------------------------------------------------------------------------
(* Compact: the database is copied to a temporary file; it is closed, and  *)
(* its lock given up; the temporary file takes its place, and is opened.   *)

(* One step of Compact that changes what the paths name and nothing else.  *)
Rearrange(p, from, names, to) ==
  /\ pc[p] = from
  /\ dir' = names
  /\ Goto(p, to)
  /\ UNCHANGED <<content, lock, op, file, source, histVars>>

RemoveOldTemp(p) == Rearrange(p, "clean_tmp", Removed("tmp"), "clean_bak")
RemoveOldBackup(p) == Rearrange(p, "clean_bak", Removed("bak"), "make_tmp")

MakeTemp(p) ==
  /\ pc[p] = "make_tmp" /\ ~(Inodes \subseteq Used)
  /\ dir' = [dir EXCEPT !["tmp"] = Fresh]
  /\ content' = [content EXCEPT ![Fresh] = Empty]
  /\ source' = [source EXCEPT ![p] = Fresh]
  /\ lock' = [lock EXCEPT ![Fresh] = p]
  /\ Goto(p, "compact")
  /\ UNCHANGED <<op, file, histVars>>

(* bolt.Compact commits once, so that the copy is empty until it is whole. *)
CompactInto(p) ==
  /\ pc[p] = "compact"
  /\ content' = [content EXCEPT ![source[p]] = content[file[p]]]
  /\ source' = [source EXCEPT ![p] = None]
  /\ lock' = [lock EXCEPT ![source[p]] = None]
  /\ Goto(p, "close_db")
  /\ UNCHANGED <<dir, op, file, histVars>>

CloseDatabase(p) ==
  /\ pc[p] = "close_db"
  /\ Closes(p) /\ Goto(p, "to_bak")
  /\ UNCHANGED <<dir, content, op, source, histVars>>

(* Faulty variant: the old file is removed before the new one is in place. *)
RemoveOriginal(p) == Rearrange(p, "to_bak", Removed("brain"), "to_path")

RenameToBackup(p) ==
  IF dir["brain"] = None
  THEN Rearrange(p, "to_bak", dir, "drop_tmp")
  ELSE Rearrange(p, "to_bak", Renamed("brain", "bak"), "to_path")

RenameToPath(p) ==
  IF dir["tmp"] = None
  THEN Rearrange(p, "to_path", dir, "undo_path")
  ELSE Rearrange(p, "to_path", Renamed("tmp", "brain"), "reopen")

Reopen(p) == pc[p] = "reopen" /\ OpenPath(p, "brain", "relock")

Relock(p) ==
  /\ pc[p] = "relock" /\ lock[file[p]] = None
  /\ lock' = [lock EXCEPT ![file[p]] = p]
  /\ Goto(p, "drop_bak")
  /\ UNCHANGED <<dir, content, op, file, source, histVars>>

(* Another process has locked the new file: the backup is put back.        *)
RelockFails(p) ==
  /\ pc[p] = "relock" /\ lock[file[p]] # None
  /\ Closes(p) /\ Goto(p, "undo_path")
  /\ UNCHANGED <<dir, content, op, source, histVars>>

DropBackup(p) == Rearrange(p, "drop_bak", Removed("bak"), "drop_tmp")
RemoveNew(p) == Rearrange(p, "undo_path", Removed("brain"), "undo_bak")
RestoreBackup(p) ==
  Rearrange(p, "undo_bak", IF dir["bak"] = None THEN dir ELSE Renamed("bak", "brain"),
            "drop_tmp")

(* Faulty variant: the temporary file is left behind.                      *)
LeaveTemp(p) == pc[p] = "drop_tmp" /\ Ends(p) /\ UNCHANGED <<dir, content, histVars>>

DropTemp(p) ==
  /\ pc[p] = "drop_tmp"
  /\ dir' = Removed("tmp")
  /\ Ends(p)
  /\ UNCHANGED <<content, histVars>>

-----------------------------------------------------------------------------
(* A process is killed: the operating system gives up its locks.           *)
Crash(p) ==
  /\ pc[p] # "idle" /\ crashes < MaxCrashes
  /\ crashes' = crashes + 1
  /\ Ends(p)
  /\ UNCHANGED <<dir, content, expected, saved, compacts, risky>>

First == CHOOSE i \in Inodes : TRUE

(* There is no brain yet, or one of an earlier version.                    *)
Init ==
  /\ content = [i \in Inodes |-> IF i = First THEN Legacy ELSE Empty]
  /\ \/ dir = [x \in Paths |-> None] /\ expected = {}
     \/ dir = [x \in Paths |-> IF x = "brain" THEN First ELSE None] /\ expected = Old
  /\ lock = [i \in Inodes |-> None]
  /\ op = [p \in Procs |-> "none"] /\ pc = [p \in Procs |-> "idle"]
  /\ file = [p \in Procs |-> None] /\ source = [p \in Procs |-> None]
  /\ saved = {} /\ compacts = 0 /\ crashes = 0 /\ risky = FALSE

OpenStep(p) ==
  \/ EnsureExists(p) \/ OpenFile(p) \/ Lock(p) \/ LockFails(p)
  \/ ReadManifest(p) \/ OpenFails(p) \/ EnsureNamespace(p) \/ WriteManifest(p)

CopyStep(p) ==
  \/ CopyCreate(p) \/ CopyFails(p) \/ CopyPart(p) \/ BackupDone(p)
  \/ RestoreCopied(p) \/ Restore(p)

CompactStep(p) ==
  \/ RemoveOldTemp(p) \/ RemoveOldBackup(p) \/ MakeTemp(p) \/ CompactInto(p)
  \/ CloseDatabase(p) \/ RenameToBackup(p) \/ RenameToPath(p)
  \/ Reopen(p) \/ Relock(p) \/ RelockFails(p)
  \/ DropBackup(p) \/ RemoveNew(p) \/ RestoreBackup(p) \/ DropTemp(p)

Next ==
  \E p \in Procs :
    \/ \E o \in Operations : Begin(p, o)
    \/ OpenStep(p) \/ CopyStep(p) \/ CompactStep(p)
    \/ \E w \in Writes : Write(p, w)
    \/ Close(p) \/ Crash(p)

Spec == Init /\ [][Next]_vars

-----------------------------------------------------------------------------
(* Safety. *)

DataAt(x) == IF dir[x] = None THEN {} ELSE content[dir[x]].data

(* What was acknowledged is in the brain, or in the backup that a          *)
(* compaction makes before it replaces the brain (bbolt_store.go Compact), *)
(* wherever a creation, a migration, a compaction or a restore is cut      *)
(* short, and whoever opens the brain next; as long as nobody compacts     *)
(* beside another process, or once more after a compaction was killed.     *)
AckedKept ==
  ~risky => expected \subseteq DataAt("brain") \cup DataAt("bak")

(* The brain at the path is never one that Open refuses although it holds  *)
(* memories: not one without manifest, nor one of the current format with  *)
(* a namespace missing (validateIntegrity, brainfile.go), nor a torn copy; *)
(* Create, Migrate and Restore may be killed at any point.                 *)
NothingUnopenable ==
  dir["brain"] # None =>
    LET c == content[dir["brain"]] IN
      /\ c.whole
      /\ c.format = "none" => c.data = {}
      /\ c.format = "current" => c.spaces = "all"

(* A restore puts in the brain's place exactly what the last whole backup  *)
(* held, in the current format, or leaves it as it is: neither a backup    *)
(* cut short nor its own copy cut short ever gets there (Restore).         *)
RestoredAsSaved ==
  [][\A p \in Procs :
       pc[p] = "swap" /\ dir'["brain"] # dir["brain"] =>
         \E d \in saved :
           content[dir'["brain"]] =
             [whole |-> TRUE, spaces |-> "all", format |-> "current", data |-> d]]_vars

(* When nobody is at work and nobody was killed, no temporary file of a    *)
(* compaction or a restore is left, whichever of their steps failed.       *)
NoLeftovers ==
  crashes = 0 /\ (\A p \in Procs : pc[p] = "idle") =>
    \A x \in {"tmp", "bak", "restored"} : dir[x] = None

-----------------------------------------------------------------------------
(* What documents and comments say, and the code does not do.              *)

(* Compaction keeps the data, the file lock keeping other processes out    *)
(* meanwhile (bbolt_store.go, and its test of Compact).                    *)
CompactKeepsData ==
  (\A p \in Procs : op[p] # "compact") => expected \subseteq DataAt("brain")
=============================================================================
