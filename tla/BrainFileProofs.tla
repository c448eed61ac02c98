--------------------------- MODULE BrainFileProofs --------------------------
(***************************************************************************)
(* Theorems about BrainFile, for any number of processes, files, writes,   *)
(* compactions and kills.                                                  *)
(*                                                                         *)
(* The argument.  IInv says of every process what the stage it is at has   *)
(* open and locked, and in which state of migration, copy or check that    *)
(* file is.  Most of it is about one process and survives the steps of the *)
(* others because they spare it (OthersStay, SparingStep): nobody writes   *)
(* to a file that another has locked, and a backup or a restore is alone.  *)
(* Compactions may get in each other's way: of what they rename IInv says  *)
(* only that it is a brain Open accepts.                                   *)
(*                                                                         *)
(* That nothing acknowledged is lost needs more, and holds of less:        *)
(* KeptInv is about the compactions that have no company, and follows the  *)
(* acknowledged writes from the brain to the temporary file, the backup    *)
(* and back.  LeftInv gives each temporary file a process that will remove *)
(* it; it is about the behaviours in which nobody was killed.              *)
(***************************************************************************)
EXTENDS BrainFile, TLAPS

(* The stages at which a process has the database open, holds the lock of  *)
(* its file, copies files, or is in the middle of a compaction.            *)
Opened == {"lock", "manifest", "spaces", "stamp", "ready"}
Locked == {"manifest", "spaces", "stamp", "ready",
           "clean_tmp", "clean_bak", "make_tmp", "compact"}
Copying == {"copy_part", "copy_done"}
HasTemp == {"compact", "close_db", "to_bak", "to_path", "reopen", "relock",
            "drop_bak", "undo_path", "undo_bak", "drop_tmp"}
HasBackup == {"to_path", "reopen", "relock", "drop_bak", "undo_path", "undo_bak"}
Compacting == {"clean_tmp", "clean_bak", "make_tmp"} \cup HasTemp

(* A brain that Open accepts or that holds nothing yet, and one that Open  *)
(* accepts as it is.                                                       *)
Good(c) ==
  c.whole /\ (c.format = "none" => c.data = {}) /\ (c.format = "current" => c.spaces = "all")
Current(c) == c.whole /\ c.spaces = "all" /\ c.format = "current"

(* Which operation is at which step, and what it has open there.           *)
StageInv(p) ==
  /\ op[p] = "none" => file[p] = None /\ source[p] = None
  /\ pc[p] \in Compacting => op[p] = "compact"
  /\ pc[p] \in Copying \cup {"copy"} => op[p] \in Alone
  /\ pc[p] = "swap" => op[p] = "restore"
  /\ pc[p] = "stat" => op[p] = "default"
  /\ pc[p] \in Copying \cup Opened \cup Locked => file[p] # None
  /\ pc[p] \in Copying \cup {"compact"} => source[p] # None

(* A backup or a restore has no company.                                   *)
AloneInv(p) == op[p] \in Alone => \A q \in Procs : q # p => op[q] = "none"

(* No file has two names.                                                  *)
NamesInv == \A x, y \in Paths : x # y /\ dir[x] = dir[y] => dir[x] = None

(* The backup and the copy that a restore makes of it are nobody else's.   *)
ApartInv(p) ==
  op[p] \notin Alone =>
    \A x \in {"backup", "restored"} :
      dir[x] # None => file[p] # dir[x] /\ source[p] # dir[x]

(* A process that writes to a file has it locked.                          *)
LockInv(p) ==
  /\ pc[p] \in Locked => lock[file[p]] = p
  /\ pc[p] = "compact" => lock[source[p]] = p

(* Every file that is the brain, or may become it, is one that Open        *)
(* accepts, or empty; and the steps of a migration come in their order.    *)
GoodPaths ==
  \A x \in {"brain", "tmp", "bak"} : dir[x] # None => Good(content[dir[x]])
GoodFiles(p) ==
  op[p] \notin Alone =>
    /\ file[p] # None => Good(content[file[p]])
    /\ source[p] # None => Good(content[source[p]])
MigrationInv(p) ==
  /\ pc[p] \in {"stamp", "ready"} => content[file[p]].spaces = "all"
  /\ pc[p] = "ready" => content[file[p]].format = "current"

(* What a backup and a restore have open, and what is in it.               *)
BackupInv(p) ==
  op[p] = "backup" =>
    /\ pc[p] \in Opened => file[p] = dir["brain"]
    /\ pc[p] \in Copying \cup {"copy"} =>
         dir["brain"] # None /\ Current(content[dir["brain"]])
    /\ pc[p] \in Copying => source[p] = dir["brain"] /\ file[p] = dir["backup"]
RestoreInv(p) ==
  op[p] = "restore" =>
    /\ pc[p] \notin {"spaces", "stamp"}
    /\ pc[p] \in Copying => source[p] = dir["backup"] /\ file[p] = dir["restored"]
    /\ pc[p] \in Opened => file[p] = dir["restored"]
    /\ pc[p] \in Opened \cup {"open", "swap"} =>
         /\ dir["restored"] # None /\ dir["backup"] # None
         /\ content[dir["restored"]] = content[dir["backup"]]
    /\ pc[p] \in {"manifest", "ready", "swap"} => content[dir["restored"]].whole
    /\ pc[p] \in {"ready", "swap"} => content[dir["restored"]].format # "none"

(* The file of the backup is whole, as it was saved, or shows that it was  *)
(* cut short.                                                              *)
SavedInv ==
  dir["backup"] # None =>
    LET c == content[dir["backup"]] IN
      c \in {Torn, Empty} \/ (Current(c) /\ saved = {c.data})

ProcInv(p) ==
  /\ StageInv(p) /\ AloneInv(p) /\ ApartInv(p) /\ LockInv(p) /\ GoodFiles(p)
  /\ MigrationInv(p) /\ BackupInv(p) /\ RestoreInv(p)

IInv ==
  /\ TypeOK /\ NamesInv /\ GoodPaths /\ SavedInv
  /\ \A p \in Procs : ProcInv(p)

(* As long as no compaction has company, a brain that is open is the one   *)
(* at the path, and each step of a compaction leaves what was acknowledged *)
(* where the next one needs it.                                            *)
CompactInv(p) ==
  op[p] = "compact" =>
    /\ \A q \in Procs : q # p => op[q] = "none"
    /\ pc[p] \in {"open", "lock", "clean_tmp", "clean_bak", "make_tmp", "compact",
                  "close_db", "to_bak"} => dir["bak"] = None
    /\ pc[p] \in {"lock", "clean_tmp", "clean_bak", "make_tmp", "compact"} =>
         file[p] = dir["brain"]
    /\ pc[p] = "compact" => source[p] = dir["tmp"]
    /\ pc[p] \in {"close_db", "to_bak", "to_path"} => expected \subseteq DataAt("tmp")
    /\ pc[p] \in {"reopen", "relock", "drop_bak"} => expected \subseteq DataAt("brain")
    /\ pc[p] \in {"to_path", "reopen", "relock", "undo_path", "undo_bak"} =>
         expected \subseteq DataAt("bak")
OpenInv(p) ==
  op[p] \in {"init", "use", "default"} /\ pc[p] \in Opened => file[p] = dir["brain"]
KeptInv ==
  ~risky => AckedKept /\ \A p \in Procs : CompactInv(p) /\ OpenInv(p)

(* As long as nobody was killed, a temporary file has a process that will  *)
(* remove it.                                                              *)
LeftInv ==
  crashes = 0 =>
    /\ dir["tmp"] # None => \E p \in Procs : pc[p] \in HasTemp
    /\ dir["bak"] # None => \E p \in Procs : pc[p] \in HasBackup
    /\ dir["restored"] # None => \E p \in Procs : op[p] = "restore" /\ pc[p] # "copy"

-----------------------------------------------------------------------------
(* Files without a name, and steps that leave a process alone. *)

(* A fresh file is one that no path names and no process has open.         *)
LEMMA FreshIsUnused ==
  ASSUME ~(Inodes \subseteq Used)
  PROVE  /\ Fresh \in Inodes
         /\ \A x \in Paths : dir[x] # Fresh
         /\ \A p \in Procs : file[p] # Fresh /\ source[p] # Fresh
<1>1. \E i \in Inodes : i \notin Used
  OBVIOUS
<1>2. Fresh \in Inodes /\ Fresh \notin Used
  BY <1>1 DEF Fresh
<1> HIDE DEF Fresh
<1> QED
  BY <1>2 DEF Used

(* What a process that is at work does leaves the others what they have,   *)
(* if it takes no lock of theirs, and writes to no file that they have     *)
(* locked.                                                                 *)
LEMMA OthersStay ==
  ASSUME IInv, NEW p \in Procs, NEW q \in Procs, q # p, op[p] # "none",
         op'[q] = op[q], pc'[q] = pc[q], file'[q] = file[q], source'[q] = source[q],
         \A i \in Inodes : i \in {file[q], source[q]} /\ lock[i] = q => lock'[i] = q,
         \A i \in Inodes : i \in {file[q], source[q]} =>
           content'[i] = content[i] \/ (Good(content'[i]) /\ lock[i] # q),
         \A x \in {"backup", "restored"} :
           dir'[x] # None => dir'[x] # file[q] /\ dir'[x] # source[q]
  PROVE  ProcInv(q)'
<1>0. /\ TypeOK /\ StageInv(q) /\ AloneInv(q) /\ ApartInv(q) /\ LockInv(q) /\ GoodFiles(q)
      /\ MigrationInv(q)
  BY DEF IInv, ProcInv
<1>1. op[q] \notin Alone
  BY <1>0 DEF AloneInv
<1>2. file[q] \in Inodes \cup {None} /\ source[q] \in Inodes \cup {None}
  BY <1>0 DEF TypeOK
<1>3. StageInv(q)' /\ AloneInv(q)' /\ ApartInv(q)' /\ BackupInv(q)' /\ RestoreInv(q)'
  BY <1>0, <1>1 DEF StageInv, AloneInv, ApartInv, BackupInv, RestoreInv, Alone
<1>4. LockInv(q)'
  BY <1>0, <1>2 DEF LockInv, StageInv, Copying
<1>5. GoodFiles(q)'
  BY <1>0, <1>1, <1>2 DEF GoodFiles
<1>6. MigrationInv(q)'
  <2>1. pc[q] \in {"stamp", "ready"} => file[q] \in Inodes /\ lock[file[q]] = q
    BY <1>0, <1>2 DEF LockInv, StageInv, Locked
  <2> QED
    BY <1>0, <2>1 DEF MigrationInv
<1> QED
  BY <1>3, <1>4, <1>5, <1>6 DEF ProcInv

(* No file gets a second name when a name is removed, a file is renamed,   *)
(* or an unused one is named.                                              *)
LEMMA NamesStayApart ==
  ASSUME TypeOK, NamesInv, NEW x \in Paths, NEW y \in Paths, NEW i \in Inodes,
         \A z \in Paths : dir[z] # i
  PROVE  /\ dir' = Removed(x) => NamesInv'
         /\ x # y /\ dir' = Renamed(x, y) => NamesInv'
         /\ dir' = [dir EXCEPT ![x] = i] => NamesInv'
BY FilesAssumption DEF TypeOK, NamesInv, Removed, Renamed

(* A step of p that spares the others: what they have open and locked, and *)
(* the files that they have open, stay as they are.                        *)
Spares(p) ==
  \A q \in Procs \ {p} :
    /\ op'[q] = op[q] /\ pc'[q] = pc[q] /\ file'[q] = file[q] /\ source'[q] = source[q]
    /\ \A i \in Inodes : i \in {file[q], source[q]} /\ lock[i] = q => lock'[i] = q
    /\ \A i \in Inodes : i \in {file[q], source[q]} =>
         content'[i] = content[i] \/ (Good(content'[i]) /\ lock[i] # q)
    /\ \A x \in {"backup", "restored"} :
         dir'[x] # None => dir'[x] # file[q] /\ dir'[x] # source[q]

(* Such a step keeps the invariant if it keeps what p itself has.          *)
LEMMA SparingStep ==
  ASSUME IInv, NEW p \in Procs, op[p] # "none", Spares(p),
         TypeOK', NamesInv', GoodPaths', SavedInv', ProcInv(p)'
  PROVE  IInv'
<1>1. ASSUME NEW q \in Procs, q # p PROVE ProcInv(q)'
  BY <1>1, OthersStay DEF Spares
<1> QED
  BY <1>1 DEF IInv

(* A process at work is alone, or so is nobody.                            *)
LEMMA OthersNotAlone ==
  ASSUME IInv, NEW p \in Procs, op[p] # "none", NEW q \in Procs, q # p
  PROVE  /\ op[q] \notin Alone
         /\ op[p] \in Alone => file[q] = None /\ source[q] = None /\ op[q] = "none"
         /\ \A x \in {"backup", "restored"} :
              dir[x] # None => file[q] # dir[x] /\ source[q] # dir[x]
<1>1. AloneInv(p) /\ AloneInv(q) /\ StageInv(q) /\ ApartInv(q)
  BY DEF IInv, ProcInv
<1> QED
  BY <1>1 DEF AloneInv, StageInv, ApartInv

(* The history and the bounds keep their types.                            *)
HistOK ==
  /\ expected \subseteq Writes /\ saved \in SUBSET (SUBSET Writes)
  /\ compacts \in 0 .. MaxCompacts /\ crashes \in 0 .. MaxCrashes /\ risky \in BOOLEAN

(* A process that ends its operation leaves the invariant behind, if the   *)
(* files it leaves are in order.                                           *)
LEMMA EndingStep ==
  ASSUME IInv, NEW p \in Procs, op[p] # "none", Ends(p), HistOK',
         dir' \in [Paths -> Inodes \cup {None}], content' \in [Inodes -> Content],
         \A x \in {"backup", "restored"} : dir'[x] \in {dir[x], None},
         \A q \in Procs \ {p} : \A i \in Inodes :
           i \in {file[q], source[q]} => content'[i] = content[i],
         NamesInv', GoodPaths', SavedInv'
  PROVE  IInv'
<1>0. TypeOK
  BY DEF IInv
<1>1. /\ op' = [op EXCEPT ![p] = "none"] /\ pc' = [pc EXCEPT ![p] = "idle"]
      /\ file' = [file EXCEPT ![p] = None] /\ source' = [source EXCEPT ![p] = None]
      /\ lock' = Unlocked(p)
  BY DEF Ends, Goto, Closes
<1>2. TypeOK'
  BY <1>0, <1>1 DEF TypeOK, HistOK, Steps, Unlocked
<1>3. Spares(p)
  <2> SUFFICES ASSUME NEW q \in Procs, q # p
               PROVE  /\ op'[q] = op[q] /\ pc'[q] = pc[q]
                      /\ file'[q] = file[q] /\ source'[q] = source[q]
                      /\ \A i \in Inodes : lock[i] = q => lock'[i] = q
                      /\ \A x \in {"backup", "restored"} :
                           dir'[x] # None => dir'[x] # file[q] /\ dir'[x] # source[q]
    BY DEF Spares
  <2>1. op'[q] = op[q] /\ pc'[q] = pc[q] /\ file'[q] = file[q] /\ source'[q] = source[q]
    BY <1>0, <1>1 DEF TypeOK
  <2>2. \A i \in Inodes : lock[i] = q => lock'[i] = q
    BY <1>1 DEF Unlocked
  <2>3. \A x \in {"backup", "restored"} :
          dir'[x] # None => dir'[x] # file[q] /\ dir'[x] # source[q]
    BY OthersNotAlone
  <2> QED
    BY <2>1, <2>2, <2>3
<1>4. ProcInv(p)'
  <2>1. op'[p] = "none" /\ pc'[p] = "idle" /\ file'[p] = None /\ source'[p] = None
    BY <1>0, <1>1 DEF TypeOK
  <2> QED
    BY <2>1 DEF ProcInv, StageInv, AloneInv, ApartInv, LockInv, GoodFiles, MigrationInv,
       BackupInv, RestoreInv, Alone, Compacting, HasTemp, Copying, Opened, Locked
<1> QED
  BY <1>2, <1>3, <1>4, SparingStep

(* Operations that end without having written to a file: an error, a kill, *)
(* the end of a compaction or of the use of a brain.                       *)
LEMMA EndStep ==
  ASSUME IInv, NEW p \in Procs,
         \/ LockFails(p) \/ OpenFails(p) \/ CopyFails(p) \/ DropTemp(p) \/ Crash(p)
         \/ Close(p) /\ Ends(p)
  PROVE  IInv'
<1>0. TypeOK /\ NamesInv /\ GoodPaths /\ SavedInv
  BY DEF IInv
<1>1. /\ op[p] # "none" /\ Ends(p) /\ content' = content
      /\ dir' = dir \/ dir' = Removed("restored") \/ dir' = Removed("tmp")
      /\ saved' = saved /\ expected' = expected /\ compacts' = compacts /\ risky' = risky
      /\ crashes' = crashes \/ (crashes < MaxCrashes /\ crashes' = crashes + 1)
  BY <1>0 DEF LockFails, OpenFails, CopyFails, DropTemp, Crash, Close, Fails, histVars, TypeOK
<1>2. HistOK'
  BY <1>0, <1>1, FilesAssumption DEF HistOK, TypeOK
<1>3. /\ dir' \in [Paths -> Inodes \cup {None}] /\ content' \in [Inodes -> Content]
      /\ \A x \in Paths : dir'[x] \in {dir[x], None}
  BY <1>0, <1>1 DEF TypeOK, Removed
<1>4. NamesInv' /\ GoodPaths' /\ SavedInv'
  BY <1>0, <1>1, <1>3 DEF NamesInv, GoodPaths, SavedInv, Paths
<1> QED
  BY <1>1, <1>2, <1>3, <1>4, EndingStep DEF Paths

-----------------------------------------------------------------------------
(* Steps of an operation that goes on. *)

(* What a step that only goes on to another stage, and may close a file or *)
(* lock one that is free, has to show.                                     *)
LEMMA MoveStep ==
  ASSUME IInv, NEW p \in Procs, op[p] # "none", NEW s \in Steps, Goto(p, s),
         \/ s # "idle" /\ op' = op
         \/ op[p] = "default" /\ s = "open" /\ op' = [op EXCEPT ![p] = "use"],
         \/ file' = file /\ lock' = lock
         \/ file' = file /\ lock[file[p]] = None /\ lock' = [lock EXCEPT ![file[p]] = p]
         \/ Closes(p),
         s \in {"lock", "manifest", "spaces", "stamp", "ready", "relock"} => file'[p] # None,
         source' = source, UNCHANGED <<dir, content, histVars>>,
         StageInv(p)', LockInv(p)', MigrationInv(p)', BackupInv(p)', RestoreInv(p)'
  PROVE  IInv'
<1>0. TypeOK /\ NamesInv /\ GoodPaths /\ SavedInv
  BY DEF IInv
<1>1. pc' = [pc EXCEPT ![p] = s] /\ pc[p] # "idle"
  BY <1>0 DEF Goto, TypeOK
<1>f. file' = file \/ file' = [file EXCEPT ![p] = None]
  BY DEF Closes
<1>l. \/ lock' = lock
      \/ lock[file[p]] = None /\ lock' = [lock EXCEPT ![file[p]] = p]
      \/ lock' = Unlocked(p)
  BY DEF Closes
<1>o. op' = op \/ (op[p] = "default" /\ op' = [op EXCEPT ![p] = "use"])
  OBVIOUS
<1>2. TypeOK'
  <2>1. op' \in [Procs -> Operations \cup {"none"}]
    BY <1>0, <1>o DEF TypeOK, Operations
  <2>2. file' \in [Procs -> Inodes \cup {None}] /\ lock' \in [Inodes -> Procs \cup {None}]
    BY <1>0, <1>f, <1>l DEF TypeOK, Unlocked
  <2>3. pc' \in [Procs -> Steps]
    BY <1>0, <1>1 DEF TypeOK
  <2>4. ASSUME NEW q \in Procs
        PROVE  /\ pc'[q] = "idle" <=> op'[q] = "none"
               /\ pc'[q] \in {"lock", "manifest", "spaces", "stamp", "ready", "relock"} =>
                    file'[q] # None
    <3>1. CASE q = p
      BY <1>0, <1>1, <1>o, <3>1 DEF TypeOK
    <3>2. CASE q # p
      BY <1>0, <1>1, <1>o, <1>f, <3>2 DEF TypeOK
    <3> QED
      BY <3>1, <3>2
  <2> QED
    BY <1>0, <2>1, <2>2, <2>3, <2>4 DEF TypeOK, histVars
<1>3. NamesInv' /\ GoodPaths' /\ SavedInv'
  BY <1>0 DEF NamesInv, GoodPaths, SavedInv, histVars
<1>4. Spares(p)
  <2> SUFFICES ASSUME NEW q \in Procs, q # p
               PROVE  /\ op'[q] = op[q] /\ pc'[q] = pc[q]
                      /\ file'[q] = file[q] /\ source'[q] = source[q]
                      /\ \A i \in Inodes : lock[i] = q => lock'[i] = q
                      /\ \A x \in {"backup", "restored"} :
                           dir'[x] # None => dir'[x] # file[q] /\ dir'[x] # source[q]
    BY DEF Spares
  <2>1. op'[q] = op[q] /\ pc'[q] = pc[q] /\ file'[q] = file[q] /\ source'[q] = source[q]
    BY <1>0, <1>1, <1>o, <1>f DEF TypeOK
  <2>2. \A i \in Inodes : lock[i] = q => lock'[i] = q
    BY <1>0, <1>l, FilesAssumption DEF Unlocked, TypeOK
  <2>3. \A x \in {"backup", "restored"} :
          dir'[x] # None => dir'[x] # file[q] /\ dir'[x] # source[q]
    BY OthersNotAlone
  <2> QED
    BY <2>1, <2>2, <2>3
<1>5. ProcInv(p)'
  <2>0. AloneInv(p) /\ ApartInv(p) /\ GoodFiles(p)
    BY DEF IInv, ProcInv
  <2>1. /\ op'[p] = op[p] \/ (op[p] = "default" /\ op'[p] = "use")
        /\ file'[p] = file[p] \/ file'[p] = None
        /\ source'[p] = source[p]
    BY <1>0, <1>o, <1>f DEF TypeOK
  <2>2. op'[p] \in Alone <=> op[p] \in Alone
    BY <2>1 DEF Alone
  <2>3. AloneInv(p)'
    <3>1. \A q \in Procs : q # p => op'[q] = op[q]
      BY <1>4 DEF Spares
    <3> QED
      BY <2>0, <2>2, <3>1 DEF AloneInv
  <2>4. ApartInv(p)' /\ GoodFiles(p)'
    BY <2>0, <2>1, <2>2 DEF ApartInv, GoodFiles
  <2> QED
    BY <2>3, <2>4 DEF ProcInv
<1> QED
  BY <1>2, <1>3, <1>4, <1>5, SparingStep

(* What holds of a process that is at work.                                *)
LEMMA AtWork ==
  ASSUME IInv, NEW p \in Procs
  PROVE  /\ TypeOK /\ StageInv(p) /\ LockInv(p) /\ MigrationInv(p) /\ BackupInv(p)
         /\ RestoreInv(p) /\ GoodFiles(p) /\ ApartInv(p) /\ AloneInv(p)
         /\ pc[p] # "idle" <=> op[p] # "none"
  BY DEF IInv, ProcInv, TypeOK

(* The default brain is looked for.                                        *)
LEMMA EnsureExistsStep ==
  ASSUME IInv, NEW p \in Procs, EnsureExists(p)
  PROVE  IInv'
<1>0. TypeOK /\ StageInv(p) /\ op[p] # "none" /\ op[p] = "default"
  BY AtWork DEF EnsureExists, StageInv
<1>1. /\ pc[p] = "stat" /\ Goto(p, "open")
      /\ op' = op \/ op' = [op EXCEPT ![p] = "use"]
      /\ UNCHANGED <<dir, content, lock, file, source, histVars>>
  BY DEF EnsureExists, diskVars
<1>2. /\ op'[p] \in {"default", "use"} /\ pc'[p] = "open" /\ file'[p] = file[p]
      /\ source'[p] = source[p]
  BY <1>0, <1>1 DEF TypeOK, Goto
<1>3. StageInv(p)' /\ LockInv(p)' /\ MigrationInv(p)' /\ BackupInv(p)' /\ RestoreInv(p)'
  BY <1>2 DEF StageInv, LockInv, MigrationInv, BackupInv, RestoreInv, Compacting, HasTemp,
              Copying, Opened, Locked
<1> QED
  BY <1>0, <1>1, <1>3, MoveStep DEF Steps

(* A database is locked: it is whole.                                      *)
LEMMA LockStep ==
  ASSUME IInv, NEW p \in Procs, Lock(p)
  PROVE  IInv'
<1>0. /\ TypeOK /\ StageInv(p) /\ op[p] # "none" /\ BackupInv(p) /\ RestoreInv(p)
      /\ file[p] \in Inodes /\ file[p] # None
  BY AtWork DEF Lock, StageInv, Opened, TypeOK
<1>1. /\ pc[p] = "lock" /\ Goto(p, OnceLocked[op[p]]) /\ lock[file[p]] = None
      /\ content[file[p]].whole /\ lock' = [lock EXCEPT ![file[p]] = p]
      /\ UNCHANGED <<dir, content, op, file, source, histVars>>
  BY DEF Lock
<1> DEFINE s == OnceLocked[op[p]]
<1>2. /\ op[p] \in {"init", "default"} => s = "spaces"
      /\ op[p] = "compact" => s = "clean_tmp"
      /\ op[p] \in {"use", "backup", "restore"} => s = "manifest"
      /\ op[p] \in {"init", "use", "default", "compact", "backup", "restore"}
  BY <1>0 DEF OnceLocked, TypeOK, Operations
<1> HIDE DEF s
<1>3. /\ op'[p] = op[p] /\ pc'[p] = s /\ file'[p] = file[p] /\ source'[p] = source[p]
      /\ lock'[file[p]] = p
  BY <1>0, <1>1 DEF TypeOK, Goto, s
<1>4. StageInv(p)' /\ LockInv(p)' /\ MigrationInv(p)'
  BY <1>0, <1>2, <1>3 DEF StageInv, LockInv, MigrationInv, Compacting, HasTemp,
                          Copying, Opened, Locked
<1>5. BackupInv(p)' /\ RestoreInv(p)'
  BY <1>0, <1>1, <1>2, <1>3 DEF BackupInv, RestoreInv, Copying, Opened
<1>6. s \in Steps /\ s # "idle" /\ file'[p] # None /\ op' = op
  BY <1>0, <1>1, <1>2 DEF Steps
<1>7. Goto(p, s) /\ file' = file
  BY <1>1 DEF s
<1> QED
  BY <1>0, <1>1, <1>4, <1>5, <1>6, <1>7, MoveStep

(* The manifest decides: a legacy brain is migrated, a current one with    *)
(* all its namespaces is open.  A copy of a backup is never migrated: a    *)
(* backup has no legacy format.                                            *)
LEMMA ReadManifestStep ==
  ASSUME IInv, NEW p \in Procs, ReadManifest(p)
  PROVE  IInv'
<1>0. /\ TypeOK /\ StageInv(p) /\ op[p] # "none" /\ BackupInv(p) /\ RestoreInv(p)
      /\ LockInv(p) /\ file[p] # None /\ SavedInv
  BY AtWork DEF ReadManifest, StageInv, Opened, TypeOK, IInv
<1>1. PICK s \in {"spaces", "ready"} :
        /\ pc[p] = "manifest" /\ Goto(p, s)
        /\ s = "spaces" => content[file[p]].format = "legacy"
        /\ s = "ready" => content[file[p]].format = "current" /\ content[file[p]].spaces = "all"
  BY DEF ReadManifest
<1>2. UNCHANGED <<dir, content, lock, op, file, source, histVars>>
  BY DEF ReadManifest, diskVars
<1>3. /\ op'[p] = op[p] /\ pc'[p] = s /\ file'[p] = file[p] /\ source'[p] = source[p]
  BY <1>0, <1>1, <1>2 DEF TypeOK, Goto
<1>4. StageInv(p)' /\ LockInv(p)' /\ MigrationInv(p)' /\ BackupInv(p)'
  BY <1>0, <1>1, <1>2, <1>3 DEF StageInv, LockInv, MigrationInv, BackupInv, Compacting,
     HasTemp, Copying, Opened, Locked
<1>5. RestoreInv(p)'
  <2> SUFFICES ASSUME op[p] = "restore" PROVE RestoreInv(p)'
    BY <1>3 DEF RestoreInv
  <2>1. /\ file[p] = dir["restored"] /\ dir["restored"] # None /\ dir["backup"] # None
        /\ content[dir["restored"]] = content[dir["backup"]]
        /\ content[dir["restored"]].whole
    BY <1>0, <1>1 DEF RestoreInv, Opened
  <2>2. content[dir["backup"]].format # "legacy"
    BY <1>0, <2>1 DEF SavedInv, Torn, Empty, Current
  <2>3. s = "ready" /\ content[dir["restored"]].format # "none"
    BY <1>1, <2>1, <2>2
  <2> QED
    BY <1>2, <1>3, <2>1, <2>3 DEF RestoreInv, Opened, Copying
<1>6. s \in Steps /\ s # "idle" /\ file'[p] # None /\ op' = op
  BY <1>0, <1>1, <1>2 DEF Steps
<1> QED
  BY <1>0, <1>1, <1>2, <1>4, <1>5, <1>6, MoveStep

(* The steps of a compaction that close the database or lock the new one.  *)
LEMMA CompactLockStep ==
  ASSUME IInv, NEW p \in Procs, Relock(p) \/ RelockFails(p) \/ CloseDatabase(p)
  PROVE  IInv'
<1>0. /\ TypeOK /\ StageInv(p) /\ op[p] = "compact"
  BY AtWork DEF Relock, RelockFails, CloseDatabase, StageInv, Compacting, HasTemp
<1>1. PICK s \in {"drop_bak", "undo_path", "to_bak"} : Goto(p, s)
  BY DEF Relock, RelockFails, CloseDatabase
<1>2. /\ \/ file' = file /\ lock[file[p]] = None /\ lock' = [lock EXCEPT ![file[p]] = p]
         \/ Closes(p)
      /\ UNCHANGED <<dir, content, op, source, histVars>>
  BY DEF Relock, RelockFails, CloseDatabase
<1>3. op'[p] = "compact" /\ pc'[p] = s
  BY <1>0, <1>1, <1>2 DEF TypeOK, Goto
<1>4. StageInv(p)' /\ LockInv(p)' /\ MigrationInv(p)' /\ BackupInv(p)' /\ RestoreInv(p)'
  BY <1>1, <1>3 DEF StageInv, LockInv, MigrationInv, BackupInv, RestoreInv, Compacting,
     HasTemp, Copying, Opened, Locked
<1>5. s \in Steps /\ s \notin {"idle", "lock", "manifest", "spaces", "stamp", "ready", "relock"}
      /\ op' = op /\ op[p] # "none"
  BY <1>0, <1>1, <1>2 DEF Steps
<1> QED
  BY <1>0, <1>1, <1>2, <1>4, <1>5, MoveStep

(* A brain is closed and something follows: what a backup copies is a      *)
(* brain of the current format.                                            *)
LEMMA CloseAndGoOnStep ==
  ASSUME IInv, NEW p \in Procs, Close(p), ~Ends(p)
  PROVE  IInv'
<1>0. /\ TypeOK /\ StageInv(p) /\ op[p] # "none" /\ BackupInv(p) /\ RestoreInv(p)
      /\ MigrationInv(p) /\ file[p] # None /\ GoodPaths
  BY AtWork DEF Close, StageInv, Opened, TypeOK, IInv
<1>1. /\ pc[p] = "ready" /\ op[p] \in {"default", "backup", "restore"}
      /\ Closes(p) /\ Goto(p, OnceClosed[op[p]])
      /\ op' = IF op[p] = "default" THEN [op EXCEPT ![p] = "use"] ELSE op
      /\ UNCHANGED <<dir, content, source, histVars>>
  BY DEF Close, OnceClosed
<1> DEFINE s == OnceClosed[op[p]]
<1>2. /\ op[p] = "default" => s = "open"
      /\ op[p] = "backup" => s = "copy"
      /\ op[p] = "restore" => s = "swap"
  BY DEF OnceClosed
<1> HIDE DEF s
<1>3. /\ op'[p] = IF op[p] = "default" THEN "use" ELSE op[p]
      /\ pc'[p] = s /\ file'[p] = None /\ source'[p] = source[p]
  BY <1>0, <1>1 DEF TypeOK, Goto, Closes, s
<1>4. StageInv(p)' /\ LockInv(p)' /\ MigrationInv(p)'
  <2>1. \/ op'[p] = "use" /\ pc'[p] = "open"
        \/ op'[p] = "backup" /\ pc'[p] = "copy"
        \/ op'[p] = "restore" /\ pc'[p] = "swap"
    BY <1>1, <1>2, <1>3
  <2>2. StageInv(p)'
    BY <2>1 DEF StageInv, Compacting, HasTemp, Copying, Opened, Locked, Alone
  <2> QED
    BY <2>1, <2>2 DEF LockInv, MigrationInv, Locked
<1>5. BackupInv(p)'
  <2> SUFFICES ASSUME op[p] = "backup" PROVE BackupInv(p)'
    BY <1>3 DEF BackupInv
  <2>1. file[p] = dir["brain"] /\ dir["brain"] # None
    BY <1>0, <1>1 DEF BackupInv, Opened
  <2>2. Current(content[dir["brain"]])
    BY <1>0, <1>1, <2>1 DEF MigrationInv, Current, GoodPaths, Good
  <2> QED
    BY <1>1, <1>2, <1>3, <2>1, <2>2 DEF BackupInv, Opened, Copying
<1>6. RestoreInv(p)'
  BY <1>0, <1>1, <1>2, <1>3 DEF RestoreInv, Opened, Copying
<1>7. /\ s \in Steps \ {"idle", "lock", "manifest", "spaces", "stamp", "ready", "relock"}
      /\ Goto(p, s)
      /\ op' = op \/ (op[p] = "default" /\ s = "open" /\ op' = [op EXCEPT ![p] = "use"])
  BY <1>1, <1>2 DEF Steps, s
<1> QED
  BY <1>0, <1>1, <1>4, <1>5, <1>6, <1>7, MoveStep

(* A path is opened: the brain, which is created if there is none, or the  *)
(* copy of a restore, which is there.                                      *)
LEMMA OpenPathStep ==
  ASSUME IInv, NEW p \in Procs, OpenFile(p) \/ Reopen(p)
  PROVE  IInv'
<1>0. /\ TypeOK /\ NamesInv /\ GoodPaths /\ SavedInv
      /\ StageInv(p) /\ op[p] # "none" /\ RestoreInv(p) /\ GoodFiles(p) /\ ApartInv(p)
      /\ AloneInv(p)
  BY AtWork DEF OpenFile, Reopen, StageInv, IInv
<1>a. PICK x \in {"brain", "restored"}, s \in {"lock", "relock"} :
        /\ OpenPath(p, x, s)
        /\ x = "restored" <=> op[p] = "restore"
        /\ s = "relock" => op[p] = "compact"
        /\ x = "restored" => dir[x] # None /\ pc[p] = "open"
  <2>1. CASE OpenFile(p)
    BY <1>0, <2>1 DEF OpenFile, PathOf, RestoreInv
  <2>2. CASE Reopen(p)
    BY <1>0, <2>2 DEF Reopen, StageInv, Compacting, HasTemp
  <2> QED
    BY <2>1, <2>2
<1>b. x \in Paths /\ s \in Steps /\ s # "idle"
  BY DEF Paths, Steps
<1>1. UNCHANGED <<lock, op, source, histVars>> /\ pc' = [pc EXCEPT ![p] = s]
  BY <1>a DEF OpenPath, Goto
<1>2. PICK i \in Inodes :
        /\ file' = [file EXCEPT ![p] = i]
        /\ dir' = [dir EXCEPT ![x] = i]
        /\ \/ dir[x] = i /\ content' = content
           \/ /\ dir[x] = None /\ content' = [content EXCEPT ![i] = Empty]
              /\ \A y \in Paths : dir[y] # i
              /\ \A q \in Procs : file[q] # i /\ source[q] # i
  <2>1. CASE dir[x] = None
    <3>1. ~(Inodes \subseteq Used)
      BY <1>a, <2>1 DEF OpenPath
    <3>2. /\ Fresh \in Inodes
          /\ \A y \in Paths : dir[y] # Fresh
          /\ \A q \in Procs : file[q] # Fresh /\ source[q] # Fresh
      BY <3>1, FreshIsUnused
    <3>3. /\ dir' = [dir EXCEPT ![x] = Fresh] /\ content' = [content EXCEPT ![Fresh] = Empty]
          /\ file' = [file EXCEPT ![p] = Fresh]
      BY <1>a, <2>1 DEF OpenPath
    <3> HIDE DEF Fresh
    <3> QED
      BY <2>1, <3>2, <3>3
  <2>2. CASE dir[x] # None
    <3>1. dir[x] \in Inodes /\ dir' = dir /\ content' = content
          /\ file' = [file EXCEPT ![p] = dir[x]]
      BY <1>0, <1>a, <1>b, <2>2 DEF OpenPath, TypeOK
    <3>2. dir' = [dir EXCEPT ![x] = dir[x]]
      BY <1>0, <3>1 DEF TypeOK
    <3> QED
      BY <3>1, <3>2
  <2> QED
    BY <2>1, <2>2
<1>3. /\ dir'[x] = i /\ file'[p] = i /\ op'[p] = op[p] /\ pc'[p] = s /\ source'[p] = source[p]
      /\ \A y \in Paths : y # x => dir'[y] = dir[y]
      /\ \A q \in Procs : q # p => /\ op'[q] = op[q] /\ pc'[q] = pc[q]
                                   /\ file'[q] = file[q] /\ source'[q] = source[q]
      /\ i # None
  BY <1>0, <1>1, <1>2, <1>b, FilesAssumption DEF TypeOK
<1>4. /\ \A y \in Paths : dir[y] # None => content'[dir[y]] = content[dir[y]]
      /\ \A q \in Procs : /\ file[q] # None => content'[file[q]] = content[file[q]]
                          /\ source[q] # None => content'[source[q]] = content[source[q]]
      /\ content'[i] = content[i] \/ Good(content'[i])
      /\ dir[x] = None => Good(content'[i])
  <2>1. CASE dir[x] = i /\ content' = content
    BY <1>3, <2>1
  <2>2. CASE /\ content' = [content EXCEPT ![i] = Empty]
             /\ \A y \in Paths : dir[y] # i
             /\ \A q \in Procs : file[q] # i /\ source[q] # i
    <3>1. content'[i] = Empty /\ \A j \in Inodes : j # i => content'[j] = content[j]
      BY <1>0, <2>2 DEF TypeOK
    <3>2. Good(Empty)
      BY DEF Good, Empty
    <3>3. /\ \A y \in Paths : dir[y] \in Inodes \cup {None}
          /\ \A q \in Procs : file[q] \in Inodes \cup {None} /\ source[q] \in Inodes \cup {None}
      BY <1>0 DEF TypeOK
    <3> QED
      BY <2>2, <3>1, <3>2, <3>3
  <2> QED
    BY <1>2, <2>1, <2>2
<1>5. TypeOK'
  <2>1. Empty \in Content
    BY DEF Empty, Content
  <2>2. /\ content' \in [Inodes -> Content] /\ dir' \in [Paths -> Inodes \cup {None}]
        /\ file' \in [Procs -> Inodes \cup {None}] /\ pc' \in [Procs -> Steps]
    BY <1>0, <1>1, <1>2, <1>b, <2>1 DEF TypeOK
  <2>3. \A q \in Procs :
          /\ pc'[q] = "idle" <=> op'[q] = "none"
          /\ pc'[q] \in {"lock", "manifest", "spaces", "stamp", "ready", "relock"} =>
               file'[q] # None
    BY <1>0, <1>3, <1>b DEF TypeOK
  <2> QED
    BY <1>0, <1>1, <2>2, <2>3 DEF TypeOK, histVars
<1>6. NamesInv'
  <2>1. dir[x] = i \/ \A z \in Paths : dir[z] # i
    BY <1>2
  <2>2. CASE dir[x] = i
    BY <1>0, <1>2, <1>b, <2>2 DEF NamesInv, TypeOK
  <2>3. CASE \A z \in Paths : dir[z] # i
    BY <1>0, <1>2, <1>b, <2>3, NamesStayApart
  <2> QED
    BY <2>1, <2>2, <2>3
<1>7. GoodPaths'
  <2> SUFFICES ASSUME NEW y \in {"brain", "tmp", "bak"}, dir'[y] # None
               PROVE  Good(content'[dir'[y]])
    BY DEF GoodPaths
  <2>1. y \in Paths
    BY DEF Paths
  <2>2. CASE dir[y] # None /\ dir'[y] = dir[y]
    BY <1>0, <1>4, <2>1, <2>2 DEF GoodPaths
  <2>3. CASE dir[y] = None \/ dir'[y] # dir[y]
    <3>1. y = x /\ dir[x] = None
      BY <1>2, <1>3, <2>1, <2>3
    <3> QED
      BY <1>3, <1>4, <3>1
  <2> QED
    BY <2>2, <2>3
<1>8. SavedInv'
  <2>1. "backup" \in Paths /\ "backup" # x
    BY DEF Paths
  <2> QED
    BY <1>0, <1>1, <1>3, <1>4, <2>1 DEF SavedInv, histVars
<1>9. \A y \in {"backup", "restored"} : dir'[y] = dir[y]
  BY <1>2, <1>3, <1>a DEF Paths
<1>10. Spares(p)
  <2> SUFFICES ASSUME NEW q \in Procs, q # p
               PROVE  /\ \A j \in Inodes : j \in {file[q], source[q]} =>
                           content'[j] = content[j] \/ (Good(content'[j]) /\ lock[j] # q)
                      /\ \A y \in {"backup", "restored"} :
                           dir'[y] # None => dir'[y] # file[q] /\ dir'[y] # source[q]
    BY <1>1, <1>3 DEF Spares
  <2>1. \A j \in Inodes : j \in {file[q], source[q]} => content'[j] = content[j]
    BY <1>4, FilesAssumption
  <2>2. \A y \in {"backup", "restored"} :
          dir'[y] # None => dir'[y] # file[q] /\ dir'[y] # source[q]
    BY <1>0, <1>9, OthersNotAlone
  <2> QED
    BY <2>1, <2>2
<1>11. StageInv(p)' /\ LockInv(p)' /\ MigrationInv(p)' /\ BackupInv(p)'
  <2>1. StageInv(p)'
    BY <1>0, <1>3, <1>a DEF StageInv, Compacting, HasTemp, Copying, Opened, Locked
  <2>2. LockInv(p)' /\ MigrationInv(p)'
    BY <1>3 DEF LockInv, MigrationInv, Locked
  <2>3. BackupInv(p)'
    BY <1>3, <1>a DEF BackupInv, Copying, Opened
  <2> QED
    BY <2>1, <2>2, <2>3
<1>12. RestoreInv(p)'
  <2> SUFFICES ASSUME op[p] = "restore" PROVE RestoreInv(p)'
    BY <1>3 DEF RestoreInv
  <2>1. /\ dir["restored"] # None /\ dir["backup"] # None /\ x = "restored" /\ s = "lock"
        /\ content[dir["restored"]] = content[dir["backup"]]
    BY <1>0, <1>a DEF RestoreInv
  <2>2. content' = content
    BY <1>2, <2>1
  <2> QED
    BY <1>3, <1>9, <2>1, <2>2 DEF RestoreInv, Copying, Opened
<1>13. AloneInv(p)'
  BY <1>0, <1>3 DEF AloneInv
<1>14. ApartInv(p)' /\ GoodFiles(p)'
  <2> SUFFICES ASSUME op[p] \notin Alone PROVE ApartInv(p)' /\ GoodFiles(p)'
    BY <1>3 DEF ApartInv, GoodFiles
  <2>1. x = "brain"
    BY <1>a DEF Alone
  <2>2. \A y \in {"backup", "restored"} : dir'[y] # None => dir'[y] # i
    BY <1>3, <1>6, <2>1 DEF NamesInv, Paths
  <2>3. Good(content'[i])
    BY <1>3, <1>7, <2>1 DEF GoodPaths
  <2>4. source[p] # None => Good(content'[source[p]])
    BY <1>0, <1>4 DEF GoodFiles
  <2> QED
    BY <1>0, <1>3, <1>9, <2>2, <2>3, <2>4 DEF ApartInv, GoodFiles
<1>15. ProcInv(p)'
  BY <1>11, <1>12, <1>13, <1>14 DEF ProcInv
<1> QED
  BY <1>0, <1>5, <1>6, <1>7, <1>8, <1>10, <1>15, SparingStep

(* A transaction is on a file that p has locked, that is in order, and     *)
(* that is not the backup.                                                 *)
LEMMA LockedFile ==
  ASSUME IInv, NEW p \in Procs, pc[p] \in {"spaces", "stamp", "ready"}, op[p] # "restore"
  PROVE  /\ file[p] \in Inodes /\ lock[file[p]] = p /\ Good(content[file[p]])
         /\ content[file[p]] \in Content
         /\ dir["backup"] # file[p]
<1>0. /\ TypeOK /\ StageInv(p) /\ LockInv(p) /\ GoodFiles(p) /\ ApartInv(p) /\ BackupInv(p)
      /\ NamesInv /\ GoodPaths
  BY AtWork DEF IInv
<1>1. file[p] \in Inodes /\ file[p] # None
  BY <1>0 DEF StageInv, Opened, TypeOK
<1>2. lock[file[p]] = p
  BY <1>0 DEF LockInv, Locked
<1>3. CASE op[p] \notin Alone
  BY <1>0, <1>1, <1>2, <1>3 DEF GoodFiles, ApartInv, TypeOK
<1>4. CASE op[p] \in Alone
  <2>1. file[p] = dir["brain"]
    BY <1>0, <1>4 DEF Alone, BackupInv, Opened
  <2> QED
    BY <1>0, <1>1, <1>2, <2>1 DEF GoodPaths, NamesInv, Paths, TypeOK
<1> QED
  BY <1>3, <1>4

(* A transaction leaves the brain in order, and tells the steps of a       *)
(* migration apart.                                                        *)
LEMMA PutStep ==
  ASSUME IInv, NEW p \in Procs, pc[p] \in {"spaces", "stamp", "ready"}, op[p] # "restore",
         NEW c \in Content, Good(c), NEW s \in {"spaces", "stamp", "ready"}, Put(p, c, s),
         s # "spaces" => c.spaces = "all",
         s = "ready" => c.format = "current",
         HistOK', saved' = saved
  PROVE  IInv'
<1>0. /\ TypeOK /\ NamesInv /\ GoodPaths /\ SavedInv
      /\ StageInv(p) /\ op[p] # "none" /\ LockInv(p) /\ GoodFiles(p) /\ ApartInv(p)
      /\ AloneInv(p) /\ BackupInv(p) /\ RestoreInv(p)
  BY AtWork DEF IInv
<1>1. /\ file[p] \in Inodes /\ lock[file[p]] = p /\ dir["backup"] # file[p]
      /\ file[p] # None
  BY LockedFile, FilesAssumption
<1>2. /\ content' = [content EXCEPT ![file[p]] = c] /\ pc' = [pc EXCEPT ![p] = s]
      /\ UNCHANGED <<dir, lock, op, file, source>>
  BY DEF Put, Goto
<1>3. /\ pc'[p] = s /\ \A q \in Procs : q # p => pc'[q] = pc[q]
      /\ content'[file[p]] = c
      /\ \A i \in Inodes : i # file[p] => content'[i] = content[i]
  BY <1>0, <1>1, <1>2 DEF TypeOK
<1>4. TypeOK'
  BY <1>0, <1>1, <1>2, <1>3 DEF TypeOK, HistOK, Steps
<1>5. NamesInv'
  BY <1>0, <1>2 DEF NamesInv
<1>6. GoodPaths'
  BY <1>0, <1>2, <1>3 DEF GoodPaths, TypeOK, Paths
<1>7. SavedInv'
  BY <1>0, <1>1, <1>2, <1>3 DEF SavedInv, TypeOK, Paths
<1>8. Spares(p)
  <2> SUFFICES ASSUME NEW q \in Procs, q # p
               PROVE  /\ \A j \in Inodes : j \in {file[q], source[q]} =>
                           content'[j] = content[j] \/ (Good(content'[j]) /\ lock[j] # q)
                      /\ \A y \in {"backup", "restored"} :
                           dir'[y] # None => dir'[y] # file[q] /\ dir'[y] # source[q]
    BY <1>2, <1>3 DEF Spares
  <2>1. \A y \in {"backup", "restored"} :
          dir'[y] # None => dir'[y] # file[q] /\ dir'[y] # source[q]
    BY <1>0, <1>2, OthersNotAlone
  <2> QED
    BY <1>1, <1>3, <2>1
<1>9. StageInv(p)' /\ AloneInv(p)' /\ ApartInv(p)' /\ RestoreInv(p)'
  <2>1. StageInv(p)'
    BY <1>0, <1>1, <1>2, <1>3 DEF StageInv, Compacting, HasTemp, Copying, Opened, Locked
  <2>2. AloneInv(p)' /\ ApartInv(p)' /\ RestoreInv(p)'
    BY <1>0, <1>2 DEF AloneInv, ApartInv, RestoreInv
  <2> QED
    BY <2>1, <2>2
<1>10. LockInv(p)' /\ MigrationInv(p)'
  BY <1>0, <1>1, <1>2, <1>3 DEF LockInv, MigrationInv
<1>11. GoodFiles(p)'
  BY <1>0, <1>2, <1>3 DEF GoodFiles, TypeOK
<1>12. BackupInv(p)'
  BY <1>0, <1>2, <1>3 DEF BackupInv, Copying, Opened
<1>13. ProcInv(p)'
  BY <1>9, <1>10, <1>11, <1>12 DEF ProcInv
<1> QED
  BY <1>0, <1>4, <1>5, <1>6, <1>7, <1>8, <1>13, SparingStep

(* The transactions: a namespace, the manifest, a write.                   *)
LEMMA TransactionStep ==
  ASSUME IInv, NEW p \in Procs,
         \/ EnsureNamespace(p) \/ WriteManifest(p) \/ (\E w \in Writes : Write(p, w))
  PROVE  IInv'
<1>0. TypeOK /\ RestoreInv(p) /\ MigrationInv(p)
  BY AtWork
<1>1. pc[p] \in {"spaces", "stamp", "ready"} /\ op[p] # "restore"
  BY <1>0 DEF EnsureNamespace, WriteManifest, Write, RestoreInv
<1> DEFINE c == content[file[p]]
<1>2. c \in Content /\ Good(c)
  BY <1>1, LockedFile
<1>3. HistOK' /\ saved' = saved
  BY <1>0 DEF EnsureNamespace, WriteManifest, Write, HistOK, TypeOK, histVars
<1> HIDE DEF c
<1>4. CASE EnsureNamespace(p)
  <2>1. [c EXCEPT !.spaces = "all"] \in Content /\ Good([c EXCEPT !.spaces = "all"])
    BY <1>2 DEF Content, Good
  <2>2. c.spaces = "none" =>
          [c EXCEPT !.spaces = "some"] \in Content /\ Good([c EXCEPT !.spaces = "some"])
    BY <1>2 DEF Content, Good
  <2>3. [c EXCEPT !.spaces = "all"].spaces = "all"
    BY <1>2 DEF Content
  <2>4. \/ c.spaces = "none" /\ Put(p, [c EXCEPT !.spaces = "some"], "spaces")
        \/ Put(p, [c EXCEPT !.spaces = "all"], "stamp")
    BY <1>4 DEF EnsureNamespace, c
  <2> QED
    BY <1>1, <1>3, <2>1, <2>2, <2>3, <2>4, PutStep
<1>5. CASE WriteManifest(p)
  <2>1. c.spaces = "all" /\ Put(p, [c EXCEPT !.format = "current"], "ready")
    BY <1>0, <1>5 DEF WriteManifest, MigrationInv, c
  <2>2. /\ [c EXCEPT !.format = "current"] \in Content
        /\ Good([c EXCEPT !.format = "current"])
        /\ [c EXCEPT !.format = "current"].spaces = "all"
        /\ [c EXCEPT !.format = "current"].format = "current"
    BY <1>2, <2>1 DEF Content, Good
  <2> QED
    BY <1>1, <1>3, <2>1, <2>2, PutStep
<1>6. ASSUME NEW w \in Writes, Write(p, w) PROVE IInv'
  <2>1. /\ c.spaces = "all" /\ c.format = "current"
        /\ Put(p, [c EXCEPT !.data = c.data \cup {w}], "ready")
    BY <1>0, <1>6 DEF Write, MigrationInv, c
  <2>2. /\ [c EXCEPT !.data = c.data \cup {w}] \in Content
        /\ Good([c EXCEPT !.data = c.data \cup {w}])
        /\ [c EXCEPT !.data = c.data \cup {w}].spaces = "all"
        /\ [c EXCEPT !.data = c.data \cup {w}].format = "current"
    BY <1>2, <2>1 DEF Content, Good
  <2> QED
    BY <1>1, <1>3, <2>1, <2>2, PutStep
<1> QED
  BY <1>4, <1>5, <1>6

(* A compaction is neither a backup nor a restore, and at a stage of its   *)
(* own.                                                                    *)
LEMMA CompactingProc ==
  ASSUME IInv, NEW p \in Procs, pc[p] \in Compacting
  PROVE  op[p] = "compact" /\ op[p] # "none" /\ op[p] \notin Alone
BY AtWork DEF StageInv, Alone

(* The steps of a compaction that remove or rename a file.                 *)
LEMMA RearrangeStep ==
  ASSUME IInv, NEW p \in Procs,
         \/ RemoveOldTemp(p) \/ RemoveOldBackup(p) \/ RenameToBackup(p) \/ RenameToPath(p)
         \/ DropBackup(p) \/ RemoveNew(p) \/ RestoreBackup(p)
  PROVE  IInv'
<1>1. PICK s \in {"clean_bak", "make_tmp", "drop_tmp", "to_path", "undo_path", "undo_bak",
                  "reopen"} :
        /\ pc[p] \in Compacting /\ pc' = [pc EXCEPT ![p] = s]
        /\ s \in {"clean_bak", "make_tmp"} => pc[p] \in {"clean_tmp", "clean_bak"}
        /\ \/ dir' = dir
           \/ \E x \in {"brain", "tmp", "bak"} : dir' = Removed(x)
           \/ \E x, y \in {"brain", "tmp", "bak"} : x # y /\ dir' = Renamed(x, y)
        /\ UNCHANGED <<content, lock, op, file, source, histVars>>
  BY DEF RemoveOldTemp, RemoveOldBackup, RenameToBackup, RenameToPath, DropBackup, RemoveNew,
         RestoreBackup, Rearrange, Goto, Compacting, HasTemp
<1>0. /\ TypeOK /\ NamesInv /\ GoodPaths /\ SavedInv
      /\ StageInv(p) /\ LockInv(p) /\ GoodFiles(p) /\ ApartInv(p) /\ AloneInv(p)
      /\ op[p] = "compact" /\ op[p] # "none" /\ op[p] \notin Alone
  BY <1>1, AtWork, CompactingProc DEF IInv
<1>2. /\ dir' \in [Paths -> Inodes \cup {None}]
      /\ dir'["backup"] = dir["backup"] /\ dir'["restored"] = dir["restored"]
      /\ \A x \in {"brain", "tmp", "bak"} :
           dir'[x] # None => \E y \in {"brain", "tmp", "bak"} : dir'[x] = dir[y]
  BY <1>0, <1>1 DEF TypeOK, Removed, Renamed, Paths
<1>3. pc'[p] = s /\ \A q \in Procs : q # p => pc'[q] = pc[q]
  BY <1>0, <1>1 DEF TypeOK
<1>4. TypeOK'
  BY <1>0, <1>1, <1>2, <1>3 DEF TypeOK, Steps, histVars
<1>5. NamesInv'
  BY <1>0, <1>1 DEF NamesInv, TypeOK, Removed, Renamed, Paths
<1>6. GoodPaths' /\ SavedInv'
  BY <1>0, <1>1, <1>2 DEF GoodPaths, SavedInv, histVars
<1>7. Spares(p)
  BY <1>0, <1>1, <1>2, <1>3, OthersNotAlone DEF Spares
<1>8. StageInv(p)' /\ LockInv(p)'
  BY <1>0, <1>1, <1>3 DEF StageInv, LockInv, Compacting, HasTemp, Copying, Opened, Locked
<1>9. /\ AloneInv(p)' /\ ApartInv(p)' /\ GoodFiles(p)'
      /\ MigrationInv(p)' /\ BackupInv(p)' /\ RestoreInv(p)'
  BY <1>0, <1>1, <1>2, <1>3 DEF AloneInv, ApartInv, GoodFiles, MigrationInv, BackupInv,
     RestoreInv, Alone
<1>10. ProcInv(p)'
  BY <1>8, <1>9 DEF ProcInv
<1> QED
  BY <1>0, <1>4, <1>5, <1>6, <1>7, <1>10, SparingStep

(* The temporary file of a compaction is made, and locked.                 *)
LEMMA MakeTempStep ==
  ASSUME IInv, NEW p \in Procs, MakeTemp(p)
  PROVE  IInv'
<1>1. /\ pc[p] = "make_tmp" /\ pc[p] \in Compacting /\ pc' = [pc EXCEPT ![p] = "compact"]
      /\ UNCHANGED <<op, file, histVars>>
  BY DEF MakeTemp, Goto, Compacting
<1>2. PICK i \in Inodes :
        /\ dir' = [dir EXCEPT !["tmp"] = i] /\ content' = [content EXCEPT ![i] = Empty]
        /\ source' = [source EXCEPT ![p] = i] /\ lock' = [lock EXCEPT ![i] = p]
        /\ \A x \in Paths : dir[x] # i
        /\ \A q \in Procs : file[q] # i /\ source[q] # i
  <2>1. ~(Inodes \subseteq Used)
    BY DEF MakeTemp
  <2>2. /\ Fresh \in Inodes /\ \A x \in Paths : dir[x] # Fresh
        /\ \A q \in Procs : file[q] # Fresh /\ source[q] # Fresh
    BY <2>1, FreshIsUnused
  <2>3. /\ dir' = [dir EXCEPT !["tmp"] = Fresh] /\ content' = [content EXCEPT ![Fresh] = Empty]
        /\ source' = [source EXCEPT ![p] = Fresh] /\ lock' = [lock EXCEPT ![Fresh] = p]
    BY DEF MakeTemp
  <2> HIDE DEF Fresh
  <2> QED
    BY <2>2, <2>3
<1>0. /\ TypeOK /\ NamesInv /\ GoodPaths /\ SavedInv
      /\ StageInv(p) /\ LockInv(p) /\ GoodFiles(p) /\ ApartInv(p) /\ AloneInv(p)
      /\ op[p] = "compact" /\ op[p] # "none" /\ op[p] \notin Alone /\ i # None
      /\ file[p] # None /\ file[p] \in Inodes
  BY <1>1, AtWork, CompactingProc, FilesAssumption DEF IInv, StageInv, Locked, TypeOK
<1>3. /\ pc'[p] = "compact" /\ source'[p] = i
      /\ \A q \in Procs : q # p => pc'[q] = pc[q] /\ source'[q] = source[q]
      /\ dir'["tmp"] = i /\ \A x \in Paths \ {"tmp"} : dir'[x] = dir[x]
      /\ content'[i] = Empty /\ \A j \in Inodes : j # i => content'[j] = content[j]
      /\ lock'[i] = p /\ \A j \in Inodes : j # i => lock'[j] = lock[j]
  BY <1>0, <1>1, <1>2 DEF TypeOK, Paths
<1>e. Good(Empty) /\ Empty \in Content
  BY DEF Good, Empty, Content
<1>4. TypeOK'
  <2>1. /\ content' \in [Inodes -> Content] /\ dir' \in [Paths -> Inodes \cup {None}]
        /\ lock' \in [Inodes -> Procs \cup {None}]
        /\ source' \in [Procs -> Inodes \cup {None}] /\ pc' \in [Procs -> Steps]
    BY <1>0, <1>1, <1>2, <1>e DEF TypeOK, Paths, Steps
  <2> QED
    BY <1>0, <1>1, <1>3, <2>1 DEF TypeOK, histVars
<1>5. NamesInv'
  BY <1>0, <1>2, NamesStayApart DEF Paths
<1>6. GoodPaths' /\ SavedInv'
  <2>1. \A x \in Paths : dir[x] \in Inodes \cup {None}
    BY <1>0 DEF TypeOK
  <2>2. GoodPaths'
    BY <1>0, <1>2, <1>3, <1>e, <2>1 DEF GoodPaths, Paths
  <2>3. SavedInv'
    BY <1>0, <1>1, <1>2, <1>3, <2>1 DEF SavedInv, Paths, histVars
  <2> QED
    BY <2>2, <2>3
<1>7. Spares(p)
  <2> SUFFICES ASSUME NEW q \in Procs, q # p
               PROVE  /\ op'[q] = op[q] /\ pc'[q] = pc[q]
                      /\ file'[q] = file[q] /\ source'[q] = source[q]
                      /\ \A j \in Inodes : j \in {file[q], source[q]} =>
                           lock'[j] = lock[j] /\ content'[j] = content[j]
                      /\ \A x \in {"backup", "restored"} :
                           dir'[x] # None => dir'[x] # file[q] /\ dir'[x] # source[q]
    BY DEF Spares
  <2>1. file[q] # i /\ source[q] # i
    BY <1>2
  <2>2. \A x \in {"backup", "restored"} :
          dir'[x] # None => dir'[x] # file[q] /\ dir'[x] # source[q]
    BY <1>0, <1>3, OthersNotAlone DEF Paths
  <2> QED
    BY <1>1, <1>3, <2>1, <2>2
<1>8. StageInv(p)' /\ LockInv(p)' /\ MigrationInv(p)' /\ BackupInv(p)' /\ RestoreInv(p)'
  <2>1. op'[p] = "compact" /\ file'[p] = file[p] /\ file[p] # i
    BY <1>0, <1>1, <1>2
  <2>2. lock'[file[p]] = p
    BY <1>0, <1>1, <1>3, <2>1 DEF LockInv, Locked
  <2>3. StageInv(p)'
    BY <1>0, <1>3, <2>1 DEF StageInv, Compacting, HasTemp, Copying, Opened, Locked
  <2> QED
    BY <1>3, <2>1, <2>2, <2>3 DEF LockInv, MigrationInv, BackupInv, RestoreInv
<1>9. AloneInv(p)' /\ ApartInv(p)' /\ GoodFiles(p)'
  <2>1. \A x \in {"backup", "restored"} : dir'[x] = dir[x] /\ dir[x] # i
    BY <1>2, <1>3 DEF Paths
  <2>2. content'[file[p]] = content[file[p]] /\ file'[p] = file[p]
    BY <1>0, <1>1, <1>2, <1>3
  <2> QED
    BY <1>0, <1>1, <1>3, <1>e, <2>1, <2>2 DEF AloneInv, ApartInv, GoodFiles
<1>10. ProcInv(p)'
  BY <1>8, <1>9 DEF ProcInv
<1> QED
  BY <1>0, <1>4, <1>5, <1>6, <1>7, <1>10, SparingStep

(* The copy becomes what the database is, whatever name it has by now.     *)
LEMMA CompactIntoStep ==
  ASSUME IInv, NEW p \in Procs, CompactInto(p)
  PROVE  IInv'
<1>1. /\ pc[p] = "compact" /\ pc[p] \in Compacting /\ pc' = [pc EXCEPT ![p] = "close_db"]
      /\ content' = [content EXCEPT ![source[p]] = content[file[p]]]
      /\ source' = [source EXCEPT ![p] = None] /\ lock' = [lock EXCEPT ![source[p]] = None]
      /\ UNCHANGED <<dir, op, file, histVars>>
  BY DEF CompactInto, Goto, Compacting, HasTemp
<1>0. /\ TypeOK /\ NamesInv /\ GoodPaths /\ SavedInv
      /\ StageInv(p) /\ LockInv(p) /\ GoodFiles(p) /\ ApartInv(p) /\ AloneInv(p)
      /\ op[p] = "compact" /\ op[p] # "none" /\ op[p] \notin Alone
  BY <1>1, AtWork, CompactingProc DEF IInv
<1>2. /\ file[p] \in Inodes /\ file[p] # None /\ source[p] \in Inodes /\ source[p] # None
      /\ lock[source[p]] = p /\ Good(content[file[p]]) /\ content[file[p]] \in Content
      /\ dir["backup"] # source[p]
  BY <1>0, <1>1 DEF StageInv, LockInv, GoodFiles, ApartInv, Locked, Copying, TypeOK
<1>3. /\ pc'[p] = "close_db" /\ source'[p] = None
      /\ \A q \in Procs : q # p => pc'[q] = pc[q] /\ source'[q] = source[q]
      /\ content'[source[p]] = content[file[p]] /\ lock'[source[p]] = None
      /\ \A j \in Inodes : j # source[p] => content'[j] = content[j] /\ lock'[j] = lock[j]
  BY <1>0, <1>1, <1>2 DEF TypeOK
<1>4. TypeOK'
  BY <1>0, <1>1, <1>2, <1>3 DEF TypeOK, Steps, histVars
<1>5. NamesInv'
  BY <1>0, <1>1 DEF NamesInv
<1>6. GoodPaths' /\ SavedInv'
  <2>1. \A x \in Paths : dir[x] \in Inodes \cup {None}
    BY <1>0 DEF TypeOK
  <2>2. GoodPaths'
    BY <1>0, <1>1, <1>2, <1>3, <2>1 DEF GoodPaths, Paths
  <2>3. SavedInv'
    BY <1>0, <1>1, <1>2, <1>3, <2>1 DEF SavedInv, Paths, histVars
  <2> QED
    BY <2>2, <2>3
<1>7. Spares(p)
  <2> SUFFICES ASSUME NEW q \in Procs, q # p
               PROVE  /\ op'[q] = op[q] /\ pc'[q] = pc[q]
                      /\ file'[q] = file[q] /\ source'[q] = source[q]
                      /\ \A j \in Inodes : lock[j] = q => lock'[j] = q
                      /\ \A j \in Inodes :
                           content'[j] = content[j] \/ (Good(content'[j]) /\ lock[j] # q)
                      /\ \A x \in {"backup", "restored"} :
                           dir'[x] # None => dir'[x] # file[q] /\ dir'[x] # source[q]
    BY DEF Spares
  <2>1. \A x \in {"backup", "restored"} :
          dir'[x] # None => dir'[x] # file[q] /\ dir'[x] # source[q]
    BY <1>0, <1>1, OthersNotAlone
  <2> QED
    BY <1>1, <1>2, <1>3, <2>1
<1>8. /\ StageInv(p)' /\ LockInv(p)' /\ MigrationInv(p)' /\ BackupInv(p)' /\ RestoreInv(p)'
      /\ AloneInv(p)' /\ ApartInv(p)'
  <2>1. op'[p] = "compact" /\ file'[p] = file[p] /\ dir' = dir
    BY <1>0, <1>1
  <2>2. StageInv(p)'
    BY <1>3, <2>1 DEF StageInv, Compacting, HasTemp, Copying, Opened, Locked
  <2>3. LockInv(p)' /\ MigrationInv(p)' /\ BackupInv(p)' /\ RestoreInv(p)'
    BY <1>3, <2>1 DEF LockInv, MigrationInv, BackupInv, RestoreInv, Locked
  <2>4. AloneInv(p)' /\ ApartInv(p)'
    BY <1>0, <1>1, <1>2, <1>3, <2>1 DEF AloneInv, ApartInv
  <2> QED
    BY <2>2, <2>3, <2>4
<1>9. GoodFiles(p)'
  BY <1>0, <1>1, <1>2, <1>3 DEF GoodFiles
<1>10. ProcInv(p)'
  BY <1>8, <1>9 DEF ProcInv
<1> QED
  BY <1>0, <1>4, <1>5, <1>6, <1>7, <1>10, SparingStep

-----------------------------------------------------------------------------
(* Backup and restore. *)

(* What a backup or a restore has open, and what it copies.                *)
LEMMA CopyingProc ==
  ASSUME IInv, NEW p \in Procs, pc[p] \in Copying
  PROVE  /\ op[p] \in Alone /\ op[p] # "none"
         /\ source[p] = dir[From(p)] /\ file[p] = dir[To(p)] /\ From(p) # To(p)
         /\ file[p] \in Inodes /\ source[p] \in Inodes /\ file[p] # source[p]
         /\ From(p) \in Paths /\ To(p) \in {"backup", "restored"} /\ To(p) \in Paths
         /\ file[p] # None /\ source[p] # None
<1>0. /\ TypeOK /\ StageInv(p) /\ BackupInv(p) /\ RestoreInv(p) /\ NamesInv
  BY AtWork DEF IInv
<1>1. op[p] = "backup" \/ op[p] = "restore"
  BY <1>0 DEF StageInv, Alone
<1>2. /\ file[p] # None /\ source[p] # None
      /\ file[p] \in Inodes \cup {None} /\ source[p] \in Inodes \cup {None}
  BY <1>0 DEF StageInv, TypeOK
<1>3. /\ source[p] = dir[From(p)] /\ file[p] = dir[To(p)] /\ From(p) # To(p)
      /\ From(p) \in Paths /\ To(p) \in {"backup", "restored"} /\ To(p) \in Paths
  BY <1>0, <1>1 DEF BackupInv, RestoreInv, From, To, Paths
<1> QED
  BY <1>0, <1>1, <1>2, <1>3 DEF NamesInv, Alone

(* A step of a process that is alone spares the others.                    *)
LEMMA AloneSpares ==
  ASSUME IInv, NEW p \in Procs, op[p] \in Alone,
         \A q \in Procs : q # p =>
           op'[q] = op[q] /\ pc'[q] = pc[q] /\ file'[q] = file[q] /\ source'[q] = source[q]
  PROVE  Spares(p)
<1>1. op[p] # "none"
  BY DEF Alone
<1>2. \A q \in Procs : q # p => file[q] = None /\ source[q] = None
  BY <1>1, OthersNotAlone
<1> QED
  BY <1>2, FilesAssumption DEF Spares

(* The destination of a copy is created or emptied: no whole backup is     *)
(* there any more.                                                         *)
LEMMA CopyCreateStep ==
  ASSUME IInv, NEW p \in Procs, CopyCreate(p)
  PROVE  IInv'
<1>0. /\ TypeOK /\ NamesInv /\ GoodPaths /\ SavedInv /\ StageInv(p) /\ AloneInv(p)
      /\ BackupInv(p) /\ RestoreInv(p) /\ op[p] # "none"
  BY AtWork DEF CopyCreate, IInv
<1>1. /\ pc[p] = "copy" /\ dir[From(p)] # None
      /\ source' = [source EXCEPT ![p] = dir[From(p)]]
      /\ saved' = (IF op[p] = "backup" THEN {} ELSE saved)
      /\ pc' = [pc EXCEPT ![p] = "copy_part"]
      /\ UNCHANGED <<lock, op, expected, compacts, crashes, risky>>
  BY DEF CopyCreate, Goto
<1>2. /\ op[p] \in {"backup", "restore"} /\ op[p] \in Alone
      /\ op[p] = "backup" => From(p) = "brain" /\ To(p) = "backup"
      /\ op[p] = "restore" => From(p) = "backup" /\ To(p) = "restored"
      /\ From(p) \in Paths /\ To(p) \in Paths
  BY <1>0, <1>1 DEF StageInv, Alone, From, To, Paths
<1>3. PICK i \in Inodes :
        /\ dir' = [dir EXCEPT ![To(p)] = i] /\ content' = [content EXCEPT ![i] = Empty]
        /\ file' = [file EXCEPT ![p] = i]
        /\ dir[To(p)] = i \/ \A x \in Paths : dir[x] # i
  <2>1. PICK i \in Inodes :
          /\ IF dir[To(p)] = None THEN ~(Inodes \subseteq Used) /\ i = Fresh ELSE i = dir[To(p)]
          /\ dir' = [dir EXCEPT ![To(p)] = i] /\ content' = [content EXCEPT ![i] = Empty]
          /\ file' = [file EXCEPT ![p] = i]
    BY DEF CopyCreate
  <2>2. dir[To(p)] = i \/ \A x \in Paths : dir[x] # i
    BY <2>1, FreshIsUnused
  <2> QED
    BY <2>1, <2>2
<1>4. /\ pc'[p] = "copy_part" /\ file'[p] = i /\ source'[p] = dir[From(p)] /\ op'[p] = op[p]
      /\ \A q \in Procs : q # p => /\ op'[q] = op[q] /\ pc'[q] = pc[q]
                                   /\ file'[q] = file[q] /\ source'[q] = source[q]
      /\ dir'[To(p)] = i /\ \A x \in Paths : x # To(p) => dir'[x] = dir[x]
      /\ content'[i] = Empty /\ \A j \in Inodes : j # i => content'[j] = content[j]
      /\ i # None
  BY <1>0, <1>1, <1>2, <1>3, FilesAssumption DEF TypeOK
<1>5. \A x \in Paths : x # To(p) => dir[x] # i
  BY <1>0, <1>2, <1>3, <1>4 DEF NamesInv
<1>6. TypeOK'
  <2>1. Empty \in Content
    BY DEF Empty, Content
  <2>2. dir[From(p)] \in Inodes \cup {None}
    BY <1>0, <1>2 DEF TypeOK
  <2>3. /\ content' \in [Inodes -> Content] /\ dir' \in [Paths -> Inodes \cup {None}]
        /\ file' \in [Procs -> Inodes \cup {None}] /\ source' \in [Procs -> Inodes \cup {None}]
        /\ pc' \in [Procs -> Steps]
    BY <1>0, <1>1, <1>2, <1>3, <2>1, <2>2 DEF TypeOK, Steps
  <2>4. \A q \in Procs :
          /\ pc'[q] = "idle" <=> op'[q] = "none"
          /\ pc'[q] \in {"lock", "manifest", "spaces", "stamp", "ready", "relock"} =>
               file'[q] # None
    BY <1>0, <1>4 DEF TypeOK
  <2> QED
    BY <1>0, <1>1, <2>3, <2>4 DEF TypeOK
<1>7. NamesInv'
  <2>1. CASE dir[To(p)] = i
    BY <1>0, <1>2, <1>3, <2>1 DEF NamesInv, TypeOK
  <2>2. CASE \A x \in Paths : dir[x] # i
    BY <1>0, <1>2, <1>3, <2>2, NamesStayApart
  <2> QED
    BY <1>3, <2>1, <2>2
<1>t. \A x \in Paths : dir[x] \in Inodes \cup {None}
  BY <1>0 DEF TypeOK
<1>8. GoodPaths'
  BY <1>0, <1>2, <1>4, <1>5, <1>t DEF GoodPaths, Paths
<1>9. SavedInv'
  <2>1. CASE op[p] = "backup"
    BY <1>2, <1>4, <2>1 DEF SavedInv
  <2>2. CASE op[p] = "restore"
    BY <1>0, <1>1, <1>2, <1>4, <1>5, <1>t, <2>2 DEF SavedInv, Paths
  <2> QED
    BY <1>2, <2>1, <2>2
<1>10. Spares(p)
  BY <1>2, <1>4, AloneSpares
<1>11. StageInv(p)'
  BY <1>1, <1>2, <1>4 DEF StageInv, Compacting, HasTemp, Copying, Opened, Locked, Alone
<1>12. LockInv(p)' /\ MigrationInv(p)' /\ AloneInv(p)' /\ ApartInv(p)' /\ GoodFiles(p)'
  BY <1>0, <1>2, <1>4 DEF LockInv, MigrationInv, AloneInv, ApartInv, GoodFiles, Locked
<1>13. BackupInv(p)'
  <2> SUFFICES ASSUME op[p] = "backup" PROVE BackupInv(p)'
    BY <1>4 DEF BackupInv
  <2>1. dir'["brain"] = dir["brain"] /\ dir["brain"] # i /\ dir["brain"] # None
        /\ Current(content[dir["brain"]])
    BY <1>0, <1>1, <1>2, <1>4, <1>5 DEF BackupInv, Paths
  <2> QED
    BY <1>2, <1>4, <1>t, <2>1 DEF BackupInv, Opened, Copying, Paths
<1>14. RestoreInv(p)'
  BY <1>2, <1>4 DEF RestoreInv, Opened, Copying, Paths
<1>15. ProcInv(p)'
  BY <1>11, <1>12, <1>13, <1>14 DEF ProcInv
<1> QED
  BY <1>0, <1>6, <1>7, <1>8, <1>9, <1>10, <1>15, SparingStep

(* A copy writes to the destination, and to nothing that anybody needs.    *)
LEMMA CopyPartStep ==
  ASSUME IInv, NEW p \in Procs, CopyPart(p) \/ RestoreCopied(p)
  PROVE  IInv'
<1>0. /\ TypeOK /\ NamesInv /\ GoodPaths /\ SavedInv /\ StageInv(p) /\ AloneInv(p)
      /\ BackupInv(p) /\ RestoreInv(p)
  BY AtWork DEF IInv
<1>1. pc[p] \in Copying
  BY DEF CopyPart, RestoreCopied, Copying
<1>2. /\ op[p] \in Alone /\ op[p] # "none"
      /\ source[p] = dir[From(p)] /\ file[p] = dir[To(p)] /\ From(p) # To(p)
      /\ file[p] \in Inodes /\ source[p] \in Inodes /\ file[p] # source[p]
      /\ From(p) \in Paths /\ To(p) \in {"backup", "restored"} /\ To(p) \in Paths
      /\ file[p] # None /\ source[p] # None
  BY <1>1, CopyingProc
<1>3. /\ UNCHANGED <<dir, op, source, histVars>>
      /\ \/ /\ CopyPart(p) /\ content' = [content EXCEPT ![file[p]] = Torn]
            /\ pc' = [pc EXCEPT ![p] = "copy_done"] /\ UNCHANGED <<lock, file>>
         \/ /\ RestoreCopied(p) /\ op[p] = "restore"
            /\ content' = [content EXCEPT ![file[p]] = content[source[p]]]
            /\ pc' = [pc EXCEPT ![p] = "open"]
            /\ file' = [file EXCEPT ![p] = None] /\ lock' = Unlocked(p)
  BY DEF CopyPart, RestoreCopied, Put, Goto, Copied, Closes
<1>4. /\ \A q \in Procs : q # p => pc'[q] = pc[q] /\ file'[q] = file[q]
      /\ \A j \in Inodes : j # file[p] => content'[j] = content[j]
      /\ \/ pc'[p] = "copy_done" /\ content'[file[p]] = Torn /\ file'[p] = file[p]
         \/ /\ op[p] = "restore" /\ pc'[p] = "open" /\ file'[p] = None
            /\ content'[file[p]] = content[source[p]]
  BY <1>0, <1>2, <1>3 DEF TypeOK
<1>5. \A x \in Paths : dir[x] \in Inodes \cup {None} /\ (x # To(p) => dir[x] # file[p])
  BY <1>0, <1>2 DEF NamesInv, TypeOK
<1>6. TypeOK'
  <2>1. Torn \in Content
    BY DEF Torn, Empty, Content
  <2>2. content' \in [Inodes -> Content] /\ lock' \in [Inodes -> Procs \cup {None}]
        /\ file' \in [Procs -> Inodes \cup {None}] /\ pc' \in [Procs -> Steps]
    BY <1>0, <1>2, <1>3, <2>1 DEF TypeOK, Steps, Unlocked
  <2> QED
    BY <1>0, <1>2, <1>3, <1>4, <2>2 DEF TypeOK, histVars
<1>7. NamesInv' /\ GoodPaths'
  BY <1>0, <1>2, <1>3, <1>4, <1>5 DEF NamesInv, GoodPaths, Paths
<1>8. SavedInv'
  <2>1. CASE To(p) = "backup"
    <3>1. dir'["backup"] = file[p] /\ content'[file[p]] = Torn
      BY <1>2, <1>3, <1>4, <2>1 DEF To
    <3> QED
      BY <3>1 DEF SavedInv
  <2>2. CASE To(p) # "backup"
    BY <1>0, <1>3, <1>4, <1>5, <2>2 DEF SavedInv, Paths, histVars
  <2> QED
    BY <2>1, <2>2
<1>9. Spares(p)
  BY <1>2, <1>3, <1>4, AloneSpares
<1>10. StageInv(p)' /\ LockInv(p)' /\ MigrationInv(p)' /\ AloneInv(p)' /\ ApartInv(p)'
       /\ GoodFiles(p)'
  <2>1. StageInv(p)'
    BY <1>2, <1>3, <1>4 DEF StageInv, Compacting, HasTemp, Copying, Opened, Locked, Alone
  <2> QED
    BY <1>0, <1>2, <1>3, <1>4, <2>1 DEF LockInv, MigrationInv, AloneInv, ApartInv, GoodFiles,
       Locked
<1>11. BackupInv(p)'
  <2> SUFFICES ASSUME op[p] = "backup" PROVE BackupInv(p)'
    BY <1>3 DEF BackupInv
  <2>1. /\ dir["brain"] # None /\ Current(content[dir["brain"]]) /\ dir["brain"] # file[p]
        /\ dir["brain"] \in Inodes
    BY <1>0, <1>1, <1>5 DEF BackupInv, To, Paths
  <2>2. pc'[p] = "copy_done" /\ file'[p] = file[p] /\ content'[dir["brain"]] = content[dir["brain"]]
    BY <1>4, <2>1
  <2> QED
    BY <1>0, <1>1, <1>3, <2>1, <2>2 DEF BackupInv, Opened, Copying
<1>12. RestoreInv(p)'
  <2> SUFFICES ASSUME op[p] = "restore" PROVE RestoreInv(p)'
    BY <1>3 DEF RestoreInv
  <2>1. source[p] = dir["backup"] /\ file[p] = dir["restored"]
    BY <1>0, <1>1 DEF RestoreInv
  <2>2. content'[dir["backup"]] = content[dir["backup"]]
    BY <1>2, <1>4, <2>1
  <2> QED
    BY <1>2, <1>3, <1>4, <2>1, <2>2 DEF RestoreInv, Opened, Copying
<1>13. ProcInv(p)'
  BY <1>10, <1>11, <1>12 DEF ProcInv
<1> QED
  BY <1>2, <1>6, <1>7, <1>8, <1>9, <1>13, SparingStep

(* A backup that is done is a whole brain of the current format.           *)
LEMMA BackupDoneStep ==
  ASSUME IInv, NEW p \in Procs, BackupDone(p)
  PROVE  IInv'
<1>0. /\ TypeOK /\ NamesInv /\ GoodPaths /\ BackupInv(p)
  BY AtWork DEF IInv
<1>1. pc[p] \in Copying /\ op[p] = "backup"
  BY DEF BackupDone, Copying
<1>2. /\ op[p] \in Alone /\ op[p] # "none" /\ source[p] = dir["brain"] /\ file[p] = dir["backup"]
      /\ file[p] \in Inodes /\ source[p] \in Inodes /\ file[p] # source[p] /\ file[p] # None
  BY <1>1, CopyingProc DEF From, To
<1>3. /\ content' = [content EXCEPT ![file[p]] = content[source[p]]] /\ Ends(p)
      /\ saved' = {content[source[p]].data}
      /\ UNCHANGED <<dir, expected, compacts, crashes, risky>>
  BY DEF BackupDone, Copied
<1>4. content[source[p]] \in Content /\ content[source[p]].data \subseteq Writes
      /\ Current(content[source[p]])
  BY <1>0, <1>1, <1>2 DEF TypeOK, Content, BackupInv
<1>5. /\ content' \in [Inodes -> Content] /\ content'[file[p]] = content[source[p]]
      /\ \A j \in Inodes : j # file[p] => content'[j] = content[j]
  BY <1>0, <1>2, <1>3, <1>4 DEF TypeOK
<1>6. HistOK'
  BY <1>0, <1>3, <1>4 DEF HistOK, TypeOK
<1>7. NamesInv' /\ GoodPaths'
  <2>1. \A x \in Paths : dir[x] \in Inodes \cup {None} /\ (x # "backup" => dir[x] # file[p])
    BY <1>0, <1>2 DEF NamesInv, TypeOK, Paths
  <2> QED
    BY <1>0, <1>3, <1>5, <2>1 DEF NamesInv, GoodPaths, Paths
<1>8. SavedInv'
  BY <1>2, <1>3, <1>4, <1>5 DEF SavedInv
<1>9. \A q \in Procs \ {p} : file[q] = None /\ source[q] = None
  BY <1>2, OthersNotAlone
<1>10. dir' \in [Paths -> Inodes \cup {None}]
  BY <1>0, <1>3 DEF TypeOK
<1> QED
  BY <1>2, <1>3, <1>5, <1>6, <1>7, <1>8, <1>9, <1>10, EndingStep, FilesAssumption

(* What a restore has opened is a whole copy of the last whole backup.     *)
LEMMA RestoredIsCurrent ==
  ASSUME IInv, NEW p \in Procs, op[p] = "restore", pc[p] \in {"ready", "swap"}
  PROVE  /\ dir["restored"] \in Inodes /\ dir["restored"] # None
         /\ Current(content[dir["restored"]]) /\ content[dir["restored"]] \in Content
         /\ saved = {content[dir["restored"]].data}
<1>0. TypeOK /\ SavedInv /\ RestoreInv(p)
  BY AtWork DEF IInv
<1>1. /\ dir["restored"] # None /\ dir["backup"] # None
      /\ content[dir["restored"]] = content[dir["backup"]]
      /\ content[dir["restored"]].format # "none"
  BY <1>0 DEF RestoreInv, Opened
<1>2. dir["restored"] \in Inodes /\ content[dir["restored"]] \in Content
  BY <1>0, <1>1 DEF TypeOK, Paths
<1>3. content[dir["backup"]] \notin {Torn, Empty}
  BY <1>1 DEF Torn, Empty
<1> QED
  BY <1>0, <1>1, <1>2, <1>3 DEF SavedInv

(* The copy takes the place of the brain.                                  *)
LEMMA RestoreStep ==
  ASSUME IInv, NEW p \in Procs, Restore(p)
  PROVE  IInv'
<1>0. TypeOK /\ NamesInv /\ GoodPaths /\ SavedInv /\ op[p] = "restore"
  BY AtWork DEF IInv, Restore, StageInv
<1>1. /\ dir' = Renamed("restored", "brain") /\ Ends(p)
      /\ expected' = content[dir["restored"]].data
      /\ UNCHANGED <<content, saved, compacts, crashes, risky>>
  BY DEF Restore
<1>2. /\ dir["restored"] # None /\ Current(content[dir["restored"]])
      /\ content[dir["restored"]] \in Content
  BY <1>0, RestoredIsCurrent DEF Restore
<1>3. HistOK'
  BY <1>0, <1>1, <1>2 DEF HistOK, TypeOK, Content
<1>4. /\ dir' \in [Paths -> Inodes \cup {None}] /\ dir'["brain"] = dir["restored"]
      /\ dir'["restored"] = None
      /\ \A x \in {"tmp", "bak", "backup"} : dir'[x] = dir[x]
  BY <1>0, <1>1 DEF TypeOK, Renamed, Paths
<1>5. NamesInv'
  BY <1>0, <1>1 DEF NamesInv, TypeOK, Renamed, Paths
<1>6. GoodPaths' /\ SavedInv'
  BY <1>0, <1>1, <1>2, <1>4 DEF GoodPaths, SavedInv, Good, Current
<1>7. content' \in [Inodes -> Content]
  BY <1>0, <1>1 DEF TypeOK
<1> QED
  BY <1>0, <1>1, <1>3, <1>4, <1>5, <1>6, <1>7, EndingStep

-----------------------------------------------------------------------------
(* The inductive invariant. *)

(* A command begins: alone, if it must be, and with nothing open.          *)
LEMMA BeginStep ==
  ASSUME IInv, NEW p \in Procs, NEW o \in Operations, Begin(p, o)
  PROVE  IInv'
<1>0. TypeOK /\ NamesInv /\ GoodPaths /\ SavedInv
  BY DEF IInv
<1>1. /\ pc[p] = "idle" /\ op' = [op EXCEPT ![p] = o] /\ pc' = [pc EXCEPT ![p] = FirstStep[o]]
      /\ \A q \in Procs : op[q] \notin Alone
      /\ o \in Alone => \A q \in Procs : op[q] = "none"
      /\ o = "compact" => compacts < MaxCompacts
      /\ compacts' = IF o = "compact" THEN compacts + 1 ELSE compacts
      /\ content' = [i \in Inodes |-> IF i \in Used THEN content[i] ELSE Empty]
      /\ UNCHANGED <<dir, lock, file, source, expected, saved, crashes>>
  BY DEF Begin, Goto
<1>2. risky' \in BOOLEAN
  <2>1. risky' = (\/ risky \/ (o = "compact" /\ dir["bak"] # None)
                  \/ \E q \in Procs \ {p} : op[q] # "none" /\ "compact" \in {o, op[q]})
    BY DEF Begin
  <2> QED
    BY <1>0, <2>1 DEF TypeOK
<1>3. /\ op[p] = "none" /\ file[p] = None /\ source[p] = None
      /\ \A q \in Procs : /\ file[q] \in Inodes \cup {None}
                          /\ source[q] \in Inodes \cup {None}
  <2>1. StageInv(p) /\ op[p] = "none"
    BY <1>0, <1>1 DEF IInv, ProcInv, TypeOK
  <2> QED
    BY <1>0, <2>1 DEF StageInv, TypeOK
<1>4. \E s \in {"open", "stat", "copy"} :
        /\ FirstStep[o] = s
        /\ s = "copy" => o = "restore"
        /\ s = "stat" => o = "default"
        /\ o = "restore" => s = "copy"
        /\ o = "backup" => s = "open"
  BY DEF FirstStep, Operations
<1>5. PICK s \in {"open", "stat", "copy"} :
        /\ pc' = [pc EXCEPT ![p] = s]
        /\ s = "copy" => o = "restore"
        /\ s = "stat" => o = "default"
        /\ o = "restore" => s = "copy"
        /\ o = "backup" => s = "open"
  BY <1>1, <1>4
<1>6. /\ op'[p] = o /\ pc'[p] = s
      /\ \A q \in Procs : q # p => op'[q] = op[q] /\ pc'[q] = pc[q]
  BY <1>0, <1>1, <1>5 DEF TypeOK
<1>7. /\ \A x \in Paths : dir[x] # None => dir[x] \in Inodes /\ content'[dir[x]] = content[dir[x]]
      /\ \A q \in Procs : /\ file[q] # None => content'[file[q]] = content[file[q]]
                          /\ source[q] # None => content'[source[q]] = content[source[q]]
  <2>1. \A x \in Paths : dir[x] # None => dir[x] \in Inodes /\ dir[x] \in Used
    BY <1>0 DEF TypeOK, Used
  <2>2. \A q \in Procs : file[q] \in Used /\ source[q] \in Used
    BY DEF Used
  <2> HIDE DEF Used
  <2> QED
    BY <1>1, <1>3, <2>1, <2>2
<1>8. TypeOK'
  <2>1. content' \in [Inodes -> Content]
    <3>1. Empty \in Content
      BY DEF Empty, Content
    <3> QED
      BY <1>0, <1>1, <3>1 DEF TypeOK
  <2>2. op' \in [Procs -> Operations \cup {"none"}] /\ pc' \in [Procs -> Steps]
    BY <1>0, <1>1, <1>5 DEF TypeOK, Steps
  <2>3. compacts' \in 0 .. MaxCompacts
    BY <1>0, <1>1, FilesAssumption DEF TypeOK
  <2>4. \A q \in Procs :
          /\ pc'[q] = "idle" <=> op'[q] = "none"
          /\ pc'[q] \in {"lock", "manifest", "spaces", "stamp", "ready", "relock"} =>
               file'[q] # None
    BY <1>0, <1>1, <1>6 DEF TypeOK, Operations
  <2> QED
    BY <1>0, <1>1, <1>2, <2>1, <2>2, <2>3, <2>4 DEF TypeOK
<1>9. NamesInv' /\ GoodPaths' /\ SavedInv'
  <2>1. NamesInv' /\ GoodPaths'
    BY <1>0, <1>1, <1>7 DEF NamesInv, GoodPaths, Paths
  <2>2. SavedInv'
    BY <1>0, <1>1, <1>7 DEF SavedInv, Paths
  <2> QED
    BY <2>1, <2>2
<1>10. ASSUME NEW q \in Procs, q # p PROVE ProcInv(q)'
  <2>0. /\ StageInv(q) /\ ApartInv(q) /\ LockInv(q) /\ GoodFiles(q) /\ MigrationInv(q)
        /\ op[q] \notin Alone
    BY <1>1 DEF IInv, ProcInv
  <2>1. StageInv(q)' /\ ApartInv(q)' /\ LockInv(q)'
    BY <1>1, <1>6, <1>10, <2>0 DEF StageInv, ApartInv, LockInv
  <2>2. AloneInv(q)' /\ BackupInv(q)' /\ RestoreInv(q)'
    BY <1>6, <1>10, <2>0 DEF AloneInv, BackupInv, RestoreInv, Alone
  <2>3. GoodFiles(q)'
    BY <1>1, <1>6, <1>7, <1>10, <2>0 DEF GoodFiles
  <2>4. MigrationInv(q)'
    BY <1>1, <1>6, <1>7, <1>10, <2>0 DEF MigrationInv, StageInv, Opened
  <2> QED
    BY <2>1, <2>2, <2>3, <2>4 DEF ProcInv
<1>11. ProcInv(p)'
  <2>1. StageInv(p)'
    BY <1>1, <1>3, <1>5, <1>6 DEF StageInv, Compacting, HasTemp, Copying, Opened, Locked,
       Alone, Operations
  <2>2. AloneInv(p)'
    BY <1>1, <1>6 DEF AloneInv
  <2>3. ApartInv(p)' /\ GoodFiles(p)'
    BY <1>1, <1>3 DEF ApartInv, GoodFiles
  <2>4. LockInv(p)' /\ MigrationInv(p)' /\ BackupInv(p)' /\ RestoreInv(p)'
    BY <1>5, <1>6 DEF LockInv, MigrationInv, BackupInv, RestoreInv, Opened, Copying, Locked
  <2> QED
    BY <2>1, <2>2, <2>3, <2>4 DEF ProcInv
<1> QED
  BY <1>8, <1>9, <1>10, <1>11 DEF IInv

(* At the start there is no brain, or one of the legacy format.            *)
LEMMA InitInv == Init => IInv
<1> SUFFICES ASSUME Init PROVE IInv
  OBVIOUS
<1>1. First \in Inodes /\ First # None
  BY FilesAssumption DEF First
<1>2. /\ lock = [i \in Inodes |-> None]
      /\ op = [p \in Procs |-> "none"] /\ pc = [p \in Procs |-> "idle"]
      /\ file = [p \in Procs |-> None] /\ source = [p \in Procs |-> None]
      /\ saved = {} /\ compacts = 0 /\ crashes = 0 /\ risky = FALSE
      /\ content = [i \in Inodes |-> IF i = First THEN Legacy ELSE Empty]
      /\ \/ dir = [x \in Paths |-> None] /\ expected = {}
         \/ dir = [x \in Paths |-> IF x = "brain" THEN First ELSE None] /\ expected = Old
  BY DEF Init
<1> HIDE DEF First
<1>3. Legacy \in Content /\ Empty \in Content /\ Good(Legacy)
  BY FilesAssumption DEF Legacy, Empty, Content, Good
<1>4. TypeOK
  <2>1. /\ content \in [Inodes -> Content] /\ lock \in [Inodes -> Procs \cup {None}]
        /\ op \in [Procs -> Operations \cup {"none"}] /\ pc \in [Procs -> Steps]
        /\ file \in [Procs -> Inodes \cup {None}] /\ source \in [Procs -> Inodes \cup {None}]
    BY <1>2, <1>3 DEF Steps
  <2>2. dir \in [Paths -> Inodes \cup {None}]
    BY <1>1, <1>2
  <2>3. /\ expected \subseteq Writes /\ saved \in SUBSET (SUBSET Writes)
        /\ risky \in BOOLEAN
    BY <1>2, FilesAssumption
  <2>4. compacts \in 0 .. MaxCompacts /\ crashes \in 0 .. MaxCrashes
    <3>1. compacts = 0 /\ crashes = 0
      BY <1>2
    <3> QED
      BY <3>1, FilesAssumption
  <2>5. \A p \in Procs : pc[p] = "idle" /\ op[p] = "none"
    BY <1>2
  <2> QED
    BY <2>1, <2>2, <2>3, <2>4, <2>5 DEF TypeOK
<1>5. NamesInv /\ GoodPaths /\ SavedInv
  BY <1>1, <1>2, <1>3 DEF NamesInv, GoodPaths, SavedInv, Paths
<1>6. ASSUME NEW p \in Procs PROVE ProcInv(p)
  BY <1>2 DEF ProcInv, StageInv, AloneInv, ApartInv, LockInv, GoodFiles, MigrationInv,
     BackupInv, RestoreInv, Alone, Compacting, HasTemp, Copying, Opened, Locked
<1> QED
  BY <1>4, <1>5, <1>6 DEF IInv

(* No step of any process, and no kill, breaks the invariant.              *)
LEMMA StepInv == IInv /\ [Next]_vars => IInv'
<1> SUFFICES ASSUME IInv, [Next]_vars PROVE IInv'
  OBVIOUS
<1>1. ASSUME NEW p \in Procs, NEW o \in Operations, Begin(p, o) PROVE IInv'
  BY <1>1, BeginStep
<1>2. ASSUME NEW p \in Procs, OpenStep(p) PROVE IInv'
  BY <1>2, EnsureExistsStep, OpenPathStep, LockStep, EndStep, ReadManifestStep,
     TransactionStep DEF OpenStep
<1>3. ASSUME NEW p \in Procs, CopyStep(p) PROVE IInv'
  BY <1>3, CopyCreateStep, EndStep, CopyPartStep, BackupDoneStep, RestoreStep DEF CopyStep
<1>4. ASSUME NEW p \in Procs, CompactStep(p) PROVE IInv'
  BY <1>4, RearrangeStep, MakeTempStep, CompactIntoStep, CompactLockStep, OpenPathStep,
     EndStep DEF CompactStep
<1>5. ASSUME NEW p \in Procs, NEW w \in Writes, Write(p, w) PROVE IInv'
  BY <1>5, TransactionStep
<1>6. ASSUME NEW p \in Procs, Close(p) PROVE IInv'
  BY <1>6, EndStep, CloseAndGoOnStep
<1>7. ASSUME NEW p \in Procs, Crash(p) PROVE IInv'
  BY <1>7, EndStep
<1>8. CASE UNCHANGED vars
  BY <1>8 DEF vars, diskVars, procVars, histVars, IInv, TypeOK, NamesInv, GoodPaths, SavedInv,
     ProcInv, StageInv, AloneInv, ApartInv, LockInv, GoodFiles, MigrationInv, BackupInv,
     RestoreInv
<1> QED
  BY <1>1, <1>2, <1>3, <1>4, <1>5, <1>6, <1>7, <1>8 DEF Next

(* While a restore is at its last step, nothing but that step renames a    *)
(* file.                                                                   *)
LEMMA OnlyRestore ==
  ASSUME IInv, Next, dir' # dir, NEW p \in Procs, pc[p] = "swap"
  PROVE  Restore(p)
<1>1. op[p] = "restore" /\ AloneInv(p) /\ TypeOK
  BY AtWork DEF StageInv
<1>2. \A q \in Procs : q # p => pc[q] = "idle"
  BY <1>1 DEF AloneInv, Alone, TypeOK
<1>3. \A q \in Procs : \A o \in Operations : ~Begin(q, o)
  BY <1>1 DEF Begin, Alone
<1>4. PICK q \in Procs :
        OpenStep(q) \/ CopyStep(q) \/ CompactStep(q) \/ (\E w \in Writes : Write(q, w))
        \/ Close(q) \/ Crash(q)
  BY <1>3 DEF Next
<1>5. pc[q] # "idle"
  BY <1>4 DEF OpenStep, CopyStep, CompactStep, Write, Close, Crash, EnsureExists, OpenFile,
     Lock, LockFails, ReadManifest, OpenFails, EnsureNamespace, WriteManifest, CopyCreate,
     CopyFails, CopyPart, BackupDone, RestoreCopied, Restore, RemoveOldTemp, RemoveOldBackup,
     MakeTemp, CompactInto, CloseDatabase, RenameToBackup, RenameToPath, Reopen, Relock,
     RelockFails, DropBackup, RemoveNew, RestoreBackup, DropTemp, Rearrange
<1>6. q = p
  BY <1>2, <1>5
<1>7. ~Crash(p)
  BY DEF Crash
<1> QED
  BY <1>4, <1>6, <1>7 DEF OpenStep, CopyStep, CompactStep, Write, Close, EnsureExists, OpenFile,
     Lock, LockFails, ReadManifest, OpenFails, EnsureNamespace, WriteManifest, CopyCreate,
     CopyFails, CopyPart, BackupDone, RestoreCopied, RemoveOldTemp, RemoveOldBackup,
     MakeTemp, CompactInto, CloseDatabase, RenameToBackup, RenameToPath, Reopen, Relock,
     RelockFails, DropBackup, RemoveNew, RestoreBackup, DropTemp, Rearrange

(* The inductive invariant holds in every state.                           *)
THEOREM FileInv == Spec => []IInv
BY InitInv, StepInv, PTL DEF Spec

(* Paths, files, locks and processes keep their types.                     *)
THEOREM FileTypes == Spec => []TypeOK
<1>1. IInv => TypeOK
  BY DEF IInv
<1> QED
  BY FileInv, <1>1, PTL

(* However many processes create, migrate, compact, back up and restore    *)
(* the brain, in whatever order, and wherever they are killed: a brain     *)
(* that holds memories is one that Open accepts or migrates.               *)
THEOREM NothingIsUnopenable == Spec => []NothingUnopenable
<1>1. IInv => NothingUnopenable
  BY DEF IInv, GoodPaths, Good, NothingUnopenable
<1> QED
  BY FileInv, <1>1, PTL

(* What a restore puts in the place of the brain is what the last whole    *)
(* backup held, in the current format, byte for byte; its own copy is      *)
(* opened before (Restore, brainfile.go).                                  *)
THEOREM RestoresAreAsSaved == Spec => RestoredAsSaved
<1>1. ASSUME IInv, Next, NEW p \in Procs, pc[p] = "swap", dir'["brain"] # dir["brain"]
      PROVE  \E d \in saved :
               content[dir'["brain"]] =
                 [whole |-> TRUE, spaces |-> "all", format |-> "current", data |-> d]
  <2>1. op[p] = "restore"
    BY <1>1, AtWork DEF StageInv
  <2>2. /\ dir["restored"] \in Inodes /\ Current(content[dir["restored"]])
        /\ content[dir["restored"]] \in Content
        /\ saved = {content[dir["restored"]].data}
    BY <1>1, <2>1, RestoredIsCurrent
  <2>3. dir'["brain"] = dir["restored"]
    <3>1. dir' # dir
      BY <1>1
    <3>2. Restore(p)
      BY <1>1, <2>1, <3>1, OnlyRestore
    <3>3. dir \in [Paths -> Inodes \cup {None}] /\ dir' = Renamed("restored", "brain")
      BY <1>1, <3>2, AtWork DEF Restore, TypeOK
    <3> QED
      BY <3>3 DEF Renamed, Paths
  <2> QED
    BY <2>2, <2>3 DEF Current, Content
<1>2. IInv /\ [Next]_vars =>
        [\A p \in Procs :
           pc[p] = "swap" /\ dir'["brain"] # dir["brain"] =>
             \E d \in saved :
               content[dir'["brain"]] =
                 [whole |-> TRUE, spaces |-> "all", format |-> "current", data |-> d]]_vars
  BY <1>1
<1> QED
  BY FileInv, <1>2, PTL DEF Spec, RestoredAsSaved

-----------------------------------------------------------------------------
(* Temporary files. *)

(* A step of p, which is no kill, leaves each temporary file to a process  *)
(* that will remove it.                                                    *)
LEMMA LeftBy ==
  ASSUME LeftInv, NEW p \in Procs,
         crashes' = 0 => crashes = 0,
         \A q \in Procs : q # p => op'[q] = op[q] /\ pc'[q] = pc[q],
         dir'["tmp"] # None =>
           \/ pc'[p] \in HasTemp
           \/ dir["tmp"] # None /\ pc[p] \notin HasTemp,
         dir'["bak"] # None =>
           \/ pc'[p] \in HasBackup
           \/ dir["bak"] # None /\ pc[p] \notin HasBackup,
         dir'["restored"] # None =>
           \/ op'[p] = "restore" /\ pc'[p] # "copy"
           \/ dir["restored"] # None /\ ~(op[p] = "restore" /\ pc[p] # "copy")
  PROVE  LeftInv'
<1> SUFFICES ASSUME crashes' = 0
             PROVE  /\ dir'["tmp"] # None => \E q \in Procs : pc'[q] \in HasTemp
                    /\ dir'["bak"] # None => \E q \in Procs : pc'[q] \in HasBackup
                    /\ dir'["restored"] # None =>
                         \E q \in Procs : op'[q] = "restore" /\ pc'[q] # "copy"
  BY DEF LeftInv
<1>1. ASSUME dir'["tmp"] # None PROVE \E q \in Procs : pc'[q] \in HasTemp
  BY <1>1 DEF LeftInv
<1>2. ASSUME dir'["bak"] # None PROVE \E q \in Procs : pc'[q] \in HasBackup
  BY <1>2 DEF LeftInv
<1>3. ASSUME dir'["restored"] # None
      PROVE  \E q \in Procs : op'[q] = "restore" /\ pc'[q] # "copy"
  BY <1>3 DEF LeftInv
<1> QED
  BY <1>1, <1>2, <1>3

(* Opening, using, copying and closing leave the files of a compaction     *)
(* alone, and the copy of a restore until it is removed or renamed.        *)
LEMMA LeftByOthers ==
  ASSUME IInv, LeftInv, NEW p \in Procs,
         \/ OpenStep(p) \/ CopyStep(p) \/ (\E w \in Writes : Write(p, w)) \/ Close(p)
  PROVE  LeftInv'
<1>0. TypeOK /\ StageInv(p) /\ op[p] # "none"
  BY AtWork DEF OpenStep, CopyStep, Write, Close, EnsureExists, OpenFile,
     Lock, LockFails, ReadManifest, OpenFails, EnsureNamespace, WriteManifest, CopyCreate,
     CopyFails, CopyPart, BackupDone, RestoreCopied, Restore
<1> DEFINE Shown ==
       /\ crashes' = crashes
       /\ \A q \in Procs : q # p => op'[q] = op[q] /\ pc'[q] = pc[q]
       /\ pc[p] \notin HasTemp
       /\ dir'["tmp"] = dir["tmp"] /\ dir'["bak"] = dir["bak"]
       /\ dir'["restored"] # None =>
            \/ op'[p] = "restore" /\ pc'[p] # "copy"
            \/ dir["restored"] # None /\ ~(op[p] = "restore" /\ pc[p] # "copy")
<1>1. ASSUME \/ EnsureExists(p) \/ Lock(p) \/ ReadManifest(p) \/ EnsureNamespace(p)
             \/ WriteManifest(p) \/ (\E w \in Writes : Write(p, w))
      PROVE  Shown
  <2>1. /\ dir' = dir /\ crashes' = crashes
        /\ op' = op \/ (op[p] # "restore" /\ op' = [op EXCEPT ![p] = "use"])
        /\ \E s \in Steps : s # "copy" /\ pc' = [pc EXCEPT ![p] = s]
        /\ pc[p] \in {"stat", "lock", "manifest", "spaces", "stamp", "ready"}
    <3>1. CASE Lock(p)
      <4>1. OnceLocked[op[p]] \in {"spaces", "clean_tmp", "manifest"}
        BY <1>0 DEF OnceLocked, TypeOK, Operations
      <4> QED
        BY <3>1, <4>1 DEF Lock, Goto, histVars, Steps
    <3>2. CASE ~Lock(p)
      BY <1>0, <1>1, <3>2 DEF EnsureExists, ReadManifest, EnsureNamespace, WriteManifest,
         Write, Put, Goto, histVars, diskVars, Steps, StageInv
    <3> QED
      BY <3>1, <3>2
  <2> QED
    BY <1>0, <2>1 DEF TypeOK, HasTemp
<1>2. ASSUME OpenFile(p) PROVE Shown
  <2>1. /\ \A x \in {"tmp", "bak"} : dir'[x] = dir[x]
        /\ op[p] # "restore" => dir'["restored"] = dir["restored"]
    BY <1>0, <1>2 DEF OpenFile, OpenPath, PathOf, TypeOK, Paths
  <2>2. /\ op' = op /\ pc' = [pc EXCEPT ![p] = "lock"] /\ crashes' = crashes /\ pc[p] = "open"
    BY <1>2 DEF OpenFile, OpenPath, Goto, histVars
  <2> QED
    BY <1>0, <2>1, <2>2 DEF TypeOK, HasTemp
<1>3. ASSUME LockFails(p) \/ OpenFails(p) \/ CopyFails(p)
      PROVE  Shown
  <2>1. /\ crashes' = crashes /\ op' = [op EXCEPT ![p] = "none"]
        /\ pc' = [pc EXCEPT ![p] = "idle"] /\ pc[p] \in {"lock", "manifest", "copy"}
        /\ dir' = dir \/ dir' = Removed("restored")
        /\ op[p] = "restore" /\ pc[p] # "copy" => dir' = Removed("restored")
    BY <1>3 DEF LockFails, OpenFails, CopyFails, Fails, Ends, Goto, histVars
  <2> QED
    BY <1>0, <2>1 DEF TypeOK, HasTemp, Removed, Paths
<1>4. ASSUME CopyCreate(p)
      PROVE  Shown
  <2>1. /\ crashes' = crashes /\ op' = op /\ pc' = [pc EXCEPT ![p] = "copy_part"]
        /\ pc[p] = "copy" /\ \E i \in Inodes : dir' = [dir EXCEPT ![To(p)] = i]
        /\ op[p] \in {"backup", "restore"}
    BY <1>0, <1>4 DEF CopyCreate, Goto, StageInv, Alone
  <2> QED
    BY <1>0, <2>1 DEF TypeOK, HasTemp, To, Paths
<1>5. ASSUME CopyPart(p) \/ RestoreCopied(p) PROVE Shown
  <2>1. /\ crashes' = crashes /\ op' = op /\ dir' = dir
        /\ \E s \in {"copy_done", "open"} : pc' = [pc EXCEPT ![p] = s]
        /\ pc[p] \in Copying
    BY <1>5 DEF CopyPart, RestoreCopied, Put, Goto, histVars, Copying
  <2> QED
    BY <1>0, <2>1 DEF TypeOK, HasTemp, Copying
<1>6. ASSUME BackupDone(p) \/ Restore(p)
      PROVE  Shown
  <2>1. /\ crashes' = crashes /\ op' = [op EXCEPT ![p] = "none"]
        /\ pc' = [pc EXCEPT ![p] = "idle"] /\ pc[p] \in {"copy_done", "swap"}
        /\ \/ op[p] = "backup" /\ dir' = dir
           \/ dir' = Renamed("restored", "brain")
    BY <1>6 DEF BackupDone, Restore, Ends, Goto
  <2> QED
    BY <1>0, <2>1 DEF TypeOK, HasTemp, Renamed, Paths
<1>7. ASSUME Close(p) PROVE Shown
  <2>1. /\ crashes' = crashes /\ dir' = dir /\ pc[p] = "ready"
        /\ \/ op[p] # "restore" /\ op' = [op EXCEPT ![p] = "none"] /\ pc' = [pc EXCEPT ![p] = "idle"]
           \/ op[p] = "default" /\ op' = [op EXCEPT ![p] = "use"] /\ pc' = [pc EXCEPT ![p] = "open"]
           \/ op[p] = "backup" /\ op' = op /\ pc' = [pc EXCEPT ![p] = "copy"]
           \/ op[p] = "restore" /\ op' = op /\ pc' = [pc EXCEPT ![p] = "swap"]
    BY <1>7 DEF Close, Ends, Goto, OnceClosed, histVars
  <2> QED
    BY <1>0, <2>1 DEF TypeOK, HasTemp
<1>8. Shown
  BY <1>1, <1>2, <1>3, <1>4, <1>5, <1>6, <1>7 DEF OpenStep, CopyStep
<1>9. pc[p] \notin HasBackup
  BY <1>8 DEF HasTemp, HasBackup
<1> QED
  BY <1>8, <1>9, LeftBy

(* A compaction that makes a temporary file, or keeps the old one as its   *)
(* backup, removes it or puts it in place, whichever way it goes.          *)
LEMMA LeftByCompact ==
  ASSUME IInv, LeftInv, NEW p \in Procs, CompactStep(p)
  PROVE  LeftInv'
<1> DEFINE Shown ==
       /\ \A x \in {"restored"} : dir'[x] = dir[x]
       /\ op[p] = "compact"
       /\ crashes' = crashes
       /\ \A q \in Procs : q # p => op'[q] = op[q] /\ pc'[q] = pc[q]
       /\ dir'["tmp"] # None =>
            \/ pc'[p] \in HasTemp
            \/ dir["tmp"] # None /\ pc[p] \notin HasTemp
       /\ dir'["bak"] # None =>
            \/ pc'[p] \in HasBackup
            \/ dir["bak"] # None /\ pc[p] \notin HasBackup
<1>0. TypeOK /\ op[p] = "compact"
  <2>1. pc[p] \in Compacting
    BY DEF CompactStep, RemoveOldTemp, RemoveOldBackup, MakeTemp, CompactInto, CloseDatabase,
       RenameToBackup, RenameToPath, Reopen, Relock, RelockFails, DropBackup, RemoveNew,
       RestoreBackup, DropTemp, Rearrange, Compacting, HasTemp
  <2> QED
    BY <2>1, AtWork DEF StageInv
<1>1. ASSUME \/ RemoveOldTemp(p) \/ RemoveOldBackup(p) \/ RenameToBackup(p) \/ RenameToPath(p)
             \/ DropBackup(p) \/ RemoveNew(p) \/ RestoreBackup(p)
      PROVE  Shown
  <2>1. op' = op /\ crashes' = crashes /\ \E s \in Steps : pc' = [pc EXCEPT ![p] = s]
    BY <1>1 DEF RemoveOldTemp, RemoveOldBackup, RenameToBackup, RenameToPath, DropBackup,
       RemoveNew, RestoreBackup, Rearrange, Goto, histVars, Steps
  <2>2. \A q \in Procs : q # p => op'[q] = op[q] /\ pc'[q] = pc[q]
    BY <1>0, <2>1 DEF TypeOK
  <2>3. CASE RemoveOldTemp(p) \/ RemoveOldBackup(p)
    BY <1>0, <2>1, <2>2, <2>3 DEF RemoveOldTemp, RemoveOldBackup, Rearrange, Goto, Removed,
       TypeOK, Paths, HasTemp, HasBackup
  <2>4. CASE RenameToBackup(p) \/ RenameToPath(p)
    BY <1>0, <2>1, <2>2, <2>4 DEF RenameToBackup, RenameToPath, Rearrange, Goto, Renamed,
       TypeOK, Paths, HasTemp, HasBackup
  <2>5. CASE DropBackup(p) \/ RemoveNew(p) \/ RestoreBackup(p)
    BY <1>0, <2>1, <2>2, <2>5 DEF DropBackup, RemoveNew, RestoreBackup, Rearrange, Goto,
       Renamed, Removed, TypeOK, Paths, HasTemp, HasBackup
  <2> QED
    BY <1>1, <2>3, <2>4, <2>5
<1>2. ASSUME MakeTemp(p) PROVE Shown
  BY <1>0, <1>2 DEF MakeTemp, Goto, histVars, TypeOK, Paths, HasTemp, HasBackup
<1>3. ASSUME CompactInto(p) \/ CloseDatabase(p) \/ Relock(p) \/ RelockFails(p) PROVE Shown
  BY <1>0, <1>3 DEF CompactInto, CloseDatabase, Relock, RelockFails, Goto, histVars, TypeOK,
     HasTemp, HasBackup
<1>4. ASSUME Reopen(p) PROVE Shown
  <2>1. /\ op' = op /\ crashes' = crashes /\ pc[p] = "reopen"
        /\ pc' = [pc EXCEPT ![p] = "relock"]
        /\ dir' = dir \/ dir' = [dir EXCEPT !["brain"] = Fresh]
    BY <1>4 DEF Reopen, OpenPath, Goto, histVars
  <2> QED
    BY <1>0, <2>1 DEF TypeOK, Paths, HasTemp, HasBackup
<1>5. ASSUME DropTemp(p) PROVE Shown
  BY <1>0, <1>5 DEF DropTemp, Ends, Goto, Removed, histVars, TypeOK, Paths, HasTemp, HasBackup
<1>6. Shown
  BY <1>1, <1>2, <1>3, <1>4, <1>5 DEF CompactStep
<1> QED
  BY <1>6, LeftBy

(* Every step leaves a temporary file to a process that will remove it,    *)
(* until one is killed.                                                    *)
LEMMA LeftStep == IInv /\ LeftInv /\ [Next]_vars => LeftInv'
<1> SUFFICES ASSUME IInv, LeftInv, [Next]_vars PROVE LeftInv'
  OBVIOUS
<1>0. TypeOK
  BY DEF IInv
<1>1. ASSUME NEW p \in Procs, NEW o \in Operations, Begin(p, o) PROVE LeftInv'
  <2>1. /\ pc[p] = "idle" /\ op[p] = "none" /\ dir' = dir /\ crashes' = crashes
        /\ op' = [op EXCEPT ![p] = o] /\ \E s : pc' = [pc EXCEPT ![p] = s]
    BY <1>0, <1>1 DEF Begin, Goto, TypeOK
  <2>2. \A q \in Procs : q # p => op'[q] = op[q] /\ pc'[q] = pc[q]
    BY <1>0, <2>1 DEF TypeOK
  <2> QED
    BY <2>1, <2>2, LeftBy DEF HasTemp, HasBackup
<1>2. ASSUME NEW p \in Procs, Crash(p) PROVE LeftInv'
  <2>1. crashes' # 0
    BY <1>0, <1>2, FilesAssumption DEF Crash, TypeOK
  <2> QED
    BY <2>1 DEF LeftInv
<1>3. CASE UNCHANGED vars
  BY <1>3 DEF vars, diskVars, procVars, histVars, LeftInv
<1> QED
  BY <1>1, <1>2, <1>3, LeftByOthers, LeftByCompact DEF Next

(* As long as no process is killed, none leaves the temporary file or the  *)
(* backup of a compaction or the copy of a restore behind, whatever fails  *)
(* and however many compactions get in each other's way.                   *)
THEOREM NothingLeftOver == Spec => []NoLeftovers
<1>1. Init => LeftInv
  BY DEF Init, LeftInv, Paths
<1>2. IInv /\ LeftInv => NoLeftovers
  BY AtWork DEF LeftInv, NoLeftovers, HasTemp, HasBackup
<1> QED
  BY FileInv, LeftStep, <1>1, <1>2, PTL DEF Spec

-----------------------------------------------------------------------------
(* Acknowledged writes. *)

(* A path that names the same file as another did before, whose data is as *)
(* it was, has the other's data.                                           *)
LEMMA DataSame ==
  ASSUME NEW x \in Paths, NEW y \in Paths, dir'[x] = dir[y],
         dir[y] # None => content'[dir[y]].data = content[dir[y]].data
  PROVE  DataAt(x)' = DataAt(y)
BY DEF DataAt

(* While commands run side by side, none of them a compaction, they agree  *)
(* on which file the brain is.                                             *)
LEMMA KeptBy ==
  ASSUME IInv, KeptInv, NEW p \in Procs, op[p] # "none",
         \A q \in Procs : q # p => op'[q] = op[q] /\ pc'[q] = pc[q] /\ file'[q] = file[q],
         op'[p] \in {op[p], "none"} \/ (op[p] = "default" /\ op'[p] = "use"),
         risky' = risky,
         \/ op[p] \in Alone \cup {"compact"}
         \/ dir["brain"] = None
         \/ dir'["brain"] = dir["brain"],
         ~risky => AckedKept' /\ CompactInv(p)' /\ OpenInv(p)'
  PROVE  KeptInv'
<1> SUFFICES ASSUME ~risky, NEW q \in Procs, q # p
             PROVE  CompactInv(q)' /\ OpenInv(q)'
  BY DEF KeptInv
<1>0. /\ CompactInv(p) /\ CompactInv(q) /\ OpenInv(q) /\ StageInv(q) /\ AloneInv(p)
      /\ op'[q] = op[q] /\ pc'[q] = pc[q] /\ file'[q] = file[q]
  BY AtWork DEF KeptInv
<1>1. op[q] # "compact"
  BY <1>0 DEF CompactInv
<1>2. CompactInv(q)'
  BY <1>0, <1>1 DEF CompactInv
<1>3. OpenInv(q)'
  <2>1. CASE op[p] \in Alone \cup {"compact"}
    <3>1. op[q] = "none"
      BY <1>0, <2>1 DEF CompactInv, AloneInv
    <3> QED
      BY <1>0, <3>1 DEF OpenInv
  <2>2. CASE dir["brain"] = None
    BY <1>0, <2>2 DEF OpenInv, StageInv
  <2>3. CASE dir'["brain"] = dir["brain"]
    BY <1>0, <2>3 DEF OpenInv
  <2> QED
    BY <2>1, <2>2, <2>3
<1> QED
  BY <1>2, <1>3

(* What is known of p before its step, if no compaction had company.       *)
LEMMA KeptAt ==
  ASSUME IInv, KeptInv, ~risky, NEW p \in Procs
  PROVE  /\ AckedKept /\ CompactInv(p) /\ OpenInv(p)
         /\ expected \subseteq DataAt("brain") \cup DataAt("bak")
  BY DEF KeptInv, AckedKept

(* Steps that change neither what the paths name nor what is in a file.    *)
LEMMA KeptByMoving ==
  ASSUME IInv, KeptInv, NEW p \in Procs,
         \/ EnsureExists(p) \/ Lock(p) \/ ReadManifest(p) \/ Relock(p) \/ RelockFails(p)
         \/ CloseDatabase(p) \/ (Close(p) /\ ~Ends(p))
  PROVE  KeptInv'
<1>0. TypeOK /\ StageInv(p) /\ op[p] # "none"
  BY AtWork DEF EnsureExists, Lock, ReadManifest, Relock, RelockFails, CloseDatabase, Close
<1>1. PICK s \in Steps :
        /\ pc' = [pc EXCEPT ![p] = s]
        /\ UNCHANGED <<dir, content, expected, risky>>
        /\ op' = op \/ (op[p] = "default" /\ s = "open" /\ op' = [op EXCEPT ![p] = "use"])
        /\ \/ s \in {"open", "copy", "swap"} /\ op'[p] \in {"use", "default", "backup", "restore"}
           \/ s = "clean_tmp" /\ pc[p] = "lock" /\ op[p] = "compact" /\ file' = file
           \/ s \in {"spaces", "manifest", "ready"} /\ file' = file /\ pc[p] \in {"lock", "manifest"}
           \/ s = "drop_bak" /\ pc[p] = "relock" /\ file' = file
           \/ s = "undo_path" /\ pc[p] = "relock" /\ file' = [file EXCEPT ![p] = None]
           \/ s = "to_bak" /\ pc[p] = "close_db" /\ file' = [file EXCEPT ![p] = None]
        /\ file' = file \/ file' = [file EXCEPT ![p] = None]
  <2>1. CASE EnsureExists(p)
    BY <1>0, <2>1 DEF EnsureExists, Goto, histVars, diskVars, Steps, StageInv, TypeOK
  <2>2. CASE Lock(p)
    <3>1. \/ op[p] = "compact" /\ OnceLocked[op[p]] = "clean_tmp"
          \/ OnceLocked[op[p]] \in {"spaces", "manifest"}
      BY <1>0 DEF OnceLocked, TypeOK, Operations
    <3> QED
      BY <1>0, <2>2, <3>1 DEF Lock, Goto, histVars, Steps
  <2>3. CASE ReadManifest(p)
    BY <1>0, <2>3 DEF ReadManifest, Goto, histVars, diskVars, Steps
  <2>4. CASE Relock(p) \/ RelockFails(p) \/ CloseDatabase(p)
    BY <1>0, <2>4 DEF Relock, RelockFails, CloseDatabase, Closes, Goto, histVars, Steps
  <2>5. CASE Close(p) /\ ~Ends(p)
    BY <1>0, <2>5 DEF Close, Closes, Goto, OnceClosed, histVars, Steps, TypeOK
  <2> QED
    BY <2>1, <2>2, <2>3, <2>4, <2>5
<1>2. /\ pc'[p] = s
      /\ op'[p] \in {op[p], "none"} \/ (op[p] = "default" /\ op'[p] = "use")
      /\ \A q \in Procs : q # p => op'[q] = op[q] /\ pc'[q] = pc[q] /\ file'[q] = file[q]
  BY <1>0, <1>1 DEF TypeOK
<1>3. ASSUME ~risky PROVE AckedKept' /\ CompactInv(p)' /\ OpenInv(p)'
  <2>0. AckedKept /\ CompactInv(p) /\ OpenInv(p)
    BY <1>3, KeptAt
  <2>1. AckedKept'
    BY <1>1, <2>0 DEF AckedKept, DataAt
  <2>2. CompactInv(p)'
    <3> SUFFICES ASSUME op'[p] = "compact" PROVE CompactInv(p)'
      BY DEF CompactInv
    <3>1. op[p] = "compact" /\ op' = op
      BY <1>0, <1>1 DEF TypeOK
    <3>2. \A x : DataAt(x)' = DataAt(x)
      BY <1>1 DEF DataAt
    <3>3. \A q \in Procs : q # p => op'[q] = "none"
      BY <2>0, <3>1 DEF CompactInv
    <3> QED
      BY <1>1, <1>2, <2>0, <3>1, <3>2, <3>3 DEF CompactInv
  <2>3. OpenInv(p)'
    <3>0. dir'["brain"] = dir["brain"] /\ pc'[p] = s
      BY <1>1, <1>2
    <3> SUFFICES ASSUME op'[p] \in {"init", "use", "default"}, s \in Opened
                 PROVE  file'[p] = dir["brain"]
      BY <3>0 DEF OpenInv
    <3>1. s \in {"spaces", "manifest", "ready"}
      BY <1>1 DEF Opened
    <3>2. file' = file /\ pc[p] \in Opened /\ op' = op
      BY <1>1, <3>1 DEF Opened
    <3> QED
      BY <2>0, <3>2 DEF OpenInv
  <2> QED
    BY <2>1, <2>2, <2>3
<1> QED
  BY <1>0, <1>1, <1>2, <1>3, KeptBy

(* Operations that end leave the brain and the backup of a compaction.     *)
LEMMA KeptByEnding ==
  ASSUME IInv, KeptInv, NEW p \in Procs,
         \/ LockFails(p) \/ OpenFails(p) \/ CopyFails(p) \/ DropTemp(p) \/ Crash(p)
         \/ Close(p) /\ Ends(p)
  PROVE  KeptInv'
<1>0. TypeOK
  BY DEF IInv
<1>1. /\ op[p] # "none" /\ Ends(p) /\ content' = content
      /\ dir' = dir \/ dir' = Removed("restored") \/ dir' = Removed("tmp")
      /\ expected' = expected /\ risky' = risky
  BY <1>0 DEF LockFails, OpenFails, CopyFails, DropTemp, Crash, Close, Fails, histVars, TypeOK
<1>2. /\ op'[p] = "none"
      /\ \A q \in Procs : q # p => op'[q] = op[q] /\ pc'[q] = pc[q] /\ file'[q] = file[q]
      /\ dir'["brain"] = dir["brain"] /\ dir'["bak"] = dir["bak"]
  BY <1>0, <1>1 DEF TypeOK, Ends, Goto, Closes, Removed, Paths
<1>3. DataAt("brain")' = DataAt("brain") /\ DataAt("bak")' = DataAt("bak")
  BY <1>1, <1>2, DataSame DEF Paths
<1>4. ASSUME ~risky PROVE AckedKept' /\ CompactInv(p)' /\ OpenInv(p)'
  <2>1. AckedKept'
    BY <1>1, <1>3, <1>4, KeptAt DEF AckedKept
  <2> QED
    BY <1>2, <2>1 DEF CompactInv, OpenInv
<1> QED
  BY <1>1, <1>2, <1>4, KeptBy

(* The brain is opened at its path; a new one holds nothing.               *)
LEMMA KeptByOpening ==
  ASSUME IInv, KeptInv, NEW p \in Procs, OpenFile(p) \/ Reopen(p)
  PROVE  KeptInv'
<1>0. TypeOK /\ StageInv(p) /\ op[p] # "none" /\ RestoreInv(p)
  BY AtWork DEF OpenFile, Reopen
<1>a. PICK x \in {"brain", "restored"}, s \in {"lock", "relock"} :
        /\ OpenPath(p, x, s)
        /\ x = "restored" <=> op[p] = "restore"
        /\ s = "relock" => pc[p] = "reopen" /\ op[p] = "compact"
        /\ s = "lock" => pc[p] = "open"
        /\ x = "restored" => dir[x] # None
  <2>1. CASE OpenFile(p)
    BY <1>0, <2>1 DEF OpenFile, PathOf, RestoreInv
  <2>2. CASE Reopen(p)
    BY <1>0, <2>2 DEF Reopen, StageInv, Compacting, HasTemp
  <2> QED
    BY <2>1, <2>2
<1>1. UNCHANGED <<op, expected, risky>> /\ pc' = [pc EXCEPT ![p] = s]
  BY <1>a DEF OpenPath, Goto, histVars
<1>2. PICK i \in Inodes :
        /\ file' = [file EXCEPT ![p] = i]
        /\ \/ dir[x] = i /\ content' = content /\ dir' = dir
           \/ /\ x = "brain" /\ dir[x] = None /\ content' = [content EXCEPT ![i] = Empty]
              /\ dir' = [dir EXCEPT ![x] = i]
              /\ \A y \in Paths : dir[y] # i
  <2>1. CASE dir[x] = None
    <3>1. /\ ~(Inodes \subseteq Used)
          /\ dir' = [dir EXCEPT ![x] = Fresh] /\ content' = [content EXCEPT ![Fresh] = Empty]
          /\ file' = [file EXCEPT ![p] = Fresh] /\ x = "brain"
      BY <1>a, <2>1 DEF OpenPath
    <3>2. Fresh \in Inodes /\ \A y \in Paths : dir[y] # Fresh
      BY <3>1, FreshIsUnused
    <3> HIDE DEF Fresh
    <3> QED
      BY <2>1, <3>1, <3>2
  <2>2. CASE dir[x] # None
    BY <1>0, <1>a, <2>2 DEF OpenPath, TypeOK, Paths
  <2> QED
    BY <2>1, <2>2
<1>3. /\ file'[p] = i /\ op'[p] = op[p] /\ pc'[p] = s
      /\ \A q \in Procs : q # p => op'[q] = op[q] /\ pc'[q] = pc[q] /\ file'[q] = file[q]
      /\ dir'[x] = i /\ dir'["bak"] = dir["bak"]
      /\ dir'["brain"] = dir["brain"] \/ dir["brain"] = None
  BY <1>0, <1>1, <1>2 DEF TypeOK, Paths
<1>4. DataAt("bak")' = DataAt("bak") /\ DataAt("brain")' = DataAt("brain")
  <2>1. CASE dir[x] = i /\ content' = content /\ dir' = dir
    BY <2>1 DEF DataAt
  <2>2. CASE /\ x = "brain" /\ dir[x] = None /\ content' = [content EXCEPT ![i] = Empty]
             /\ dir' = [dir EXCEPT ![x] = i]
             /\ \A y \in Paths : dir[y] # i
    <3>1. content'[i] = Empty /\ i # None /\ \A j \in Inodes : j # i => content'[j] = content[j]
      BY <1>0, <2>2, FilesAssumption DEF TypeOK
    <3>2. DataAt("brain") = {} /\ DataAt("brain")' = {}
      BY <1>3, <2>2, <3>1 DEF DataAt, Empty
    <3>3. dir["bak"] # None => dir["bak"] \in Inodes /\ dir["bak"] # i
      BY <1>0, <2>2 DEF TypeOK, Paths
    <3> QED
      BY <1>3, <3>1, <3>2, <3>3 DEF DataAt
  <2> QED
    BY <1>2, <2>1, <2>2
<1>5. ASSUME ~risky PROVE AckedKept' /\ CompactInv(p)' /\ OpenInv(p)'
  <2>0. AckedKept /\ CompactInv(p) /\ expected \subseteq DataAt("brain") \cup DataAt("bak")
    BY <1>5, KeptAt
  <2>1. AckedKept'
    BY <1>1, <1>4, <2>0 DEF AckedKept
  <2>2. CompactInv(p)'
    <3> SUFFICES ASSUME op[p] = "compact" PROVE CompactInv(p)'
      BY <1>3 DEF CompactInv
    <3>1. x = "brain" /\ \A q \in Procs : q # p => op'[q] = "none"
      BY <1>3, <1>a, <2>0 DEF CompactInv
    <3>2. CASE s = "lock"
      BY <1>1, <1>3, <1>a, <2>0, <3>1, <3>2 DEF CompactInv
    <3>3. CASE s = "relock"
      BY <1>1, <1>3, <1>4, <1>a, <2>0, <3>1, <3>3 DEF CompactInv
    <3> QED
      BY <3>2, <3>3
  <2>3. OpenInv(p)'
    BY <1>3, <1>a DEF OpenInv, Opened
  <2> QED
    BY <2>1, <2>2, <2>3
<1> QED
  BY <1>0, <1>1, <1>3, <1>5, KeptBy

(* A transaction keeps the data of the file, and adds the write to the     *)
(* brain.                                                                  *)
LEMMA KeptByTransaction ==
  ASSUME IInv, KeptInv, NEW p \in Procs,
         \/ EnsureNamespace(p) \/ WriteManifest(p) \/ (\E w \in Writes : Write(p, w))
  PROVE  KeptInv'
<1>0. /\ TypeOK /\ StageInv(p) /\ op[p] # "none" /\ RestoreInv(p)
  BY AtWork DEF EnsureNamespace, WriteManifest, Write
<1>1. pc[p] \in {"spaces", "stamp", "ready"} /\ op[p] # "restore"
  BY <1>0 DEF EnsureNamespace, WriteManifest, Write, RestoreInv
<1>2. file[p] \in Inodes /\ content[file[p]] \in Content /\ file[p] # None
  BY <1>1, LockedFile, FilesAssumption
<1> DEFINE old == content[file[p]]
<1>3. PICK c \in Content, s \in {"spaces", "stamp", "ready"} :
        /\ content' = [content EXCEPT ![file[p]] = c] /\ pc' = [pc EXCEPT ![p] = s]
        /\ UNCHANGED <<dir, op, file, risky>>
        /\ \/ c.data = old.data /\ expected' = expected
           \/ /\ op[p] = "use"
              /\ \E w \in Writes : c.data = old.data \cup {w} /\ expected' = expected \cup {w}
  <2>0. old \in Content
    BY <1>2
  <2> HIDE DEF old
  <2>1. CASE EnsureNamespace(p) \/ WriteManifest(p)
    <3>1. PICK v \in {"some", "all"}, s \in {"spaces", "stamp", "ready"} :
            /\ \/ Put(p, [old EXCEPT !.spaces = v], s)
               \/ Put(p, [old EXCEPT !.format = "current"], s)
            /\ UNCHANGED histVars
      BY <2>1 DEF EnsureNamespace, WriteManifest, old
    <3>2. /\ [old EXCEPT !.spaces = v] \in Content /\ [old EXCEPT !.spaces = v].data = old.data
          /\ [old EXCEPT !.format = "current"] \in Content
          /\ [old EXCEPT !.format = "current"].data = old.data
      BY <2>0 DEF Content
    <3> QED
      BY <3>1, <3>2 DEF Put, Goto, histVars
  <2>2. ASSUME NEW w \in Writes, Write(p, w)
        PROVE  \E c \in Content, s \in {"spaces", "stamp", "ready"} :
                 /\ content' = [content EXCEPT ![file[p]] = c] /\ pc' = [pc EXCEPT ![p] = s]
                 /\ UNCHANGED <<dir, op, file, risky>>
                 /\ op[p] = "use"
                 /\ \E v \in Writes : c.data = old.data \cup {v} /\ expected' = expected \cup {v}
    <3>1. /\ Put(p, [old EXCEPT !.data = old.data \cup {w}], "ready")
          /\ expected' = expected \cup {w} /\ risky' = risky /\ op[p] = "use"
      BY <2>2 DEF Write, old
    <3>2. /\ [old EXCEPT !.data = old.data \cup {w}] \in Content
          /\ [old EXCEPT !.data = old.data \cup {w}].data = old.data \cup {w}
      BY <2>0 DEF Content
    <3> QED
      BY <3>1, <3>2 DEF Put, Goto
  <2> QED
    BY <2>1, <2>2
<1>4. /\ pc'[p] = s /\ op'[p] = op[p] /\ file'[p] = file[p] /\ dir' = dir
      /\ \A q \in Procs : q # p => op'[q] = op[q] /\ pc'[q] = pc[q] /\ file'[q] = file[q]
      /\ content'[file[p]] = c /\ \A j \in Inodes : j # file[p] => content'[j] = content[j]
      /\ old.data \subseteq c.data
  BY <1>0, <1>2, <1>3 DEF TypeOK
<1>5. \A x \in Paths : DataAt(x) \subseteq DataAt(x)'
  <2>1. \A x \in Paths : dir[x] \in Inodes \cup {None}
    BY <1>0 DEF TypeOK
  <2> QED
    BY <1>4, <2>1 DEF DataAt
<1>6. ASSUME ~risky PROVE AckedKept' /\ CompactInv(p)' /\ OpenInv(p)'
  <2>0. /\ AckedKept /\ CompactInv(p) /\ OpenInv(p)
        /\ expected \subseteq DataAt("brain") \cup DataAt("bak")
    BY <1>6, KeptAt
  <2>1. AckedKept'
    <3>1. CASE expected' = expected
      BY <1>5, <2>0, <3>1 DEF AckedKept, Paths
    <3>2. ASSUME op[p] = "use", NEW w \in Writes, c.data = old.data \cup {w},
                 expected' = expected \cup {w}
          PROVE  AckedKept'
      <4>1. pc[p] = "ready" \/ pc[p] \in Opened
        BY <1>1 DEF Opened
      <4>2. file[p] = dir["brain"]
        BY <2>0, <3>2, <4>1 DEF OpenInv, Opened
      <4>3. w \in DataAt("brain")'
        BY <1>2, <1>4, <3>2, <4>2 DEF DataAt
      <4> QED
        BY <1>5, <2>0, <3>2, <4>3 DEF AckedKept, Paths
    <3> QED
      BY <1>3, <3>1, <3>2
  <2>2. CompactInv(p)'
    BY <1>4, <2>0 DEF CompactInv
  <2>3. OpenInv(p)'
    BY <1>1, <1>4, <2>0 DEF OpenInv, Opened
  <2> QED
    BY <2>1, <2>2, <2>3
<1> QED
  BY <1>0, <1>3, <1>4, <1>6, KeptBy

(* A backup and a restore leave the brain and the backup of a compaction   *)
(* what they were, until the restore replaces the brain: what was          *)
(* acknowledged is what was restored, from then on.                        *)
LEMMA KeptByCopying ==
  ASSUME IInv, KeptInv, NEW p \in Procs,
         CopyCreate(p) \/ CopyPart(p) \/ BackupDone(p) \/ RestoreCopied(p) \/ Restore(p)
  PROVE  KeptInv'
<1>0. /\ TypeOK /\ NamesInv /\ op[p] # "none" /\ op[p] \in Alone
  BY AtWork DEF IInv, CopyCreate, CopyPart, BackupDone, RestoreCopied, Restore, StageInv,
     Copying, Alone
<1>1. /\ risky' = risky
      /\ op' = op \/ op' = [op EXCEPT ![p] = "none"]
      /\ \E s \in Steps : pc' = [pc EXCEPT ![p] = s]
      /\ \E f : file' = [file EXCEPT ![p] = f]
  <2>1. file = [file EXCEPT ![p] = file[p]]
    BY <1>0 DEF TypeOK
  <2> QED
    BY <2>1 DEF CopyCreate, CopyPart, Put, BackupDone, RestoreCopied, Restore, Ends, Closes,
       Goto, histVars, Steps
<1>2. /\ op'[p] \in {op[p], "none"}
      /\ \A q \in Procs : q # p => op'[q] = op[q] /\ pc'[q] = pc[q] /\ file'[q] = file[q]
  BY <1>0, <1>1 DEF TypeOK
<1>3. CompactInv(p)' /\ OpenInv(p)'
  BY <1>0, <1>2 DEF CompactInv, OpenInv, Alone
<1>t. \A x \in Paths : dir[x] \in Inodes \cup {None}
  BY <1>0 DEF TypeOK
<1>4. CASE CopyCreate(p) \/ CopyPart(p) \/ BackupDone(p) \/ RestoreCopied(p)
  <2>1. PICK i \in Inodes :
          /\ expected' = expected
          /\ \E c : content' = [content EXCEPT ![i] = c]
          /\ \A x \in {"brain", "bak"} : dir'[x] = dir[x] /\ dir[x] # i
    <3>1. CASE CopyCreate(p)
      <4>1. PICK i \in Inodes :
              /\ IF dir[To(p)] = None THEN ~(Inodes \subseteq Used) /\ i = Fresh
                 ELSE i = dir[To(p)]
              /\ dir' = [dir EXCEPT ![To(p)] = i] /\ content' = [content EXCEPT ![i] = Empty]
        BY <3>1 DEF CopyCreate
      <4>2. dir[To(p)] = i \/ \A x \in Paths : dir[x] # i
        BY <4>1, FreshIsUnused
      <4>3. To(p) \in {"backup", "restored"} /\ i # None
        BY FilesAssumption DEF To
      <4>4. \A x \in {"brain", "bak"} : dir'[x] = dir[x] /\ dir[x] # i
        BY <1>0, <4>1, <4>2, <4>3 DEF NamesInv, Paths, TypeOK
      <4>5. expected' = expected
        BY <3>1 DEF CopyCreate
      <4> QED
        BY <4>1, <4>4, <4>5
    <3>2. CASE CopyPart(p) \/ BackupDone(p) \/ RestoreCopied(p)
      <4>1. pc[p] \in Copying
        BY <3>2 DEF CopyPart, BackupDone, RestoreCopied, Copying
      <4>2. file[p] \in Inodes /\ file[p] = dir[To(p)] /\ To(p) \in {"backup", "restored"}
            /\ file[p] # None
        BY <4>1, CopyingProc
      <4>3. /\ dir' = dir /\ expected' = expected
            /\ \E c : content' = [content EXCEPT ![file[p]] = c]
        BY <3>2 DEF CopyPart, BackupDone, RestoreCopied, Put, Copied, histVars
      <4>4. \A x \in {"brain", "bak"} : dir[x] # file[p]
        BY <1>0, <4>2 DEF NamesInv, Paths
      <4> QED
        BY <4>2, <4>3, <4>4
    <3> QED
      BY <1>4, <3>1, <3>2
  <2>2. \A j \in Inodes : j # i => content'[j] = content[j]
    BY <1>0, <2>1 DEF TypeOK
  <2>3. DataAt("brain")' = DataAt("brain") /\ DataAt("bak")' = DataAt("bak")
    BY <1>t, <2>1, <2>2 DEF DataAt, Paths
  <2>4. ~risky => AckedKept'
    BY <1>1, <2>1, <2>3, KeptAt DEF AckedKept
  <2> QED
    BY <1>0, <1>1, <1>2, <1>3, <2>4, KeptBy
<1>5. CASE Restore(p)
  <2>1. /\ dir' = Renamed("restored", "brain") /\ content' = content
        /\ expected' = content[dir["restored"]].data
    BY <1>5 DEF Restore
  <2>2. dir'["brain"] = dir["restored"] /\ dir["restored"] # None
    BY <1>0, <1>5, <2>1, RestoredIsCurrent, AtWork DEF Renamed, TypeOK, Paths, Restore, StageInv
  <2>3. expected' = DataAt("brain")'
    BY <2>1, <2>2 DEF DataAt
  <2>4. AckedKept'
    BY <2>3 DEF AckedKept
  <2> QED
    BY <1>0, <1>1, <1>2, <1>3, <2>4, KeptBy
<1> QED
  BY <1>4, <1>5

(* The brain is renamed while its data is in the file that takes its       *)
(* place, and that file is removed when its data is in the brain again.    *)
LEMMA KeptByRearranging ==
  ASSUME IInv, KeptInv, NEW p \in Procs,
         \/ RemoveOldTemp(p) \/ RemoveOldBackup(p) \/ RenameToBackup(p) \/ RenameToPath(p)
         \/ DropBackup(p) \/ RemoveNew(p) \/ RestoreBackup(p)
  PROVE  KeptInv'
<1>0. TypeOK /\ op[p] = "compact" /\ op[p] # "none"
  <2>1. pc[p] \in Compacting
    BY DEF RemoveOldTemp, RemoveOldBackup, RenameToBackup, RenameToPath, DropBackup, RemoveNew,
       RestoreBackup, Rearrange, Compacting, HasTemp
  <2> QED
    BY <2>1, AtWork, CompactingProc
<1>1. /\ UNCHANGED <<content, op, file, expected, risky>>
      /\ \E s \in Steps : pc' = [pc EXCEPT ![p] = s]
  BY DEF RemoveOldTemp, RemoveOldBackup, RenameToBackup, RenameToPath, DropBackup, RemoveNew,
     RestoreBackup, Rearrange, Goto, histVars, Steps
<1>2. \A q \in Procs : q # p => op'[q] = op[q] /\ pc'[q] = pc[q] /\ file'[q] = file[q]
  BY <1>0, <1>1 DEF TypeOK
<1>3. ASSUME ~risky PROVE AckedKept' /\ CompactInv(p)' /\ OpenInv(p)'
  <2>0. /\ \A q \in Procs : q # p => op'[q] = "none"
        /\ CompactInv(p) /\ expected \subseteq DataAt("brain") \cup DataAt("bak")
        /\ expected' = expected /\ op'[p] = "compact" /\ file'[p] = file[p]
    BY <1>0, <1>1, <1>2, <1>3, KeptAt DEF CompactInv
  <2>o. OpenInv(p)'
    BY <2>0 DEF OpenInv
  <2>r. ASSUME NEW x \in Paths, dir' = Removed(x)
        PROVE  \A y \in Paths : y # x => dir'[y] = dir[y] /\ DataAt(y)' = DataAt(y)
    BY <1>0, <1>1, <2>r, DataSame DEF Removed, TypeOK
  <2>n. ASSUME NEW x \in Paths, NEW y \in Paths, x # y, dir' = Renamed(x, y)
        PROVE  /\ DataAt(y)' = DataAt(x) /\ dir'[y] = dir[x] /\ DataAt(x)' = {}
               /\ \A z \in Paths \ {x, y} : dir'[z] = dir[z] /\ DataAt(z)' = DataAt(z)
    <3>1. dir'[y] = dir[x] /\ dir'[x] = None /\ \A z \in Paths \ {x, y} : dir'[z] = dir[z]
      BY <1>0, <2>n DEF Renamed, TypeOK
    <3> QED
      BY <1>1, <3>1, DataSame DEF DataAt
  <2>1. CASE RemoveOldTemp(p)
    <3>1. pc'[p] = "clean_bak" /\ dir' = Removed("tmp") /\ pc[p] = "clean_tmp"
      BY <1>0, <2>1 DEF RemoveOldTemp, Rearrange, Goto, TypeOK
    <3>2. \A y \in {"brain", "bak"} : dir'[y] = dir[y] /\ DataAt(y)' = DataAt(y)
      BY <2>r, <3>1 DEF Paths
    <3> QED
      BY <1>0, <2>0, <2>o, <3>1, <3>2 DEF AckedKept, CompactInv
  <2>2. CASE RemoveOldBackup(p)
    <3>1. pc'[p] = "make_tmp" /\ dir' = Removed("bak") /\ pc[p] = "clean_bak"
      BY <1>0, <2>2 DEF RemoveOldBackup, Rearrange, Goto, TypeOK
    <3>2. dir["bak"] = None /\ DataAt("bak") = {}
      BY <1>0, <2>0, <3>1 DEF CompactInv, DataAt
    <3>3. dir'["brain"] = dir["brain"] /\ DataAt("brain")' = DataAt("brain")
          /\ dir'["bak"] = None
      BY <1>0, <2>r, <3>1 DEF Paths, Removed, TypeOK
    <3> QED
      BY <1>0, <2>0, <2>o, <3>1, <3>2, <3>3 DEF AckedKept, CompactInv
  <2>3. CASE RenameToBackup(p) /\ dir["brain"] = None
    <3>1. pc'[p] = "drop_tmp" /\ dir' = dir
      BY <1>0, <2>3 DEF RenameToBackup, Rearrange, Goto, TypeOK
    <3>2. \A y \in {"brain", "bak"} : DataAt(y)' = DataAt(y)
      BY <1>1, <3>1 DEF DataAt
    <3> QED
      BY <1>0, <2>0, <2>o, <3>1, <3>2 DEF AckedKept, CompactInv
  <2>4. CASE RenameToBackup(p) /\ dir["brain"] # None
    <3>1. pc'[p] = "to_path" /\ dir' = Renamed("brain", "bak") /\ pc[p] = "to_bak"
      BY <1>0, <2>4 DEF RenameToBackup, Rearrange, Goto, TypeOK
    <3>2. expected \subseteq DataAt("tmp") /\ DataAt("bak") = {}
      BY <1>0, <2>0, <3>1 DEF CompactInv, DataAt
    <3>3. DataAt("bak")' = DataAt("brain") /\ DataAt("tmp")' = DataAt("tmp")
      BY <2>n, <3>1 DEF Paths
    <3> QED
      BY <1>0, <2>0, <2>o, <3>1, <3>2, <3>3 DEF AckedKept, CompactInv
  <2>5. CASE RenameToPath(p) /\ dir["tmp"] = None
    <3>1. pc'[p] = "undo_path" /\ dir' = dir /\ pc[p] = "to_path"
      BY <1>0, <2>5 DEF RenameToPath, Rearrange, Goto, TypeOK
    <3>2. \A y \in {"brain", "bak"} : DataAt(y)' = DataAt(y)
      BY <1>1, <3>1 DEF DataAt
    <3> QED
      BY <1>0, <2>0, <2>o, <3>1, <3>2 DEF AckedKept, CompactInv
  <2>6. CASE RenameToPath(p) /\ dir["tmp"] # None
    <3>1. pc'[p] = "reopen" /\ dir' = Renamed("tmp", "brain") /\ pc[p] = "to_path"
      BY <1>0, <2>6 DEF RenameToPath, Rearrange, Goto, TypeOK
    <3>2. DataAt("brain")' = DataAt("tmp") /\ DataAt("bak")' = DataAt("bak")
      BY <2>n, <3>1 DEF Paths
    <3> QED
      BY <1>0, <2>0, <2>o, <3>1, <3>2 DEF AckedKept, CompactInv
  <2>7. CASE DropBackup(p)
    <3>1. pc'[p] = "drop_tmp" /\ dir' = Removed("bak") /\ pc[p] = "drop_bak"
      BY <1>0, <2>7 DEF DropBackup, Rearrange, Goto, TypeOK
    <3>2. DataAt("brain")' = DataAt("brain")
      BY <2>r, <3>1 DEF Paths
    <3> QED
      BY <1>0, <2>0, <2>o, <3>1, <3>2 DEF AckedKept, CompactInv
  <2>8. CASE RemoveNew(p)
    <3>1. pc'[p] = "undo_bak" /\ dir' = Removed("brain") /\ pc[p] = "undo_path"
      BY <1>0, <2>8 DEF RemoveNew, Rearrange, Goto, TypeOK
    <3>2. DataAt("bak")' = DataAt("bak")
      BY <2>r, <3>1 DEF Paths
    <3> QED
      BY <1>0, <2>0, <2>o, <3>1, <3>2 DEF AckedKept, CompactInv
  <2>9. CASE RestoreBackup(p)
    <3>1. pc'[p] = "drop_tmp" /\ pc[p] = "undo_bak"
          /\ dir' = IF dir["bak"] = None THEN dir ELSE Renamed("bak", "brain")
      BY <1>0, <2>9 DEF RestoreBackup, Rearrange, Goto, TypeOK
    <3>2. CASE dir["bak"] = None
      <4>1. \A y \in {"brain", "bak"} : DataAt(y)' = DataAt(y)
        BY <1>1, <3>1, <3>2 DEF DataAt
      <4> QED
        BY <1>0, <2>0, <2>o, <3>1, <4>1 DEF AckedKept, CompactInv
    <3>3. CASE dir["bak"] # None
      <4>1. DataAt("brain")' = DataAt("bak")
        BY <2>n, <3>1, <3>3 DEF Paths
      <4> QED
        BY <1>0, <2>0, <2>o, <3>1, <4>1 DEF AckedKept, CompactInv
    <3> QED
      BY <3>2, <3>3
  <2> QED
    BY <2>1, <2>2, <2>3, <2>4, <2>5, <2>6, <2>7, <2>8, <2>9
<1> QED
  BY <1>0, <1>1, <1>2, <1>3, KeptBy

(* The temporary file is made beside the brain, and takes over its data.   *)
LEMMA KeptByTemp ==
  ASSUME IInv, KeptInv, NEW p \in Procs, MakeTemp(p) \/ CompactInto(p)
  PROVE  KeptInv'
<1>0. /\ TypeOK /\ op[p] = "compact" /\ op[p] # "none" /\ NamesInv /\ StageInv(p)
  <2>1. pc[p] \in Compacting
    BY DEF MakeTemp, CompactInto, Compacting, HasTemp
  <2> QED
    BY <2>1, AtWork, CompactingProc DEF IInv
<1>t. \A x \in Paths : dir[x] \in Inodes \cup {None}
  BY <1>0 DEF TypeOK
<1>1. /\ UNCHANGED <<op, file, expected, risky>>
      /\ \E s \in Steps : pc' = [pc EXCEPT ![p] = s]
  BY DEF MakeTemp, CompactInto, Goto, histVars, Steps
<1>2. \A q \in Procs : q # p => op'[q] = op[q] /\ pc'[q] = pc[q] /\ file'[q] = file[q]
  BY <1>0, <1>1 DEF TypeOK
<1>3. ASSUME ~risky PROVE AckedKept' /\ CompactInv(p)' /\ OpenInv(p)'
  <2>0. /\ \A q \in Procs : q # p => op'[q] = "none"
        /\ CompactInv(p) /\ expected \subseteq DataAt("brain") \cup DataAt("bak")
        /\ expected' = expected /\ op'[p] = "compact" /\ file'[p] = file[p]
    BY <1>0, <1>1, <1>2, <1>3, KeptAt DEF CompactInv
  <2>o. OpenInv(p)'
    BY <2>0 DEF OpenInv
  <2>1. CASE MakeTemp(p)
    <3>1. PICK i \in Inodes :
            /\ dir' = [dir EXCEPT !["tmp"] = i] /\ content' = [content EXCEPT ![i] = Empty]
            /\ source' = [source EXCEPT ![p] = i]
            /\ \A x \in Paths : dir[x] # i
      <4>1. ~(Inodes \subseteq Used)
        BY <2>1 DEF MakeTemp
      <4>2. Fresh \in Inodes /\ \A x \in Paths : dir[x] # Fresh
        BY <4>1, FreshIsUnused
      <4>3. /\ dir' = [dir EXCEPT !["tmp"] = Fresh] /\ content' = [content EXCEPT ![Fresh] = Empty]
            /\ source' = [source EXCEPT ![p] = Fresh]
        BY <2>1 DEF MakeTemp
      <4> HIDE DEF Fresh
      <4> QED
        BY <4>2, <4>3
    <3>2. /\ pc[p] = "make_tmp" /\ pc'[p] = "compact" /\ source'[p] = i /\ dir'["tmp"] = i
          /\ dir'["brain"] = dir["brain"] /\ dir'["bak"] = dir["bak"]
          /\ \A j \in Inodes : j # i => content'[j] = content[j]
      BY <1>0, <2>1, <3>1 DEF MakeTemp, Goto, TypeOK, Paths
    <3>3. DataAt("brain")' = DataAt("brain") /\ DataAt("bak")' = DataAt("bak")
      BY <1>t, <3>1, <3>2 DEF DataAt, Paths
    <3> QED
      BY <1>0, <2>0, <2>o, <3>2, <3>3 DEF AckedKept, CompactInv
  <2>2. CASE CompactInto(p)
    <3>1. /\ pc[p] = "compact" /\ pc'[p] = "close_db" /\ dir' = dir
          /\ content' = [content EXCEPT ![source[p]] = content[file[p]]]
      BY <1>0, <2>2 DEF CompactInto, Goto, TypeOK
    <3>2. /\ dir["bak"] = None /\ file[p] = dir["brain"] /\ source[p] = dir["tmp"]
          /\ file[p] # None /\ source[p] # None
      BY <1>0, <2>0, <3>1 DEF CompactInv, StageInv, Locked, Copying
    <3>3. /\ dir["brain"] \in Inodes /\ dir["tmp"] \in Inodes /\ dir["brain"] # dir["tmp"]
      BY <1>0, <1>t, <3>2 DEF NamesInv, Paths
    <3>4. /\ content'[dir["tmp"]] = content[dir["brain"]]
          /\ content'[dir["brain"]] = content[dir["brain"]]
      BY <1>0, <3>1, <3>2, <3>3 DEF TypeOK
    <3>5. DataAt("brain")' = DataAt("brain") /\ DataAt("tmp")' = DataAt("brain")
          /\ DataAt("bak") = {}
      BY <3>1, <3>2, <3>4 DEF DataAt
    <3>6. expected \subseteq DataAt("brain")
      BY <2>0, <3>5
    <3> QED
      BY <1>0, <2>0, <2>o, <3>1, <3>2, <3>5, <3>6 DEF AckedKept, CompactInv
  <2> QED
    BY <2>1, <2>2
<1> QED
  BY <1>0, <1>1, <1>2, <1>3, KeptBy

(* A compaction that begins in company, or where a backup of another is    *)
(* left, is not among those that are considered.                           *)
LEMMA KeptByBegin ==
  ASSUME IInv, KeptInv, NEW p \in Procs, NEW o \in Operations, Begin(p, o)
  PROVE  KeptInv'
<1>0. TypeOK
  BY DEF IInv
<1> SUFFICES ASSUME ~risky'
             PROVE  AckedKept' /\ \A q \in Procs : CompactInv(q)' /\ OpenInv(q)'
  BY DEF KeptInv
<1>1. /\ ~risky /\ (o = "compact" => dir["bak"] = None)
      /\ \A q \in Procs : q # p => op[q] = "none" \/ (o # "compact" /\ op[q] # "compact")
  BY DEF Begin
<1>2. /\ AckedKept /\ \A q \in Procs : CompactInv(q) /\ OpenInv(q)
      /\ expected \subseteq DataAt("brain") \cup DataAt("bak")
  BY <1>1, KeptAt
<1>3. /\ pc[p] = "idle" /\ op' = [op EXCEPT ![p] = o] /\ pc' = [pc EXCEPT ![p] = FirstStep[o]]
      /\ content' = [i \in Inodes |-> IF i \in Used THEN content[i] ELSE Empty]
      /\ UNCHANGED <<dir, file, expected>>
  BY DEF Begin, Goto
<1>4. FirstStep[o] \in {"open", "stat", "copy"} /\ (o = "compact" => FirstStep[o] = "open")
  BY DEF FirstStep, Operations
<1>5. /\ op'[p] = o /\ pc'[p] \in {"open", "stat", "copy"} /\ (o = "compact" => pc'[p] = "open")
      /\ \A q \in Procs : q # p => op'[q] = op[q] /\ pc'[q] = pc[q] /\ file'[q] = file[q]
  BY <1>0, <1>3, <1>4 DEF TypeOK
<1>6. \A x \in Paths : DataAt(x)' = DataAt(x)
  <2>1. \A x \in Paths : dir[x] # None => dir[x] \in Inodes /\ dir[x] \in Used
    BY <1>0 DEF TypeOK, Used
  <2> QED
    BY <1>3, <2>1 DEF DataAt
<1>7. AckedKept'
  BY <1>2, <1>3, <1>6 DEF AckedKept, Paths
<1>8. ASSUME NEW q \in Procs PROVE CompactInv(q)' /\ OpenInv(q)'
  <2>1. CASE q = p
    <3>1. OpenInv(q)'
      BY <1>5, <2>1 DEF OpenInv, Opened
    <3>2. o = "compact" => \A r \in Procs : r # p => op'[r] = "none"
      BY <1>1, <1>5
    <3>3. CompactInv(q)'
      BY <1>1, <1>3, <1>5, <2>1, <3>2 DEF CompactInv
    <3> QED
      BY <3>1, <3>3
  <2>2. CASE q # p
    <3>1. op'[q] # "compact"
      BY <1>1, <1>5, <2>2
    <3> QED
      BY <1>2, <1>3, <1>5, <2>2, <3>1 DEF CompactInv, OpenInv
  <2> QED
    BY <2>1, <2>2
<1> QED
  BY <1>7, <1>8

(* Every step keeps what was acknowledged.                                 *)
LEMMA KeptStep == IInv /\ KeptInv /\ [Next]_vars => KeptInv'
<1> SUFFICES ASSUME IInv, KeptInv, [Next]_vars PROVE KeptInv'
  OBVIOUS
<1>1. ASSUME NEW p \in Procs, NEW o \in Operations, Begin(p, o) PROVE KeptInv'
  BY <1>1, KeptByBegin
<1>2. ASSUME NEW p \in Procs, OpenStep(p) PROVE KeptInv'
  BY <1>2, KeptByMoving, KeptByOpening, KeptByEnding, KeptByTransaction DEF OpenStep
<1>3. ASSUME NEW p \in Procs, CopyStep(p) PROVE KeptInv'
  BY <1>3, KeptByCopying, KeptByEnding DEF CopyStep
<1>4. ASSUME NEW p \in Procs, CompactStep(p) PROVE KeptInv'
  BY <1>4, KeptByRearranging, KeptByTemp, KeptByMoving, KeptByOpening, KeptByEnding
     DEF CompactStep
<1>5. ASSUME NEW p \in Procs, NEW w \in Writes, Write(p, w) PROVE KeptInv'
  BY <1>5, KeptByTransaction
<1>6. ASSUME NEW p \in Procs, Close(p) PROVE KeptInv'
  BY <1>6, KeptByEnding, KeptByMoving
<1>7. ASSUME NEW p \in Procs, Crash(p) PROVE KeptInv'
  BY <1>7, KeptByEnding
<1>8. CASE UNCHANGED vars
  BY <1>8 DEF vars, diskVars, procVars, histVars, KeptInv, AckedKept, CompactInv, OpenInv,
     DataAt
<1> QED
  BY <1>1, <1>2, <1>3, <1>4, <1>5, <1>6, <1>7, <1>8 DEF Next

(* What was acknowledged is in the brain or in the backup of a compaction, *)
(* at every moment, wherever a process is killed and whoever opens the     *)
(* brain next: as long as no compaction has company, and none follows one  *)
(* that was killed before it had tidied up.                                *)
THEOREM AcknowledgedIsKept == Spec => []AckedKept
<1>1. Init => KeptInv
  <2> SUFFICES ASSUME Init PROVE KeptInv
    OBVIOUS
  <2>1. \A p \in Procs : CompactInv(p) /\ OpenInv(p)
    BY DEF Init, CompactInv, OpenInv
  <2>2. AckedKept
    <3>1. First \in Inodes /\ First # None
      BY FilesAssumption DEF First
    <3>2. /\ content = [i \in Inodes |-> IF i = First THEN Legacy ELSE Empty]
          /\ \/ expected = {}
             \/ dir = [x \in Paths |-> IF x = "brain" THEN First ELSE None] /\ expected = Old
      BY DEF Init
    <3> HIDE DEF First
    <3> QED
      BY <3>1, <3>2 DEF AckedKept, DataAt, Paths, Legacy
  <2> QED
    BY <2>1, <2>2 DEF KeptInv
<1>2. IInv /\ KeptInv => AckedKept
  BY DEF KeptInv, AckedKept
<1> QED
  BY FileInv, KeptStep, <1>1, <1>2, PTL DEF Spec
=============================================================================
