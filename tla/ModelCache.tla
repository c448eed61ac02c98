----------------------------- MODULE ModelCache -----------------------------
(***************************************************************************)
(* The cache of one model: how `fquery mcp`, the daemon and `fquery models`*)
(* download its archive, verify and extract it, and decide whether it is   *)
(* there.  A daemon and the front end that forked it both do so when they  *)
(* are started for the first time, at the same time and without a lock.    *)
(*                                                                         *)
(* A path names a file (an inode); a process that has opened a file goes   *)
(* on with that file when it is renamed or removed.                        *)
(*                                                                         *)
(* Abstractions.  The models of the manifest do not share files, so one is *)
(* enough.  An archive comes in as many parts as it has files, part i with *)
(* the i-th of them.  A version stands for its SHA256.  Reading a file to  *)
(* hash it, and the checks of checkModel, are one step each.  An I/O error *)
(* (a full disk) ends a command as a kill does.                            *)
(***************************************************************************)
EXTENDS Naturals, Sequences

CONSTANTS
  Procs,        \* processes
  Inodes,       \* files that can exist at a time, linked or open
  MaxVersion,   \* bound: versions of the manifest
  MaxChanges,   \* bound: upgrades, forced pulls and removals
  MaxCuts,      \* bound: requests that fail or are cut
  MaxCrashes,   \* bound: processes killed
  None,         \* "no value"
  Torn          \* a file that is being written, or that was left so

ASSUME CacheAssumption ==
  /\ {None, Torn} \cap (Procs \cup Inodes \cup Nat) = {} /\ None # Torn
  /\ MaxVersion \in Nat \ {0}
  /\ MaxChanges \in Nat /\ MaxCuts \in Nat /\ MaxCrashes \in Nat

VARIABLES
  (* the file system *)
  dir,        \* ["temp", "archive" -> Inodes or None], the downloads
  content,    \* [Inodes -> parts]
  files,      \* [Files -> version, Torn or None], in the directory of the model
  stamp,      \* its file .sha256: a version or None
  modelDir,   \* does the directory exist?
  (* processes *)
  pc,         \* what each does next
  url,        \* which server it asks
  part,       \* the part it asks for, writes or extracts next
  appends,    \* it writes at the end of the file and not at its own offset
  fd,         \* the file it has open
  (* the outside, history and bounds *)
  wanted,     \* the version in the manifest of the installed binary
  overlaid,   \* files were replaced that had their stamp, or were to get it from another process
  changes, cuts, crashes

fileVars == <<dir, content, files, stamp, modelDir>>
procVars == <<pc, url, part, appends, fd>>
histVars == <<wanted, overlaid, changes, cuts, crashes>>
vars == <<fileVars, procVars, histVars>>

Files == {"model.onnx", "tokenizer.json"}
Order == <<"model.onnx", "tokenizer.json">>
N == Len(Order)
Versions == 1 .. MaxVersion

(* Parts of archives; a hole in a file or a page of text is no part.       *)
Part == {<<v, i>> : v \in Versions, i \in 1 .. N}
Archive(v) == [i \in 1 .. N |-> <<v, i>>]
ErrorPage == << <<>> >>

Steps == {"idle", "check", "stat", "request", "retry", "copy", "verify",
          "open_archive", "extract", "fill", "clean", "stamp", "remove"}

TypeOK ==
  /\ dir \in [{"temp", "archive"} -> Inodes \cup {None}]
  /\ content \in [Inodes -> Seq(Part \cup {<<>>})]
  /\ files \in [Files -> Versions \cup {Torn, None}]
  /\ stamp \in Versions \cup {None} /\ modelDir \in BOOLEAN
  /\ stamp # None \/ (\E f \in Files : files[f] # None) => modelDir
  /\ pc \in [Procs -> Steps]
  /\ url \in [Procs -> {"primary", "fallback"}]
  /\ part \in [Procs -> Nat \ {0}] /\ appends \in [Procs -> BOOLEAN]
  /\ fd \in [Procs -> Inodes \cup {None}]
  /\ wanted \in Versions /\ overlaid \in BOOLEAN
  /\ changes \in 0 .. MaxChanges /\ cuts \in 0 .. MaxCuts /\ crashes \in 0 .. MaxCrashes
  /\ \A p \in Procs :
       /\ pc[p] \in {"copy", "extract", "fill"} => fd[p] # None
       /\ pc[p] \in {"extract", "fill"} => part[p] <= N

-----------------------------------------------------------------------------
(* Files and steps. *)

Used == {dir[x] : x \in DOMAIN dir} \cup {fd[p] : p \in Procs}
Fresh == CHOOSE i \in Inodes : i \notin Used

Goto(p, step) == pc' = [pc EXCEPT ![p] = step]
Removed(x) == [dir EXCEPT ![x] = None]

(* Process p goes on without the file it had open; or its command ends,    *)
(* with success or an error.                                               *)
Resets(p, step) ==
  /\ Goto(p, step)
  /\ fd' = [fd EXCEPT ![p] = None]
  /\ part' = [part EXCEPT ![p] = 1]
  /\ url' = [url EXCEPT ![p] = "primary"] /\ appends' = [appends EXCEPT ![p] = FALSE]

Ends(p) == Resets(p, "idle")

(* Faulty variant: the files are there, but are they of version v?         *)
PresentOnly(v) == \A f \in Files : files[f] # None

(* checkModel: both files are there, and the stamp is that of version v.   *)
Verified(v) == (\A f \in Files : files[f] # None) /\ stamp = v

(* A sequence with c written at position n, and a hole in front of it if   *)
(* it was shorter.                                                         *)
Overwritten(s, n, c) ==
  [i \in 1 .. (IF n > Len(s) THEN n ELSE Len(s)) |->
     IF i = n THEN c ELSE IF i <= Len(s) THEN s[i] ELSE <<>>]

-----------------------------------------------------------------------------
(* Commands.  (What is left in files that no path names and no process has *)
(* open is forgotten.)                                                     *)

FirstStep == [ensure |-> "check", force |-> "stat", remove |-> "remove"]

Begin(p, command) ==
  /\ pc[p] = "idle"
  /\ command # "ensure" => changes < MaxChanges
  /\ changes' = IF command = "ensure" THEN changes ELSE changes + 1
  /\ Goto(p, FirstStep[command])
  /\ content' = [i \in Inodes |-> IF i \in Used THEN content[i] ELSE <<>>]
  /\ UNCHANGED <<dir, files, stamp, modelDir, url, part, appends, fd, wanted, overlaid,
                 cuts, crashes>>

EnsureAll(p) ==
  /\ pc[p] = "check"
  /\ IF Verified(wanted) THEN Ends(p) ELSE Goto(p, "stat") /\ UNCHANGED <<url, part, appends, fd>>
  /\ UNCHANGED <<fileVars, histVars>>

-----------------------------------------------------------------------------
(* The download, which goes on where an earlier one has stopped.           *)

PullOne(p) ==
  /\ pc[p] = "stat"
  /\ modelDir' = TRUE
  /\ part' = [part EXCEPT ![p] = IF dir["temp"] = None THEN 1 ELSE Len(content[dir["temp"]]) + 1]
  /\ Goto(p, "request")
  /\ UNCHANGED <<dir, content, files, stamp, url, appends, fd, histVars>>

(* The download from one server fails: the next one is asked from the      *)
(* beginning, or the command ends.                                         *)
FetchFails(p) ==
  /\ IF url[p] = "primary"
     THEN /\ dir' = Removed("temp")
          /\ url' = [url EXCEPT ![p] = "fallback"]
          /\ part' = [part EXCEPT ![p] = 1] /\ fd' = [fd EXCEPT ![p] = None]
          /\ Goto(p, "request")
          /\ UNCHANGED appends
     ELSE Ends(p) /\ UNCHANGED dir
  /\ cuts < MaxCuts /\ cuts' = cuts + 1
  /\ UNCHANGED <<content, files, stamp, modelDir, wanted, overlaid, changes, crashes>>

(* The temporary file is opened, created if there is none, and truncated   *)
(* (what it has then are the parts in start) unless the download is to be  *)
(* appended to it.                                                         *)
OpenTemp(p, append, first, start) ==
  /\ \E i \in Inodes :
       /\ IF dir["temp"] = None THEN i = Fresh /\ i \notin Used ELSE i = dir["temp"]
       /\ dir' = [dir EXCEPT !["temp"] = i]
       /\ fd' = [fd EXCEPT ![p] = i]
       /\ content' = [content EXCEPT ![i] = IF append /\ dir["temp"] # None THEN @ ELSE start]
  /\ appends' = [appends EXCEPT ![p] = append]
  /\ part' = [part EXCEPT ![p] = first]
  /\ Goto(p, "copy")
  /\ UNCHANGED <<files, stamp, modelDir, url, wanted, overlaid, changes, crashes>>

RequestFails(p) == pc[p] \in {"request", "retry"} /\ FetchFails(p)

(* 200: the server sends everything, as it also may when asked for a range.*)
AnswerWhole(p) ==
  /\ pc[p] \in {"request", "retry"}
  /\ OpenTemp(p, FALSE, 1, <<>>)
  /\ UNCHANGED cuts

(* 206: the server sends what is missing.                                  *)
AnswerRange(p) ==
  /\ pc[p] = "request" /\ part[p] \in 2 .. N
  /\ OpenTemp(p, TRUE, part[p], <<>>)
  /\ UNCHANGED cuts

(* Faulty variant: it is not asked again.                                  *)
GiveUpOnNotSatisfiable(p) ==
  /\ pc[p] = "request" /\ part[p] > N
  /\ Ends(p)
  /\ UNCHANGED <<fileVars, histVars>>

(* 416: nothing is missing by the length; the server is asked for all.     *)
AnswerNotSatisfiable(p) ==
  /\ pc[p] = "request" /\ part[p] > N
  /\ Goto(p, "retry")
  /\ UNCHANGED <<fileVars, url, part, appends, fd, histVars>>

(* The status of this second answer is not looked at: an error page is     *)
(* taken for the archive (and written at once).  It may be empty; one that *)
(* is not is what the next command asks for the rest of, should it stay.   *)
RetryRefused(p) ==
  /\ pc[p] = "retry" /\ cuts < MaxCuts
  /\ \E page \in {<<>>, ErrorPage} : OpenTemp(p, FALSE, N + 1, page)
  /\ cuts' = cuts + 1

WritePart(p) ==
  /\ pc[p] = "copy" /\ part[p] <= N
  /\ LET c == <<wanted, part[p]>> IN
       content' = [content EXCEPT ![fd[p]] =
                     IF appends[p] THEN Append(@, c) ELSE Overwritten(@, part[p], c)]
  /\ part' = [part EXCEPT ![p] = @ + 1]
  /\ UNCHANGED <<dir, files, stamp, modelDir, pc, url, appends, fd, histVars>>

WriteCut(p) == pc[p] = "copy" /\ part[p] <= N /\ FetchFails(p)

DownloadFile(p) ==
  /\ pc[p] = "copy" /\ part[p] > N
  /\ IF dir["temp"] = None
     THEN Ends(p) /\ UNCHANGED dir
     ELSE /\ dir' = [dir EXCEPT !["archive"] = dir["temp"], !["temp"] = None]
          /\ Resets(p, "verify")
  /\ UNCHANGED <<content, files, stamp, modelDir, histVars>>

-----------------------------------------------------------------------------
(* What is at the archive's path is verified, and extracted over the files *)
(* that are there.                                                         *)

ArchiveIsWanted ==
  \E i \in Inodes : dir["archive"] = i /\ content[i] = Archive(wanted)

VerifyArchive(p) ==
  /\ pc[p] = "verify" /\ ArchiveIsWanted
  /\ Goto(p, "open_archive")
  /\ UNCHANGED <<fileVars, url, part, appends, fd, histVars>>

VerifyFails(p) ==
  /\ pc[p] = "verify" /\ ~ArchiveIsWanted
  /\ dir' = Removed("archive")
  /\ Ends(p)
  /\ UNCHANGED <<content, files, stamp, modelDir, histVars>>

(* Part n of file i continues an archive: otherwise the stream is broken.  *)
Readable(i, n) ==
  /\ n <= Len(content[i])
  /\ \E v \in Versions : content[i][1] = <<v, 1>> /\ content[i][n] = <<v, n>>

OpenArchive(p) ==
  /\ pc[p] = "open_archive"
  /\ IF dir["archive"] # None /\ Readable(dir["archive"], 1)
     THEN /\ fd' = [fd EXCEPT ![p] = dir["archive"]]
          /\ part' = [part EXCEPT ![p] = 1]
          /\ Goto(p, "extract")
          /\ UNCHANGED <<url, appends>>
     ELSE Ends(p)
  /\ UNCHANGED <<fileVars, histVars>>

TruncateFile(p) ==
  /\ pc[p] = "extract"
  /\ files' = [files EXCEPT ![Order[part[p]]] = Torn]
  /\ modelDir' = TRUE
  /\ overlaid' = \/ overlaid \/ stamp = wanted
                 \/ \E q \in Procs \ {p} : pc[q] \in {"extract", "fill", "clean", "stamp"}
  /\ Goto(p, "fill")
  /\ UNCHANGED <<dir, content, stamp, url, part, appends, fd, wanted, changes, cuts, crashes>>

(* A file that was removed meanwhile stays removed; a broken archive ends  *)
(* the extraction.                                                         *)
FillFile(p) ==
  /\ pc[p] = "fill"
  /\ IF ~Readable(fd[p], part[p])
     THEN Ends(p) /\ UNCHANGED files
     ELSE /\ files' = [files EXCEPT ![Order[part[p]]] =
                         IF @ = None THEN None ELSE content[fd[p]][part[p]][1]]
          /\ IF part[p] < N
             THEN /\ Goto(p, "extract") /\ part' = [part EXCEPT ![p] = @ + 1]
                  /\ UNCHANGED <<url, appends, fd>>
             ELSE Resets(p, "clean")
  /\ UNCHANGED <<dir, content, stamp, modelDir, histVars>>

RemoveArchive(p) ==
  /\ pc[p] = "clean"
  /\ dir' = Removed("archive")
  /\ Goto(p, "stamp")
  /\ UNCHANGED <<content, files, stamp, modelDir, url, part, appends, fd, histVars>>

WriteChecksum(p) ==
  /\ pc[p] = "stamp"
  /\ stamp' = IF modelDir THEN wanted ELSE stamp
  /\ Ends(p)
  /\ UNCHANGED <<dir, content, files, modelDir, histVars>>

-----------------------------------------------------------------------------
(* Remove: the entries of the directory in any order, and the directory.   *)
(* One that another process creates meanwhile is removed as well, or has   *)
(* the removal end with an error (ENOTEMPTY).                              *)

RemoveEntry(p) ==
  /\ pc[p] = "remove"
  /\ \/ \E f \in Files : /\ files[f] # None
                         /\ files' = [files EXCEPT ![f] = None]
                         /\ UNCHANGED stamp
     \/ stamp # None /\ stamp' = None /\ UNCHANGED files
  /\ UNCHANGED <<dir, content, modelDir, procVars, histVars>>

RemoveDir(p) ==
  /\ pc[p] = "remove"
  /\ IF stamp = None /\ \A f \in Files : files[f] = None
     THEN modelDir' = FALSE
     ELSE /\ \E q \in Procs \ {p} : pc[q] \in {"extract", "fill", "clean", "stamp"}
          /\ UNCHANGED modelDir
  /\ Ends(p)
  /\ UNCHANGED <<dir, content, files, stamp, histVars>>

-----------------------------------------------------------------------------
(* A process is killed.                                                    *)
Crash(p) ==
  /\ pc[p] # "idle" /\ crashes < MaxCrashes
  /\ crashes' = crashes + 1
  /\ Ends(p)
  /\ UNCHANGED <<fileVars, wanted, overlaid, changes, cuts>>

(* A binary with the next manifest is installed; users stop the processes  *)
(* of the old one.                                                         *)
Upgrade ==
  /\ \A p \in Procs : pc[p] = "idle"
  /\ wanted < MaxVersion /\ changes < MaxChanges
  /\ wanted' = wanted + 1 /\ changes' = changes + 1
  /\ UNCHANGED <<fileVars, procVars, overlaid, cuts, crashes>>

Init ==
  /\ dir = [x \in {"temp", "archive"} |-> None]
  /\ content = [i \in Inodes |-> <<>>]
  /\ files = [f \in Files |-> None] /\ stamp = None /\ modelDir = FALSE
  /\ pc = [p \in Procs |-> "idle"] /\ url = [p \in Procs |-> "primary"]
  /\ part = [p \in Procs |-> 1] /\ appends = [p \in Procs |-> FALSE]
  /\ fd = [p \in Procs |-> None]
  /\ wanted = 1 /\ overlaid = FALSE /\ changes = 0 /\ cuts = 0 /\ crashes = 0

Download(p) ==
  \/ EnsureAll(p) \/ PullOne(p) \/ AnswerWhole(p) \/ AnswerRange(p) \/ AnswerNotSatisfiable(p)
  \/ WritePart(p) \/ DownloadFile(p)

Extract(p) ==
  \/ VerifyArchive(p) \/ VerifyFails(p) \/ OpenArchive(p) \/ TruncateFile(p) \/ FillFile(p)
  \/ RemoveArchive(p) \/ WriteChecksum(p)

GoesOn(p) == Download(p) \/ Extract(p) \/ RemoveEntry(p) \/ RemoveDir(p)
Trouble(p) == RequestFails(p) \/ RetryRefused(p) \/ WriteCut(p) \/ Crash(p)

Next ==
  \/ \E p \in Procs : \/ \E command \in {"ensure", "force", "remove"} : Begin(p, command)
                      \/ GoesOn(p) \/ Trouble(p)
  \/ Upgrade

Spec == Init /\ [][Next]_vars
FairSpec == Spec /\ \A p \in Procs : WF_vars(GoesOn(p))

-----------------------------------------------------------------------------
(* Safety and liveness. *)

AtRest == \A p \in Procs : pc[p] = "idle"
Whole == \A f \in Files : files[f] = wanted

(* A model that counts as verified is whole and of the manifest's version  *)
(* (checkModel and pullOne): after downloads that were cut, resumed with   *)
(* parts of another version or mixed by several processes, and after       *)
(* removals and kills, as long as no extraction went over files that had   *)
(* their stamp already or were to get it from another process.             *)
UndisturbedIsWhole == Verified(wanted) /\ ~overlaid => Whole

(* Where one did, two processes still leave the files whole when they are  *)
(* done, unless one was killed.  (Three may not: one of them truncates the *)
(* download of the second, which is then renamed to the archive that the   *)
(* third has verified, but not opened yet.)                                *)
AtMostTwo == \A p, q, r \in Procs : p = q \/ q = r \/ p = r
OverlaidIsWhole == AtRest /\ AtMostTwo /\ crashes = 0 /\ Verified(wanted) => Whole

VerifiedIsWhole == UndisturbedIsWhole /\ OverlaidIsWhole

(* Whatever is left in the cache by downloads that failed, of either       *)
(* version, whoever calls EnsureAll again and again, and is left alone by  *)
(* other processes from some time on, has the model in the end.            *)
EventuallyVerified ==
  \A p \in Procs :
    []<>(pc[p] = "check") /\ <>[](\A q \in Procs \ {p} : pc[q] = "idle")
      => []<>Verified(wanted)
=============================================================================
