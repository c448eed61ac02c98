-------------------------- MODULE ModelCacheProofs --------------------------
(***************************************************************************)
(* Theorems about ModelCache, for all values of its constants.             *)
(*                                                                         *)
(* IInv has two parts.  The first, up to ExtractInv, follows the versions  *)
(* of what is downloaded and extracted: as long as extractions stay apart, *)
(* what counts as verified is whole, whoever is killed.  The second, from  *)
(* AppendInv on, is about two processes that nobody kills, whose           *)
(* extractions may overlap: the archive that one has verified is not       *)
(* spoilt by the other, so that each file that is torn is filled.          *)
(***************************************************************************)
EXTENDS ModelCache, TLAPS

USE DEF vars, fileVars, procVars, histVars

-----------------------------------------------------------------------------
(* What downloads hold. *)

Content == Seq(Part \cup {<<>>})

(* A download holds a part of version w, or of another one.                *)
PartsOf(s, w) == \E n \in 1 .. Len(s), k \in 1 .. N : s[n] = <<w, k>>
PartsBut(s, w) == \E n \in 1 .. Len(s), v \in Versions \ {w}, k \in 1 .. N : s[n] = <<v, k>>

HasNew(i) == PartsOf(content[i], wanted)
HasOld(i) == PartsBut(content[i], wanted)

-----------------------------------------------------------------------------
(* The inductive invariant. *)

(* Who has a file open downloads or extracts; what is being downloaded is  *)
(* not the archive.                                                        *)
FdInv ==
  /\ \A p \in Procs : fd[p] # None => pc[p] \in {"copy", "extract", "fill"}
  /\ dir["temp"] # None => dir["temp"] # dir["archive"]

(* Nothing is of a version that is still to come.                          *)
VersionInv ==
  /\ stamp # None => stamp <= wanted
  /\ \A i \in Inodes : \A v \in Versions : v > wanted => ~PartsOf(content[i], v)

(* As long as the download holds a part of an old version, there is no     *)
(* archive with a part of the new one, and nobody writes to another file   *)
(* or extracts.  Whoever extracts does so from parts of the new version.   *)
Late == {"open_archive", "extract", "fill", "clean", "stamp"}
OldInv ==
  /\ dir["temp"] # None /\ HasOld(dir["temp"]) =>
       /\ dir["archive"] # None => ~HasNew(dir["archive"])
       /\ \A p \in Procs : fd[p] \in {None, dir["temp"]} /\ pc[p] \notin Late
  /\ \A p \in Procs : pc[p] \in Late =>
       /\ dir["archive"] # None => ~HasOld(dir["archive"])
       /\ pc[p] \in {"extract", "fill"} => ~HasOld(fd[p])

(* While extractions stay apart, one is under way at most; what it has     *)
(* done is of the new version, and there is no stamp of that version until *)
(* it is through.                                                          *)
UnderWay(p) == pc[p] \in {"fill", "clean", "stamp"} \/ (pc[p] = "extract" /\ part[p] > 1)
Done(p) == IF pc[p] \in {"extract", "fill"} THEN 1 .. (part[p] - 1) ELSE 1 .. N
ExtractInv == ~overlaid =>
  /\ \A p, q \in Procs : UnderWay(p) /\ UnderWay(q) => p = q
  /\ \A p \in Procs : UnderWay(p) =>
       stamp # wanted /\ \A n \in Done(p) : files[Order[n]] \in {wanted, None}
  /\ stamp = wanted => \A f \in Files : files[f] \in {wanted, None}

(* Two processes that nobody kills.                                        *)
Two == crashes = 0 /\ AtMostTwo

Begins(s, k) == Len(s) >= k /\ \A n \in 1 .. k : s[n] = <<wanted, n>>

(* What a process has at hand that downloads while another one verifies:   *)
(* the archive from its beginning, or nothing that can be opened as one.   *)
Started(s) == Len(s) <= 1 /\ Begins(s, Len(s))
Ended(s) == Begins(s, N) \/ Len(s) = 0 \/ s[1] \in {<<wanted, 2>>, <<>>}
AppendInv == \A p \in Procs : pc[p] = "copy" /\ appends[p] => part[p] >= 2
SoleInv == Two =>
  \A p, q \in Procs : p # q /\ pc[p] \in {"verify", "open_archive"} /\ dir["temp"] # None =>
    /\ pc[q] # "copy" => Started(content[dir["temp"]])
    /\ pc[q] = "copy" =>
         /\ fd[q] = dir["temp"]
         /\ part[q] <= N => /\ Started(content[dir["temp"]])
                            /\ appends[q] \/ Len(content[dir["temp"]]) = part[q] - 1
         /\ part[q] > N => Ended(content[dir["temp"]])

(* Then whoever extracts has a whole archive, as has whoever is about to,  *)
(* unless what it has cannot be opened.                                    *)
ExtractsWhole(p) ==
  pc[p] \in {"extract", "fill"} => Begins(content[fd[p]], N) /\ fd[p] # dir["temp"]
OpensWhole(p) ==
  pc[p] = "open_archive" /\ dir["archive"] # None =>
    \/ Begins(content[dir["archive"]], N)
    \/ ~Readable(dir["archive"], 1) /\ \A q \in Procs : fd[q] # dir["archive"]
FullInv == Two => \A p \in Procs : ExtractsWhole(p) /\ OpensWhole(p)

(* A torn file is being filled, and no file goes back to an old version.   *)
TornInv == Two =>
  /\ \A f \in Files : files[f] = Torn => \E p \in Procs : pc[p] = "fill" /\ Order[part[p]] = f
  /\ \A p \in Procs : UnderWay(p) => \A n \in Done(p) : files[Order[n]] \in {wanted, None, Torn}
  /\ stamp = wanted => \A f \in Files : files[f] \in {wanted, None, Torn}

IInv ==
  /\ TypeOK /\ FdInv /\ VersionInv /\ OldInv /\ ExtractInv
  /\ AppendInv /\ SoleInv /\ FullInv /\ TornInv

-----------------------------------------------------------------------------
(* Data. *)

(* An archive has two parts, for two files.                                *)
LEMMA TwoParts ==
  /\ N = 2
  /\ Order[1] = "model.onnx" /\ Order[2] = "tokenizer.json"
  /\ \A n, k \in 1 .. N : Order[n] \in Files /\ (Order[n] = Order[k] => n = k)
  /\ \A f \in Files : \E n \in 1 .. N : f = Order[n]
BY DEF N, Order, Files

(* No version is "no value".                                               *)
LEMMA NoNone == None \notin Nat /\ \A v \in Versions : v # None
<1>1. None \notin Nat
  BY CacheAssumption
<1> QED
  BY <1>1 DEF Versions

(* No inode is, either.                                                    *)
LEMMA NoneNoInode == None \notin Inodes
BY CacheAssumption

(* A part is of one version, has one number and is no hole.                *)
LEMMA PartsDiffer ==
  ASSUME NEW v, NEW w, NEW i, NEW j
  PROVE  /\ <<v, i>> = <<w, j>> => v = w /\ i = j
         /\ <<v, i>> # <<>>
OBVIOUS

(* A function on 1 .. L is a sequence of that length.                      *)
LEMMA IsSequence ==
  ASSUME NEW P, NEW L \in Nat, NEW t, t = [i \in 1 .. L |-> t[i]],
         \A n \in 1 .. L : t[n] \in P
  PROVE  t \in Seq(P) /\ Len(t) = L
<1>1. t \in [1 .. L -> P]
  OBVIOUS
<1> QED
  BY <1>1

(* What is written at the end is there, and nothing else is new.           *)
LEMMA Appended ==
  ASSUME NEW s \in Content, NEW w \in Versions, NEW k \in 1 .. N
  PROVE  /\ Append(s, <<w, k>>) \in Content
         /\ \A v : PartsOf(Append(s, <<w, k>>), v) => v = w \/ PartsOf(s, v)
         /\ PartsBut(Append(s, <<w, k>>), w) => PartsBut(s, w)
<1> DEFINE t == Append(s, <<w, k>>)
<1>1. <<w, k>> \in Part
  BY DEF Part
<1>2. /\ t \in Content /\ Len(t) = Len(s) + 1 /\ t[Len(s) + 1] = <<w, k>>
      /\ \A n \in 1 .. Len(s) : t[n] = s[n]
  BY <1>1 DEF Content
<1>3. \A n \in 1 .. Len(t) : t[n] = <<w, k>> \/ (n \in 1 .. Len(s) /\ t[n] = s[n])
  BY <1>2 DEF Content
<1> HIDE DEF t
<1>4. ASSUME NEW v, PartsOf(t, v) PROVE v = w \/ PartsOf(s, v)
  BY <1>3, <1>4, PartsDiffer DEF PartsOf
<1>5. ASSUME PartsBut(t, w) PROVE PartsBut(s, w)
  BY <1>3, <1>5, PartsDiffer DEF PartsBut
<1> QED
  BY <1>2, <1>4, <1>5 DEF t

(* The same for what is written at a position of its own.                  *)
LEMMA WrittenAt ==
  ASSUME NEW s \in Content, NEW w \in Versions, NEW k \in 1 .. N
  PROVE  /\ Overwritten(s, k, <<w, k>>) \in Content
         /\ \A v : PartsOf(Overwritten(s, k, <<w, k>>), v) => v = w \/ PartsOf(s, v)
         /\ PartsBut(Overwritten(s, k, <<w, k>>), w) => PartsBut(s, w)
<1> DEFINE t == Overwritten(s, k, <<w, k>>)
           L == IF k > Len(s) THEN k ELSE Len(s)
<1>1. <<w, k>> \in Part
  BY DEF Part
<1>2. N = 2
  BY TwoParts
<1>3. L \in Nat
  BY <1>2 DEF Content
<1>4. t = [i \in 1 .. L |-> IF i = k THEN <<w, k>> ELSE IF i <= Len(s) THEN s[i] ELSE <<>>]
  BY DEF Overwritten
<1> HIDE DEF t, L
<1>5. \A n \in 1 .. L : \/ t[n] = <<w, k>> \/ t[n] = <<>>
                        \/ (n \in 1 .. Len(s) /\ t[n] = s[n])
  BY <1>3, <1>4 DEF Content
<1>6. \A n \in 1 .. L : t[n] \in Part \cup {<<>>}
  BY <1>1, <1>5 DEF Content
<1>7. t \in Content /\ Len(t) = L
  <2>1. t = [i \in 1 .. L |-> t[i]]
    BY <1>4
  <2> QED
    BY <1>3, <1>6, <2>1, IsSequence DEF Content
<1>8. ASSUME NEW v, PartsOf(t, v) PROVE v = w \/ PartsOf(s, v)
  <2>1. PICK n \in 1 .. L, j \in 1 .. N : t[n] = <<v, j>>
    BY <1>7, <1>8 DEF PartsOf
  <2>2. t[n] = <<w, k>> \/ (n \in 1 .. Len(s) /\ s[n] = <<v, j>>)
    BY <1>5, <2>1, PartsDiffer
  <2> QED
    BY <2>1, <2>2, PartsDiffer DEF PartsOf
<1>9. ASSUME PartsBut(t, w) PROVE PartsBut(s, w)
  <2>1. PICK n \in 1 .. L, v \in Versions \ {w}, j \in 1 .. N : t[n] = <<v, j>>
    BY <1>7, <1>9 DEF PartsBut
  <2>2. n \in 1 .. Len(s) /\ s[n] = <<v, j>>
    BY <1>5, <2>1, PartsDiffer
  <2> QED
    BY <2>1, <2>2 DEF PartsBut
<1> QED
  BY <1>7, <1>8, <1>9 DEF t

(* An empty file holds no part, and neither does an error page.            *)
Partless == {<<>>, ErrorPage}

LEMMA EmptyHasNone ==
  ASSUME NEW s \in Partless
  PROVE  /\ s \in Content
         /\ \A v : ~PartsOf(s, v) /\ ~PartsBut(s, v)
<1>1. CASE s = <<>>
  BY <1>1 DEF Content, PartsOf, PartsBut
<1>2. CASE s = ErrorPage
  <2>1. s \in Content /\ Len(s) = 1 /\ s[1] = <<>>
    BY <1>2 DEF ErrorPage, Content
  <2> QED
    BY <2>1, PartsDiffer DEF PartsOf, PartsBut
<1> QED
  BY <1>1, <1>2 DEF Partless

-----------------------------------------------------------------------------
(* Types. *)

USE DEF Goto, Resets, Ends, Removed, FetchFails, OpenTemp

(* The two halves of TypeOK.                                               *)
ProcTypes ==
  /\ pc \in [Procs -> Steps]
  /\ url \in [Procs -> {"primary", "fallback"}]
  /\ part \in [Procs -> Nat \ {0}] /\ appends \in [Procs -> BOOLEAN]
  /\ fd \in [Procs -> Inodes \cup {None}]
  /\ \A p \in Procs :
       /\ pc[p] \in {"copy", "extract", "fill"} => fd[p] # None
       /\ pc[p] \in {"extract", "fill"} => part[p] <= N

FileTypes ==
  /\ dir \in [{"temp", "archive"} -> Inodes \cup {None}]
  /\ content \in [Inodes -> Seq(Part \cup {<<>>})]
  /\ files \in [Files -> Versions \cup {Torn, None}]
  /\ stamp \in Versions \cup {None} /\ modelDir \in BOOLEAN
  /\ stamp # None \/ (\E f \in Files : files[f] # None) => modelDir
  /\ wanted \in Versions /\ overlaid \in BOOLEAN
  /\ changes \in 0 .. MaxChanges /\ cuts \in 0 .. MaxCuts /\ crashes \in 0 .. MaxCrashes

(* Together they are TypeOK, before a step and after it.                   *)
LEMMA TypesOf == (TypeOK <=> FileTypes /\ ProcTypes) /\ (TypeOK' <=> FileTypes' /\ ProcTypes')
BY DEF TypeOK, FileTypes, ProcTypes

(* A process that has no file open any more keeps its types.               *)
LEMMA ResetTypes ==
  ASSUME ProcTypes, NEW p \in Procs, NEW step \in {"idle", "verify", "clean"}, Resets(p, step)
  PROVE  ProcTypes'
BY DEF ProcTypes, Steps

(* A download that fails from one server keeps them.                       *)
LEMMA FetchTypes ==
  ASSUME TypeOK, NEW p \in Procs, FetchFails(p)
  PROVE  TypeOK'
<1>1. FileTypes'
  <2>1. dir' \in [{"temp", "archive"} -> Inodes \cup {None}]
    <3>1. CASE url[p] = "primary"
      BY <3>1 DEF TypeOK
    <3>2. CASE url[p] # "primary"
      BY <3>2 DEF TypeOK
    <3> QED
      BY <3>1, <3>2
  <2>2. cuts' \in 0 .. MaxCuts
    BY CacheAssumption DEF TypeOK
  <2> QED
    BY <2>1, <2>2, TypesOf DEF FileTypes
<1>2. ProcTypes'
  <2>1. CASE url[p] = "primary"
    <3>1. /\ Goto(p, "request") /\ url' = [url EXCEPT ![p] = "fallback"]
          /\ part' = [part EXCEPT ![p] = 1] /\ fd' = [fd EXCEPT ![p] = None]
          /\ UNCHANGED appends
      BY <2>1
    <3> QED
      BY <3>1, TypesOf DEF ProcTypes, Steps
  <2>2. CASE url[p] # "primary"
    BY <2>2, TypesOf, ResetTypes
  <2> QED
    BY <2>1, <2>2
<1> QED
  BY <1>1, <1>2, TypesOf

(* The variables of the cache and of the processes keep their types.       *)
LEMMA TypesKept ==
  ASSUME TypeOK, [Next]_vars
  PROVE  TypeOK'
<1> USE TwoParts, CacheAssumption
<1>1. CASE UNCHANGED vars
  BY <1>1 DEF TypeOK
<1>2. CASE Upgrade
  BY <1>2 DEF TypeOK, Upgrade, Versions
<1>3. ASSUME NEW p \in Procs, NEW command \in {"ensure", "force", "remove"}, Begin(p, command)
      PROVE  TypeOK'
  BY <1>3, EmptyHasNone DEF TypeOK, Begin, FirstStep, Steps, Content
<1>4. ASSUME NEW p \in Procs, EnsureAll(p) PROVE TypeOK'
  <2>1. CASE Verified(wanted)
    BY <1>4, <2>1, ResetTypes DEF TypeOK, ProcTypes, EnsureAll, Steps
  <2>2. CASE ~Verified(wanted)
    <3>1. Goto(p, "stat") /\ UNCHANGED <<fileVars, url, part, appends, fd, histVars>>
      BY <1>4, <2>2 DEF EnsureAll
    <3> QED
      BY <3>1 DEF TypeOK, Steps
  <2> QED
    BY <2>1, <2>2
<1>5. ASSUME NEW p \in Procs, PullOne(p) PROVE TypeOK'
  BY <1>5 DEF TypeOK, PullOne, Steps
<1>6. ASSUME NEW p \in Procs, AnswerWhole(p) PROVE TypeOK'
  BY <1>6 DEF TypeOK, AnswerWhole, Steps
<1>7. ASSUME NEW p \in Procs, AnswerRange(p) PROVE TypeOK'
  BY <1>7 DEF TypeOK, AnswerRange, Steps
<1>8. ASSUME NEW p \in Procs, AnswerNotSatisfiable(p) PROVE TypeOK'
  BY <1>8 DEF TypeOK, AnswerNotSatisfiable, Steps
<1>9. ASSUME NEW p \in Procs, WritePart(p) PROVE TypeOK'
  <2> DEFINE i == fd[p]
             c == <<wanted, part[p]>>
  <2>1. i \in Inodes /\ part[p] \in 1 .. N /\ wanted \in Versions /\ content[i] \in Content
    BY <1>9 DEF TypeOK, WritePart, Content
  <2>2. PICK s \in Content : content' = [content EXCEPT ![i] = s]
    <3>1. CASE appends[p]
      BY <1>9, <2>1, <3>1, Appended DEF WritePart
    <3>2. CASE ~appends[p]
      BY <1>9, <2>1, <3>2, WrittenAt DEF WritePart
    <3> QED
      BY <3>1, <3>2
  <2>3. content' \in [Inodes -> Content]
    BY <2>2 DEF TypeOK, Content
  <2> QED
    BY <1>9, <2>1, <2>3 DEF TypeOK, WritePart, Steps, Content
<1>10. ASSUME NEW p \in Procs, DownloadFile(p) PROVE TypeOK'
  <2>1. CASE dir["temp"] = None
    BY <1>10, <2>1, ResetTypes DEF TypeOK, ProcTypes, DownloadFile, Steps
  <2>2. CASE dir["temp"] # None
    <3>1. Resets(p, "verify") /\ UNCHANGED <<content, files, stamp, modelDir, histVars>>
      BY <1>10, <2>2 DEF DownloadFile
    <3>2. dir' = [dir EXCEPT !["archive"] = dir["temp"], !["temp"] = None]
      BY <1>10, <2>2 DEF DownloadFile
    <3>3. FileTypes'
      BY <3>1, <3>2, TypesOf DEF FileTypes
    <3> QED
      BY <3>1, <3>3, TypesOf, ResetTypes
  <2> QED
    BY <2>1, <2>2
<1>11. ASSUME NEW p \in Procs, VerifyArchive(p) PROVE TypeOK'
  BY <1>11 DEF TypeOK, VerifyArchive, Steps
<1>12. ASSUME NEW p \in Procs, VerifyFails(p) PROVE TypeOK'
  BY <1>12 DEF TypeOK, VerifyFails, Steps
<1>13. ASSUME NEW p \in Procs, OpenArchive(p) PROVE TypeOK'
  <2>1. CASE dir["archive"] # None /\ Readable(dir["archive"], 1)
    <3>1. /\ Goto(p, "extract") /\ UNCHANGED <<fileVars, url, appends, histVars>>
          /\ fd' = [fd EXCEPT ![p] = dir["archive"]] /\ part' = [part EXCEPT ![p] = 1]
      BY <1>13, <2>1 DEF OpenArchive
    <3>2. dir["archive"] \in Inodes
      BY <2>1 DEF TypeOK
    <3>3. FileTypes'
      BY <3>1, TypesOf DEF FileTypes
    <3>4. ProcTypes'
      BY <2>1, <3>1, <3>2, TypesOf DEF ProcTypes, Steps
    <3> QED
      BY <3>3, <3>4, TypesOf
  <2>2. CASE ~(dir["archive"] # None /\ Readable(dir["archive"], 1))
    BY <1>13, <2>2, ResetTypes DEF TypeOK, ProcTypes, OpenArchive, Steps
  <2> QED
    BY <2>1, <2>2
<1>14. ASSUME NEW p \in Procs, TruncateFile(p) PROVE TypeOK'
  BY <1>14 DEF TypeOK, TruncateFile, Steps
<1>15. ASSUME NEW p \in Procs, FillFile(p) PROVE TypeOK'
  <2>1. CASE ~Readable(fd[p], part[p])
    BY <1>15, <2>1, ResetTypes DEF TypeOK, ProcTypes, FillFile, Steps
  <2>2. ASSUME Readable(fd[p], part[p]), NEW f \in Files, f = Order[part[p]],
               NEW v \in Versions, files' = [files EXCEPT ![f] = IF @ = None THEN None ELSE v]
        PROVE  TypeOK'
    <3>1. /\ files' \in [Files -> Versions \cup {Torn, None}]
          /\ \A g \in Files : files'[g] # None => files[g] # None
      BY <2>2 DEF TypeOK
    <3>2. CASE part[p] < N
      BY <1>15, <2>2, <3>1, <3>2 DEF TypeOK, FillFile, Steps
    <3>3. CASE ~(part[p] < N)
      BY <1>15, <2>2, <3>1, <3>3, ResetTypes DEF TypeOK, ProcTypes, FillFile, Steps
    <3> QED
      BY <3>2, <3>3
  <2>3. CASE Readable(fd[p], part[p])
    <3>1. part[p] \in 1 .. N
      BY <1>15 DEF TypeOK, FillFile
    <3>2. PICK v \in Versions : content[fd[p]][part[p]] = <<v, part[p]>>
      BY <2>3 DEF Readable
    <3> QED
      BY <1>15, <2>2, <2>3, <3>1, <3>2 DEF FillFile
  <2> QED
    BY <2>1, <2>3
<1>16. ASSUME NEW p \in Procs, RemoveArchive(p) PROVE TypeOK'
  BY <1>16 DEF TypeOK, RemoveArchive, Steps
<1>17. ASSUME NEW p \in Procs, WriteChecksum(p) PROVE TypeOK'
  BY <1>17 DEF TypeOK, WriteChecksum, Steps
<1>18. ASSUME NEW p \in Procs, RemoveEntry(p) PROVE TypeOK'
  BY <1>18 DEF TypeOK, RemoveEntry, Steps
<1>19. ASSUME NEW p \in Procs, RemoveDir(p) PROVE TypeOK'
  BY <1>19 DEF TypeOK, RemoveDir, Steps
<1>20. ASSUME NEW p \in Procs, RequestFails(p) PROVE TypeOK'
  BY <1>20, FetchTypes DEF RequestFails
<1>21. ASSUME NEW p \in Procs, RetryRefused(p) PROVE TypeOK'
  <2>1. PICK page \in Partless : OpenTemp(p, FALSE, N + 1, page)
    BY <1>21 DEF RetryRefused, Partless
  <2>2. page \in Seq(Part \cup {<<>>})
    BY EmptyHasNone DEF Content
  <2>3. cuts' \in 0 .. MaxCuts
    BY <1>21, CacheAssumption DEF TypeOK, RetryRefused
  <2> QED
    BY <2>1, <2>2, <2>3, TwoParts DEF TypeOK, Steps
<1>22. ASSUME NEW p \in Procs, WriteCut(p) PROVE TypeOK'
  BY <1>22, FetchTypes DEF WriteCut
<1>23. ASSUME NEW p \in Procs, Crash(p) PROVE TypeOK'
  BY <1>23 DEF TypeOK, Crash, Steps
<1> QED
  BY <1>1, <1>2, <1>3, <1>4, <1>5, <1>6, <1>7, <1>8, <1>9, <1>10, <1>11, <1>12, <1>13,
     <1>14, <1>15, <1>16, <1>17, <1>18, <1>19, <1>20, <1>21, <1>22, <1>23
     DEF Next, GoesOn, Trouble, Download, Extract

(* What process p may do.                                                  *)
Act(p) ==
  \/ \E command \in {"ensure", "force", "remove"} : Begin(p, command)
  \/ GoesOn(p) \/ Trouble(p)

(* Every step is an upgrade or one of a process.                           *)
LEMMA StepOf == Next => Upgrade \/ \E p \in Procs : Act(p)
BY DEF Next, Act

-----------------------------------------------------------------------------
(* What single steps do. *)

(* The manifest changes with an upgrade only.                              *)
LEMMA SameVersion == ASSUME NEW p, Act(p) PROVE wanted' = wanted
BY DEF Act, GoesOn, Trouble, Download, Extract, Begin, EnsureAll, PullOne, AnswerWhole,
       AnswerRange, AnswerNotSatisfiable, WritePart, DownloadFile, VerifyArchive,
       VerifyFails, OpenArchive, TruncateFile, FillFile, RemoveArchive, WriteChecksum,
       RemoveEntry, RemoveDir, RequestFails, RetryRefused, WriteCut, Crash

(* A step of a process leaves the others where they are.                   *)
LEMMA OthersKept ==
  ASSUME TypeOK, NEW p \in Procs, Act(p), NEW q \in Procs \ {p}
  PROVE  pc'[q] = pc[q] /\ part'[q] = part[q] /\ appends'[q] = appends[q] /\ fd'[q] = fd[q]
<1>1. ASSUME NEW command \in {"ensure", "force", "remove"}, Begin(p, command)
      PROVE  pc'[q] = pc[q] /\ part'[q] = part[q] /\ appends'[q] = appends[q] /\ fd'[q] = fd[q]
  BY <1>1 DEF TypeOK, Begin
<1>2. CASE Trouble(p)
  BY <1>2 DEF TypeOK, Trouble, RequestFails, RetryRefused, WriteCut, Crash
<1>3. CASE Download(p)
  BY <1>3 DEF TypeOK, Download, EnsureAll, PullOne, AnswerWhole, AnswerRange,
              AnswerNotSatisfiable, WritePart, DownloadFile
<1>4. CASE Extract(p)
  BY <1>4 DEF TypeOK, Extract, VerifyArchive, VerifyFails, OpenArchive, TruncateFile, FillFile,
              RemoveArchive, WriteChecksum
<1>5. CASE RemoveEntry(p) \/ RemoveDir(p)
  BY <1>5 DEF TypeOK, RemoveEntry, RemoveDir
<1> QED
  BY <1>1, <1>2, <1>3, <1>4, <1>5 DEF Act, GoesOn

(* A process downloads when it has opened the temporary file.              *)
LEMMA CopyStarts ==
  ASSUME TypeOK, NEW p \in Procs, Act(p), pc'[p] = "copy"
  PROVE  WritePart(p) \/ AnswerWhole(p) \/ AnswerRange(p) \/ RetryRefused(p)
<1>1. \A command \in {"ensure", "force", "remove"} : ~Begin(p, command)
  BY DEF TypeOK, Begin, FirstStep
<1>2. ~RequestFails(p) /\ ~WriteCut(p) /\ ~Crash(p)
  BY DEF TypeOK, RequestFails, WriteCut, Crash
<1>3. ~EnsureAll(p) /\ ~PullOne(p) /\ ~AnswerNotSatisfiable(p) /\ ~DownloadFile(p)
  BY DEF TypeOK, EnsureAll, PullOne, AnswerNotSatisfiable, DownloadFile
<1>4. ~Extract(p)
  BY DEF TypeOK, Extract, VerifyArchive, VerifyFails, OpenArchive, TruncateFile, FillFile,
         RemoveArchive, WriteChecksum
<1>5. ~RemoveEntry(p) /\ ~RemoveDir(p)
  BY DEF TypeOK, RemoveEntry, RemoveDir
<1> QED
  BY <1>1, <1>2, <1>3, <1>4, <1>5 DEF Act, GoesOn, Trouble, Download

(* A process verifies what it has renamed, and opens what it has verified. *)
LEMMA VerifyStarts ==
  ASSUME TypeOK, NEW p \in Procs, Act(p), pc'[p] \in {"verify", "open_archive"}
  PROVE  VerifyArchive(p) \/ (DownloadFile(p) /\ pc'[p] = "verify" /\ dir'["temp"] = None)
<1>1. \A command \in {"ensure", "force", "remove"} : ~Begin(p, command)
  BY DEF TypeOK, Begin, FirstStep
<1>2. ~Trouble(p)
  BY DEF TypeOK, Trouble, RequestFails, RetryRefused, WriteCut, Crash
<1>3. DownloadFile(p) => pc'[p] = "verify" /\ dir'["temp"] = None
  <2>1. ASSUME dir["temp"] = None, DownloadFile(p) PROVE FALSE
    BY <2>1 DEF TypeOK, DownloadFile
  <2>2. ASSUME dir["temp"] # None, DownloadFile(p) PROVE pc'[p] = "verify" /\ dir'["temp"] = None
    BY <2>2 DEF TypeOK, DownloadFile
  <2> QED
    BY <2>1, <2>2
<1>4. ~EnsureAll(p) /\ ~PullOne(p) /\ ~AnswerWhole(p) /\ ~AnswerRange(p) /\ ~AnswerNotSatisfiable(p)
      /\ ~WritePart(p)
  BY DEF TypeOK, EnsureAll, PullOne, AnswerWhole, AnswerRange, AnswerNotSatisfiable, WritePart
<1>5. ~VerifyFails(p) /\ ~OpenArchive(p) /\ ~TruncateFile(p) /\ ~FillFile(p) /\ ~RemoveArchive(p)
      /\ ~WriteChecksum(p)
  BY DEF TypeOK, VerifyFails, OpenArchive, TruncateFile, FillFile, RemoveArchive, WriteChecksum
<1>6. ~RemoveEntry(p) /\ ~RemoveDir(p)
  BY DEF TypeOK, RemoveEntry, RemoveDir
<1> QED
  BY <1>1, <1>2, <1>3, <1>4, <1>5, <1>6 DEF Act, GoesOn, Download, Extract

(* A step touches no file of the model and lets no extraction go on.       *)
Quiet ==
  /\ UNCHANGED <<files, stamp, wanted, overlaid>>
  /\ \A q \in Procs : UnderWay(q)' => UnderWay(q) /\ Done(q)' = Done(q)

(* Few steps of a process are not of that kind.                            *)
LEMMA QuietSteps ==
  ASSUME TypeOK, NEW p \in Procs, Act(p)
  PROVE  \/ TruncateFile(p) \/ FillFile(p) \/ RemoveArchive(p) \/ WriteChecksum(p)
         \/ RemoveEntry(p) \/ Quiet
<1>1. \A q \in Procs \ {p} : (UnderWay(q)' <=> UnderWay(q)) /\ Done(q)' = Done(q)
  BY OthersKept DEF UnderWay, Done
<1>2. ASSUME NEW command \in {"ensure", "force", "remove"}, Begin(p, command)
      PROVE  UNCHANGED <<files, stamp, wanted, overlaid>> /\ ~UnderWay(p)'
  BY <1>2 DEF TypeOK, Begin, FirstStep, UnderWay
<1>3. CASE Trouble(p)
  <2>1. UNCHANGED <<files, stamp, wanted, overlaid>>
    BY <1>3 DEF Trouble, RequestFails, RetryRefused, WriteCut, Crash
  <2>2. ~UnderWay(p)'
    BY <1>3 DEF TypeOK, UnderWay, Trouble, RequestFails, RetryRefused, WriteCut, Crash
  <2> QED
    BY <1>1, <2>1, <2>2 DEF Quiet
<1>4. CASE Download(p)
  <2>1. UNCHANGED <<files, stamp, wanted, overlaid>>
    BY <1>4 DEF Download, EnsureAll, PullOne, AnswerWhole, AnswerRange,
                AnswerNotSatisfiable, WritePart, DownloadFile
  <2>2. ~UnderWay(p)'
    BY <1>4 DEF TypeOK, UnderWay, Download, EnsureAll, PullOne, AnswerWhole, AnswerRange,
                AnswerNotSatisfiable, WritePart, DownloadFile
  <2> QED
    BY <1>1, <2>1, <2>2 DEF Quiet
<1>5. CASE VerifyArchive(p) \/ VerifyFails(p) \/ OpenArchive(p) \/ RemoveDir(p)
  <2>1. UNCHANGED <<files, stamp, wanted, overlaid>>
    BY <1>5 DEF VerifyArchive, VerifyFails, OpenArchive, RemoveDir
  <2>2. ~UnderWay(p)'
    BY <1>5 DEF TypeOK, UnderWay, VerifyArchive, VerifyFails, OpenArchive, RemoveDir
  <2> QED
    BY <1>1, <2>1, <2>2 DEF Quiet
<1>6. \A command \in {"ensure", "force", "remove"} : Begin(p, command) => Quiet
  BY <1>1, <1>2 DEF Quiet
<1> QED
  BY <1>3, <1>4, <1>5, <1>6 DEF Act, GoesOn, Extract

(* A process that fills a file goes on with it or is killed.               *)
LEMMA FillEnds ==
  ASSUME TypeOK, NEW p \in Procs, Act(p), pc[p] = "fill"
  PROVE  FillFile(p) \/ Crash(p)
BY DEF Act, GoesOn, Trouble, Download, Extract, Begin, EnsureAll, PullOne, AnswerWhole,
       AnswerRange, AnswerNotSatisfiable, WritePart, DownloadFile, VerifyArchive,
       VerifyFails, OpenArchive, TruncateFile, FillFile, RemoveArchive, WriteChecksum,
       RemoveEntry, RemoveDir, RequestFails, RetryRefused, WriteCut, Crash

(* Another archive is what was downloaded; another file that is opened is  *)
(* the download or the archive.                                            *)
LEMMA ArchiveMoves ==
  ASSUME TypeOK, NEW p \in Procs, Act(p)
  PROVE  /\ dir'["archive"] \in {dir["archive"], None}
              \/ (DownloadFile(p) /\ dir["temp"] # None)
         /\ fd'[p] \in {fd[p], None, dir'["temp"]}
              \/ (OpenArchive(p) /\ Readable(dir["archive"], 1))
         /\ \A i \in Used : i # None /\ dir'["temp"] = i => dir["temp"] = i
<1> DEFINE Same == /\ dir'["archive"] = dir["archive"]
                   /\ fd'[p] \in {fd[p], None, dir'["temp"]}
                   /\ \A i \in Used : i # None /\ dir'["temp"] = i => dir["temp"] = i
<1>1. ASSUME NEW append, NEW first, NEW page, OpenTemp(p, append, first, page) PROVE Same
  BY <1>1 DEF TypeOK, Used
<1>2. CASE AnswerWhole(p) \/ AnswerRange(p) \/ RetryRefused(p)
  <2> HIDE DEF Same, OpenTemp
  <2>1. Same
    BY <1>1, <1>2 DEF AnswerWhole, AnswerRange, RetryRefused
  <2> QED
    BY <2>1 DEF Same
<1>3. CASE DownloadFile(p)
  <2>1. CASE dir["temp"] = None
    BY <1>3, <2>1 DEF TypeOK, DownloadFile
  <2>2. CASE dir["temp"] # None
    BY <1>3, <2>2 DEF TypeOK, DownloadFile
  <2> QED
    BY <2>1, <2>2
<1>4. CASE RequestFails(p) \/ WriteCut(p) \/ Crash(p)
  BY <1>4 DEF TypeOK, RequestFails, WriteCut, Crash
<1>5. CASE EnsureAll(p) \/ PullOne(p) \/ AnswerNotSatisfiable(p) \/ WritePart(p)
  BY <1>5 DEF TypeOK, EnsureAll, PullOne, AnswerNotSatisfiable, WritePart
<1>6. CASE OpenArchive(p)
  <2>1. dir' = dir /\ (Readable(dir["archive"], 1) \/ fd'[p] = None)
    BY <1>6 DEF TypeOK, OpenArchive
  <2> QED
    BY <1>6, <2>1
<1>7. CASE VerifyArchive(p) \/ VerifyFails(p) \/ TruncateFile(p) \/ FillFile(p)
           \/ RemoveArchive(p) \/ WriteChecksum(p)
  BY <1>7
     DEF TypeOK, VerifyArchive, VerifyFails, TruncateFile, FillFile, RemoveArchive,
         WriteChecksum
<1>8. CASE RemoveEntry(p) \/ RemoveDir(p)
  BY <1>8 DEF TypeOK, RemoveEntry, RemoveDir
<1>9. CASE \E command \in {"ensure", "force", "remove"} : Begin(p, command)
  BY <1>9 DEF TypeOK, Begin
<1> QED
  BY <1>2, <1>3, <1>4, <1>5, <1>6, <1>7, <1>8, <1>9 DEF Act, GoesOn, Trouble, Download, Extract

-----------------------------------------------------------------------------
(* Downloads. *)

(* Nothing but parts of the version in the manifest gets into files, and   *)
(* that only where a process downloads.                                    *)
LEMMA WhatIsWritten ==
  ASSUME TypeOK, NEW p \in Procs, Act(p), NEW i \in Inodes
  PROVE  /\ wanted' = wanted
         /\ HasOld(i)' => HasOld(i)
         /\ \A v : PartsOf(content'[i], v) => v = wanted \/ PartsOf(content[i], v)
         /\ HasNew(i)' => HasNew(i) \/ (pc[p] = "copy" /\ fd[p] = i)
<1>1. wanted' = wanted
  BY SameVersion
<1>2. CASE UNCHANGED content
  BY <1>1, <1>2 DEF HasOld, HasNew
<1>3. CASE content'[i] \in Partless
  <2>1. ~HasOld(i)' /\ ~HasNew(i)'
    BY <1>3, EmptyHasNone DEF HasOld, HasNew
  <2>2. \A v : ~PartsOf(content'[i], v)
    BY <1>3, EmptyHasNone
  <2> QED
    BY <1>1, <2>1, <2>2
<1>4. CASE UNCHANGED content[i]
  BY <1>1, <1>4 DEF HasOld, HasNew
<1>5. CASE WritePart(p)
  <2>1. CASE i # fd[p]
    BY <1>4, <1>5, <2>1 DEF TypeOK, WritePart
  <2>2. CASE i = fd[p]
    <3>1. part[p] \in 1 .. N /\ wanted \in Versions /\ content[i] \in Content /\ pc[p] = "copy"
      BY <1>5 DEF TypeOK, WritePart, Content
    <3>2. content'[i] = IF appends[p] THEN Append(content[i], <<wanted, part[p]>>)
                        ELSE Overwritten(content[i], part[p], <<wanted, part[p]>>)
      BY <1>5, <2>2 DEF TypeOK, WritePart
    <3>3. /\ PartsBut(content'[i], wanted) => PartsBut(content[i], wanted)
          /\ \A v : PartsOf(content'[i], v) => v = wanted \/ PartsOf(content[i], v)
      <4>1. CASE appends[p]
        BY <3>1, <3>2, <4>1, Appended
      <4>2. CASE ~appends[p]
        BY <3>1, <3>2, <4>2, WrittenAt
      <4> QED
        BY <4>1, <4>2
    <3> QED
      BY <1>1, <2>2, <3>1, <3>3 DEF HasOld
  <2> QED
    BY <2>1, <2>2
<1>6. ASSUME NEW append \in BOOLEAN, NEW first, NEW page \in Partless,
             OpenTemp(p, append, first, page)
      PROVE  content'[i] \in Partless \/ UNCHANGED content[i]
  BY <1>6 DEF TypeOK
<1>7. CASE AnswerWhole(p) \/ AnswerRange(p) \/ RetryRefused(p)
  <2> HIDE DEF OpenTemp
  <2>1. <<>> \in Partless /\ ErrorPage \in Partless
    BY DEF Partless
  <2>2. content'[i] \in Partless \/ UNCHANGED content[i]
    BY <1>6, <1>7, <2>1 DEF AnswerWhole, AnswerRange, RetryRefused
  <2> QED
    BY <1>3, <1>4, <2>2
<1>8. ASSUME NEW command, Begin(p, command)
      PROVE  content'[i] \in Partless \/ UNCHANGED content[i]
  BY <1>8 DEF TypeOK, Begin, Partless
<1> QED
  BY <1>2, <1>3, <1>4, <1>5, <1>7, <1>8
     DEF Act, GoesOn, Trouble, Download, Extract, EnsureAll, PullOne, AnswerNotSatisfiable,
         DownloadFile, VerifyArchive, VerifyFails, OpenArchive, TruncateFile, FillFile,
         RemoveArchive, WriteChecksum, RemoveEntry, RemoveDir, RequestFails, WriteCut, Crash

(* Who has a file open downloads or extracts, and what is downloaded is    *)
(* not the archive.                                                        *)
LEMMA FdKept ==
  ASSUME TypeOK, FdInv, [Next]_vars
  PROVE  FdInv'
<1>1. CASE UNCHANGED vars
  BY <1>1 DEF FdInv
<1>2. CASE Upgrade
  BY <1>2 DEF FdInv, Upgrade
<1>3. ASSUME NEW p \in Procs, NEW command \in {"ensure", "force", "remove"}, Begin(p, command)
      PROVE  FdInv'
  BY <1>3 DEF TypeOK, FdInv, Begin
<1>4. ASSUME NEW p \in Procs, EnsureAll(p) PROVE FdInv'
  BY <1>4 DEF TypeOK, FdInv, EnsureAll
<1>5. ASSUME NEW p \in Procs, PullOne(p) PROVE FdInv'
  BY <1>5 DEF TypeOK, FdInv, PullOne
<1>6. ASSUME NEW p \in Procs, AnswerWhole(p) PROVE FdInv'
  BY <1>6 DEF TypeOK, FdInv, AnswerWhole, Used
<1>7. ASSUME NEW p \in Procs, AnswerRange(p) PROVE FdInv'
  BY <1>7 DEF TypeOK, FdInv, AnswerRange, Used
<1>8. ASSUME NEW p \in Procs, AnswerNotSatisfiable(p) PROVE FdInv'
  BY <1>8 DEF TypeOK, FdInv, AnswerNotSatisfiable
<1>9. ASSUME NEW p \in Procs, WritePart(p) PROVE FdInv'
  BY <1>9 DEF TypeOK, FdInv, WritePart
<1>10. ASSUME NEW p \in Procs, DownloadFile(p) PROVE FdInv'
  BY <1>10 DEF TypeOK, FdInv, DownloadFile
<1>11. ASSUME NEW p \in Procs, VerifyArchive(p) PROVE FdInv'
  BY <1>11 DEF TypeOK, FdInv, VerifyArchive
<1>12. ASSUME NEW p \in Procs, VerifyFails(p) PROVE FdInv'
  BY <1>12 DEF TypeOK, FdInv, VerifyFails
<1>13. ASSUME NEW p \in Procs, OpenArchive(p) PROVE FdInv'
  BY <1>13 DEF TypeOK, FdInv, OpenArchive
<1>14. ASSUME NEW p \in Procs, TruncateFile(p) PROVE FdInv'
  BY <1>14 DEF TypeOK, FdInv, TruncateFile
<1>15. ASSUME NEW p \in Procs, FillFile(p) PROVE FdInv'
  BY <1>15 DEF TypeOK, FdInv, FillFile
<1>16. ASSUME NEW p \in Procs, RemoveArchive(p) PROVE FdInv'
  BY <1>16 DEF TypeOK, FdInv, RemoveArchive
<1>17. ASSUME NEW p \in Procs, WriteChecksum(p) PROVE FdInv'
  BY <1>17 DEF TypeOK, FdInv, WriteChecksum
<1>18. ASSUME NEW p \in Procs, RemoveEntry(p) PROVE FdInv'
  BY <1>18 DEF TypeOK, FdInv, RemoveEntry
<1>19. ASSUME NEW p \in Procs, RemoveDir(p) PROVE FdInv'
  BY <1>19 DEF TypeOK, FdInv, RemoveDir
<1>20. ASSUME NEW p \in Procs, RequestFails(p) PROVE FdInv'
  BY <1>20 DEF TypeOK, FdInv, RequestFails
<1>21. ASSUME NEW p \in Procs, RetryRefused(p) PROVE FdInv'
  BY <1>21 DEF TypeOK, FdInv, RetryRefused, Used
<1>22. ASSUME NEW p \in Procs, WriteCut(p) PROVE FdInv'
  BY <1>22 DEF TypeOK, FdInv, WriteCut
<1>23. ASSUME NEW p \in Procs, Crash(p) PROVE FdInv'
  BY <1>23 DEF TypeOK, FdInv, Crash
<1> QED
  BY <1>1, <1>2, <1>3, <1>4, <1>5, <1>6, <1>7, <1>8, <1>9, <1>10, <1>11, <1>12, <1>13,
     <1>14, <1>15, <1>16, <1>17, <1>18, <1>19, <1>20, <1>21, <1>22, <1>23
     DEF Next, GoesOn, Trouble, Download, Extract

(* Nothing is of a version that is still to come.                          *)
LEMMA VersionKept ==
  ASSUME TypeOK, VersionInv, [Next]_vars
  PROVE  VersionInv'
<1>1. CASE UNCHANGED vars
  BY <1>1 DEF VersionInv
<1>2. CASE Upgrade
  BY <1>2 DEF TypeOK, VersionInv, Upgrade, Versions
<1>3. ASSUME NEW p \in Procs, Act(p) PROVE VersionInv'
  <2>1. wanted' = wanted
    BY <1>3, SameVersion
  <2>2. stamp' \in {stamp, wanted, None}
    BY <1>3
       DEF Act, GoesOn, Trouble, Download, Extract, Begin, EnsureAll, PullOne, AnswerWhole,
           AnswerRange, AnswerNotSatisfiable, WritePart, DownloadFile, VerifyArchive,
           VerifyFails, OpenArchive, TruncateFile, FillFile, RemoveArchive, WriteChecksum,
           RemoveEntry, RemoveDir, RequestFails, RetryRefused, WriteCut, Crash
  <2>3. ASSUME NEW i \in Inodes, NEW v \in Versions, v > wanted'
        PROVE  ~PartsOf(content'[i], v)
    <3>1. v # wanted
      BY <2>1, <2>3 DEF TypeOK, Versions
    <3> QED
      BY <1>3, <2>1, <2>3, <3>1, WhatIsWritten DEF VersionInv
  <2>4. stamp' # None => stamp' <= wanted'
    BY <2>1, <2>2 DEF TypeOK, VersionInv, Versions
  <2> QED
    BY <2>3, <2>4 DEF VersionInv
<1> QED
  BY <1>1, <1>2, <1>3, StepOf

(* The parts of an archive are of its version.                             *)
LEMMA ArchiveParts ==
  ASSUME NEW w \in Versions
  PROVE  PartsOf(Archive(w), w) /\ ~PartsBut(Archive(w), w)
<1>1. Len(Archive(w)) = 2 /\ \A n \in 1 .. 2 : Archive(w)[n] = <<w, n>>
  BY TwoParts, IsSequence DEF Archive
<1>2. PartsOf(Archive(w), w)
  BY <1>1, TwoParts DEF PartsOf
<1>3. ~PartsBut(Archive(w), w)
  BY <1>1, PartsDiffer DEF PartsBut
<1> QED
  BY <1>2, <1>3

(* What is known of downloads after a step of process p that is no upgrade.*)
PartsKept(p) ==
  /\ wanted' = wanted
  /\ \A i \in Inodes :
       /\ PartsBut(content'[i], wanted) => PartsBut(content[i], wanted)
       /\ PartsOf(content'[i], wanted) =>
            PartsOf(content[i], wanted) \/ (pc[p] = "copy" /\ fd[p] = i)

(* Opening the temporary file leaves old and new parts apart.              *)
LEMMA OldOpen ==
  ASSUME TypeOK, FdInv, OldInv, NEW p \in Procs, PartsKept(p), pc[p] \in {"request", "retry"},
         NEW append, NEW first, NEW page \in Partless, OpenTemp(p, append, first, page)
  PROVE  OldInv'
<1> USE DEF HasOld, HasNew, Late
<1>1. PICK i \in Inodes :
        /\ IF dir["temp"] = None THEN i \notin Used ELSE i = dir["temp"]
        /\ dir' = [dir EXCEPT !["temp"] = i]
        /\ fd' = [fd EXCEPT ![p] = i]
        /\ content' = [content EXCEPT ![i] = IF append /\ dir["temp"] # None THEN @ ELSE page]
  OBVIOUS
<1>2. /\ dir'["temp"] = i /\ dir'["archive"] = dir["archive"] /\ dir["archive"] # i
      /\ dir["archive"] \in Inodes \cup {None} /\ fd'[p] = i
      /\ \A q \in Procs \ {p} : fd'[q] = fd[q] /\ pc'[q] = pc[q]
      /\ pc'[p] = "copy"
  BY <1>1 DEF TypeOK, FdInv, Used
<1>3. content'[i] \in Partless \/ (dir["temp"] = i /\ content'[i] = content[i])
  BY <1>1 DEF TypeOK
<1>4. CASE content'[i] \in Partless
  <2>1. ~PartsBut(content'[i], wanted)
    BY <1>4, EmptyHasNone
  <2> QED
    BY <1>2, <2>1 DEF TypeOK, OldInv, PartsKept
<1>5. CASE dir["temp"] = i /\ content'[i] = content[i]
  BY <1>2, <1>5 DEF TypeOK, OldInv, PartsKept
<1> QED
  BY <1>3, <1>4, <1>5

(* So does giving a download up.                                           *)
LEMMA OldFetch ==
  ASSUME TypeOK, FdInv, OldInv, NEW p \in Procs, PartsKept(p),
         FetchFails(p)
  PROVE  OldInv'
<1> USE DEF HasOld, HasNew, Late
<1>1. CASE url[p] = "primary"
  <2>1. /\ dir' = Removed("temp") /\ fd' = [fd EXCEPT ![p] = None]
        /\ Goto(p, "request") /\ UNCHANGED content
    BY <1>1
  <2> QED
    BY <2>1 DEF TypeOK, OldInv, PartsKept
<1>2. CASE url[p] # "primary"
  <2>1. UNCHANGED <<dir, content>> /\ Ends(p)
    BY <1>2
  <2> QED
    BY <2>1 DEF TypeOK, OldInv, PartsKept
<1> QED
  BY <1>1, <1>2

(* Old parts stay apart from the new ones and from extractions.            *)
LEMMA OldKept ==
  ASSUME TypeOK, FdInv, VersionInv, OldInv, [Next]_vars
  PROVE  OldInv'
<1> USE DEF HasOld, HasNew, Late
<1>1. CASE UNCHANGED vars
  BY <1>1 DEF OldInv
<1>2. CASE Upgrade
  <2>1. /\ UNCHANGED <<dir, content, pc, fd>> /\ wanted' \in Versions /\ wanted' > wanted
        /\ \A p \in Procs : pc[p] = "idle"
    BY <1>2, CacheAssumption DEF TypeOK, Upgrade, Versions
  <2>2. \A i \in Inodes : ~PartsOf(content[i], wanted')
    BY <2>1 DEF VersionInv
  <2>3. \A p \in Procs : fd[p] = None
    BY <2>1 DEF FdInv
  <2> QED
    BY <2>1, <2>2, <2>3 DEF TypeOK, OldInv
<1>3. ASSUME NEW p \in Procs, Act(p)
      PROVE  PartsKept(p)
  <2>1. wanted' = wanted
    BY <1>3, SameVersion
  <2>2. ASSUME NEW i \in Inodes
        PROVE  /\ PartsBut(content'[i], wanted) => PartsBut(content[i], wanted)
               /\ PartsOf(content'[i], wanted) =>
                    PartsOf(content[i], wanted) \/ (pc[p] = "copy" /\ fd[p] = i)
    BY <1>3, <2>1, WhatIsWritten
  <2> QED
    BY <2>1, <2>2 DEF PartsKept
<1>4. ASSUME NEW p \in Procs, Act(p), NEW command \in {"ensure", "force", "remove"}, Begin(p, command)
      PROVE  OldInv'
  BY <1>3, <1>4 DEF TypeOK, OldInv, PartsKept, Begin, FirstStep
<1>5. ASSUME NEW p \in Procs, Act(p), EnsureAll(p) PROVE OldInv'
  BY <1>3, <1>5 DEF TypeOK, FdInv, OldInv, PartsKept, EnsureAll
<1>6. ASSUME NEW p \in Procs, Act(p), PullOne(p) PROVE OldInv'
  BY <1>3, <1>6 DEF TypeOK, FdInv, OldInv, PartsKept, PullOne
<1>7. ASSUME NEW p \in Procs, Act(p), AnswerWhole(p) PROVE OldInv'
  <2> HIDE DEF OpenTemp
  <2>1. pc[p] \in {"request", "retry"} /\ OpenTemp(p, FALSE, 1, <<>>) /\ <<>> \in Partless
    BY <1>7 DEF AnswerWhole, Partless
  <2> QED
    BY <1>3, <1>7, <2>1, OldOpen
<1>8. ASSUME NEW p \in Procs, Act(p), AnswerRange(p) PROVE OldInv'
  <2> HIDE DEF OpenTemp
  <2>1. pc[p] = "request" /\ OpenTemp(p, TRUE, part[p], <<>>) /\ <<>> \in Partless
    BY <1>8 DEF AnswerRange, Partless
  <2> QED
    BY <1>3, <1>8, <2>1, OldOpen
<1>9. ASSUME NEW p \in Procs, Act(p), AnswerNotSatisfiable(p) PROVE OldInv'
  BY <1>3, <1>9 DEF TypeOK, FdInv, OldInv, PartsKept, AnswerNotSatisfiable
<1>10. ASSUME NEW p \in Procs, Act(p), WritePart(p) PROVE OldInv'
  <2>1. PartsKept(p)
    BY <1>3, <1>10
  <2>2. UNCHANGED <<dir, pc, fd>> /\ pc[p] = "copy" /\ fd[p] \in Inodes
    BY <1>10 DEF TypeOK, WritePart
  <2>3. ASSUME dir["temp"] # None, PartsBut(content'[dir["temp"]], wanted')
        PROVE  /\ dir["archive"] # None => ~PartsOf(content'[dir["archive"]], wanted')
               /\ \A q \in Procs : fd[q] \in {None, dir["temp"]} /\ pc[q] \notin Late
    <3>1. PartsBut(content[dir["temp"]], wanted)
      BY <2>1, <2>3 DEF TypeOK, PartsKept
    <3>2. fd[p] = dir["temp"] /\ dir["archive"] # dir["temp"]
      BY <2>2, <2>3, <3>1, CacheAssumption DEF TypeOK, FdInv, OldInv
    <3> QED
      BY <2>1, <2>3, <3>1, <3>2 DEF TypeOK, OldInv, PartsKept
  <2>4. ASSUME NEW q \in Procs, pc[q] \in Late
        PROVE  /\ dir["archive"] # None => ~PartsBut(content'[dir["archive"]], wanted')
               /\ pc[q] \in {"extract", "fill"} => ~PartsBut(content'[fd[q]], wanted')
    BY <2>1, <2>4 DEF TypeOK, OldInv, PartsKept
  <2> QED
    BY <2>2, <2>3, <2>4 DEF OldInv
<1>11. ASSUME NEW p \in Procs, Act(p), DownloadFile(p) PROVE OldInv'
  <2>1. PartsKept(p)
    BY <1>3, <1>11
  <2>2. CASE dir["temp"] = None
    <3>1. Ends(p) /\ UNCHANGED <<dir, content>>
      BY <1>11, <2>2 DEF DownloadFile
    <3> QED
      BY <2>1, <3>1 DEF TypeOK, OldInv, PartsKept
  <2>3. CASE dir["temp"] # None
    <3>1. Resets(p, "verify") /\ UNCHANGED content
      BY <1>11, <2>3 DEF DownloadFile
    <3>2. dir' = [dir EXCEPT !["archive"] = dir["temp"], !["temp"] = None]
      BY <1>11, <2>3 DEF DownloadFile
    <3>3. dir'["archive"] = dir["temp"] /\ dir'["temp"] = None
      BY <3>2 DEF TypeOK
    <3> QED
      BY <2>1, <2>3, <3>1, <3>3 DEF TypeOK, OldInv, PartsKept
  <2> QED
    BY <2>2, <2>3
<1>12. ASSUME NEW p \in Procs, Act(p), VerifyArchive(p) PROVE OldInv'
  <2>1. PartsKept(p)
    BY <1>3, <1>12
  <2>2. /\ dir["archive"] \in Inodes /\ content[dir["archive"]] = Archive(wanted)
        /\ Goto(p, "open_archive") /\ UNCHANGED <<dir, content, fd>>
    BY <1>12 DEF VerifyArchive, ArchiveIsWanted
  <2>3. PartsOf(content[dir["archive"]], wanted) /\ ~PartsBut(content[dir["archive"]], wanted)
    BY <2>2, ArchiveParts DEF TypeOK
  <2>4. dir["archive"] # None
    BY <2>2, CacheAssumption
  <2> QED
    BY <2>1, <2>2, <2>3, <2>4 DEF TypeOK, OldInv, PartsKept
<1>13. ASSUME NEW p \in Procs, Act(p), VerifyFails(p) PROVE OldInv'
  BY <1>3, <1>13 DEF TypeOK, FdInv, OldInv, PartsKept, VerifyFails
<1>14. ASSUME NEW p \in Procs, Act(p), OpenArchive(p) PROVE OldInv'
  <2>1. PartsKept(p)
    BY <1>3, <1>14
  <2>2. CASE dir["archive"] # None /\ Readable(dir["archive"], 1)
    <3>1. /\ Goto(p, "extract") /\ UNCHANGED <<dir, content>> /\ pc[p] = "open_archive"
          /\ fd' = [fd EXCEPT ![p] = dir["archive"]]
      BY <1>14, <2>2 DEF OpenArchive
    <3> QED
      BY <2>1, <2>2, <3>1 DEF TypeOK, OldInv, PartsKept
  <2>3. CASE ~(dir["archive"] # None /\ Readable(dir["archive"], 1))
    <3>1. Ends(p) /\ UNCHANGED <<dir, content>>
      BY <1>14, <2>3 DEF OpenArchive
    <3> QED
      BY <2>1, <3>1 DEF TypeOK, OldInv, PartsKept
  <2> QED
    BY <2>2, <2>3
<1>15. ASSUME NEW p \in Procs, Act(p), TruncateFile(p) PROVE OldInv'
  BY <1>3, <1>15 DEF TypeOK, FdInv, OldInv, PartsKept, TruncateFile
<1>16. ASSUME NEW p \in Procs, Act(p), FillFile(p) PROVE OldInv'
  BY <1>3, <1>16 DEF TypeOK, FdInv, OldInv, PartsKept, FillFile
<1>17. ASSUME NEW p \in Procs, Act(p), RemoveArchive(p) PROVE OldInv'
  BY <1>3, <1>17 DEF TypeOK, FdInv, OldInv, PartsKept, RemoveArchive
<1>18. ASSUME NEW p \in Procs, Act(p), WriteChecksum(p) PROVE OldInv'
  BY <1>3, <1>18 DEF TypeOK, FdInv, OldInv, PartsKept, WriteChecksum
<1>19. ASSUME NEW p \in Procs, Act(p), RemoveEntry(p) PROVE OldInv'
  BY <1>3, <1>19 DEF TypeOK, FdInv, OldInv, PartsKept, RemoveEntry
<1>20. ASSUME NEW p \in Procs, Act(p), RemoveDir(p) PROVE OldInv'
  BY <1>3, <1>20 DEF TypeOK, FdInv, OldInv, PartsKept, RemoveDir
<1>21. ASSUME NEW p \in Procs, Act(p), RequestFails(p) PROVE OldInv'
  BY <1>3, <1>21, OldFetch DEF RequestFails
<1>22. ASSUME NEW p \in Procs, Act(p), RetryRefused(p) PROVE OldInv'
  <2> HIDE DEF OpenTemp
  <2>1. PICK page \in Partless : OpenTemp(p, FALSE, N + 1, page)
    BY <1>22 DEF RetryRefused, Partless
  <2>2. pc[p] = "retry"
    BY <1>22 DEF RetryRefused
  <2> QED
    BY <1>3, <1>22, <2>1, <2>2, OldOpen
<1>23. ASSUME NEW p \in Procs, Act(p), WriteCut(p) PROVE OldInv'
  BY <1>3, <1>23, OldFetch DEF WriteCut
<1>24. ASSUME NEW p \in Procs, Act(p), Crash(p) PROVE OldInv'
  BY <1>3, <1>24 DEF TypeOK, FdInv, OldInv, PartsKept, Crash
<1> QED
  BY <1>1, <1>2, <1>3, <1>4, <1>5, <1>6, <1>7, <1>8, <1>9, <1>10, <1>11, <1>12, <1>13,
     <1>14, <1>15, <1>16, <1>17, <1>18, <1>19, <1>20, <1>21, <1>22, <1>23, <1>24, StepOf
     DEF Act, GoesOn, Trouble, Download, Extract

-----------------------------------------------------------------------------
(* Extraction. *)

(* No stamp is of the version that an upgrade brings.                      *)
LEMMA UpgradeIsNew ==
  ASSUME TypeOK, VersionInv, Upgrade
  PROVE  stamp # wanted'
<1>1. wanted' = wanted + 1 /\ wanted \in Nat /\ stamp \in Nat \cup {None} /\ UNCHANGED stamp
    BY CacheAssumption DEF TypeOK, Upgrade, Versions
<1>2. CASE stamp = None
    BY <1>1, <1>2, NoNone
<1>3. CASE stamp # None
    BY <1>1, <1>3 DEF VersionInv
<1> QED
    BY <1>2, <1>3

(* What an extraction has done are files of the model.                     *)
LEMMA DoneIsIn == ASSUME TypeOK, NEW p \in Procs PROVE Done(p) \subseteq 1 .. N
BY TwoParts DEF TypeOK, Done

(* Extractions that stay apart leave the files of the new version.         *)
LEMMA ExtractKept ==
  ASSUME TypeOK, VersionInv, OldInv, ExtractInv, [Next]_vars
  PROVE  ExtractInv'
<1> USE TwoParts
<1>1. CASE UNCHANGED vars
  BY <1>1 DEF ExtractInv, UnderWay, Done
<1>2. CASE Upgrade
  <2>1. /\ UNCHANGED <<files, stamp, overlaid, pc, part>>
        /\ \A p \in Procs : pc[p] = "idle"
    BY <1>2 DEF Upgrade
  <2>2. stamp # wanted'
    BY <1>2, UpgradeIsNew
  <2> QED
    BY <2>1, <2>2 DEF ExtractInv, UnderWay
<1>3. ASSUME NEW p \in Procs, TruncateFile(p) PROVE ExtractInv'
  BY <1>3 DEF TypeOK, OldInv, ExtractInv, UnderWay, Done, TruncateFile
<1>4. ASSUME NEW p \in Procs, FillFile(p) PROVE ExtractInv'
  <2> SUFFICES ASSUME ~overlaid PROVE ExtractInv'
    BY <1>4 DEF FillFile, ExtractInv
  <2>1. /\ UNCHANGED <<stamp, wanted, overlaid>> /\ pc[p] = "fill" /\ part[p] \in 1 .. N
        /\ stamp # wanted /\ \A n \in 1 .. (part[p] - 1) : files[Order[n]] \in {wanted, None}
    BY <1>4 DEF TypeOK, FillFile, ExtractInv, UnderWay, Done
  <2>2. \A q \in Procs \ {p} : ~UnderWay(q)
    BY <2>1 DEF ExtractInv, UnderWay
  <2>3. CASE ~Readable(fd[p], part[p])
    <3>1. Ends(p) /\ UNCHANGED files
      BY <1>4, <2>3 DEF FillFile
    <3>2. \A q \in Procs : ~UnderWay(q)'
      BY <2>2, <3>1 DEF TypeOK, UnderWay
    <3> QED
      BY <2>1, <3>1, <3>2 DEF ExtractInv
  <2>4. CASE Readable(fd[p], part[p])
    <3>1. PICK v \in Versions : content[fd[p]][part[p]] = <<v, part[p]>>
      BY <2>4 DEF Readable
    <3>2. fd[p] \in Inodes /\ part[p] \in 1 .. Len(content[fd[p]])
      BY <2>1, <2>4 DEF TypeOK, Readable
    <3>3. v = wanted
      BY <2>1, <3>1, <3>2 DEF OldInv, Late, HasOld, PartsBut
    <3>4. files' = [files EXCEPT ![Order[part[p]]] = IF @ = None THEN None ELSE wanted]
      BY <1>4, <2>4, <3>1, <3>3 DEF FillFile
    <3>5. \A n \in 1 .. part[p] : files'[Order[n]] \in {wanted, None}
      BY <2>1, <3>4 DEF TypeOK
    <3>6. CASE part[p] < N
      <4>1. Goto(p, "extract") /\ part' = [part EXCEPT ![p] = @ + 1]
        BY <1>4, <2>4, <3>6 DEF FillFile
      <4>2. \A q \in Procs : UnderWay(q)' => q = p
        BY <2>2, <4>1 DEF TypeOK, UnderWay
      <4>3. Done(p)' = 1 .. part[p]
        BY <2>1, <4>1 DEF TypeOK, Done
      <4> QED
        BY <2>1, <3>5, <4>2, <4>3 DEF ExtractInv
    <3>7. CASE ~(part[p] < N)
      <4>1. Resets(p, "clean") /\ part[p] = N
        BY <1>4, <2>1, <2>4, <3>7 DEF FillFile
      <4>2. \A q \in Procs : UnderWay(q)' => q = p
        BY <2>2, <4>1 DEF TypeOK, UnderWay
      <4>3. Done(p)' = 1 .. N
        BY <4>1 DEF TypeOK, Done
      <4> QED
        BY <2>1, <3>5, <4>1, <4>2, <4>3 DEF ExtractInv
    <3> QED
      BY <3>6, <3>7
  <2> QED
    BY <2>3, <2>4
<1>5. ASSUME NEW p \in Procs, RemoveArchive(p) PROVE ExtractInv'
  BY <1>5 DEF TypeOK, OldInv, ExtractInv, UnderWay, Done, RemoveArchive
<1>6. ASSUME NEW p \in Procs, WriteChecksum(p) PROVE ExtractInv'
  <2> SUFFICES ASSUME ~overlaid PROVE ExtractInv'
    BY <1>6 DEF WriteChecksum, ExtractInv
  <2>1. UnderWay(p) /\ Done(p) = 1 .. N
    BY <1>6 DEF WriteChecksum, UnderWay, Done
  <2>2. \A f \in Files : files[f] \in {wanted, None}
    BY <2>1 DEF ExtractInv
  <2>3. \A q \in Procs : ~UnderWay(q)'
    BY <1>6, <2>1 DEF TypeOK, WriteChecksum, ExtractInv, UnderWay
  <2> QED
    BY <1>6, <2>2, <2>3 DEF WriteChecksum, ExtractInv
<1>7. ASSUME NEW p \in Procs, RemoveEntry(p) PROVE ExtractInv'
  <2>1. UNCHANGED <<wanted, overlaid, pc, part>>
    BY <1>7 DEF RemoveEntry
  <2>2. stamp' \in {stamp, None} /\ \A f \in Files : files'[f] \in {files[f], None}
    BY <1>7 DEF TypeOK, RemoveEntry
  <2>3. wanted # None
    BY NoNone DEF TypeOK
  <2>4. \A q \in Procs : (UnderWay(q)' <=> UnderWay(q)) /\ Done(q)' = Done(q)
    BY <2>1 DEF UnderWay, Done
  <2>5. \A q \in Procs : Done(q) \subseteq 1 .. N
    BY DEF TypeOK, Done
  <2> QED
    BY <2>1, <2>2, <2>3, <2>4, <2>5 DEF ExtractInv
<1>8. ASSUME NEW p \in Procs, Act(p), Quiet PROVE ExtractInv'
  BY <1>8 DEF Quiet, ExtractInv
<1> QED
  BY <1>1, <1>2, <1>3, <1>4, <1>5, <1>6, <1>7, <1>8, StepOf, QuietSteps

-----------------------------------------------------------------------------
(* Two processes and no kill. *)

(* Nobody who was killed comes back.                                       *)
LEMMA TwoBefore ==
  ASSUME [Next]_vars, Two', TypeOK
  PROVE  Two
<1>1. CASE UNCHANGED vars \/ Upgrade
  BY <1>1 DEF Two, AtMostTwo, Upgrade
<1>2. ASSUME NEW p \in Procs, Act(p) PROVE crashes' = crashes \/ crashes' = crashes + 1
  BY <1>2
     DEF Act, GoesOn, Trouble, Download, Extract, Begin, EnsureAll, PullOne, AnswerWhole,
         AnswerRange, AnswerNotSatisfiable, WritePart, DownloadFile, VerifyArchive,
         VerifyFails, OpenArchive, TruncateFile, FillFile, RemoveArchive, WriteChecksum,
         RemoveEntry, RemoveDir, RequestFails, RetryRefused, WriteCut, Crash
<1>3. crashes \in Nat
  BY CacheAssumption DEF TypeOK
<1> QED
  BY <1>1, <1>2, <1>3, StepOf DEF Two, AtMostTwo

(* Who appends to a file has been sent the rest of an archive.             *)
LEMMA AppendKept ==
  ASSUME TypeOK, AppendInv, [Next]_vars
  PROVE  AppendInv'
<1>1. CASE UNCHANGED vars \/ Upgrade
  BY <1>1 DEF AppendInv, Upgrade
<1>2. ASSUME NEW p \in Procs, Act(p) PROVE AppendInv'
  <2>1. ASSUME pc'[p] = "copy", appends'[p] PROVE part'[p] >= 2
    <3>1. CASE WritePart(p)
      BY <2>1, <3>1 DEF TypeOK, AppendInv, WritePart
    <3>2. CASE AnswerWhole(p) \/ AnswerRange(p) \/ RetryRefused(p)
      BY <2>1, <3>2, TwoParts DEF TypeOK, AnswerWhole, AnswerRange, RetryRefused
    <3> QED
      BY <1>2, <2>1, <3>1, <3>2, CopyStarts
  <2>2. ASSUME NEW q \in Procs \ {p}, pc'[q] = "copy", appends'[q] PROVE part'[q] >= 2
    BY <1>2, <2>2, OthersKept DEF AppendInv
  <2> QED
    BY <2>1, <2>2 DEF AppendInv
<1> QED
  BY <1>1, <1>2, StepOf

(* A step leaves a file alone, unless it downloads to it or nobody uses it.*)
LEMMA ContentKept ==
  ASSUME TypeOK, NEW p \in Procs, Act(p), NEW i \in Inodes, i \in Used, content'[i] # content[i]
  PROVE  \/ WritePart(p) /\ i = fd[p]
         \/ pc[p] \in {"request", "retry"} /\ i = dir["temp"] /\ dir'["temp"] = i
<1>1. CASE WritePart(p)
  BY <1>1 DEF TypeOK, WritePart
<1>2. ASSUME NEW append, NEW first, NEW page, OpenTemp(p, append, first, page)
      PROVE  i = dir["temp"] /\ dir'["temp"] = i
  BY <1>2 DEF TypeOK, Used
<1>3. CASE AnswerWhole(p) \/ AnswerRange(p) \/ RetryRefused(p)
  <2> HIDE DEF OpenTemp
  <2>1. i = dir["temp"] /\ dir'["temp"] = i
    BY <1>2, <1>3 DEF AnswerWhole, AnswerRange, RetryRefused
  <2>2. pc[p] \in {"request", "retry"}
    BY <1>3 DEF AnswerWhole, AnswerRange, RetryRefused
  <2> QED
    BY <2>1, <2>2
<1>4. ASSUME NEW command, Begin(p, command) PROVE FALSE
  BY <1>4 DEF TypeOK, Begin
<1>5. CASE UNCHANGED content
  BY <1>5
<1> QED
  BY <1>1, <1>3, <1>4, <1>5
     DEF Act, GoesOn, Trouble, Download, Extract, EnsureAll, PullOne, AnswerNotSatisfiable,
         DownloadFile, VerifyArchive, VerifyFails, OpenArchive, TruncateFile, FillFile,
         RemoveArchive, WriteChecksum, RemoveEntry, RemoveDir, RequestFails, WriteCut, Crash

(* What begins as the archive does goes on so.                             *)
LEMMA BeginsKept ==
  ASSUME TypeOK, AppendInv, NEW p \in Procs, WritePart(p), NEW i \in Inodes, Begins(content[i], N)
  PROVE  Begins(content[i], N)'
<1> USE TwoParts
<1>1. CASE i # fd[p]
  BY <1>1 DEF TypeOK, WritePart, Begins
<1>2. CASE i = fd[p]
  <2> DEFINE s == content[i]
             c == <<wanted, part[p]>>
  <2>1. part[p] \in 1 .. N /\ wanted \in Versions /\ s \in Content /\ pc[p] = "copy"
    BY <1>2 DEF TypeOK, WritePart, Content
  <2>2. c \in Part
    BY <2>1 DEF Part
  <2>3. content'[i] = (IF appends[p] THEN Append(s, c) ELSE Overwritten(s, part[p], c))
        /\ wanted' = wanted
    BY <1>2 DEF TypeOK, WritePart
  <2>4. CASE appends[p]
    <3>1. Len(Append(s, c)) >= N /\ \A n \in 1 .. N : Append(s, c)[n] = s[n]
      BY <2>1, <2>2 DEF Begins, Content
    <3> QED
      BY <2>3, <2>4, <3>1 DEF Begins
  <2>5. CASE ~appends[p]
    <3> DEFINE t == Overwritten(s, part[p], c)
    <3>1. Len(s) \in Nat /\ Len(s) >= 2
      BY <2>1 DEF Begins, Content
    <3>2. t = [n \in 1 .. Len(s) |-> IF n = part[p] THEN c ELSE IF n <= Len(s) THEN s[n] ELSE <<>>]
      BY <2>1, <3>1 DEF Overwritten
    <3> HIDE DEF t
    <3>3. \A n \in 1 .. Len(s) : t[n] = IF n = part[p] THEN c ELSE s[n]
      BY <3>1, <3>2
    <3>4. Len(t) = Len(s)
      BY <3>1, <3>2, IsSequence
    <3>5. \A n \in 1 .. N : t[n] = <<wanted, n>>
      BY <2>1, <3>1, <3>3 DEF Begins
    <3> QED
      BY <2>3, <2>5, <3>1, <3>4, <3>5 DEF Begins, t
  <2> QED
    BY <2>4, <2>5
<1> QED
  BY <1>1, <1>2

(* The temporary file stays where it is when nobody opens or renames it.   *)
LEMMA TempKept ==
  ASSUME TypeOK, NEW p \in Procs, Act(p), pc'[p] # "copy", dir'["temp"] # None
  PROVE  /\ dir'["temp"] = dir["temp"] /\ content'[dir["temp"]] = content[dir["temp"]]
         /\ pc[p] = "copy" => part[p] <= N \/ Crash(p)
<1>1. ASSUME NEW append, NEW first, NEW page PROVE ~OpenTemp(p, append, first, page)
  BY DEF TypeOK
<1>2. ~WritePart(p) /\ ~AnswerWhole(p) /\ ~AnswerRange(p) /\ ~RetryRefused(p)
  BY <1>1 DEF TypeOK, WritePart, AnswerWhole, AnswerRange, RetryRefused
<1>3. ASSUME NEW command \in {"ensure", "force", "remove"}, Begin(p, command)
      PROVE  /\ dir' = dir /\ content'[dir["temp"]] = content[dir["temp"]] /\ pc[p] # "copy"
  BY <1>3 DEF TypeOK, Begin, Used
<1>4. CASE WriteCut(p) \/ RequestFails(p)
  BY <1>4 DEF TypeOK, WriteCut, RequestFails
<1>5. CASE DownloadFile(p)
  <2>1. dir["temp"] = None => UNCHANGED <<dir, content>>
    BY <1>5 DEF DownloadFile
  <2>2. dir["temp"] # None => dir'["temp"] = None
    BY <1>5 DEF TypeOK, DownloadFile
  <2> QED
    BY <2>1, <2>2
<1>6. CASE Crash(p)
  BY <1>6 DEF Crash
<1>7. CASE EnsureAll(p) \/ PullOne(p) \/ AnswerNotSatisfiable(p)
  BY <1>7 DEF EnsureAll, PullOne, AnswerNotSatisfiable
<1>8. CASE Extract(p)
  BY <1>8 DEF TypeOK, Extract, VerifyArchive, VerifyFails, OpenArchive, TruncateFile, FillFile,
              RemoveArchive, WriteChecksum
<1>9. CASE RemoveEntry(p) \/ RemoveDir(p)
  BY <1>9 DEF RemoveEntry, RemoveDir
<1> QED
  BY <1>2, <1>3, <1>4, <1>5, <1>6, <1>7, <1>8, <1>9 DEF Act, GoesOn, Trouble, Download

(* What is written to a download that is nobody else's.                    *)
LEMMA WrittenInOrder ==
  ASSUME NEW s \in Content, wanted \in Versions, NEW k \in 1 .. N, Started(s)
  PROVE  /\ k = 2 => Ended(Append(s, <<wanted, k>>))
         /\ Len(s) = k - 1 =>
              /\ k = 1 => Started(Overwritten(s, k, <<wanted, k>>))
                          /\ Len(Overwritten(s, k, <<wanted, k>>)) = k
              /\ k = 2 => Ended(Overwritten(s, k, <<wanted, k>>))
<1> DEFINE c == <<wanted, k>>
<1> USE TwoParts
<1>1. c \in Part /\ Len(s) \in {0, 1} /\ \A n \in 1 .. Len(s) : s[n] = <<wanted, n>>
  <2>1. c \in Part
    BY DEF Part
  <2>2. Len(s) \in Nat
    BY DEF Content
  <2>3. Len(s) \in {0, 1}
    <3> DEFINE l == Len(s)
    <3>1. l \in Nat /\ l <= 1
      BY <2>2 DEF Started
    <3> HIDE DEF l
    <3>2. l \in {0, 1}
      BY <3>1
    <3> QED
      BY <3>2 DEF l
  <2>4. \A n \in 1 .. Len(s) : s[n] = <<wanted, n>>
    BY DEF Started, Begins
  <2> QED
    BY <2>1, <2>3, <2>4
<1>2. ASSUME k = 2 PROVE Ended(Append(s, c))
  <2>1. /\ Len(Append(s, c)) = Len(s) + 1 /\ Append(s, c)[Len(s) + 1] = c
        /\ \A n \in 1 .. Len(s) : Append(s, c)[n] = s[n]
    BY <1>1 DEF Content
  <2> QED
    BY <1>1, <1>2, <2>1 DEF Ended, Begins
<1>3. ASSUME Len(s) = k - 1
      PROVE  LET t == Overwritten(s, k, c) IN
             Len(t) = k /\ \A n \in 1 .. k : t[n] = <<wanted, n>>
  <2> DEFINE t == Overwritten(s, k, c)
  <2>1. t = [n \in 1 .. k |-> IF n = k THEN c ELSE IF n <= Len(s) THEN s[n] ELSE <<>>]
    BY <1>1, <1>3 DEF Overwritten
  <2> HIDE DEF t
  <2>2. \A n \in 1 .. k : t[n] = <<wanted, n>>
    BY <1>1, <1>3, <2>1
  <2>3. Len(t) = k
    BY <2>1, IsSequence
  <2> QED
    BY <2>2, <2>3 DEF t
<1>4. ASSUME Len(s) = k - 1
      PROVE  /\ k = 1 => Started(Overwritten(s, k, c)) /\ Len(Overwritten(s, k, c)) = k
             /\ k = 2 => Ended(Overwritten(s, k, c))
  BY <1>3, <1>4 DEF Started, Ended, Begins
<1> QED
  BY <1>2, <1>4

(* While one of two processes verifies, the download is the other's alone. *)
LEMMA SoleKept ==
  ASSUME TypeOK, FdInv, AppendInv, SoleInv, [Next]_vars
  PROVE  SoleInv'
<1> SUFFICES ASSUME Two', NEW p \in Procs, NEW q \in Procs, p # q,
                    pc'[p] \in {"verify", "open_archive"}, dir'["temp"] # None
             PROVE  /\ pc'[q] # "copy" => Started(content[dir["temp"]])'
                    /\ pc'[q] = "copy" =>
                         /\ fd'[q] = dir'["temp"]
                         /\ part'[q] <= N =>
                              /\ Started(content[dir["temp"]])'
                              /\ appends'[q] \/ Len(content[dir["temp"]])' = part'[q] - 1
                         /\ part'[q] > N => Ended(content[dir["temp"]])'
  BY DEF SoleInv
<1> DEFINE temp == dir["temp"]
<1>1. Two
  BY TwoBefore
<1>5. ASSUME wanted' = wanted
      PROVE  /\ Started(content[dir["temp"]])' <=> Started(content'[dir'["temp"]])
             /\ Ended(content[dir["temp"]])' <=> Ended(content'[dir'["temp"]])
             /\ Len(content[dir["temp"]])' = Len(content'[dir'["temp"]])
  BY <1>5 DEF Started, Ended, Begins
<1>2. CASE UNCHANGED vars \/ Upgrade
  BY <1>1, <1>2 DEF SoleInv, Upgrade, Started, Ended, Begins
<1>3. CASE Act(p)
  <2>1. VerifyArchive(p)
    BY <1>3, VerifyStarts
  <2>2. UNCHANGED <<dir, content, wanted>> /\ pc[p] = "verify"
    BY <2>1 DEF VerifyArchive
  <2>3. pc'[q] = pc[q] /\ part'[q] = part[q] /\ appends'[q] = appends[q] /\ fd'[q] = fd[q]
    BY <1>3, OthersKept
  <2> QED
    BY <1>1, <2>2, <2>3 DEF SoleInv, Started, Ended, Begins
<1>4. CASE Act(q)
  <2>1. pc'[p] = pc[p] /\ wanted' = wanted
    BY <1>4, OthersKept, SameVersion
  <2>2. CASE pc'[q] # "copy"
    <3>1. temp' = temp /\ content'[temp] = content[temp]
      BY <1>4, <2>2, TempKept
    <3>2. pc[q] = "copy" => part[q] <= N
      <4>1. ~Crash(q)
        BY <1>1, CacheAssumption DEF TypeOK, Two, Crash
      <4> QED
        BY <1>4, <2>2, <4>1, TempKept
    <3>3. Started(content[temp])
      BY <1>1, <2>1, <3>1, <3>2 DEF SoleInv
    <3> QED
      BY <2>1, <2>2, <3>1, <3>3 DEF Started, Begins
  <2>3. CASE WritePart(q)
    <3>1. UNCHANGED <<dir, fd, appends, pc>> /\ pc[q] = "copy" /\ part'[q] = part[q] + 1
          /\ part[q] \in 1 .. N
      BY <2>3 DEF TypeOK, WritePart
    <3>2. fd[q] = temp /\ Started(content[temp]) /\ (appends[q] \/ Len(content[temp]) = part[q] - 1)
      BY <1>1, <2>1, <3>1 DEF SoleInv
    <3>3. temp \in Inodes /\ content[temp] \in Content /\ wanted \in Versions
      BY <3>1 DEF TypeOK, Content
    <3>4. content'[temp] = IF appends[q] THEN Append(content[temp], <<wanted, part[q]>>)
                           ELSE Overwritten(content[temp], part[q], <<wanted, part[q]>>)
      BY <2>3, <3>2, <3>3 DEF TypeOK, WritePart
    <3>5. part[q] \in {1, 2} /\ (appends[q] => part[q] = 2)
      BY <3>1, TwoParts DEF TypeOK, AppendInv
    <3>6. /\ part[q] = 1 => Started(content'[temp]) /\ Len(content'[temp]) = part[q]
          /\ part[q] = 2 => Ended(content'[temp])
      BY <3>1, <3>2, <3>3, <3>4, <3>5, WrittenInOrder
    <3> QED
      <4>1. temp' = temp /\ fd'[q] = temp /\ appends'[q] = appends[q]
        BY <3>1, <3>2
      <4>2. part'[q] <= N => part[q] = 1 /\ ~appends[q]
        BY <3>1, <3>5, TwoParts
      <4>3. part'[q] > N => part[q] = 2
        BY <3>1, <3>5, TwoParts
      <4> QED
        BY <1>5, <2>1, <3>1, <3>6, <4>1, <4>2, <4>3
  <2>4. ASSUME NEW append \in BOOLEAN, NEW first, OpenTemp(q, append, first, <<>>), pc[q] # "copy"
        PROVE  /\ fd'[q] = dir'["temp"] /\ part'[q] = first /\ appends'[q] = append
               /\ Started(content'[temp'])
               /\ append \/ Len(content'[temp']) = 0
    <3>1. PICK i \in Inodes :
            /\ IF dir["temp"] = None THEN i \notin Used ELSE i = dir["temp"]
            /\ dir' = [dir EXCEPT !["temp"] = i] /\ fd' = [fd EXCEPT ![q] = i]
            /\ content' = [content EXCEPT ![i] = IF append /\ dir["temp"] # None THEN @ ELSE <<>>]
      BY <2>4
    <3>2. temp' = i /\ fd'[q] = i /\ part'[q] = first /\ appends'[q] = append
      BY <2>4, <3>1 DEF TypeOK
    <3>3. content'[i] = <<>> \/ (append /\ temp = i /\ content'[i] = content[i])
      BY <3>1 DEF TypeOK
    <3>4. Started(<<>>) /\ Len(<<>>) = 0
      BY DEF Started, Begins
    <3>5. temp = i => Started(content[i])
      BY <1>1, <2>1, <2>4, <3>1, NoneNoInode DEF SoleInv
    <3> QED
      BY <3>2, <3>3, <3>4, <3>5
  <2>9. ASSUME NEW page \in Partless, OpenTemp(q, FALSE, N + 1, page)
        PROVE  fd'[q] = dir'["temp"] /\ part'[q] = N + 1 /\ Ended(content'[temp'])
    <3>1. fd'[q] = dir'["temp"] /\ part'[q] = N + 1 /\ content'[temp'] = page
      BY <2>9, TwoParts DEF TypeOK
    <3>2. Ended(page)
      <4>1. CASE page = <<>>
        BY <4>1 DEF Ended
      <4>2. CASE page = ErrorPage
        BY <4>2 DEF Ended, ErrorPage
      <4> QED
        BY <4>1, <4>2 DEF Partless
    <3> QED
      BY <3>1, <3>2
  <2> HIDE DEF OpenTemp
  <2>8. ASSUME NEW append \in BOOLEAN, NEW first, OpenTemp(q, append, first, <<>>),
               pc[q] # "copy", append => first = N, ~append => first = 1
        PROVE  /\ fd'[q] = temp' /\ Started(content'[temp'])
               /\ part'[q] <= N => appends'[q] \/ Len(content'[temp']) = part'[q] - 1
               /\ part'[q] > N => Ended(content'[temp'])
    <3>1. /\ fd'[q] = temp' /\ part'[q] = first /\ appends'[q] = append
          /\ Started(content'[temp']) /\ (append \/ Len(content'[temp']) = 0)
      BY <2>4, <2>8
    <3>2. first > N => Ended(content'[temp'])
      BY <2>8, <3>1, TwoParts DEF Ended
    <3>3. first <= N => append \/ Len(content'[temp']) = first - 1
      BY <2>8, <3>1, TwoParts
    <3> QED
      BY <3>1, <3>2, <3>3
  <2>5. CASE AnswerWhole(q)
    <3>1. OpenTemp(q, FALSE, 1, <<>>) /\ pc[q] # "copy"
      BY <2>5 DEF AnswerWhole
    <3> QED
      BY <1>5, <2>1, <2>8, <3>1
  <2>6. CASE AnswerRange(q)
    <3>1. OpenTemp(q, TRUE, part[q], <<>>) /\ pc[q] # "copy" /\ part[q] \in 2 .. N
      BY <2>6 DEF AnswerRange
    <3>2. part[q] = N
      BY <3>1, TwoParts
    <3> QED
      BY <1>5, <2>1, <2>8, <3>1, <3>2
  <2>7. CASE RetryRefused(q)
    <3>1. PICK page \in Partless : OpenTemp(q, FALSE, N + 1, page)
      BY <2>7 DEF RetryRefused, Partless
    <3>2. fd'[q] = dir'["temp"] /\ part'[q] = N + 1 /\ Ended(content'[temp'])
      BY <2>9, <3>1
    <3>3. part'[q] > N /\ ~(part'[q] <= N)
      BY <3>2, TwoParts
    <3>4. pc'[q] = "copy"
      BY <3>1, <1>4, <2>7 DEF TypeOK, OpenTemp
    <3> QED
      BY <1>5, <2>1, <3>2, <3>3, <3>4
  <2> QED
    BY <1>4, <2>2, <2>3, <2>5, <2>6, <2>7, CopyStarts
<1> QED
  BY <1>1, <1>2, <1>3, <1>4, StepOf DEF Two, AtMostTwo

(* Two processes extract from whole archives.                              *)
LEMMA FullKept ==
  ASSUME TypeOK, FdInv, FdInv', AppendInv, SoleInv, FullInv, [Next]_vars
  PROVE  FullInv'
<1> SUFFICES ASSUME Two', NEW p \in Procs
             PROVE  ExtractsWhole(p)' /\ OpensWhole(p)'
  BY DEF FullInv
<1>1. Two /\ ExtractsWhole(p) /\ OpensWhole(p)
  BY TwoBefore DEF FullInv
<1>2. CASE UNCHANGED vars
  BY <1>1, <1>2 DEF ExtractsWhole, OpensWhole, Begins, Readable
<1>3. CASE Upgrade
  BY <1>3 DEF ExtractsWhole, OpensWhole, Upgrade
<1>4. CASE Act(p)
  <2>1. wanted' = wanted
    BY <1>4, SameVersion
  <2>2. ASSUME pc'[p] \in {"extract", "fill"}
        PROVE  ExtractsWhole(p)'
    <3>1. CASE OpenArchive(p)
      <4>1. dir["archive"] # None /\ Readable(dir["archive"], 1)
        BY <2>2, <3>1 DEF TypeOK, OpenArchive
      <4>2. /\ pc[p] = "open_archive" /\ UNCHANGED <<dir, content>>
            /\ fd' = [fd EXCEPT ![p] = dir["archive"]]
        BY <3>1, <4>1 DEF OpenArchive
      <4>3. Begins(content[dir["archive"]], N) /\ dir["archive"] # dir["temp"]
        BY <1>1, <4>1, <4>2 DEF OpensWhole, FdInv
      <4> QED
        BY <2>1, <4>2, <4>3 DEF TypeOK, ExtractsWhole, Begins
    <3>2. CASE TruncateFile(p)
      BY <1>1, <3>2 DEF ExtractsWhole, TruncateFile, Begins
    <3>3. CASE FillFile(p)
      <4>1. fd'[p] = fd[p] /\ UNCHANGED <<dir, content>> /\ pc[p] = "fill"
        BY <2>2, <3>3 DEF TypeOK, FillFile
      <4> QED
        BY <1>1, <2>1, <4>1 DEF ExtractsWhole, Begins
    <3>4. ASSUME ~OpenArchive(p), ~TruncateFile(p), ~FillFile(p) PROVE FALSE
      <4>1. CASE \E command \in {"ensure", "force", "remove"} : Begin(p, command)
        BY <2>2, <4>1 DEF TypeOK, Begin, FirstStep
      <4>2. CASE Trouble(p)
        BY <2>2, <4>2 DEF TypeOK, Trouble, RequestFails, RetryRefused, WriteCut, Crash
      <4>3. CASE Download(p)
        BY <2>2, <4>3 DEF TypeOK, Download, EnsureAll, PullOne, AnswerWhole, AnswerRange,
                         AnswerNotSatisfiable, WritePart, DownloadFile
      <4>4. CASE VerifyArchive(p) \/ VerifyFails(p) \/ RemoveArchive(p) \/ WriteChecksum(p)
        BY <2>2, <4>4 DEF TypeOK, VerifyArchive, VerifyFails, RemoveArchive, WriteChecksum
      <4>5. CASE RemoveEntry(p) \/ RemoveDir(p)
        BY <2>2, <4>5 DEF TypeOK, RemoveEntry, RemoveDir
      <4> QED
        BY <1>4, <3>4, <4>1, <4>2, <4>3, <4>4, <4>5 DEF Act, GoesOn, Extract
    <3> QED
      BY <3>1, <3>2, <3>3, <3>4
  <2>3. ASSUME pc'[p] = "open_archive" PROVE OpensWhole(p)'
    <3>1. VerifyArchive(p)
      BY <1>4, <2>3, VerifyStarts
    <3>2. PICK i \in Inodes : dir["archive"] = i /\ content[i] = Archive(wanted)
      BY <3>1 DEF VerifyArchive, ArchiveIsWanted
    <3>3. Begins(content[i], N)
      BY <3>2, TwoParts, IsSequence DEF Begins, Archive
    <3> QED
      BY <2>1, <3>1, <3>2, <3>3 DEF VerifyArchive, OpensWhole, Begins
  <2> QED
    BY <2>2, <2>3 DEF ExtractsWhole, OpensWhole
<1>5. ASSUME NEW q \in Procs, q # p, Act(q)
      PROVE  ExtractsWhole(p)' /\ OpensWhole(p)'
  <2>1. wanted' = wanted /\ pc'[p] = pc[p] /\ fd'[p] = fd[p]
    BY <1>5, SameVersion, OthersKept
  <2>2. ASSUME pc[p] \in {"extract", "fill"} PROVE ExtractsWhole(p)'
    <3>1. fd[p] \in Inodes /\ fd[p] \in Used /\ fd[p] # None /\ fd[p] # dir["temp"]
          /\ Begins(content[fd[p]], N)
      BY <1>1, <2>2 DEF TypeOK, Used, ExtractsWhole
    <3>2. dir'["temp"] # fd[p]
      BY <1>5, <3>1, ArchiveMoves
    <3>3. Begins(content'[fd[p]], N)
      <4>1. CASE content'[fd[p]] = content[fd[p]]
        BY <3>1, <4>1
      <4>2. CASE WritePart(q)
        BY <2>1, <3>1, <4>2, BeginsKept DEF Begins
      <4> QED
        BY <1>5, <3>1, <4>1, <4>2, ContentKept
    <3> QED
      BY <2>1, <3>2, <3>3 DEF ExtractsWhole, Begins
  <2>3. ASSUME pc[p] = "open_archive", dir'["archive"] # None PROVE OpensWhole(p)'
    <3> DEFINE i == dir["archive"]
    <3>1. CASE dir'["archive"] = i
      <4>1. i \in Inodes /\ i \in Used /\ i # dir["temp"]
        BY <2>3, <3>1 DEF TypeOK, Used, FdInv
      <4>2. CASE Begins(content[i], N)
        <5>1. Begins(content'[i], N)
          <6>1. CASE content'[i] = content[i]
            BY <4>2, <6>1
          <6>2. CASE WritePart(q)
            BY <2>1, <4>1, <4>2, <6>2, BeginsKept DEF Begins
          <6> QED
            BY <1>5, <4>1, <6>1, <6>2, ContentKept
        <5> QED
          BY <2>1, <3>1, <5>1 DEF OpensWhole, Begins
      <4>3. CASE ~Readable(i, 1) /\ \A r \in Procs : fd[r] # i
        <5>1. content'[i] = content[i]
          BY <1>5, <4>1, <4>3, ContentKept
        <5>2. ~Readable(i, 1)'
          BY <3>1, <4>3, <5>1 DEF Readable
        <5>3. fd'[q] # i
          BY <1>5, <2>3, <3>1, <4>1, <4>3, ArchiveMoves DEF FdInv
        <5>4. \A r \in Procs : fd'[r] # i
          BY <1>5, <4>3, <5>3, OthersKept
        <5> QED
          BY <3>1, <5>2, <5>4 DEF OpensWhole
      <4> QED
        BY <1>1, <2>3, <3>1, <4>2, <4>3 DEF OpensWhole
    <3>2. CASE dir'["archive"] # i
      <4>1. DownloadFile(q) /\ dir["temp"] # None
        BY <1>5, <2>3, <3>2, ArchiveMoves
      <4>2. /\ dir' = [dir EXCEPT !["archive"] = dir["temp"], !["temp"] = None]
            /\ pc[q] = "copy" /\ part[q] > N /\ fd' = [fd EXCEPT ![q] = None] /\ UNCHANGED content
        BY <4>1 DEF DownloadFile
      <4>3. dir'["archive"] = dir["temp"] /\ dir["temp"] \in Inodes /\ fd'[q] = None
        BY <4>1, <4>2 DEF TypeOK
      <4>4. Ended(content[dir["temp"]])
        BY <1>1, <1>5, <2>3, <4>1, <4>2 DEF SoleInv
      <4>5. Begins(content[dir["temp"]], N) \/ ~Readable(dir["temp"], 1)
        <5>1. CASE content[dir["temp"]][1] = <<>>
          BY <5>1, PartsDiffer DEF Readable
        <5>2. CASE Begins(content[dir["temp"]], N) \/ Len(content[dir["temp"]]) = 0
          BY <5>2 DEF Readable
        <5>3. CASE content[dir["temp"]][1] = <<wanted, 2>>
          BY <5>3, PartsDiffer DEF Readable
        <5> QED
          BY <4>4, <5>1, <5>2, <5>3 DEF Ended
      <4>6. \A r \in Procs : fd'[r] = None
        <5>1. fd'[p] = None
          BY <2>1, <2>3 DEF FdInv
        <5> QED
          BY <1>1, <1>5, <4>3, <5>1 DEF Two, AtMostTwo
      <4>7. Begins(content'[dir'["archive"]], N) \/ ~Readable(dir["archive"], 1)'
        BY <4>2, <4>3, <4>5 DEF Readable
      <4> QED
        BY <2>1, <2>3, <4>6, <4>7 DEF OpensWhole, Begins
    <3> QED
      BY <3>1, <3>2
  <2> QED
    BY <2>1, <2>2, <2>3 DEF ExtractsWhole, OpensWhole
<1> QED
  BY <1>2, <1>3, <1>4, <1>5, StepOf

(* Two processes leave no file torn.                                       *)
LEMMA TornKept ==
  ASSUME TypeOK, VersionInv, FullInv, TornInv, [Next]_vars
  PROVE  TornInv'
<1> SUFFICES ASSUME Two, Two' PROVE TornInv'
  BY TwoBefore DEF TornInv
<1> USE TwoParts
<1>1. CASE UNCHANGED vars
  BY <1>1 DEF TornInv, UnderWay, Done
<1>2. CASE Upgrade
  <2>1. /\ UNCHANGED <<files, stamp, pc, part>>
        /\ \A p \in Procs : pc[p] = "idle"
    BY <1>2 DEF Upgrade
  <2>2. stamp # wanted'
    BY <1>2, UpgradeIsNew
  <2> QED
    BY <2>1, <2>2 DEF TornInv, UnderWay
<1>3. ASSUME NEW p \in Procs, Act(p) PROVE TornInv'
  <2>1. wanted' = wanted /\ wanted # None
    BY <1>3, SameVersion, NoNone DEF TypeOK
  <2>2. \A q \in Procs \ {p} : /\ pc'[q] = pc[q] /\ part'[q] = part[q]
                              /\ (UnderWay(q)' <=> UnderWay(q)) /\ Done(q)' = Done(q)
    BY <1>3, OthersKept DEF UnderWay, Done
  <2>3. ASSUME pc[p] = "fill" PROVE FillFile(p)
    <3>1. ~Crash(p)
      BY CacheAssumption DEF TypeOK, Two, Crash
    <3> QED
      BY <1>3, <2>3, <3>1, FillEnds
  <2>4. ASSUME ~FillFile(p), \A f \in Files : files'[f] = Torn => files[f] = Torn
        PROVE  \A f \in Files :
                 files'[f] = Torn => \E q \in Procs : pc'[q] = "fill" /\ Order[part'[q]] = f
    BY <2>2, <2>3, <2>4 DEF TornInv
  <2>5. CASE TruncateFile(p)
    <3>1. /\ pc[p] = "extract" /\ part[p] \in 1 .. N /\ UNCHANGED <<stamp, part>>
          /\ pc' = [pc EXCEPT ![p] = "fill"] /\ files' = [files EXCEPT ![Order[part[p]]] = Torn]
      BY <2>5 DEF TypeOK, TruncateFile
    <3>2. /\ pc'[p] = "fill" /\ part'[p] = part[p]
          /\ \A f \in Files : files'[f] = IF f = Order[part[p]] THEN Torn ELSE files[f]
      BY <3>1 DEF TypeOK
    <3>3. \A f \in Files : files'[f] = Torn => \E q \in Procs : pc'[q] = "fill" /\ Order[part'[q]] = f
      BY <2>2, <3>1, <3>2 DEF TornInv
    <3>4. Done(p)' = Done(p) /\ (UnderWay(p) \/ Done(p) = {})
      BY <3>1, <3>2 DEF UnderWay, Done
    <3>5. ASSUME NEW q \in Procs, UnderWay(q)', NEW n \in Done(q)'
          PROVE  files'[Order[n]] \in {wanted, None, Torn}
      BY <2>2, <3>2, <3>4, <3>5, DoneIsIn DEF TornInv
    <3> QED
      BY <2>1, <3>1, <3>2, <3>3, <3>5 DEF TornInv
  <2>6. CASE FillFile(p)
    <3>1. pc[p] = "fill" /\ part[p] \in 1 .. N /\ UNCHANGED stamp /\ fd[p] \in Inodes
      BY <2>6 DEF TypeOK, FillFile
    <3>2. Begins(content[fd[p]], N)
      BY <3>1 DEF FullInv, ExtractsWhole
    <3>3. content[fd[p]][part[p]] = <<wanted, part[p]>> /\ Readable(fd[p], part[p])
      BY <3>1, <3>2 DEF TypeOK, Begins, Readable
    <3>4. files' = [files EXCEPT ![Order[part[p]]] = IF @ = None THEN None ELSE wanted]
      BY <2>6, <3>3 DEF FillFile
    <3>5. /\ files'[Order[part[p]]] \in {wanted, None}
          /\ \A f \in Files : f # Order[part[p]] => files'[f] = files[f]
      BY <3>1, <3>4 DEF TypeOK
    <3>6. wanted # Torn /\ None # Torn
      <4>1. wanted \in Nat
        BY DEF TypeOK, Versions
      <4> QED
        BY <4>1, CacheAssumption
    <3>7. \A f \in Files : files'[f] = Torn => \E q \in Procs : pc'[q] = "fill" /\ Order[part'[q]] = f
      BY <2>2, <3>1, <3>5, <3>6 DEF TornInv
    <3>8. UnderWay(p) /\ \A n \in 1 .. (part[p] - 1) : files[Order[n]] \in {wanted, None, Torn}
      BY <3>1 DEF TornInv, UnderWay, Done
    <3>9. \A n \in Done(p)' : n \in 1 .. part[p]
      <4>1. CASE part[p] < N
        <5>1. pc' = [pc EXCEPT ![p] = "extract"] /\ part' = [part EXCEPT ![p] = @ + 1]
          BY <2>6, <3>3, <4>1 DEF FillFile
        <5> QED
          BY <3>1, <5>1 DEF TypeOK, Done
      <4>2. CASE ~(part[p] < N)
        <5>1. pc' = [pc EXCEPT ![p] = "clean"] /\ part[p] = N
          BY <2>6, <3>1, <3>3, <4>2 DEF FillFile
        <5> QED
          BY <5>1 DEF TypeOK, Done
      <4> QED
        BY <4>1, <4>2
    <3>10. ASSUME NEW n \in Done(p)' PROVE files'[Order[n]] \in {wanted, None, Torn}
      BY <3>1, <3>5, <3>8, <3>9
    <3>11. ASSUME NEW q \in Procs \ {p}, UnderWay(q), NEW n \in Done(q)
           PROVE  files'[Order[n]] \in {wanted, None, Torn}
      BY <3>5, <3>11, DoneIsIn DEF TornInv
    <3>12. stamp = wanted => \A f \in Files : files'[f] \in {wanted, None, Torn}
      BY <3>5 DEF TornInv
    <3> QED
      BY <2>1, <2>2, <3>1, <3>7, <3>10, <3>11, <3>12 DEF TornInv
  <2>7. CASE RemoveArchive(p)
    <3>1. UNCHANGED <<files, stamp>> /\ ~FillFile(p) /\ UnderWay(p) /\ Done(p)' = Done(p)
      BY <2>7 DEF TypeOK, RemoveArchive, FillFile, UnderWay, Done
    <3> QED
      BY <2>1, <2>2, <2>4, <3>1 DEF TornInv
  <2>8. CASE WriteChecksum(p)
    <3>1. /\ UNCHANGED files /\ ~FillFile(p) /\ UnderWay(p) /\ Done(p) = 1 .. N
          /\ ~UnderWay(p)' /\ stamp' \in {stamp, wanted}
      BY <2>8 DEF TypeOK, WriteChecksum, FillFile, UnderWay, Done
    <3>2. \A f \in Files : files[f] \in {wanted, None, Torn}
      BY <3>1 DEF TornInv
    <3> QED
      BY <2>1, <2>2, <2>4, <3>1, <3>2 DEF TornInv
  <2>9. CASE RemoveEntry(p)
    <3>1. UNCHANGED <<pc, part>> /\ pc[p] = "remove"
      BY <2>9 DEF RemoveEntry
    <3>2. stamp' \in {stamp, None} /\ \A f \in Files : files'[f] \in {files[f], None}
      BY <2>9 DEF TypeOK, RemoveEntry
    <3>3. None # Torn /\ ~FillFile(p)
      BY <3>1, CacheAssumption DEF FillFile
    <3>4. \A q \in Procs : (UnderWay(q)' <=> UnderWay(q)) /\ Done(q)' = Done(q)
      BY <3>1 DEF UnderWay, Done
    <3>5. \A f \in Files : files'[f] = Torn => files[f] = Torn
      BY <3>2, <3>3
    <3>6. ASSUME NEW q \in Procs, UnderWay(q), NEW n \in Done(q)
          PROVE  files'[Order[n]] \in {wanted, None, Torn}
      BY <3>2, <3>6, DoneIsIn DEF TornInv
    <3> QED
      BY <2>1, <2>4, <3>2, <3>3, <3>4, <3>5, <3>6 DEF TornInv
  <2>10. CASE Quiet /\ ~FillFile(p)
    BY <2>1, <2>4, <2>10 DEF Quiet, TornInv
  <2> QED
    BY <1>3, <2>5, <2>6, <2>7, <2>8, <2>9, <2>10, QuietSteps
<1> QED
  BY <1>1, <1>2, <1>3, StepOf

-----------------------------------------------------------------------------
(* The theorems. *)

(* The invariant holds in every reachable state.                           *)
THEOREM CacheInvariant == Spec => []IInv
<1>1. Init => IInv
  <2> SUFFICES ASSUME Init PROVE IInv
    OBVIOUS
  <2>1. TypeOK
    <3>1. wanted \in Versions /\ changes \in 0 .. MaxChanges /\ cuts \in 0 .. MaxCuts
          /\ crashes \in 0 .. MaxCrashes
      BY CacheAssumption DEF Init, Versions
    <3>2. content \in [Inodes -> Seq(Part \cup {<<>>})]
      BY EmptyHasNone DEF Init, Content
    <3>3. FileTypes
      BY <3>1, <3>2 DEF Init, FileTypes, Files
    <3>4. ProcTypes
      BY DEF Init, ProcTypes, Steps
    <3> QED
      BY <3>3, <3>4, TypesOf
  <2>2. FdInv /\ OldInv /\ ExtractInv
    BY CacheAssumption DEF Init, FdInv, OldInv, ExtractInv, Late, UnderWay, Files
  <2>3. VersionInv
    BY EmptyHasNone DEF Init, VersionInv, Partless
  <2>4. AppendInv /\ SoleInv /\ FullInv /\ TornInv
    BY CacheAssumption DEF Init, AppendInv, SoleInv, FullInv, ExtractsWhole, OpensWhole, TornInv,
                           UnderWay, Files
  <2> QED
    BY <2>1, <2>2, <2>3, <2>4 DEF IInv
<1>2. IInv /\ [Next]_vars => IInv'
  BY TypesKept, FdKept, VersionKept, OldKept, ExtractKept, AppendKept, SoleKept, FullKept, TornKept
     DEF IInv
<1> QED
  BY <1>1, <1>2, PTL DEF Spec

(* The variables of the cache and its processes keep their types: in       *)
(* particular, whoever copies or extracts has a file open.                 *)
THEOREM CacheTypes == Spec => []TypeOK
<1>1. IInv => TypeOK
  BY DEF IInv
<1> QED
  BY <1>1, CacheInvariant, PTL

(* A model that counts as verified is whole and of the version in the      *)
(* manifest: for any number of processes, requests that are cut, upgrades, *)
(* removals and kills while extractions stay apart, and for two processes  *)
(* that nobody kills when they do not (checkModel, pullOne).               *)
THEOREM VerifiedModelIsWhole == Spec => []VerifiedIsWhole
<1>1. IInv => UndisturbedIsWhole
  BY DEF IInv, ExtractInv, UndisturbedIsWhole, Verified, Whole
<1>2. IInv => OverlaidIsWhole
  BY DEF IInv, TornInv, Two, OverlaidIsWhole, AtRest, Verified, Whole
<1>3. IInv => VerifiedIsWhole
  BY <1>1, <1>2 DEF VerifiedIsWhole
<1> QED
  BY <1>3, CacheInvariant, PTL

=============================================================================
