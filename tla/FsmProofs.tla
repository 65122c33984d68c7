---------------------------- MODULE FsmProofs ----------------------------
(***************************************************************************)
(* Unpacking is atomic for every package, of any number of files and hard  *)
(* link sets: UnpackingAtomic is an invariant of Fsm.                      *)
(***************************************************************************)
EXTENDS Fsm, TLAPS

Actions == Creating \cup {"SKIP", "TOUCH"}
Contents == {"none", "old", "dir"} \cup Sets     \* what can be found at a name
ControlOK ==
    /\ pkg \in Packages
    /\ pc \in {"payload", "commit", "cleanup", "done"}
    /\ pc = "payload" => fx >= 1 /\ sub \in {"pre", "make", "unpack", "meta"}
    /\ pc = "commit" => fx >= 1 /\ sub \in {"backup", "rename"}
    /\ fx \in Nat /\ fp \in Nat /\ firstlink \in Nat
    /\ rc \in {0, 1} /\ stuck \in BOOLEAN /\ meta \subseteq Files
FilesOK ==
    /\ act \in [Files -> Actions]
    /\ stage \in [Files -> {"pre", "unpack", "commit"}]
    /\ setmeta \in [Files -> BOOLEAN]
    /\ dest \in [Files -> Contents] /\ tmp \in [Files -> Contents] /\ alt \in [Files -> Contents]
    /\ bak \in [Files -> {"none", "old"}]
    /\ data \in [Sets -> {"none", "part", "full"}]
FsmTypeOK == ControlOK /\ FilesOK

\* The loop works on a file that is not skipped: its own, or the first of the set
Working ==
    /\ pc = "payload" /\ sub # "pre" => fx \in Files /\ fp \in Files /\ ~Skip(fp)
    /\ firstlink # 0 => firstlink \in Files /\ ~Skip(firstlink) /\ pkg[firstlink].type = "reg"
\* Only a file to be touched that has vanished gets another action
ActionKept ==
    \A i \in Files : \/ act[i] = pkg[i].action
                     \/ act[i] = "CREATE" /\ pkg[i].action = "TOUCH" /\ pkg[i].old # "old"
\* What is to be backed up is out of the way before its successor comes
BackedUp ==
    /\ pc = "payload" /\ sub = "make" /\ pkg[fp].type = "dir" /\ pkg[fp].action \in {"SAVE", "BACKUP"} =>
          bak[fp] = "old"
    /\ pc = "commit" /\ sub = "rename" /\ Suffix(fx) /\ pkg[fx].action \in {"SAVE", "BACKUP"} =>
          bak[fx] = "old"
\* Names that were not committed: the temporary one is in use, the final one not touched
Uncommitted ==
    \A i \in Files :
        /\ tmp[i] # "none" => Suffix(i)
        /\ stage[i] = "commit" => pc # "payload" /\ tmp[i] = "none"
        /\ stage[i] # "commit" => alt[i] = "none"
        /\ Suffix(i) /\ stage[i] # "commit" =>
              dest[i] = pkg[i].old \/ (dest[i] = "none" /\ bak[i] = "old")
        /\ Skip(i) => dest[i] = pkg[i].old
Cleaned ==
    /\ pc \in {"payload", "commit"} => rc = 0
    /\ pc = "cleanup" => rc = 1 /\ fx <= N
    /\ pc = "cleanup" \/ (pc = "done" /\ rc = 1) =>
          stuck \/ \A i \in Files : i > fx \/ pc = "done" => tmp[i] = "none"

DiskInv == Working /\ ActionKept /\ BackedUp /\ Uncommitted /\ Cleaned /\ OldDataKept

----------------------------------------------------------------------------
\* A link set is finished when its content is written and its metadata set
Finished(s) ==
    data[s] = "full" /\ \E j \in meta : pkg[j].set = s /\ pkg[j].action # "TOUCH"

\* While a set is open the loop is inside of it, and firstlink is one of its names
OpenSet ==
    pc = "payload" /\ firstlink # 0 =>
        /\ fx \in Files /\ pkg[fx].set = pkg[firstlink].set
        /\ Linked(firstlink) /\ Suffix(firstlink) /\ data[pkg[firstlink].set] = "part"
        /\ firstlink <= fx /\ (sub \in {"pre", "make"} => firstlink < fx)
\* Which file the body works on: that of the archive or, for content that comes
\* with a skipped name, the first of its set
WorksOn ==
    pc = "payload" /\ sub # "pre" =>
        \/ fp = fx /\ ~Skip(fx)
        \/ /\ fp < fx /\ Skip(fx) /\ HasContent(fx) /\ Suffix(fp) /\ pkg[fp].set = pkg[fx].set
           /\ sub \in {"make", "unpack"} => fp = firstlink
\* Between creating a file and setting its metadata
Last(i) == \A j \in Links(i) : j <= i
Unpacking ==
    pc = "payload" /\ sub = "unpack" =>
        /\ HasContent(fx) /\ pkg[fp].type = "reg"
        /\ firstlink = 0 <=> ~Linked(fp)
Described ==
    /\ \A i \in Files : ~Skip(i) /\ ~Linked(i) => setmeta[i]
    /\ pc = "payload" /\ sub = "meta" /\ Suffix(fp) =>
          IF Last(fx) THEN data[pkg[fp].set] = "full" /\ setmeta[fp] /\ firstlink = 0
                      ELSE firstlink # 0
    /\ pc = "payload" /\ sub \in {"unpack", "meta"} /\ ~Suffix(fp) => dest[fp] # "none"
\* Files that the payload loop is through with
Through(i) ==
    \/ pc = "commit"
    \/ pc = "payload" /\ (i < fx \/ (i = fp /\ sub \in {"unpack", "meta"}))
InTmp ==
    \A i \in Files : Through(i) /\ Suffix(i) /\ (pc = "commit" => i >= fx) => tmp[i] = pkg[i].set
SetOpen ==
    pc = "payload" /\ fx \in Files => \A i \in Files : i < fx /\ Suffix(i) /\ pkg[fx].set = pkg[i].set =>
        firstlink # 0 \/ (sub = "meta" /\ Last(fx))
SetDone ==
    \A i \in Files : Suffix(i) =>
        /\ pc = "payload" /\ i < fx => Finished(pkg[i].set) \/ (fx \in Files /\ pkg[fx].set = pkg[i].set)
        /\ pc = "commit" => Finished(pkg[i].set)
InPlace ==
    \A i \in Files : ~Skip(i) /\ ~Suffix(i) /\ (pc = "commit" \/ (pc = "payload" /\ i < fx)) =>
        i \in meta /\ dest[i] # "none"
\* Files that the commit loop is through with
Committed ==
    pc = "commit" => \A i \in Files : i < fx /\ Suffix(i) =>
        tmp[i] = "none" /\ (IF act[i] = "ALTNAME" THEN alt ELSE dest)[i] = pkg[i].set

LinkInv == OpenSet /\ WorksOn /\ Unpacking /\ Described /\ InTmp /\ SetOpen /\ SetDone /\ InPlace
           /\ Committed /\ NeverPartial /\ SuccessComplete

FsmInv == FsmTypeOK /\ DiskInv /\ (HandledLinks => LinkInv)

----------------------------------------------------------------------------
\* What is known of every package
PackageOK ==
    /\ N \in Nat
    /\ \A i \in Files :
          /\ pkg[i].type \in {"reg", "dir", "special"} /\ pkg[i].action \in Actions
          /\ pkg[i].set \in STRING \ {"none", "old", "dir"} /\ pkg[i].old \in {"none", "old", "dir"}
          /\ pkg[i].type = "dir" => pkg[i].action # "ALTNAME"
          /\ pkg[i].type # "reg" => ~Linked(i)
    /\ \A i, j, k \in Files : i < j /\ j < k /\ pkg[i].set = pkg[k].set => pkg[j].set = pkg[i].set

\* The packages of Fsm have these properties.
LEMMA EveryPackage == ASSUME pkg \in Packages PROVE PackageOK
<1>1. pkg \in Seq(FileInfo)
  BY PackagesAssumption, Zenon
<1>2. N \in Nat /\ \A i \in Files : pkg[i] \in FileInfo
  BY <1>1 DEF N, Files
<1>3. \A i \in Files : /\ pkg[i].type = "dir" => pkg[i].action # "ALTNAME"
                       /\ pkg[i].type # "reg" => ~Linked(i)
  BY PackagesAssumption, Zenon DEF N, Files, Linked, Links
<1>4. \A i, j, k \in Files : i < j /\ j < k /\ pkg[i].set = pkg[k].set => pkg[j].set = pkg[i].set
  BY PackagesAssumption, Zenon DEF N, Files
<1> QED
  BY <1>2, <1>3, <1>4, Zenon DEF PackageOK, FileInfo, Actions

\* The loops never replace the package.
LEMMA PackageFixed == [Next]_vars => pkg' = pkg
BY Zenon DEF Next, vars, PayloadSkip, PayloadPre, PayloadTouch, PayloadMake, PayloadUnpack,
   PayloadMeta, PayloadEnd, CommitSkip, CommitBackup, CommitRename, CommitEnd, Cleanup, CleanupEnd,
   Returned

\* Each step of the loops keeps the types, and what is known of each name by itself:
\* a final name is touched only once the temporary one is ready, or after a backup.
LEMMA DiskStep ==
    FsmTypeOK /\ DiskInv /\ [Next]_vars => FsmTypeOK' /\ DiskInv'
<1>0. SUFFICES ASSUME FsmTypeOK, DiskInv, [Next]_vars PROVE FsmTypeOK' /\ DiskInv'
  OBVIOUS
<1>ControlOK. ControlOK
  BY <1>0, Zenon DEF FsmTypeOK
<1>FilesOK. FilesOK
  BY <1>0, Zenon DEF FsmTypeOK
<1>Working. Working
  BY <1>0, Zenon DEF DiskInv
<1>ActionKept. ActionKept
  BY <1>0, Zenon DEF DiskInv
<1>BackedUp. BackedUp
  BY <1>0, Zenon DEF DiskInv
<1>Uncommitted. Uncommitted
  BY <1>0, Zenon DEF DiskInv
<1>Cleaned. Cleaned
  BY <1>0, Zenon DEF DiskInv
<1>OldDataKept. OldDataKept
  BY <1>0, Zenon DEF DiskInv
<1>1. PackageOK
  BY EveryPackage, <1>ControlOK, Zenon DEF ControlOK
<1>2. /\ pkg' = pkg /\ N' = N /\ Files' = Files /\ Sets' = Sets /\ Contents' = Contents
      /\ \A i : (Skip(i)' <=> Skip(i)) /\ (Suffix(i)' <=> Suffix(i))
      /\ {"none", "dir"} \subseteq Contents
  <2>1. pkg' = pkg
    BY <1>0, PackageFixed, Zenon
  <2> QED
    BY <2>1, Zenon DEF N, Files, Sets, Contents, Skip, Suffix
<1>3. CASE PayloadSkip
  <2>1. ControlOK'
    BY <1>2, <1>3, <1>ControlOK DEF PayloadSkip, At, NextFile, disk, ControlOK
  <2>2. FilesOK'
    BY <1>3, <1>2, <1>FilesOK, <1>Working, Zenon DEF PayloadSkip, At, NextFile, disk, FilesOK,
       Working
  <2>3. Working'
    BY <1>2, <1>3, <1>Working, Zenon DEF PayloadSkip, At, NextFile, disk, Working
  <2>4. ActionKept'
    BY <1>2, <1>3, <1>ActionKept, Zenon DEF PayloadSkip, At, NextFile, disk, ActionKept
  <2>5. BackedUp'
    BY <1>2, <1>3, <1>BackedUp, Zenon DEF PayloadSkip, At, NextFile, disk, BackedUp
  <2>6. Uncommitted'
    BY <1>2, <1>3, <1>Uncommitted DEF PayloadSkip, At, NextFile, disk, Uncommitted
  <2>7. Cleaned'
    BY <1>2, <1>3, <1>Cleaned, Zenon DEF PayloadSkip, At, NextFile, disk, Cleaned
  <2>8. OldDataKept'
    BY <1>2, <1>3, <1>OldDataKept, Zenon DEF PayloadSkip, At, NextFile, disk, OldDataKept
  <2> QED
    BY <2>1, <2>2, <2>3, <2>4, <2>5, <2>6, <2>7, <2>8, Zenon DEF FsmTypeOK, DiskInv
<1>4. CASE PayloadPre
  <2>1. ControlOK'
    BY <1>1, <1>2, <1>4, <1>ControlOK, <1>Working, Zenon DEF PayloadPre, At, Target, Backup,
       Fail, ControlOK, Files, PackageOK, Working
  <2>2. FilesOK'
    <3>1. fp' \in Files
      BY <1>1, <1>4, <1>ControlOK, <1>Working DEF PayloadPre, At, Target, Files, PackageOK,
         ControlOK, Working
    <3>2. act' = act /\ setmeta' = setmeta /\ tmp' = tmp /\ alt' = alt /\ data' = data
      BY <1>4, Zenon DEF PayloadPre
    <3>3. dest' \in [Files -> Contents] /\ bak' \in [Files -> {"none", "old"}]
      BY <1>4, <1>2, <3>1, <1>FilesOK, Zenon DEF PayloadPre, Backup, FilesOK
    <3>4. stage' \in [Files -> {"pre", "unpack", "commit"}]
      BY <1>4, <3>1, <1>FilesOK, Zenon DEF PayloadPre, Fail, FilesOK
    <3> QED
      BY <1>2, <3>2, <3>3, <3>4, <1>FilesOK, Zenon DEF FilesOK
  <2>3. Working'
    BY <1>1, <1>2, <1>4, <1>ControlOK, <1>Working DEF PayloadPre, At, Target, Backup, Fail,
       Working, Files, PackageOK, ControlOK
  <2>4. ActionKept'
    BY <1>2, <1>4, <1>ActionKept, Zenon DEF PayloadPre, At, Target, Backup, Fail, ActionKept
  <2>5. BackedUp'
    <3>1. pc = "payload" /\ fx \in Files /\ fp' = Target(fx) /\ ~Skip(fp')
      BY <1>1, <1>4, <1>ControlOK DEF PayloadPre, At, Files, PackageOK, ControlOK
    <3>2. CASE sub' = "make" /\ pkg[fp'].type = "dir" /\ pkg[fp'].action \in {"SAVE", "BACKUP"}
      <4>1. fp' \in Files /\ ~Suffix(fp') /\ fp' # firstlink
        BY <3>1, <3>2, <1>1, <1>Working DEF Suffix, Target, Working, Files, PackageOK
      <4>2. act[fp'] = pkg[fp'].action
        BY <3>2, <4>1, <1>ActionKept DEF ActionKept
      <4>3. bak' = [bak EXCEPT ![fp'] = "old"]
        BY <1>4, <3>2, <4>1, <4>2 DEF PayloadPre, Backup, Fail
      <4> QED
        BY <1>2, <1>4, <3>1, <4>1, <4>3, <1>FilesOK, Zenon DEF PayloadPre, Fail, BackedUp, FilesOK
    <3>3. pc' # "commit"
      BY <1>4, <3>1, Zenon DEF PayloadPre, Fail
    <3> QED
      BY <1>2, <3>2, <3>3, Zenon DEF BackedUp
  <2>6. Uncommitted'
    BY <1>2, <1>4, <1>FilesOK, <1>Uncommitted DEF PayloadPre, At, Target, Backup, Fail,
       Uncommitted, FilesOK
  <2>7. Cleaned'
    BY <1>1, <1>2, <1>4, <1>ControlOK, <1>Working, <1>Cleaned DEF PayloadPre, At, Target,
       Backup, Fail, Cleaned, Files, PackageOK, ControlOK, Working
  <2>8. OldDataKept'
    BY <1>2, <1>4, <1>FilesOK, <1>Working, <1>ActionKept, <1>Uncommitted, <1>OldDataKept DEF
       PayloadPre, At, Target, Backup, Fail, OldDataKept, FilesOK, Working, ActionKept,
       Uncommitted
  <2> QED
    BY <2>1, <2>2, <2>3, <2>4, <2>5, <2>6, <2>7, <2>8, Zenon DEF FsmTypeOK, DiskInv
<1>5. CASE PayloadTouch
  <2>1. ControlOK'
    BY <1>1, <1>2, <1>5, <1>ControlOK, <1>Working, Zenon DEF PayloadTouch, At, Fail, disk,
       ControlOK, Files, PackageOK, Working
  <2>2. FilesOK'
    BY <1>5, <1>2, <1>FilesOK, <1>Working, Zenon DEF PayloadTouch, At, Fail, disk, FilesOK,
       Working
  <2>3. Working'
    BY <1>2, <1>5, <1>Working, Zenon DEF PayloadTouch, At, Fail, disk, Working
  <2>4. ActionKept'
    BY <1>2, <1>5, <1>ActionKept, Zenon DEF PayloadTouch, ActionKept
  <2>5. BackedUp'
    BY <1>2, <1>5, <1>BackedUp, Zenon DEF PayloadTouch, At, Fail, disk, BackedUp
  <2>6. Uncommitted'
    BY <1>2, <1>5, <1>FilesOK, <1>Uncommitted DEF PayloadTouch, At, Fail, disk, Uncommitted,
       FilesOK
  <2>7. Cleaned'
    BY <1>1, <1>2, <1>5, <1>ControlOK, <1>Working, <1>Cleaned DEF PayloadTouch, At, Fail, disk,
       Cleaned, Files, PackageOK, ControlOK, Working
  <2>8. OldDataKept'
    BY <1>2, <1>5, <1>OldDataKept, Zenon DEF PayloadTouch, At, Fail, disk, OldDataKept
  <2> QED
    BY <2>1, <2>2, <2>3, <2>4, <2>5, <2>6, <2>7, <2>8, Zenon DEF FsmTypeOK, DiskInv
<1>6. CASE PayloadMake
  <2>1. ControlOK'
    BY <1>1, <1>2, <1>6, <1>ControlOK, <1>Working, Zenon DEF PayloadMake, At, Make, MakeFile,
       MakeDir, MakeSpecial, Appear, Fail, ControlOK, Files, PackageOK, Working
  <2>2. FilesOK'
    <3>1. fp \in Files /\ (firstlink # 0 => firstlink \in Files)
      BY <1>6, <1>Working, Zenon DEF PayloadMake, At, Working
    <3>2. \A i \in Files : pkg[i].set \in Sets /\ pkg[i].set \in Contents
      BY Zenon DEF Sets, Contents
    <3>3. act' \in [Files -> Actions]
      BY <1>6, <3>1, <1>FilesOK, Zenon DEF PayloadMake, FilesOK, Actions, Creating
    <3>4. dest' \in [Files -> Contents] /\ tmp' \in [Files -> Contents]
      BY <1>6, <1>2, <3>1, <3>2, <1>FilesOK DEF PayloadMake, Make, MakeFile, MakeDir,
         MakeSpecial, Appear, FilesOK
    <3>5. data' \in [Sets -> {"none", "part", "full"}]
      BY <1>6, <3>1, <3>2, <1>FilesOK, Zenon DEF PayloadMake, Make, MakeFile, MakeDir,
         MakeSpecial, FilesOK
    <3>6. stage' \in [Files -> {"pre", "unpack", "commit"}]
      BY <1>6, <3>1, <1>FilesOK, Zenon DEF PayloadMake, Fail, FilesOK
    <3> QED
      BY <1>6, <1>2, <3>3, <3>4, <3>5, <3>6, <1>FilesOK, Zenon DEF PayloadMake, FilesOK
  <2>3. Working'
    BY <1>2, <1>6, <1>Working, Zenon DEF PayloadMake, At, Make, MakeFile, MakeDir, MakeSpecial,
       Appear, Fail, Working
  <2>4. ActionKept'
    <3>1. fp \in Files /\ ~Skip(fp) /\ (act[fp] = "TOUCH" => dest[fp] = "none")
      BY <1>6, <1>Working, Zenon DEF PayloadMake, At, Working
    <3>2. act' = [act EXCEPT ![fp] = IF act[fp] = "TOUCH" THEN "CREATE" ELSE act[fp]] /\ pkg' = pkg
      BY <1>6, Zenon DEF PayloadMake
    <3>3. act[fp] = "TOUCH" => pkg[fp].action = "TOUCH" /\ pkg[fp].old # "old"
      BY <3>1, <1>ActionKept, <1>OldDataKept, Zenon DEF ActionKept, OldDataKept
    <3> QED
      BY <3>1, <3>2, <3>3, <1>FilesOK, <1>ActionKept DEF ActionKept, FilesOK, Files, N
  <2>5. BackedUp'
    BY <1>2, <1>6, <1>BackedUp, Zenon DEF PayloadMake, At, Make, MakeFile, MakeDir, MakeSpecial,
       Appear, Fail, BackedUp
  \* Only the names of the file itself change, and of these only the one it is made at
  <2>own. /\ fp \in Files /\ ~Skip(fp) /\ pc = "payload" /\ sub = "make"
          /\ alt' = alt /\ bak' = bak
          /\ \A i \in Files : i # fp => dest'[i] = dest[i] /\ tmp'[i] = tmp[i]
          /\ Suffix(fp) => dest'[fp] = dest[fp]
          /\ ~Suffix(fp) => tmp'[fp] = tmp[fp]
          /\ \A i \in Files : stage'[i] # "commit"
    <3>1. /\ fp \in Files /\ ~Skip(fp) /\ pc = "payload" /\ sub = "make"
          /\ alt' = alt /\ bak' = bak
      BY <1>6, <1>Working DEF PayloadMake, At, Working
    <3>2. \A i \in Files : stage[i] # "commit"
      BY <3>1, <1>Uncommitted DEF Uncommitted
    <3>3. pkg[fp].type = "dir" => ~Suffix(fp)
      BY DEF Suffix
    <3>4. CASE Fail(fp) /\ (dest' = dest \/ (pkg[fp].type = "dir" /\ dest' = [dest EXCEPT ![fp] = "none"]))
                       /\ tmp' = tmp
      BY <3>1, <3>2, <3>3, <3>4, <1>FilesOK DEF Fail, FilesOK
    <3>5. CASE Make(fp) /\ stage' = stage
      <4>1. \/ dest' = dest /\ (tmp' = tmp \/ (Suffix(fp) /\ \E x : tmp' = [tmp EXCEPT ![fp] = x]))
            \/ tmp' = tmp /\ ~Suffix(fp) /\ \E x : dest' = [dest EXCEPT ![fp] = x]
        BY <3>3, <3>5 DEF Make, MakeFile, MakeDir, MakeSpecial, Appear
      <4> QED
        BY <3>1, <3>2, <3>5, <4>1, <1>FilesOK DEF FilesOK
    <3> QED
      BY <1>6, <3>4, <3>5 DEF PayloadMake
  <2>6. Uncommitted'
    BY <1>2, <2>own, <1>Uncommitted DEF Uncommitted
  <2>7. Cleaned'
    BY <1>1, <1>2, <1>6, <1>ControlOK, <1>Working, <1>Cleaned DEF PayloadMake, At, Make,
       MakeFile, MakeDir, MakeSpecial, Appear, Fail, Cleaned, Files, PackageOK, ControlOK,
       Working
  <2>8. OldDataKept'
    <3>1. act[fp] = "TOUCH" => pkg[fp].action = "TOUCH" /\ pkg[fp].old # "old"
      BY <1>6, <2>own, <1>ActionKept, <1>OldDataKept DEF PayloadMake, ActionKept, OldDataKept
    <3>2. ASSUME ~Suffix(fp), pkg[fp].old = "old"
          PROVE  /\ pkg[fp].type = "dir" /\ pkg[fp].action \notin {"ALTNAME", "SKIP", "TOUCH"}
                 /\ pkg[fp].action \in {"SAVE", "BACKUP"} => bak[fp] = "old"
      <4>1. pkg[fp].action # "TOUCH"
        BY <2>own, <3>1, <3>2, <1>ActionKept DEF ActionKept
      <4>2. pkg[fp].action \in Creating /\ pkg[fp].type = "dir"
        BY <1>1, <2>own, <3>2, <4>1 DEF Suffix, Skip, PackageOK, Actions
      <4> QED
        BY <1>1, <2>own, <4>1, <4>2, <1>BackedUp DEF Skip, PackageOK, BackedUp
    <3> QED
      BY <1>2, <2>own, <3>2, <1>OldDataKept DEF OldDataKept
  <2> QED
    BY <2>1, <2>2, <2>3, <2>4, <2>5, <2>6, <2>7, <2>8, Zenon DEF FsmTypeOK, DiskInv
<1>7. CASE PayloadUnpack
  <2>1. ControlOK'
    BY <1>1, <1>2, <1>7, <1>ControlOK, <1>Working, Zenon DEF PayloadUnpack, At, Fail, ControlOK,
       Files, PackageOK, Working
  <2>2. FilesOK'
    <3>1. fp \in Files /\ pkg[fp].set \in Sets
      BY <1>7, <1>Working, Zenon DEF PayloadUnpack, At, Working, Sets
    <3>2. setmeta' \in [Files -> BOOLEAN] /\ data' \in [Sets -> {"none", "part", "full"}]
      BY <1>7, <3>1, <1>FilesOK, Zenon DEF PayloadUnpack, FilesOK
    <3>3. stage' \in [Files -> {"pre", "unpack", "commit"}]
      BY <1>7, <3>1, <1>FilesOK, Zenon DEF PayloadUnpack, Fail, FilesOK
    <3> QED
      BY <1>7, <1>2, <3>2, <3>3, <1>FilesOK, Zenon DEF PayloadUnpack, FilesOK
  <2>3. Working'
    BY <1>2, <1>7, <1>Working, Zenon DEF PayloadUnpack, At, Fail, Working
  <2>4. ActionKept'
    BY <1>2, <1>7, <1>ActionKept, Zenon DEF PayloadUnpack, At, Fail, ActionKept
  <2>5. BackedUp'
    BY <1>2, <1>7, <1>BackedUp, Zenon DEF PayloadUnpack, At, Fail, BackedUp
  <2>6. Uncommitted'
    BY <1>2, <1>7, <1>FilesOK, <1>Uncommitted DEF PayloadUnpack, At, Fail, Uncommitted, FilesOK
  <2>7. Cleaned'
    BY <1>1, <1>2, <1>7, <1>ControlOK, <1>Working, <1>Cleaned DEF PayloadUnpack, At, Fail,
       Cleaned, Files, PackageOK, ControlOK, Working
  <2>8. OldDataKept'
    BY <1>2, <1>7, <1>OldDataKept DEF PayloadUnpack, At, Fail, OldDataKept
  <2> QED
    BY <2>1, <2>2, <2>3, <2>4, <2>5, <2>6, <2>7, <2>8, Zenon DEF FsmTypeOK, DiskInv
<1>8. CASE PayloadMeta
  <2>1. ControlOK'
    <3>1. fp \in Files /\ meta' \subseteq meta \cup {fp}
      BY <1>8, <1>Working, Zenon DEF PayloadMeta, At, Working
    <3> QED
      BY <1>1, <1>8, <3>1, <1>ControlOK DEF PayloadMeta, At, NextFile, Fail, Files, N,
         PackageOK, ControlOK
  <2>2. FilesOK'
    BY <1>8, <1>2, <1>FilesOK, <1>Working, Zenon DEF PayloadMeta, At, NextFile, Fail, FilesOK,
       Working
  <2>3. Working'
    BY <1>2, <1>8, <1>Working, Zenon DEF PayloadMeta, At, NextFile, Fail, Working
  <2>4. ActionKept'
    BY <1>2, <1>8, <1>ActionKept, Zenon DEF PayloadMeta, At, NextFile, Fail, ActionKept
  <2>5. BackedUp'
    BY <1>2, <1>8, <1>BackedUp, Zenon DEF PayloadMeta, At, NextFile, Fail, BackedUp
  <2>6. Uncommitted'
    BY <1>2, <1>8, <1>FilesOK, <1>Uncommitted DEF PayloadMeta, At, NextFile, Fail, Uncommitted,
       FilesOK
  <2>7. Cleaned'
    BY <1>1, <1>2, <1>8, <1>ControlOK, <1>Working, <1>Cleaned DEF PayloadMeta, At, NextFile,
       Fail, Cleaned, Files, PackageOK, ControlOK, Working
  <2>8. OldDataKept'
    BY <1>2, <1>8, <1>OldDataKept DEF PayloadMeta, At, NextFile, Fail, OldDataKept
  <2> QED
    BY <2>1, <2>2, <2>3, <2>4, <2>5, <2>6, <2>7, <2>8, Zenon DEF FsmTypeOK, DiskInv
<1>9. CASE PayloadEnd
  <2>1. ControlOK'
    BY <1>1, <1>2, <1>9, <1>ControlOK, <1>Working DEF PayloadEnd, disk, fdata, ControlOK, Files,
       PackageOK, Working
  <2>2. FilesOK'
    BY <1>9, <1>2, <1>FilesOK, <1>Working, Zenon DEF PayloadEnd, disk, fdata, FilesOK, Working
  <2>3. Working'
    BY <1>2, <1>9, <1>Working, Zenon DEF PayloadEnd, disk, fdata, Working
  <2>4. ActionKept'
    BY <1>2, <1>9, <1>ActionKept, Zenon DEF PayloadEnd, disk, fdata, ActionKept
  <2>5. BackedUp'
    BY <1>2, <1>9, <1>BackedUp, Zenon DEF PayloadEnd, disk, fdata, BackedUp
  <2>6. Uncommitted'
    BY <1>2, <1>9, <1>Uncommitted, Zenon DEF PayloadEnd, disk, fdata, Uncommitted
  <2>7. Cleaned'
    BY <1>1, <1>2, <1>9, <1>ControlOK, <1>Working, <1>Cleaned DEF PayloadEnd, disk, fdata,
       Cleaned, Files, PackageOK, ControlOK, Working
  <2>8. OldDataKept'
    BY <1>2, <1>9, <1>OldDataKept, Zenon DEF PayloadEnd, disk, fdata, OldDataKept
  <2> QED
    BY <2>1, <2>2, <2>3, <2>4, <2>5, <2>6, <2>7, <2>8, Zenon DEF FsmTypeOK, DiskInv
<1>10. CASE CommitSkip
  <2>1. ControlOK'
    BY <1>2, <1>10, <1>ControlOK DEF CommitSkip, CommitAt, disk, fdata, ControlOK
  <2>2. FilesOK'
    BY <1>10, <1>2, <1>FilesOK, <1>Working, Zenon DEF CommitSkip, CommitAt, disk, fdata,
       FilesOK, Working
  <2>3. Working'
    BY <1>2, <1>10, <1>Working, Zenon DEF CommitSkip, CommitAt, disk, fdata, Working
  <2>4. ActionKept'
    BY <1>2, <1>10, <1>ActionKept, Zenon DEF CommitSkip, CommitAt, disk, fdata, ActionKept
  <2>5. BackedUp'
    BY <1>2, <1>10, <1>BackedUp, Zenon DEF CommitSkip, CommitAt, disk, fdata, BackedUp
  <2>6. Uncommitted'
    BY <1>2, <1>10, <1>Uncommitted, Zenon DEF CommitSkip, CommitAt, disk, fdata, Uncommitted
  <2>7. Cleaned'
    BY <1>2, <1>10, <1>Cleaned, Zenon DEF CommitSkip, CommitAt, disk, fdata, Cleaned
  <2>8. OldDataKept'
    BY <1>2, <1>10, <1>OldDataKept, Zenon DEF CommitSkip, CommitAt, disk, fdata, OldDataKept
  <2> QED
    BY <2>1, <2>2, <2>3, <2>4, <2>5, <2>6, <2>7, <2>8, Zenon DEF FsmTypeOK, DiskInv
<1>11. CASE CommitBackup
  <2>1. ControlOK'
    BY <1>1, <1>2, <1>11, <1>ControlOK, <1>Working, Zenon DEF CommitBackup, CommitAt, Backup,
       CommitFail, ControlOK, Files, PackageOK, Working
  <2>2. FilesOK'
    <3>1. fx \in Files
      BY <1>11, <1>ControlOK DEF CommitBackup, CommitAt, ControlOK, Files
    <3>2. dest' \in [Files -> Contents] /\ bak' \in [Files -> {"none", "old"}]
      BY <1>11, <1>2, <3>1, <1>FilesOK, Zenon DEF CommitBackup, Backup, FilesOK
    <3> QED
      BY <1>11, <1>2, <3>2, <1>FilesOK, Zenon DEF CommitBackup, CommitFail, FilesOK
  <2>3. Working'
    BY <1>2, <1>11, <1>Working, Zenon DEF CommitBackup, CommitAt, Backup, CommitFail, Working
  <2>4. ActionKept'
    BY <1>2, <1>11, <1>ActionKept, Zenon DEF CommitBackup, CommitAt, Backup, CommitFail,
       ActionKept
  <2>5. BackedUp'
    BY <1>1, <1>2, <1>11, <1>ControlOK, <1>FilesOK, <1>Working, <1>ActionKept, <1>BackedUp,
       <1>Uncommitted DEF CommitBackup, CommitAt, Backup, CommitFail, BackedUp, FilesOK,
       Working, ActionKept, Uncommitted, Files, PackageOK, ControlOK
  <2>6. Uncommitted'
    BY <1>2, <1>11, <1>FilesOK, <1>Uncommitted DEF CommitBackup, CommitAt, Backup, CommitFail,
       Uncommitted, FilesOK
  <2>7. Cleaned'
    BY <1>1, <1>2, <1>11, <1>ControlOK, <1>Working, <1>Cleaned DEF CommitBackup, CommitAt,
       Backup, CommitFail, Cleaned, Files, PackageOK, ControlOK, Working
  <2>8. OldDataKept'
    BY <1>2, <1>11, <1>FilesOK, <1>Working, <1>ActionKept, <1>Uncommitted, <1>OldDataKept DEF
       CommitBackup, CommitAt, Backup, CommitFail, OldDataKept, FilesOK, Working, ActionKept,
       Uncommitted
  <2> QED
    BY <2>1, <2>2, <2>3, <2>4, <2>5, <2>6, <2>7, <2>8, Zenon DEF FsmTypeOK, DiskInv
<1>12. CASE CommitRename
  <2>1. ControlOK'
    BY <1>1, <1>2, <1>12, <1>ControlOK, <1>Working DEF CommitRename, CommitAt, CommitFail,
       ControlOK, Files, PackageOK, Working
  <2>2. FilesOK'
    <3>1. fx \in Files
      BY <1>12, <1>ControlOK DEF CommitRename, CommitAt, ControlOK, Files
    <3>2. dest' \in [Files -> Contents] /\ tmp' \in [Files -> Contents] /\ alt' \in [Files -> Contents]
      BY <1>12, <1>2, <3>1, <1>FilesOK DEF CommitRename, FilesOK
    <3>3. stage' \in [Files -> {"pre", "unpack", "commit"}]
      BY <1>12, <3>1, <1>FilesOK, Zenon DEF CommitRename, CommitFail, FilesOK
    <3> QED
      BY <1>12, <1>2, <3>2, <3>3, <1>FilesOK, Zenon DEF CommitRename, FilesOK
  <2>3. Working'
    BY <1>2, <1>12, <1>Working, Zenon DEF CommitRename, CommitAt, CommitFail, Working
  <2>4. ActionKept'
    BY <1>2, <1>12, <1>ActionKept, Zenon DEF CommitRename, CommitAt, CommitFail, ActionKept
  <2>5. BackedUp'
    BY <1>2, <1>12, <1>BackedUp, Zenon DEF CommitRename, CommitAt, CommitFail, BackedUp
  <2>6. Uncommitted'
    <3>1. fx \in Files /\ pc = "commit" /\ bak' = bak
      BY <1>1, <1>12, <1>ControlOK DEF CommitRename, CommitAt, Files, PackageOK, ControlOK
    <3>2. CASE CommitFail /\ UNCHANGED <<dest, tmp, alt>>
      BY <1>2, <3>1, <3>2, <1>Uncommitted DEF CommitFail, Uncommitted
    <3>3. CASE /\ \/ ~Suffix(fx) /\ UNCHANGED <<dest, tmp, alt>>
                  \/ /\ Suffix(fx) /\ tmp' = [tmp EXCEPT ![fx] = "none"]
                     /\ \/ alt' = [alt EXCEPT ![fx] = tmp[fx]] /\ UNCHANGED dest
                        \/ dest' = [dest EXCEPT ![fx] = tmp[fx]] /\ UNCHANGED alt
               /\ stage' = [stage EXCEPT ![fx] = "commit"] /\ pc' = pc
      <4>1. \A i \in Files : i # fx => UNCHANGED <<dest[i], tmp[i], alt[i], stage[i]>>
        BY <3>1, <3>3, <1>FilesOK DEF FilesOK
      <4>2. stage'[fx] = "commit" /\ tmp'[fx] = "none" /\ (Skip(fx) => dest' = dest)
        <5>1. Suffix(fx) => ~Skip(fx)
          BY DEF Suffix, Skip, Creating
        <5> QED
          BY <3>1, <3>3, <5>1, <1>FilesOK, <1>Uncommitted DEF FilesOK, Uncommitted
      <4> QED
        BY <1>2, <3>1, <3>3, <4>1, <4>2, <1>Uncommitted DEF Uncommitted
    <3> QED
      BY <1>12, <3>2, <3>3 DEF CommitRename
  <2>7. Cleaned'
    BY <1>1, <1>2, <1>12, <1>ControlOK, <1>Working, <1>Cleaned DEF CommitRename, CommitAt,
       CommitFail, Cleaned, Files, PackageOK, ControlOK, Working
  <2>8. OldDataKept'
    <3>1. fx \in Files /\ pc = "commit" /\ sub = "rename" /\ bak' = bak
      BY <1>1, <1>12, <1>ControlOK DEF CommitRename, CommitAt, Files, PackageOK, ControlOK
    <3>2. \/ dest' = dest
          \/ /\ Suffix(fx) /\ act[fx] # "ALTNAME" /\ tmp[fx] # "none"
             /\ dest' = [dest EXCEPT ![fx] = tmp[fx]]
      BY <1>12, Zenon DEF CommitRename
    <3>3. ASSUME Suffix(fx), act[fx] # "ALTNAME", pkg[fx].old = "old"
          PROVE  /\ pkg[fx].action \notin {"ALTNAME", "SKIP", "TOUCH"}
                 /\ pkg[fx].action \in {"SAVE", "BACKUP"} => bak[fx] = "old"
      <4>1. act[fx] = pkg[fx].action
        BY <3>1, <3>3, <1>ActionKept, Zenon DEF ActionKept
      <4>2. pkg[fx].action \notin {"SKIP", "TOUCH"}
        BY <3>3 DEF Suffix, Creating
      <4> QED
        BY <3>1, <3>3, <4>1, <4>2, <1>BackedUp, Zenon DEF BackedUp
    <3>4. CASE dest' = dest
      BY <1>2, <3>1, <3>4, <1>OldDataKept, Zenon DEF OldDataKept
    <3>5. CASE dest' # dest
      <4>1. dest'[fx] # "none" /\ \A i \in Files : i # fx => dest'[i] = dest[i]
        BY <3>1, <3>2, <3>5, <1>FilesOK, Zenon DEF FilesOK
      <4>2. ASSUME NEW i \in Files, pkg[i].old = "old"
            PROVE  /\ pkg[i].action \in {"SAVE", "BACKUP"} => "old" \in {dest'[i], bak'[i]}
                   /\ pkg[i].action \in {"ALTNAME", "SKIP", "TOUCH"} => dest'[i] = "old"
                   /\ pkg[i].action = "CREATE" /\ pkg[i].type # "dir" => dest'[i] # "none"
        <5>1. CASE i = fx
          BY <3>1, <3>2, <3>3, <3>5, <4>1, <4>2, <5>1, Zenon
        <5>2. CASE i # fx
          BY <3>1, <4>1, <4>2, <5>2, <1>OldDataKept, Zenon DEF OldDataKept
        <5> QED
          BY <5>1, <5>2, Zenon
      <4> QED
        BY <1>2, <4>2, Zenon DEF OldDataKept
    <3> QED
      BY <3>4, <3>5, Zenon
  <2> QED
    BY <2>1, <2>2, <2>3, <2>4, <2>5, <2>6, <2>7, <2>8, Zenon DEF FsmTypeOK, DiskInv
<1>13. CASE CommitEnd
  <2>1. ControlOK'
    BY <1>2, <1>13, <1>ControlOK, Zenon DEF CommitEnd, disk, fdata, ControlOK
  <2>2. FilesOK'
    BY <1>13, <1>2, <1>FilesOK, <1>Working, Zenon DEF CommitEnd, disk, fdata, FilesOK, Working
  <2>3. Working'
    BY <1>2, <1>13, <1>Working, Zenon DEF CommitEnd, disk, fdata, Working
  <2>4. ActionKept'
    BY <1>2, <1>13, <1>ActionKept, Zenon DEF CommitEnd, disk, fdata, ActionKept
  <2>5. BackedUp'
    BY <1>2, <1>13, <1>BackedUp, Zenon DEF CommitEnd, disk, fdata, BackedUp
  <2>6. Uncommitted'
    BY <1>2, <1>13, <1>Uncommitted, Zenon DEF CommitEnd, disk, fdata, Uncommitted
  <2>7. Cleaned'
    BY <1>2, <1>13, <1>Cleaned DEF CommitEnd, disk, fdata, Cleaned
  <2>8. OldDataKept'
    BY <1>2, <1>13, <1>OldDataKept, Zenon DEF CommitEnd, disk, fdata, OldDataKept
  <2> QED
    BY <2>1, <2>2, <2>3, <2>4, <2>5, <2>6, <2>7, <2>8, Zenon DEF FsmTypeOK, DiskInv
<1>14. CASE Cleanup
  <2>1. ControlOK'
    <3>1. fx' = fx - 1 /\ fx >= 1 /\ pkg' = pkg
      BY <1>14, Zenon DEF Cleanup
    <3>2. fx - 1 \in Nat
      BY <3>1, <1>ControlOK DEF ControlOK
    <3>3. stuck' \in BOOLEAN
      BY <1>14, <1>ControlOK, Zenon DEF Cleanup, ControlOK
    <3> QED
      BY <1>14, <1>2, <3>1, <3>2, <3>3, <1>ControlOK, Zenon DEF Cleanup, fdata, ControlOK
  <2>2. FilesOK'
    <3>1. fx \in Files
      BY <1>1, <1>14, <1>ControlOK, <1>Cleaned DEF Cleanup, Cleaned, ControlOK, Files, PackageOK
    <3>2. dest' \in [Files -> Contents] /\ tmp' \in [Files -> Contents]
      BY <1>14, <1>2, <3>1, <1>FilesOK, Zenon DEF Cleanup, FilesOK
    <3> QED
      BY <1>14, <1>2, <3>2, <1>FilesOK, Zenon DEF Cleanup, fdata, FilesOK
  <2>3. Working'
    BY <1>2, <1>14, <1>Working, Zenon DEF Cleanup, fdata, Working
  <2>4. ActionKept'
    BY <1>2, <1>14, <1>ActionKept, Zenon DEF Cleanup, fdata, ActionKept
  <2>5. BackedUp'
    BY <1>2, <1>14, <1>BackedUp, Zenon DEF Cleanup, fdata, BackedUp
  <2>6. Uncommitted'
    BY <1>2, <1>14, <1>FilesOK, <1>Uncommitted DEF Cleanup, fdata, Uncommitted, FilesOK
  <2>7. Cleaned'
    BY <1>1, <1>2, <1>14, <1>ControlOK, <1>FilesOK, <1>Working, <1>ActionKept, <1>BackedUp,
       <1>Uncommitted, <1>Cleaned DEF Cleanup, fdata, Cleaned, FilesOK, Working, ActionKept,
       BackedUp, Uncommitted, Files, PackageOK, ControlOK, Suffix, Skip, Creating, Actions
  <2>8. OldDataKept'
    <3>1. fx \in Files /\ bak' = bak
      BY <1>1, <1>14, <1>ControlOK, <1>Cleaned DEF Cleanup, Cleaned, ControlOK, Files, PackageOK
    <3>2. \/ dest' = dest
          \/ /\ ~Suffix(fx) /\ ~Skip(fx) /\ act[fx] # "TOUCH"
             /\ pkg[fx].type = "dir" => dest[fx] = "dir"
             /\ dest' = [dest EXCEPT ![fx] = "none"]
      BY <1>14, Zenon DEF Cleanup
    <3>3. ASSUME ~Suffix(fx), ~Skip(fx), act[fx] # "TOUCH", pkg[fx].type = "dir" => dest[fx] = "dir",
                 pkg[fx].old = "old"
          PROVE  /\ pkg[fx].action \notin {"ALTNAME", "SKIP", "TOUCH"} /\ pkg[fx].type = "dir"
                 /\ pkg[fx].action \in {"SAVE", "BACKUP"} => bak[fx] = "old"
      <4>1. act[fx] = pkg[fx].action
        BY <3>1, <3>3, <1>ActionKept, Zenon DEF ActionKept
      <4>2. pkg[fx].action \in Creating /\ pkg[fx].type = "dir"
        BY <1>1, <3>1, <3>3, <4>1 DEF Suffix, Skip, PackageOK, Actions
      <4> QED
        BY <1>1, <3>1, <3>3, <4>1, <4>2, <1>OldDataKept DEF Skip, PackageOK, OldDataKept
    <3>4. CASE dest' = dest
      BY <1>2, <3>1, <3>4, <1>OldDataKept, Zenon DEF OldDataKept
    <3>5. CASE dest' # dest
      <4>1. \A i \in Files : i # fx => dest'[i] = dest[i]
        BY <3>1, <3>2, <3>5, <1>FilesOK, Zenon DEF FilesOK
      <4>2. ASSUME NEW i \in Files, pkg[i].old = "old"
            PROVE  /\ pkg[i].action \in {"SAVE", "BACKUP"} => "old" \in {dest'[i], bak'[i]}
                   /\ pkg[i].action \in {"ALTNAME", "SKIP", "TOUCH"} => dest'[i] = "old"
                   /\ pkg[i].action = "CREATE" /\ pkg[i].type # "dir" => dest'[i] # "none"
        <5>1. CASE i = fx
          BY <3>1, <3>2, <3>3, <3>5, <4>1, <4>2, <5>1, Zenon
        <5>2. CASE i # fx
          BY <3>1, <4>1, <4>2, <5>2, <1>OldDataKept, Zenon DEF OldDataKept
        <5> QED
          BY <5>1, <5>2, Zenon
      <4> QED
        BY <1>2, <4>2, Zenon DEF OldDataKept
    <3> QED
      BY <3>4, <3>5, Zenon
  <2> QED
    BY <2>1, <2>2, <2>3, <2>4, <2>5, <2>6, <2>7, <2>8, Zenon DEF FsmTypeOK, DiskInv
<1>15. CASE CleanupEnd
  <2>1. ControlOK'
    BY <1>2, <1>15, <1>ControlOK, Zenon DEF CleanupEnd, disk, fdata, ControlOK
  <2>2. FilesOK'
    BY <1>15, <1>2, <1>FilesOK, <1>Working, Zenon DEF CleanupEnd, disk, fdata, FilesOK, Working
  <2>3. Working'
    BY <1>2, <1>15, <1>Working, Zenon DEF CleanupEnd, disk, fdata, Working
  <2>4. ActionKept'
    BY <1>2, <1>15, <1>ActionKept, Zenon DEF CleanupEnd, disk, fdata, ActionKept
  <2>5. BackedUp'
    BY <1>2, <1>15, <1>BackedUp, Zenon DEF CleanupEnd, disk, fdata, BackedUp
  <2>6. Uncommitted'
    BY <1>2, <1>15, <1>Uncommitted, Zenon DEF CleanupEnd, disk, fdata, Uncommitted
  <2>7. Cleaned'
    BY <1>1, <1>2, <1>15, <1>ControlOK, <1>Working, <1>Cleaned DEF CleanupEnd, disk, fdata,
       Cleaned, Files, PackageOK, ControlOK, Working
  <2>8. OldDataKept'
    BY <1>2, <1>15, <1>OldDataKept, Zenon DEF CleanupEnd, disk, fdata, OldDataKept
  <2> QED
    BY <2>1, <2>2, <2>3, <2>4, <2>5, <2>6, <2>7, <2>8, Zenon DEF FsmTypeOK, DiskInv
<1>16. CASE UNCHANGED vars
  <2>1. ControlOK' /\ FilesOK'
    BY <1>16, <1>2, <1>ControlOK, <1>FilesOK, Zenon DEF vars, disk, fdata, ControlOK, FilesOK
  <2>2. Working' /\ ActionKept' /\ BackedUp'
    BY <1>16, <1>2, <1>Working, <1>ActionKept, <1>BackedUp, Zenon DEF vars, disk, fdata, Working,
       ActionKept, BackedUp
  <2>3. Uncommitted' /\ Cleaned'
    BY <1>16, <1>2, <1>Uncommitted, <1>Cleaned, Zenon DEF vars, disk, fdata, Uncommitted, Cleaned
  <2>4. OldDataKept'
    BY <1>16, <1>2, <1>OldDataKept, Zenon DEF vars, disk, OldDataKept
  <2> QED
    BY <2>1, <2>2, <2>3, <2>4, Zenon DEF FsmTypeOK, DiskInv
<1> QED
  BY <1>3, <1>4, <1>5, <1>6, <1>7, <1>8, <1>9, <1>10, <1>11, <1>12, <1>13, <1>14, <1>15, <1>16,
     <1>0, Zenon DEF Next, Returned, FsmTypeOK, DiskInv

----------------------------------------------------------------------------
\* The names of a set follow each other
LEMMA NextInSet ==
    ASSUME PackageOK, NEW i \in Files, ~Last(i)
    PROVE  i + 1 \in Files /\ pkg[i + 1].set = pkg[i].set
<1>1. PICK j \in Files : pkg[j].set = pkg[i].set /\ j > i
  BY DEF Last, Links, Files, PackageOK
<1>2. i + 1 \in Files /\ (i + 1 = j \/ i + 1 < j)
  BY <1>1 DEF Files, PackageOK
<1> QED
  BY <1>1, <1>2 DEF PackageOK, Files

\* What the skipped, the linked and the last names of a set are
PackageShape ==
    /\ N \in Nat /\ Files = 1..N
    /\ \A i \in Files :
          /\ pkg[i].set \in Sets /\ pkg[i].old \notin Sets /\ pkg[i].set # "none"
          /\ Suffix(i) => ~Skip(i) /\ pkg[i].action # "TOUCH" /\ pkg[i].type # "dir"
          /\ ~Suffix(i) /\ ~Skip(i) => ~Linked(i)
          /\ HasContent(i) <=> pkg[i].type = "reg" /\ Last(i)
          /\ ~Last(i) => Linked(i) /\ i + 1 \in Files /\ pkg[i + 1].set = pkg[i].set
          /\ Linked(i) => pkg[i].type = "reg"
    /\ \A i, j \in Files : i # j /\ pkg[i].set = pkg[j].set => Linked(i) /\ Linked(j)
    /\ \A i, j \in Files : i < j /\ pkg[i].set = pkg[j].set => ~Last(i)
    /\ \A i, j, k \in Files : i < j /\ j < k /\ pkg[i].set = pkg[k].set => pkg[j].set = pkg[i].set
    /\ {"none", "old", "dir"} \cap Sets = {}

\* A package in which no linked name is only to be touched has this shape.
LEMMA ShapeOfPackage ==
    ASSUME PackageOK, HandledLinks PROVE PackageShape
<1>1. N \in Nat /\ Files = 1..N
  BY Zenon DEF PackageOK, Files
<1>2. \A i \in Files : pkg[i].set \in Sets /\ pkg[i].old \notin Sets /\ pkg[i].set # "none"
  BY Zenon DEF PackageOK, Sets
<1>3. \A i \in Files : Suffix(i) => ~Skip(i) /\ pkg[i].action # "TOUCH" /\ pkg[i].type # "dir"
  BY Zenon DEF Suffix, Skip, Creating
<1>4. \A i \in Files : ~Suffix(i) /\ ~Skip(i) => ~Linked(i)
  BY Zenon DEF Suffix, Skip, PackageOK, HandledLinks, Actions
<1>5. \A i \in Files : HasContent(i) <=> pkg[i].type = "reg" /\ Last(i)
  BY Zenon DEF HasContent, Last
<1>6. \A i \in Files : ~Last(i) => Linked(i) /\ i + 1 \in Files /\ pkg[i + 1].set = pkg[i].set
  <2>1. \A i \in Files : ~Last(i) => Linked(i)
    BY <1>1 DEF Last, Linked
  <2> QED
    BY <2>1, NextInSet, Zenon
<1>7. \A i \in Files : Linked(i) => pkg[i].type = "reg"
  BY Zenon DEF PackageOK
<1>8. \A i, j \in Files : i # j /\ pkg[i].set = pkg[j].set => Linked(i) /\ Linked(j)
  BY Zenon DEF Linked, Links
<1>9. \A i, j \in Files : i < j /\ pkg[i].set = pkg[j].set => ~Last(i)
  BY <1>1 DEF Last, Links
<1>10. {"none", "old", "dir"} \cap Sets = {}
  BY Zenon DEF PackageOK, Sets
<1> QED
  BY <1>1, <1>2, <1>3, <1>4, <1>5, <1>6, <1>7, <1>8, <1>9, <1>10, Zenon DEF PackageShape,
     PackageOK

\* Each step keeps what is known of a hard link set: while the loop is inside of one,
\* firstlink is its first name that is not skipped, and when the loop has left it, its
\* content is written and its metadata set.
LEMMA LinkStep ==
    /\ FsmTypeOK /\ DiskInv /\ FsmTypeOK' /\ DiskInv'
    /\ HandledLinks /\ LinkInv /\ [Next]_vars
    => LinkInv'
<1>0. SUFFICES ASSUME FsmTypeOK, DiskInv, FsmTypeOK', DiskInv', HandledLinks, LinkInv, [Next]_vars
               PROVE  LinkInv'
  OBVIOUS
<1>ControlOK. ControlOK
  BY <1>0, Zenon DEF FsmTypeOK
<1>FilesOK. FilesOK
  BY <1>0, Zenon DEF FsmTypeOK
<1>Working. Working
  BY <1>0, Zenon DEF DiskInv
<1>ActionKept. ActionKept
  BY <1>0, Zenon DEF DiskInv
<1>BackedUp. BackedUp
  BY <1>0, Zenon DEF DiskInv
<1>Uncommitted. Uncommitted /\ Uncommitted'
  BY <1>0, Zenon DEF DiskInv
<1>Cleaned. Cleaned
  BY <1>0, Zenon DEF DiskInv
<1>OldDataKept. OldDataKept
  BY <1>0, Zenon DEF DiskInv
<1>OpenSet. OpenSet
  BY <1>0, Zenon DEF LinkInv
<1>WorksOn. WorksOn
  BY <1>0, Zenon DEF LinkInv
<1>Unpacking. Unpacking
  BY <1>0, Zenon DEF LinkInv
<1>Described. Described
  BY <1>0, Zenon DEF LinkInv
<1>InTmp. InTmp
  BY <1>0, Zenon DEF LinkInv
<1>SetOpen. SetOpen
  BY <1>0, Zenon DEF LinkInv
<1>SetDone. SetDone
  BY <1>0, Zenon DEF LinkInv
<1>InPlace. InPlace
  BY <1>0, Zenon DEF LinkInv
<1>Committed. Committed
  BY <1>0, Zenon DEF LinkInv
<1>NeverPartial. NeverPartial
  BY <1>0, Zenon DEF LinkInv
<1>SuccessComplete. SuccessComplete
  BY <1>0, Zenon DEF LinkInv
<1>1. PackageShape
  BY <1>0, <1>ControlOK, EveryPackage, ShapeOfPackage DEF ControlOK
<1>Range. N \in Nat /\ Files = 1..N
  BY <1>1, Zenon DEF PackageShape
<1>SetNames. \A i \in Files : pkg[i].set \in Sets /\ pkg[i].old \notin Sets /\ pkg[i].set # "none"
  BY <1>1, Zenon DEF PackageShape
<1>Suffixed. \A i \in Files : Suffix(i) => ~Skip(i) /\ pkg[i].action # "TOUCH" /\ pkg[i].type # "dir"
  BY <1>1, Zenon DEF PackageShape
<1>Single. \A i \in Files : ~Suffix(i) /\ ~Skip(i) => ~Linked(i)
  BY <1>1, Zenon DEF PackageShape
<1>Content. \A i \in Files : HasContent(i) <=> pkg[i].type = "reg" /\ Last(i)
  BY <1>1, Zenon DEF PackageShape
<1>NotLast. \A i \in Files : ~Last(i) => Linked(i) /\ i + 1 \in Files /\ pkg[i + 1].set = pkg[i].set
  BY <1>1, Zenon DEF PackageShape
<1>LinkedReg. \A i \in Files : Linked(i) => pkg[i].type = "reg"
  BY <1>1, Zenon DEF PackageShape
<1>Same. \A i, j \in Files : i # j /\ pkg[i].set = pkg[j].set => Linked(i) /\ Linked(j)
  BY <1>1, Zenon DEF PackageShape
<1>Before. \A i, j \in Files : i < j /\ pkg[i].set = pkg[j].set => ~Last(i)
  BY <1>1, Zenon DEF PackageShape
<1>Between. \A i, j, k \in Files : i < j /\ j < k /\ pkg[i].set = pkg[k].set => pkg[j].set = pkg[i].set
  BY <1>1, Zenon DEF PackageShape
<1>Reserved. {"none", "old", "dir"} \cap Sets = {}
  BY <1>1, Zenon DEF PackageShape
<1>2. /\ pkg' = pkg /\ N' = N /\ Files' = Files /\ Sets' = Sets
      /\ \A i : (Skip(i)' <=> Skip(i)) /\ (Suffix(i)' <=> Suffix(i))
      /\ \A i : (Linked(i)' <=> Linked(i)) /\ (Last(i)' <=> Last(i)) /\ (HasContent(i)' <=> HasContent(i))
  <2>1. pkg' = pkg
    BY <1>0, PackageFixed, Zenon
  <2> QED
    BY <2>1, Zenon DEF N, Files, Sets, Skip, Suffix, Linked, Links, Last, HasContent
\* An error: the final names are as before, or not yet in use
<1>3. ASSUME pc' = "cleanup", \A i \in Files : setmeta[i] => setmeta'[i],
             (\A i \in Files : stage'[i] # "commit") \/ UNCHANGED <<dest, alt, data, meta>>
      PROVE  LinkInv'
  <2>1. OpenSet' /\ WorksOn' /\ Unpacking' /\ InTmp' /\ SetOpen' /\ SetDone' /\ InPlace' /\ Committed' /\ SuccessComplete'
    BY <1>3, <1>OpenSet, <1>WorksOn, <1>Unpacking, <1>InTmp, <1>SetOpen, <1>SetDone, <1>InPlace,
       <1>Committed, <1>SuccessComplete, Zenon DEF OpenSet, WorksOn, Unpacking, InTmp, Through,
       SetOpen, SetDone, InPlace, Committed, SuccessComplete
  <2>2. Described'
    BY <1>2, <1>3, <1>Described, Zenon DEF Described
  <2>3. NeverPartial'
    <3>1. CASE \A i \in Files : stage'[i] # "commit"
      BY <1>SetNames, <1>Reserved, <1>2, <3>1, <1>Uncommitted DEF Uncommitted, NeverPartial
    <3>2. CASE UNCHANGED <<dest, alt, data, meta>>
      BY <1>2, <3>2, <1>NeverPartial, Zenon DEF NeverPartial, Complete
    <3> QED
      BY <1>3, <3>1, <3>2, Zenon
  <2> QED
    BY <2>1, <2>2, <2>3, Zenon DEF LinkInv
\* Nothing is committed before the whole payload is unpacked
<1>4. ASSUME pc' = "payload" PROVE Committed' /\ NeverPartial' /\ SuccessComplete'
  <2>1. \A i \in Files : Suffix(i) => dest'[i] \notin Sets /\ alt'[i] \notin Sets
    BY <1>SetNames, <1>Reserved, <1>2, <1>4, <1>Uncommitted, Zenon DEF Uncommitted
  <2> QED
    BY <1>2, <1>4, <2>1, Zenon DEF Committed, NeverPartial, SuccessComplete
<1>5. ASSUME pc' # "payload", setmeta' = setmeta PROVE OpenSet' /\ WorksOn' /\ Unpacking' /\ Described' /\ SetOpen'
  BY <1>2, <1>5, <1>OpenSet, <1>WorksOn, <1>Unpacking, <1>Described, <1>SetOpen, Zenon DEF
     OpenSet, WorksOn, Unpacking, Described, SetOpen
\* A set stays finished, but for the one the loop works on
<1>StillDone. ASSUME pc = "payload", pc' = "payload", fx' = fx, fx \in Files,
                     \A t \in Sets : t # pkg[fx].set /\ Finished(t) => Finished(t)'
              PROVE  SetDone'
  BY <1>SetNames, <1>2, <1>StillDone, <1>SetDone, Zenon DEF SetDone
<1>6. CASE PayloadSkip
  <2>1. /\ fx \in Files /\ Skip(fx) /\ (firstlink # 0 => ~HasContent(fx))
        /\ fx' = fx + 1 /\ pc' = "payload" /\ sub' = "pre" /\ UNCHANGED <<fp, firstlink, setmeta, disk>>
    BY <1>Range, <1>6, <1>ControlOK, <1>Working DEF PayloadSkip, At, Target, NextFile, ControlOK,
       Working
  <2>2. \A i \in Files : i < fx + 1 /\ ~Skip(i) => i < fx
    BY <1>Range, <2>1
  <2>3. ASSUME NEW i \in Files, i < fx, Suffix(i), pkg[fx].set = pkg[i].set
        PROVE  firstlink # 0 /\ ~Last(fx)
    <3>1. firstlink # 0
      BY <1>6, <2>1, <2>3, <1>SetOpen, Zenon DEF PayloadSkip, At, SetOpen
    <3>2. i # fx
      BY <1>Range, <2>1, <2>3
    <3>3. pkg[fx].type = "reg"
      BY <1>Same, <1>LinkedReg, <2>1, <2>3, <3>2, Zenon
    <3> QED
      BY <1>Content, <2>1, <3>1, <3>3, Zenon
  <2>4. OpenSet'
    BY <1>Range, <1>Content, <1>NotLast, <1>LinkedReg, <1>Same, <1>2, <1>6, <2>1, <1>ControlOK,
       <1>OpenSet DEF PayloadSkip, At, disk, ControlOK, OpenSet
  <2>5. WorksOn' /\ Unpacking' /\ Described' /\ Committed'
    BY <1>2, <2>1, <1>WorksOn, <1>Unpacking, <1>Described, <1>Committed, Zenon DEF WorksOn,
       Unpacking, Described, Committed
  <2>6. InTmp' /\ InPlace'
    BY <1>Suffixed, <1>2, <1>6, <2>1, <2>2, <1>InTmp, <1>InPlace, Zenon DEF PayloadSkip, At, disk,
       InTmp, InPlace, Through
  <2>7. SetOpen'
    <3>1. ASSUME NEW i \in Files, fx + 1 \in Files, i < fx + 1, Suffix(i), pkg[fx + 1].set = pkg[i].set
          PROVE  firstlink # 0
      <4>1. i < fx /\ fx < fx + 1
        BY <1>Range, <1>Suffixed, <2>1, <2>2, <3>1
      <4> QED
        BY <1>Between, <2>1, <2>3, <3>1, <4>1, Zenon
    <3> QED
      BY <1>2, <2>1, <3>1, Zenon DEF SetOpen
  <2>8. SetDone'
    <3>1. ASSUME NEW i \in Files, i < fx + 1, Suffix(i)
          PROVE  Finished(pkg[i].set) \/ (fx + 1 \in Files /\ pkg[fx + 1].set = pkg[i].set)
      <4>1. i < fx
        BY <1>Suffixed, <2>2, <3>1, Zenon
      <4>2. Finished(pkg[i].set) \/ pkg[fx].set = pkg[i].set
        BY <1>6, <3>1, <4>1, <1>SetDone, Zenon DEF PayloadSkip, At, SetDone
      <4> QED
        BY <1>NotLast, <2>1, <2>3, <3>1, <4>1, <4>2, Zenon
    <3>2. \A t : Finished(t)' <=> Finished(t)
      BY <1>2, <2>1, Zenon DEF disk, Finished
    <3> QED
      BY <1>2, <2>1, <3>1, <3>2, Zenon DEF SetDone
  <2>9. NeverPartial' /\ SuccessComplete'
    BY <1>SetNames, <1>Reserved, <1>2, <2>1, <1>Uncommitted DEF Uncommitted, NeverPartial,
       SuccessComplete
  <2> QED
    BY <2>4, <2>5, <2>6, <2>7, <2>8, <2>9, Zenon DEF LinkInv
<1>7. CASE PayloadPre
  <2>1. /\ pc = "payload" /\ sub = "pre" /\ fx \in Files /\ fp' = Target(fx) /\ ~Skip(fp')
        /\ UNCHANGED <<setmeta, firstlink, tmp, alt, data, meta>>
    BY <1>Range, <1>7, <1>ControlOK DEF PayloadPre, At, ControlOK
  <2>2. \/ fp' = fx /\ ~Skip(fx)
        \/ fp' = firstlink /\ firstlink # 0 /\ Skip(fx) /\ HasContent(fx)
    BY <2>1, Zenon DEF Target
  <2>3. CASE Fail(fp')
    <3>1. fp' \in Files /\ \A i \in Files : stage'[i] # "commit"
      BY <2>1, <2>2, <2>3, <1>Working, <1>Uncommitted DEF Fail, Uncommitted, Working
    <3> QED
      BY <1>3, <2>1, <2>3, <3>1, Zenon DEF Fail, LinkInv
  <2>4. CASE /\ IF ~Suffix(fp') /\ fp' # firstlink THEN Backup(fp') ELSE UNCHANGED <<dest, bak>>
             /\ sub' = "make" /\ UNCHANGED <<pc, fx, stage, rc>>
    <3>1. \A i \in Files : i < fx \/ Suffix(i) => dest'[i] = dest[i]
      BY <1>Single, <1>NotLast, <1>Before, <2>2, <2>4, <1>FilesOK DEF Backup, FilesOK
    <3>2. OpenSet'
      BY <1>2, <2>1, <2>4, <1>OpenSet, Zenon DEF OpenSet
    <3>3. WorksOn'
      BY <1>2, <2>1, <2>2, <2>4, <1>OpenSet DEF WorksOn, OpenSet
    <3>4. Unpacking' /\ Described' /\ Committed' /\ SuccessComplete'
      BY <1>2, <2>1, <2>4, <1>Unpacking, <1>Described, <1>Committed, <1>SuccessComplete, Zenon
         DEF Unpacking, Described, Committed, SuccessComplete
    <3>5. InTmp' /\ SetOpen' /\ SetDone'
      BY <1>2, <2>1, <2>4, <1>InTmp, <1>SetOpen, <1>SetDone, Zenon DEF InTmp, Through, SetOpen,
         SetDone, Finished
    <3>6. InPlace'
      BY <1>2, <2>1, <2>4, <3>1, <1>InPlace, Zenon DEF InPlace
    <3>7. NeverPartial'
      BY <1>2, <2>1, <2>4, <3>1, <1>NeverPartial, Zenon DEF NeverPartial, Complete
    <3> QED
      BY <3>2, <3>3, <3>4, <3>5, <3>6, <3>7, Zenon DEF LinkInv
  <2> QED
    BY <1>7, <2>3, <2>4, Zenon DEF PayloadPre, LinkInv
<1>8. CASE PayloadTouch
  <2>1. /\ pc = "payload" /\ sub = "make" /\ fx \in Files /\ fp \in Files /\ ~Skip(fp)
        /\ act[fp] = "TOUCH" /\ dest[fp] # "none"
        /\ UNCHANGED <<fp, setmeta, firstlink, dest, tmp, alt, data, meta>>
    BY <1>8, <1>Working, Zenon DEF PayloadTouch, At, disk, Working
  <2>2. ~Suffix(fp) /\ fp = fx /\ ~Linked(fx) /\ firstlink = 0
    <3>1. pkg[fp].action = "TOUCH"
      BY <2>1, <1>ActionKept, Zenon DEF ActionKept
    <3>2. ~Suffix(fp)
      BY <1>Suffixed, <2>1, <3>1, Zenon
    <3>3. fp = fx /\ ~Linked(fx)
      BY <1>Single, <2>1, <3>2, <1>WorksOn DEF WorksOn
    <3>4. firstlink \in Nat /\ (firstlink # 0 => firstlink \in Files)
      BY <1>ControlOK, <1>Working, Zenon DEF ControlOK, Working
    <3> QED
      BY <1>Same, <2>1, <3>2, <3>3, <3>4, <1>OpenSet, Zenon DEF OpenSet
  <2>3. CASE Fail(fp)
    BY <1>3, <2>1, <2>3, <1>FilesOK, <1>Uncommitted, Zenon DEF Fail, FilesOK, Uncommitted,
       LinkInv
  <2>4. CASE sub' = "meta" /\ UNCHANGED <<pc, fx, stage, rc>>
    <3>1. OpenSet' /\ WorksOn' /\ Unpacking' /\ Committed' /\ SuccessComplete'
      BY <1>2, <2>1, <2>2, <2>4, <1>OpenSet, <1>WorksOn, <1>Unpacking, <1>Committed,
         <1>SuccessComplete, Zenon DEF OpenSet, WorksOn, Unpacking, Committed, SuccessComplete
    <3>2. Described'
      BY <1>2, <2>1, <2>2, <2>4, <1>Described, Zenon DEF Described
    <3>3. InTmp' /\ SetDone' /\ InPlace'
      BY <1>2, <2>1, <2>2, <2>4, <1>InTmp, <1>SetDone, <1>InPlace, Zenon DEF InTmp, Through,
         SetDone, Finished, InPlace
    <3>4. SetOpen'
      BY <1>2, <2>2, <2>4, <1>SetOpen, Zenon DEF SetOpen
    <3>5. NeverPartial'
      BY <1>2, <2>1, <2>4, <1>NeverPartial, Zenon DEF NeverPartial, Complete
    <3> QED
      BY <3>1, <3>2, <3>3, <3>4, <3>5, Zenon DEF LinkInv
  <2> QED
    BY <1>8, <2>3, <2>4, Zenon DEF PayloadTouch, LinkInv
<1>9. CASE PayloadMake
  <2>1. /\ pc = "payload" /\ sub = "make" /\ fx \in Files /\ fp \in Files /\ ~Skip(fp)
        /\ firstlink # 0 => firstlink \in Files
        /\ UNCHANGED <<fp, setmeta, alt, meta>>
    BY <1>9, <1>Working, Zenon DEF PayloadMake, At, Working
  <2>2. CASE Fail(fp)
    BY <1>3, <2>1, <2>2, <1>FilesOK, <1>Uncommitted, Zenon DEF Fail, FilesOK, Uncommitted,
       LinkInv
  <2>3. ASSUME Make(fp), UNCHANGED <<pc, fx, stage, rc>>
        PROVE  LinkInv'
    <3>1. Committed' /\ NeverPartial' /\ SuccessComplete'
      BY <1>4, <2>1, <2>3, Zenon
    \* Not a regular file, so that it has one name
    <3>2. CASE pkg[fp].type # "reg"
      <4>1. /\ ~Linked(fp) /\ fp = fx /\ firstlink = 0 /\ Last(fx) /\ setmeta[fx]
        BY <1>NotLast, <1>LinkedReg, <1>Same, <2>1, <3>2, <1>OpenSet, <1>WorksOn,
           <1>Described DEF WorksOn, OpenSet, Described
      <4>2. /\ sub' = "meta" /\ firstlink' = 0
            /\ Suffix(fx) => tmp'[fx] = pkg[fx].set /\ data'[pkg[fx].set] = "full"
            /\ ~Suffix(fx) => dest'[fx] # "none"
            /\ \A i \in Files : i # fx => tmp'[i] = tmp[i] /\ dest'[i] = dest[i]
            /\ \A t \in Sets : data'[t] = data[t] \/ data'[t] = "full"
        <5>1. pkg[fx].set \in Sets /\ pkg[fx].set # "none" /\ (pkg[fx].type = "dir" => ~Suffix(fx))
          BY <1>SetNames, <1>Suffixed, <2>1
        <5>2. CASE pkg[fx].type = "dir" /\ MakeDir(fx)
          BY <2>1, <4>1, <5>1, <5>2, <1>FilesOK DEF MakeDir, FilesOK
        <5>3. CASE MakeSpecial(fx)
          BY <2>1, <4>1, <5>1, <5>3, <1>FilesOK DEF MakeSpecial, Appear, FilesOK
        <5> QED
          BY <2>3, <3>2, <4>1, <5>2, <5>3 DEF Make
      <4>3. OpenSet' /\ WorksOn' /\ Unpacking'
        BY <1>2, <2>1, <2>3, <4>1, <4>2, <1>OpenSet, <1>WorksOn, <1>Unpacking, Zenon DEF
           OpenSet, WorksOn, Unpacking
      <4>4. Described'
        BY <1>2, <2>1, <2>3, <4>1, <4>2, <1>Described, Zenon DEF Described
      <4>5. InTmp' /\ InPlace'
        <5>1. InTmp'
          BY <1>2, <2>1, <2>3, <4>1, <4>2, <1>InTmp DEF InTmp, Through
        <5>2. InPlace'
          BY <1>2, <2>1, <2>3, <4>2, <1>InPlace DEF InPlace
        <5> QED
          BY <5>1, <5>2
      <4>6. SetOpen'
        BY <1>2, <2>1, <2>3, <4>1, <4>2, <1>SetOpen, Zenon DEF SetOpen
      <4>7. SetDone'
        <5>1. \A t \in Sets : Finished(t) => Finished(t)'
          BY <1>2, <2>1, <4>2, Zenon DEF Finished
        <5> QED
          BY <1>StillDone, <2>1, <2>3, <5>1, Zenon
      <4> QED
        BY <3>1, <4>3, <4>4, <4>5, <4>6, <4>7, Zenon DEF LinkInv
    \* The first name of a set that is not skipped
    <3>3. CASE pkg[fp].type = "reg" /\ firstlink = 0
      <4>1. fp = fx /\ ~Skip(fx) /\ ~(\E i \in Files : i < fx /\ Suffix(i) /\ pkg[fx].set = pkg[i].set)
        BY <2>1, <3>3, <1>WorksOn, <1>SetOpen, Zenon DEF WorksOn, SetOpen
      <4>2. /\ sub' = IF Last(fx) THEN "unpack" ELSE "meta"
            /\ firstlink' = IF Linked(fx) THEN fx ELSE 0
            /\ Suffix(fx) => tmp'[fx] = pkg[fx].set
            /\ ~Suffix(fx) => dest'[fx] # "none"
            /\ data'[pkg[fx].set] = "part"
            /\ \A i \in Files : i # fx => tmp'[i] = tmp[i] /\ dest'[i] = dest[i]
            /\ \A t \in Sets : t # pkg[fx].set => data'[t] = data[t]
        <5>1. MakeFile(fx)
          BY <2>3, <3>3, <4>1, Zenon DEF Make
        <5>2. fx # firstlink
          BY <1>Range, <2>1, <3>3
        <5>3. /\ sub' = IF HasContent(fx) THEN "unpack" ELSE "meta"
              /\ firstlink' = IF Linked(fx) THEN fx ELSE 0
              /\ data' = [data EXCEPT ![pkg[fx].set] = "part"]
              /\ Appear(fx, pkg[fx].set)
          BY <3>3, <5>1, <5>2, Zenon DEF MakeFile
        <5>4. HasContent(fx) <=> Last(fx)
          BY <1>Content, <2>1, <3>3, <4>1, Zenon
        <5>5. pkg[fx].set \in Sets /\ pkg[fx].set # "none"
          BY <1>SetNames, <2>1, Zenon
        <5>6. CASE Suffix(fx)
          BY <2>1, <5>3, <5>4, <5>5, <5>6, <1>FilesOK, Zenon DEF Appear, FilesOK
        <5>7. CASE ~Suffix(fx)
          BY <2>1, <5>3, <5>4, <5>5, <5>7, <1>FilesOK, Zenon DEF Appear, FilesOK
        <5> QED
          BY <5>6, <5>7, Zenon
      <4>3. OpenSet'
        BY <1>Range, <1>Single, <1>2, <2>1, <2>3, <4>1, <4>2 DEF OpenSet
      <4>4. WorksOn'
        BY <1>2, <2>1, <2>3, <4>1, <4>2, <1>WorksOn, Zenon DEF WorksOn
      <4>5. Unpacking'
        BY <1>Range, <1>Content, <1>2, <2>1, <2>3, <3>3, <4>1, <4>2 DEF Unpacking
      <4>6. Described'
        BY <1>Range, <1>NotLast, <1>2, <2>1, <2>3, <4>1, <4>2, <1>Described DEF Described
      <4>7. InTmp' /\ InPlace'
        BY <1>2, <2>1, <2>3, <4>1, <4>2, <1>InTmp, <1>InPlace DEF InTmp, Through, InPlace
      <4>8. SetOpen'
        BY <1>2, <2>1, <2>3, <4>1, <4>2, <1>SetOpen, Zenon DEF SetOpen
      <4>9. SetDone'
        <5>1. \A t \in Sets : t # pkg[fx].set /\ Finished(t) => Finished(t)'
          BY <1>2, <2>1, <4>2, Zenon DEF Finished
        <5> QED
          BY <1>StillDone, <2>1, <2>3, <5>1, Zenon
      <4> QED
        BY <3>1, <4>3, <4>4, <4>5, <4>6, <4>7, <4>8, <4>9, Zenon DEF LinkInv
    \* Another name of an open set, or back to the first one with the content
    <3>4. CASE pkg[fp].type = "reg" /\ firstlink # 0
      <4>1. /\ firstlink < fx /\ pkg[fx].set = pkg[firstlink].set /\ Linked(fx) /\ Linked(fp)
            /\ Suffix(fp) /\ pkg[fp].set = pkg[fx].set
        BY <1>Single, <1>Same, <2>1, <3>4, <1>OpenSet, <1>WorksOn DEF OpenSet, WorksOn
      <4>2. /\ sub' = IF HasContent(fx) THEN "unpack" ELSE "meta"
            /\ UNCHANGED <<firstlink, data, dest>>
            /\ fp # firstlink => tmp' = [tmp EXCEPT ![fp] = pkg[fp].set]
            /\ fp = firstlink => tmp' = tmp
        BY <2>3, <3>4, <4>1, Zenon DEF Make, MakeFile, Appear
      <4>3. fp = fx \/ (fp = firstlink /\ fp < fx)
        BY <2>1, <1>WorksOn, Zenon DEF WorksOn
      <4>4. tmp'[fp] = pkg[fp].set /\ \A i \in Files : i # fp => tmp'[i] = tmp[i]
        BY <2>1, <4>1, <4>2, <4>3, <1>FilesOK, <1>InTmp, Zenon DEF FilesOK, InTmp, Through
      <4>5. OpenSet'
        BY <1>2, <2>1, <2>3, <3>4, <4>2, <1>OpenSet, Zenon DEF OpenSet
      <4>6. WorksOn'
        BY <1>2, <2>1, <2>3, <4>2, <1>WorksOn, Zenon DEF WorksOn
      <4>7. Unpacking'
        BY <1>2, <2>1, <2>3, <3>4, <4>1, <4>2, <1>Unpacking, Zenon DEF Unpacking
      <4>8. Described'
        BY <1>Content, <1>2, <2>1, <2>3, <3>4, <4>1, <4>2, <1>WorksOn, <1>Described,
           Zenon DEF Described, WorksOn
      <4>9. InTmp' /\ InPlace'
        BY <1>2, <2>1, <2>3, <4>2, <4>4, <1>InTmp, <1>InPlace, Zenon DEF InTmp, Through, InPlace
      <4>10. SetOpen' /\ SetDone'
        BY <1>2, <2>1, <2>3, <3>4, <4>2, <1>SetOpen, <1>SetDone, Zenon DEF SetOpen, SetDone,
           Finished
      <4> QED
        BY <3>1, <4>5, <4>6, <4>7, <4>8, <4>9, <4>10, Zenon DEF LinkInv
    <3> QED
      BY <3>2, <3>3, <3>4, Zenon DEF LinkInv
  <2> QED
    BY <1>9, <2>2, <2>3, Zenon DEF PayloadMake, LinkInv
<1>10. CASE PayloadUnpack
  <2>1. /\ pc = "payload" /\ sub = "unpack" /\ fx \in Files /\ fp \in Files /\ ~Skip(fp)
        /\ firstlink' = 0 /\ setmeta' = [setmeta EXCEPT ![fp] = IF firstlink # 0 THEN TRUE ELSE @]
        /\ UNCHANGED <<fp, dest, tmp, alt, meta>>
    BY <1>10, <1>Working, Zenon DEF PayloadUnpack, At, Working
  <2>2. setmeta'[fp] /\ \A i \in Files : setmeta[i] => setmeta'[i]
    BY <2>1, <1>FilesOK, <1>Unpacking, <1>Described, Zenon DEF FilesOK, Unpacking, Described
  <2>3. CASE Fail(fp)
    <3>1. pc' = "cleanup" /\ \A i \in Files : stage'[i] # "commit"
      BY <2>1, <2>3, <1>Uncommitted DEF Fail, Uncommitted
    <3> QED
      BY <1>3, <2>2, <3>1
  <2>4. CASE data' = [data EXCEPT ![pkg[fp].set] = "full"] /\ sub' = "meta" /\ UNCHANGED <<pc, fx, stage, rc>>
    <3>1. Last(fx) /\ data'[pkg[fp].set] = "full" /\ \A t \in Sets : data[t] = "full" => data'[t] = "full"
      <4>1. Last(fx) /\ pkg[fp].set \in Sets
        BY <1>SetNames, <1>Content, <2>1, <1>Unpacking DEF Unpacking
      <4> QED
        BY <2>4, <4>1, <1>FilesOK DEF FilesOK
    <3>2. Committed' /\ NeverPartial' /\ SuccessComplete'
      BY <1>4, <2>1, <2>4, Zenon
    <3>3. OpenSet' /\ WorksOn' /\ Unpacking'
      BY <1>2, <2>1, <2>4, <1>OpenSet, <1>WorksOn, <1>Unpacking, Zenon DEF OpenSet, WorksOn,
         Unpacking
    <3>4. Described'
      BY <1>2, <2>1, <2>2, <2>4, <3>1, <1>Described, Zenon DEF Described
    <3>5. InTmp' /\ SetOpen' /\ InPlace'
      BY <1>2, <2>1, <2>4, <3>1, <1>InTmp, <1>SetOpen, <1>InPlace, Zenon DEF InTmp, Through,
         SetOpen, InPlace
    <3>6. SetDone'
      <4>1. \A t \in Sets : Finished(t) => Finished(t)'
        BY <1>2, <2>1, <3>1, Zenon DEF Finished
      <4> QED
        BY <1>StillDone, <2>1, <2>4, <4>1, Zenon
    <3> QED
      BY <3>2, <3>3, <3>4, <3>5, <3>6, Zenon DEF LinkInv
  <2> QED
    BY <1>10, <2>3, <2>4, Zenon DEF PayloadUnpack, LinkInv
<1>11. CASE PayloadMeta
  <2>1. /\ pc = "payload" /\ sub = "meta" /\ fx \in Files /\ fp \in Files /\ ~Skip(fp)
        /\ firstlink # 0 => firstlink \in Files
        /\ UNCHANGED <<fp, setmeta, firstlink, dest, tmp, alt, data>>
    BY <1>11, <1>Working, Zenon DEF PayloadMeta, At, Working
  <2>2. CASE Fail(fp)
    BY <1>3, <2>1, <2>2, <1>Uncommitted DEF Fail, Uncommitted
  <2>3. CASE meta' = (IF setmeta[fp] THEN meta \cup {fp} ELSE meta) /\ NextFile(fp)
    <3>1. pc' = "payload" /\ sub' = "pre" /\ fx' = fx + 1
      BY <2>1, <2>3, Zenon DEF NextFile
    <3>2. Committed' /\ NeverPartial' /\ SuccessComplete'
      BY <1>4, <3>1, Zenon
    \* A file that has no temporary name has no other name
    <3>3. ~Suffix(fp) => fp = fx /\ ~Linked(fx) /\ Last(fx) /\ fx \in meta' /\ firstlink = 0 /\ dest[fx] # "none"
      BY <1>Single, <1>NotLast, <1>Same, <2>1, <2>3, <1>OpenSet, <1>WorksOn,
         <1>Described DEF WorksOn, Described, OpenSet
    \* The last name finishes the set
    <3>4. ASSUME Suffix(fp), Last(fx)
          PROVE  firstlink = 0 /\ \A i \in Files : pkg[i].set = pkg[fx].set => Finished(pkg[i].set)'
      <4>1. data[pkg[fp].set] = "full" /\ setmeta[fp] /\ firstlink = 0
        BY <2>1, <3>4, <1>Described, Zenon DEF Described
      <4>2. pkg[fp].set = pkg[fx].set /\ pkg[fp].action # "TOUCH"
        BY <1>Suffixed, <2>1, <3>4, <1>WorksOn, Zenon DEF WorksOn
      <4> QED
        BY <1>2, <2>1, <2>3, <4>1, <4>2, Zenon DEF Finished
    <3>5. ~Last(fx) => firstlink # 0 /\ Suffix(fp) /\ fx + 1 \in Files /\ pkg[fx + 1].set = pkg[fx].set
      BY <1>NotLast, <2>1, <3>3, <1>Described, Zenon DEF Described
    <3>6. \A i \in Files : i < fx + 1 => i < fx \/ i = fx
      BY <1>Range, <2>1
    <3>7. OpenSet'
      BY <1>Range, <1>2, <2>1, <3>1, <3>3, <3>4, <3>5, <1>OpenSet DEF OpenSet
    <3>8. WorksOn' /\ Unpacking' /\ Described'
      BY <1>2, <2>1, <3>1, <1>WorksOn, <1>Unpacking, <1>Described, Zenon DEF WorksOn, Unpacking,
         Described
    <3>9. InTmp'
      BY <1>Suffixed, <1>2, <2>1, <3>1, <3>6, <1>WorksOn, <1>InTmp DEF InTmp, Through, WorksOn
    <3>10. SetOpen'
      <4>1. ASSUME NEW i \in Files, i < fx + 1, Suffix(i), fx + 1 \in Files, pkg[fx + 1].set = pkg[i].set
            PROVE  ~Last(fx)
        BY <1>Range, <1>Before, <1>Between, <2>1, <4>1
      <4> QED
        BY <1>2, <2>1, <3>1, <3>5, <4>1, <1>SetOpen, Zenon DEF SetOpen
    <3>11. SetDone'
      <4>1. ASSUME NEW i \in Files, Suffix(i), i < fx + 1
            PROVE  Finished(pkg[i].set)' \/ (fx + 1 \in Files /\ pkg[fx + 1].set = pkg[i].set)
        <5>1. CASE pkg[i].set = pkg[fx].set
          <6>1. Suffix(fp)
            BY <1>Same, <2>1, <3>3, <4>1, <5>1
          <6>2. CASE Last(fx)
            BY <3>4, <5>1, <6>1, <6>2, Zenon
          <6> QED
            BY <3>5, <5>1, <6>2, Zenon
        <5>2. CASE pkg[i].set # pkg[fx].set
          <6>1. Finished(pkg[i].set)
            BY <2>1, <3>6, <4>1, <5>2, <1>SetDone, Zenon DEF SetDone
          <6> QED
            BY <1>2, <2>1, <2>3, <6>1, Zenon DEF Finished
        <5> QED
          BY <5>1, <5>2, Zenon
      <4> QED
        BY <1>2, <3>1, <4>1, <1>SetDone, Zenon DEF SetDone
    <3>12. InPlace'
      BY <1>2, <2>1, <2>3, <3>1, <3>3, <3>6, <1>WorksOn, <1>InPlace, Zenon DEF InPlace, WorksOn
    <3> QED
      BY <3>2, <3>7, <3>8, <3>9, <3>10, <3>11, <3>12, Zenon DEF LinkInv
  <2> QED
    BY <1>11, <2>2, <2>3, Zenon DEF PayloadMeta, LinkInv
<1>12. CASE PayloadEnd
  <2>1. pc = "payload" /\ UNCHANGED <<fdata, disk>>
    BY <1>12, Zenon DEF PayloadEnd
  <2>2. CASE pc' = "cleanup"
    BY <1>3, <2>1, <2>2, Zenon DEF disk, fdata, LinkInv
  <2>3. CASE fx > N /\ pc' = "commit" /\ fx' = 1
    <3>1. fx \notin Files /\ \A i \in Files : i < fx /\ ~(i < 1)
      BY <1>Range, <2>3, <1>ControlOK DEF ControlOK
    <3>2. InTmp' /\ SetDone' /\ InPlace'
      BY <1>2, <2>1, <2>3, <3>1, <1>InTmp, <1>SetDone, <1>InPlace, Zenon DEF disk, InTmp,
         Through, SetDone, Finished, InPlace
    <3>3. Committed' /\ SuccessComplete'
      BY <1>2, <2>3, <3>1, <1>Committed, <1>SuccessComplete, Zenon DEF Committed,
         SuccessComplete
    <3>4. NeverPartial'
      BY <1>2, <2>1, <1>NeverPartial, Zenon DEF disk, NeverPartial, Complete
    <3> QED
      BY <1>5, <2>1, <2>3, <3>2, <3>3, <3>4, Zenon DEF fdata, LinkInv
  <2> QED
    BY <1>12, <2>2, <2>3, Zenon DEF PayloadEnd, LinkInv
<1>13. CASE CommitSkip
  <2>1. pc = "commit" /\ pc' = pc /\ Skip(fx) /\ fx' = fx + 1 /\ UNCHANGED <<fdata, disk>>
    BY <1>13, Zenon DEF CommitSkip, CommitAt
  <2>2. \A i \in Files : (i >= fx + 1 => i >= fx) /\ (i < fx + 1 => i < fx \/ i = fx)
    BY <1>Range, <1>ControlOK DEF ControlOK
  <2>3. \A i \in Files : i < fx + 1 /\ Suffix(i) => i < fx
    BY <1>Suffixed, <2>1, <2>2
  <2>4. InTmp' /\ SetDone' /\ InPlace'
    BY <1>2, <2>1, <2>2, <1>InTmp, <1>SetDone, <1>InPlace, Zenon DEF disk, InTmp, Through,
       SetDone, Finished, InPlace
  <2>5. Committed' /\ SuccessComplete'
    BY <1>2, <2>1, <2>3, <1>Committed, <1>SuccessComplete, Zenon DEF disk, fdata, Committed,
       SuccessComplete
  <2>6. NeverPartial'
    BY <1>2, <2>1, <1>NeverPartial, Zenon DEF disk, NeverPartial, Complete
  <2> QED
    BY <1>5, <2>1, <2>4, <2>5, <2>6, Zenon DEF fdata, LinkInv
<1>14. CASE CommitBackup
  <2>1. pc = "commit" /\ fx \in Files /\ UNCHANGED <<act, setmeta, tmp, alt, data, meta>>
    BY <1>Range, <1>14, <1>ControlOK DEF CommitBackup, CommitAt, ControlOK
  <2>2. CASE CommitFail /\ UNCHANGED <<dest, bak>>
    BY <1>3, <2>1, <2>2, Zenon DEF CommitFail, LinkInv
  <2>3. CASE (IF Suffix(fx) THEN Backup(fx) ELSE UNCHANGED <<dest, bak>>) /\ UNCHANGED <<pc, fx>>
    <3>1. \A i \in Files : \/ dest'[i] = dest[i]
                           \/ i = fx /\ Suffix(fx) /\ dest'[fx] = "none"
      BY <2>1, <2>3, <1>FilesOK, Zenon DEF Backup, FilesOK
    <3>2. InTmp' /\ SetDone' /\ SuccessComplete'
      BY <1>2, <2>1, <2>3, <1>InTmp, <1>SetDone, <1>SuccessComplete, Zenon DEF InTmp, Through,
         SetDone, Finished, SuccessComplete
    <3>3. InPlace'
      BY <1>2, <2>1, <2>3, <3>1, <1>InPlace, Zenon DEF InPlace
    <3>4. Committed'
      BY <1>Range, <1>2, <2>1, <2>3, <3>1, <1>Committed DEF Committed
    <3>5. NeverPartial'
      <4>1. \A i \in Files : dest'[i] \in Sets => dest'[i] = dest[i]
        BY <1>Reserved, <2>1, <3>1, Zenon
      <4> QED
        BY <1>2, <2>1, <4>1, <1>NeverPartial, Zenon DEF NeverPartial, Complete
    <3> QED
      BY <1>5, <2>1, <2>3, <3>2, <3>3, <3>4, <3>5, Zenon DEF LinkInv
  <2> QED
    BY <1>14, <2>2, <2>3, Zenon DEF CommitBackup, LinkInv
<1>15. CASE CommitRename
  <2>1. pc = "commit" /\ fx \in Files /\ UNCHANGED <<act, setmeta, data, meta>>
    BY <1>Range, <1>15, <1>ControlOK DEF CommitRename, CommitAt, ControlOK
  <2>2. CASE CommitFail /\ UNCHANGED <<dest, tmp, alt>>
    BY <1>3, <2>1, <2>2, Zenon DEF CommitFail, LinkInv
  <2>3. ASSUME IF ~Suffix(fx) THEN UNCHANGED <<dest, tmp, alt>>
               ELSE /\ tmp' = [tmp EXCEPT ![fx] = "none"]
                    /\ IF act[fx] = "ALTNAME"
                       THEN alt' = [alt EXCEPT ![fx] = tmp[fx]] /\ UNCHANGED dest
                       ELSE dest' = [dest EXCEPT ![fx] = tmp[fx]] /\ UNCHANGED alt,
               fx' = fx + 1, UNCHANGED pc
        PROVE  LinkInv'
    <3>1. \A i \in Files : (i >= fx + 1 => i >= fx /\ i # fx) /\ (i < fx + 1 => i < fx \/ i = fx) /\ (i < fx => i # fx)
      BY <1>Range, <2>1
    <3>2. Suffix(fx) => tmp[fx] = pkg[fx].set /\ Finished(pkg[fx].set)
      BY <1>Range, <2>1, <1>InTmp, <1>SetDone DEF InTmp, Through, SetDone
    <3>3. /\ \A i \in Files : i # fx \/ ~Suffix(fx) => dest'[i] = dest[i] /\ tmp'[i] = tmp[i] /\ alt'[i] = alt[i]
          /\ Suffix(fx) /\ act[fx] = "ALTNAME" => tmp'[fx] = "none" /\ alt'[fx] = pkg[fx].set /\ dest' = dest
          /\ Suffix(fx) /\ act[fx] # "ALTNAME" => tmp'[fx] = "none" /\ dest'[fx] = pkg[fx].set /\ alt' = alt
      BY <2>1, <2>3, <3>2, <1>FilesOK DEF FilesOK
    <3>4. InTmp'
      BY <1>2, <2>1, <2>3, <3>1, <3>3, <1>InTmp, Zenon DEF InTmp, Through
    <3>5. SetDone' /\ SuccessComplete'
      BY <1>2, <2>1, <2>3, <1>SetDone, <1>SuccessComplete, Zenon DEF SetDone, Finished,
         SuccessComplete
    <3>6. InPlace'
      BY <1>2, <2>1, <2>3, <3>3, <1>InPlace, Zenon DEF InPlace
    <3>7. Committed'
      BY <1>2, <2>1, <2>3, <3>1, <3>3, <1>Committed, Zenon DEF Committed
    <3>8. NeverPartial'
      <4>1. ASSUME NEW i \in Files, Suffix(i)
            PROVE  /\ dest'[i] = dest[i] \/ (dest'[i] = pkg[i].set /\ Finished(pkg[i].set))
                   /\ alt'[i] = alt[i] \/ (alt'[i] = pkg[i].set /\ Finished(pkg[i].set))
        BY <2>1, <3>2, <3>3, <4>1, Zenon
      <4> QED
        BY <1>2, <2>1, <4>1, <1>NeverPartial, Zenon DEF NeverPartial, Complete, Finished
    <3> QED
      BY <1>5, <2>1, <2>3, <3>4, <3>5, <3>6, <3>7, <3>8, Zenon DEF LinkInv
  <2> QED
    BY <1>15, <2>2, <2>3, Zenon DEF CommitRename, LinkInv
<1>16. CASE CommitEnd
  <2>1. pc = "commit" /\ pc' = "done" /\ UNCHANGED <<fdata, disk>>
    BY <1>16, Zenon DEF CommitEnd
  <2>2. \A i \in Files : i < fx
    BY <1>Range, <1>16, <1>ControlOK DEF CommitEnd, ControlOK
  <2>3. InTmp' /\ SetDone' /\ InPlace' /\ Committed'
    BY <2>1, <1>InTmp, <1>SetDone, <1>InPlace, <1>Committed, Zenon DEF InTmp, Through, SetDone,
       InPlace, Committed
  <2>4. NeverPartial'
    BY <1>2, <2>1, <1>NeverPartial, Zenon DEF disk, NeverPartial, Complete
  <2>5. SuccessComplete'
    <3>1. ASSUME NEW i \in Files
          PROVE  /\ tmp[i] = "none"
                 /\ Suffix(i) => Complete(i, IF act[i] = "ALTNAME" THEN alt ELSE dest)
                 /\ ~Skip(i) /\ ~Suffix(i) => i \in meta /\ dest[i] # "none"
                 /\ Skip(i) => dest[i] = pkg[i].old
      <4>1. tmp[i] = "none" /\ (Skip(i) => dest[i] = pkg[i].old)
        BY <2>1, <2>2, <3>1, <1>Uncommitted, <1>Committed, Zenon DEF Uncommitted, Committed
      <4>2. Suffix(i) => Complete(i, IF act[i] = "ALTNAME" THEN alt ELSE dest)
        BY <2>1, <2>2, <3>1, <1>SetDone, <1>Committed, Zenon DEF Committed, SetDone, Finished, Complete
      <4>3. ~Skip(i) /\ ~Suffix(i) => i \in meta /\ dest[i] # "none"
        BY <2>1, <3>1, <1>InPlace, Zenon DEF InPlace
      <4> QED
        BY <4>1, <4>2, <4>3, Zenon
    <3> QED
      BY <1>2, <2>1, <3>1, <1>SuccessComplete, Zenon DEF disk, fdata, SuccessComplete, Complete
  <2> QED
    BY <1>5, <2>1, <2>3, <2>4, <2>5, Zenon DEF fdata, LinkInv
<1>17. CASE Cleanup
  <2>1. pc = "cleanup" /\ pc' = pc /\ UNCHANGED <<fdata, alt, data, meta>>
    BY <1>17, Zenon DEF Cleanup
  <2>2. InTmp' /\ SetDone' /\ InPlace' /\ Committed' /\ SuccessComplete'
    BY <2>1, <1>InTmp, <1>SetDone, <1>InPlace, <1>Committed, <1>SuccessComplete, Zenon DEF
       InTmp, Through, SetDone, InPlace, Committed, SuccessComplete
  <2>3. fx \in Files /\ \A i \in Files : Suffix(i) => dest'[i] = dest[i]
    <3>1. fx \in Files
      <4>1. fx >= 1 /\ fx \in Nat /\ fx <= N
        BY <1>17, <1>ControlOK, <1>Cleaned, Zenon DEF Cleanup, ControlOK, Cleaned
      <4> QED
        BY <1>Range, <4>1
    <3>2. dest' = dest \/ (~Suffix(fx) /\ dest' = [dest EXCEPT ![fx] = "none"])
      BY <1>17, Zenon DEF Cleanup
    <3> QED
      BY <3>1, <3>2, <1>FilesOK, Zenon DEF FilesOK
  <2>4. NeverPartial'
    BY <1>2, <2>1, <2>3, <1>NeverPartial, Zenon DEF NeverPartial, Complete
  <2> QED
    BY <1>5, <2>1, <2>2, <2>4, Zenon DEF fdata, LinkInv
<1>18. CASE CleanupEnd
  <2>1. pc = "cleanup" /\ pc' = "done" /\ rc' = rc /\ UNCHANGED <<fdata, disk>>
    BY <1>18, Zenon DEF CleanupEnd
  <2>2. InTmp' /\ SetDone' /\ InPlace' /\ Committed'
    BY <2>1, Zenon DEF InTmp, Through, SetDone, InPlace, Committed
  <2>4. SuccessComplete'
    <3>1. rc' = 1
      BY <2>1, <1>Cleaned, Zenon DEF Cleaned
    <3> QED
      BY <3>1 DEF SuccessComplete
  <2>3. NeverPartial'
    BY <1>2, <2>1, <1>NeverPartial, Zenon DEF disk, NeverPartial, Complete
  <2> QED
    BY <1>5, <2>1, <2>2, <2>3, <2>4, Zenon DEF fdata, LinkInv
<1>19. CASE UNCHANGED vars
  <2>1. UNCHANGED <<pc, fx, fp, sub, act, setmeta, firstlink, dest, tmp, alt, data, meta, rc>>
    BY <1>19, Zenon DEF vars, disk, fdata
  <2>2. OpenSet' /\ WorksOn' /\ Unpacking' /\ Described'
    BY <1>2, <2>1, <1>OpenSet, <1>WorksOn, <1>Unpacking, <1>Described, Zenon DEF OpenSet,
       WorksOn, Unpacking, Described
  <2>3. InTmp' /\ SetOpen' /\ SetDone' /\ InPlace' /\ Committed'
    BY <1>2, <2>1, <1>InTmp, <1>SetOpen, <1>SetDone, <1>InPlace, <1>Committed, Zenon DEF InTmp,
       Through, SetOpen, SetDone, Finished, InPlace, Committed
  <2>4. NeverPartial'
    BY <1>2, <2>1, <1>NeverPartial, Zenon DEF NeverPartial, Complete
  <2>5. SuccessComplete'
    <3>1. UNCHANGED <<act, dest, tmp, alt, data, meta, rc>> /\ pc' = pc
      BY <2>1, Zenon
    <3> QED
      BY <1>2, <3>1, <1>SuccessComplete DEF SuccessComplete, Complete
  <2> QED
    BY <2>2, <2>3, <2>4, <2>5, Zenon DEF LinkInv
<1> QED
  BY <1>6, <1>7, <1>8, <1>9, <1>10, <1>11, <1>12, <1>13, <1>14, <1>15, <1>16, <1>17, <1>18,
     <1>19, <1>0, Zenon DEF Next, Returned, LinkInv
----------------------------------------------------------------------------
\* Before the payload loop nothing is created, and the old files are in place.
LEMMA FsmInitially == Init => FsmInv
<1> SUFFICES ASSUME Init PROVE FsmInv
  OBVIOUS
<1>1. PackageOK
  BY EveryPackage, Zenon DEF Init
<1>2. ControlOK
  <2>1. /\ pkg \in Packages /\ pc = "payload" /\ fx = 1 /\ fp = 1 /\ sub = "pre" /\ firstlink = 0
        /\ meta = {} /\ rc = 0 /\ stuck \in BOOLEAN
    BY Zenon DEF Init
  <2> QED
    BY <2>1 DEF ControlOK
<1>3. setmeta \in [Files -> BOOLEAN] /\ \A i \in Files : ~Skip(i) /\ ~Linked(i) => setmeta[i]
  BY Zenon DEF Init
<1>4. FilesOK
  BY <1>1, <1>3, Zenon DEF Init, FilesOK, PackageOK, Contents, Actions, Sets
<1>5. Working /\ ActionKept /\ BackedUp
  BY <1>1, Zenon DEF Init, Working, ActionKept, BackedUp
<1>6. Uncommitted /\ Cleaned
  BY <1>1, Zenon DEF Init, Uncommitted, Cleaned
<1>7. OldDataKept
  BY <1>1, Zenon DEF Init, OldDataKept
<1>8. OpenSet /\ WorksOn /\ Unpacking /\ Committed /\ SuccessComplete
  BY Zenon DEF Init, OpenSet, WorksOn, Unpacking, Committed, SuccessComplete
<1>9. Described
  BY <1>3, Zenon DEF Init, Described
<1>10. \A i \in Files : ~(i < 1)
  BY DEF Files
<1>11. InTmp /\ SetOpen /\ SetDone /\ InPlace
  BY <1>10, Zenon DEF Init, InTmp, Through, SetOpen, SetDone, InPlace
<1>12. ASSUME HandledLinks PROVE NeverPartial
  BY <1>1, <1>12, ShapeOfPackage, Zenon DEF Init, NeverPartial, PackageShape
<1> QED
  BY <1>2, <1>4, <1>5, <1>6, <1>7, <1>8, <1>9, <1>11, <1>12, Zenon DEF FsmInv, FsmTypeOK,
     DiskInv, LinkInv

\* rpmPackageFilesInstall() and its cleanup, for packages of any number of files
\* and whichever call fails: no old file is lost before its successor is in place,
\* a failed return leaves no temporary file that could be removed, and no final
\* name ever shows a file without its content or metadata.
THEOREM UnpackingIsAtomic == Spec => []UnpackingAtomic
<1>1. FsmInv /\ [Next]_vars => FsmInv'
  <2> SUFFICES ASSUME FsmInv, [Next]_vars PROVE FsmInv'
    OBVIOUS
  <2>1. FsmTypeOK /\ DiskInv /\ FsmTypeOK' /\ DiskInv'
    BY DiskStep, Zenon DEF FsmInv
  <2>2. HandledLinks' => HandledLinks
    <3>1. pkg' = pkg
      BY PackageFixed, Zenon
    <3> QED
      BY <3>1, Zenon DEF HandledLinks, Linked, Links, Files, N
  <2> QED
    BY <2>1, <2>2, LinkStep, Zenon DEF FsmInv
<1>2. FsmInv => UnpackingAtomic
  <2> SUFFICES ASSUME FsmInv PROVE UnpackingAtomic
    OBVIOUS
  <2>1. FailureUndone
    BY Zenon DEF FsmInv, DiskInv, Uncommitted, Cleaned, FailureUndone
  <2> QED
    BY <2>1, Zenon DEF FsmInv, DiskInv, LinkInv, UnpackingAtomic
<1> QED
  BY <1>1, <1>2, FsmInitially, PTL DEF Spec
==========================================================================
