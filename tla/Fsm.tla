-------------------------------- MODULE Fsm --------------------------------
(***************************************************************************)
(* Laying down the files of one package: rpmPackageFilesInstall() of       *)
(* lib/fsm.cc.  One behaviour is one call.                                 *)
(*                                                                         *)
(* A package is a sequence of files in archive order, with the action the  *)
(* transaction decided on for each and what is at its place on disk.  A    *)
(* file is unpacked under a temporary name, and the names are swapped when *)
(* all of the payload is there.  Every system call and every plugin hook   *)
(* may fail, and the process may be killed between any two steps.          *)
(*                                                                         *)
(* Directories on the way to a file (ensureDir()) are there or cannot be   *)
(* opened; %ghost files have action SKIP.                                  *)
(***************************************************************************)
EXTENDS Integers, Sequences

CONSTANT
    Packages    \* packages to install, see FileInfo

Creating == {"CREATE", "BACKUP", "SAVE", "ALTNAME"}     \* XFA_CREATING()

\* A file: its type, its disposition, the hard link set it is in (a set of its
\* own if it has one name), and what lies at its final name.
FileInfo ==
    [type   : {"reg", "dir", "special"},
     action : Creating \cup {"SKIP", "TOUCH"},
     set    : STRING \ {"none", "old", "dir"},
     old    : {"none", "old", "dir"}]

\* Only regular files are linked (rpmfilesBuildNLink()), and the names of a hard
\* link set follow each other in the archive; directories are never %config
\* (genCpioListAndHeader()), so they get no .rpmnew name.
ASSUME PackagesAssumption ==
    \A p \in Packages :
        /\ p \in Seq(FileInfo)
        /\ \A i \in 1..Len(p) : p[i].type = "dir" => p[i].action # "ALTNAME"
        /\ \A i, j \in 1..Len(p) : p[i].set = p[j].set /\ i # j => p[i].type = "reg"
        /\ \A i, j, k \in 1..Len(p) :
              i < j /\ j < k /\ p[i].set = p[k].set => p[j].set = p[i].set

VARIABLES
    pkg,        \* the package
    pc,         \* "payload", "commit", "cleanup" or "done"
    fx,         \* the file the loop is at
    fp,         \* the file the loop works on, usually the same
    sub,        \* where in the loop body
    act,        \* fp->action
    stage,      \* fp->stage
    setmeta,    \* fp->setmeta
    firstlink,  \* first file of the hard link set being unpacked, 0 if none
    dest,       \* at the final name: "none", "old", "dir" or a link set
    tmp,        \* at the temporary name: "none" or a link set
    alt,        \* at the .rpmnew name: "none" or a link set
    bak,        \* at the .rpmsave or .rpmorig name: "none" or "old"
    data,       \* per link set: "none", "part" or "full"
    meta,       \* files by whose name metadata has been set
    rc,         \* 0, or 1 for any error
    pre, post,  \* files whose FilePre and FilePost hooks have run
    stuck       \* history: a file could not be removed in the cleanup

disk == <<dest, tmp, alt, bak, data, meta>>
fdata == <<act, stage, setmeta, firstlink>>
vars == <<pkg, pc, fx, fp, sub, fdata, disk, rc, pre, post, stuck>>

N == Len(pkg)
Files == 1..N
Skip(i) == pkg[i].action = "SKIP"
Links(i) == {j \in Files : pkg[j].set = pkg[i].set}
Linked(i) == \E j \in Links(i) : j # i        \* st_nlink > 1

\* rpmfiArchiveHasContent(): the last of a set carries the content.
HasContent(i) == pkg[i].type = "reg" /\ \A j \in Links(i) : j <= i

\* fp->suffix: a temporary name is used
Suffix(i) == pkg[i].action \in Creating /\ pkg[i].type # "dir"

\* The first loop collects the state of all files; a failure there returns
\* before anything is touched and is left out.
Init ==
    /\ pkg \in Packages
    /\ pc = "payload" /\ fx = 1 /\ fp = 1 /\ sub = "pre"
    /\ act = [i \in Files |-> pkg[i].action]
    /\ stage = [i \in Files |-> "pre"]
    /\ setmeta = [i \in Files |-> ~Skip(i) /\ (~Linked(i) \/ act[i] = "TOUCH")]
    /\ firstlink = 0
    /\ dest = [i \in Files |-> pkg[i].old]
    /\ tmp = [i \in Files |-> "none"]
    /\ alt = [i \in Files |-> "none"]
    /\ bak = [i \in Files |-> "none"]
    /\ data = [s \in {pkg[i].set : i \in Files} |-> "none"]
    /\ meta = {}
    /\ rc = 0
    /\ pre = {} /\ post = {}
    /\ stuck = FALSE

----------------------------------------------------------------------------
\* The payload loop

\* "Write the content to the first non-skipped file of the set instead."
Target(i) == IF Skip(i) /\ firstlink # 0 /\ HasContent(i) THEN firstlink ELSE i

At(s) == pc = "payload" /\ fx <= N /\ sub = s

\* An error ends the loop; the files are cleaned up from the last one on.
Fail(t) ==
    /\ rc' = 1 /\ pc' = "cleanup" /\ fx' = N /\ sub' = "clean"
    /\ stage' = [stage EXCEPT ![t] = "unpack"]

\* The end of the loop body
NextFile(t) ==
    /\ stage' = [stage EXCEPT ![t] = "unpack"]
    /\ fx' = fx + 1 /\ sub' = "pre"
    /\ UNCHANGED <<pc, rc>>

PayloadSkip ==
    /\ At("pre") /\ Skip(Target(fx))
    /\ NextFile(fx)
    /\ UNCHANGED <<pkg, fp, act, setmeta, firstlink, disk, pre, post, stuck>>

\* fsmBackup(): whatever is at the final name gets the suffix.
Backup(t) ==
    IF act[t] \in {"SAVE", "BACKUP"}
    THEN /\ dest[t] # "none"
         /\ dest' = [dest EXCEPT ![t] = "none"]
         /\ bak' = [bak EXCEPT ![t] = "old"]
    ELSE UNCHANGED <<dest, bak>>

\* ensureDir(), the early backup of what a directory replaces, FilePre hooks
PayloadPre ==
    /\ At("pre") /\ ~Skip(Target(fx))
    /\ fp' = Target(fx)
    /\ \/ /\ IF ~Suffix(fp') /\ fp' # firstlink THEN Backup(fp')
                ELSE UNCHANGED <<dest, bak>>
          /\ pre' = pre \cup {fp'}
          /\ \/ sub' = "make" /\ UNCHANGED <<pc, fx, stage, rc>>
             \/ Fail(fp')
       \/ Fail(fp') /\ UNCHANGED <<dest, bak, pre>>
    /\ UNCHANGED <<pkg, act, setmeta, firstlink, tmp, alt, data, meta, post, stuck>>

\* The file comes into being at its temporary or, for a directory and for a
\* file to be touched that has vanished, its final name.
Appear(t, what) ==
    IF Suffix(t)
    THEN tmp' = [tmp EXCEPT ![t] = what] /\ UNCHANGED dest
    ELSE dest' = [dest EXCEPT ![t] = what] /\ UNCHANGED tmp

\* fsmMkfile() up to the content: the first of a set is created, the others are
\* linked to it.  Coming back to the first one with the content of a skipped one,
\* fsmVerify() removes it if it has no temporary name.
MakeFile(t) ==
    LET first == firstlink = 0
        s == IF first THEN pkg[t].set ELSE pkg[firstlink].set
    IN /\ firstlink' = IF first /\ Linked(t) THEN t ELSE firstlink
       /\ data' = IF first THEN [data EXCEPT ![s] = "part"] ELSE data
       /\ IF t # firstlink THEN Appear(t, s)
          ELSE /\ dest' = IF Suffix(t) THEN dest ELSE [dest EXCEPT ![t] = "none"]
               /\ UNCHANGED tmp
       /\ sub' = IF HasContent(fx) THEN "unpack" ELSE "meta"

\* fsmVerify() and fsmMkdir(): a directory or a link to one is kept, anything
\* else goes.
MakeDir(t) ==
    /\ dest' = [dest EXCEPT ![t] = "dir"]
    /\ sub' = "meta"
    /\ UNCHANGED <<tmp, data, firstlink>>

\* fsmSymlink(), fsmMkfifo(), fsmMknod()
MakeSpecial(t) ==
    /\ data' = [data EXCEPT ![pkg[t].set] = "full"]
    /\ Appear(t, pkg[t].set)
    /\ sub' = "meta"
    /\ UNCHANGED firstlink

Make(t) ==
    \/ pkg[t].type = "reg" /\ MakeFile(t)
    \/ pkg[t].type = "dir" /\ MakeDir(t)
    \/ pkg[t].type = "special" /\ MakeSpecial(t)

\* fsmStat() finds the file that is to be touched: only its metadata is set.
PayloadTouch ==
    /\ At("make")
    /\ act[fp] = "TOUCH" /\ dest[fp] # "none"
    /\ \/ sub' = "meta" /\ UNCHANGED <<pc, fx, stage, rc>>
       \/ Fail(fp)
    /\ UNCHANGED <<pkg, fp, act, setmeta, firstlink, disk, pre, post, stuck>>

\* A file to be touched that has vanished is created after all.  When it fails,
\* what fsmVerify() found in the place of a directory may be gone already.
PayloadMake ==
    /\ At("make")
    /\ LET t == fp IN
         /\ act[t] = "TOUCH" => dest[t] = "none"
         /\ act' = [act EXCEPT ![t] = IF @ = "TOUCH" THEN "CREATE" ELSE @]
         /\ \/ Make(t) /\ UNCHANGED <<pc, fx, stage, rc>>
            \/ /\ Fail(fp)
               /\ \/ UNCHANGED dest
                  \/ /\ pkg[t].type = "dir" /\ dest[t] = "old"
                     /\ dest' = [dest EXCEPT ![t] = "none"]
               /\ UNCHANGED <<tmp, data, firstlink>>
    /\ UNCHANGED <<pkg, fp, setmeta, alt, bak, meta, pre, post, stuck>>

\* fsmUnpack() writes the content and compares the digest; the end of a link set
PayloadUnpack ==
    /\ At("unpack")
    /\ LET t == fp IN
         /\ firstlink' = 0
         /\ setmeta' = [setmeta EXCEPT ![t] = IF firstlink # 0 THEN TRUE ELSE @]
         /\ \/ /\ data' = [data EXCEPT ![pkg[t].set] = "full"]
               /\ sub' = "meta"
               /\ UNCHANGED <<pc, fx, stage, rc>>
            \/ Fail(fp) /\ UNCHANGED data
    /\ UNCHANGED <<pkg, fp, act, dest, tmp, alt, bak, meta, pre, post, stuck>>

\* fsmOpenat() and fsmSetmeta()
PayloadMeta ==
    /\ At("meta")
    /\ LET t == fp IN
         \/ /\ meta' = IF setmeta[t] THEN meta \cup {t} ELSE meta
            /\ NextFile(fp)
         \/ Fail(fp) /\ UNCHANGED meta
    /\ UNCHANGED <<pkg, fp, act, setmeta, firstlink, dest, tmp, alt, bak, data, pre,
                   post, stuck>>

\* rpmfiNext(): the end of the archive, or an archive that cannot be read or
\* does not have all files
PayloadEnd ==
    /\ pc = "payload" /\ sub = "pre"
    /\ \/ fx > N /\ pc' = "commit" /\ fx' = 1 /\ sub' = "backup" /\ UNCHANGED rc
       \/ pc' = "cleanup" /\ fx' = N /\ sub' = "clean" /\ rc' = 1
    /\ UNCHANGED <<pkg, fp, fdata, disk, pre, post, stuck>>

----------------------------------------------------------------------------
\* The commit loop

CommitAt(s) == pc = "commit" /\ fx <= N /\ sub = s

CommitFail ==
    /\ rc' = 1 /\ pc' = "cleanup" /\ fx' = N /\ sub' = "clean"
    /\ post' = post \cup {fx}
    /\ UNCHANGED stage

CommitSkip ==
    /\ CommitAt("backup") /\ Skip(fx)
    /\ fx' = fx + 1
    /\ UNCHANGED <<pkg, fp, pc, sub, fdata, disk, rc, pre, post, stuck>>

\* Mutant: the backup is left to the rename.
CommitBackupNot ==
    /\ CommitAt("backup") /\ ~Skip(fx)
    /\ sub' = "rename"
    /\ UNCHANGED <<pkg, fp, pc, fx, fdata, disk, rc, pre, post, stuck>>

CommitBackup ==
    /\ CommitAt("backup") /\ ~Skip(fx)
    /\ \/ /\ IF Suffix(fx) THEN Backup(fx) ELSE UNCHANGED <<dest, bak>>
          /\ sub' = "rename"
          /\ UNCHANGED <<pc, fx, stage, rc, post>>
       \/ CommitFail /\ UNCHANGED <<dest, bak>>
    /\ UNCHANGED <<pkg, fp, act, setmeta, firstlink, tmp, alt, data, meta, pre, stuck>>

\* fsmCommit() and the FilePost hooks
CommitRename ==
    /\ CommitAt("rename")
    /\ \/ /\ IF ~Suffix(fx) THEN UNCHANGED <<dest, tmp, alt>>
             ELSE /\ tmp[fx] # "none"
                  /\ tmp' = [tmp EXCEPT ![fx] = "none"]
                  /\ IF act[fx] = "ALTNAME"
                     THEN alt' = [alt EXCEPT ![fx] = tmp[fx]] /\ UNCHANGED dest
                     ELSE dest' = [dest EXCEPT ![fx] = tmp[fx]] /\ UNCHANGED alt
          /\ stage' = [stage EXCEPT ![fx] = "commit"]
          /\ post' = post \cup {fx}
          /\ fx' = fx + 1 /\ sub' = "backup"
          /\ UNCHANGED <<pc, rc>>
       \/ CommitFail /\ UNCHANGED <<dest, tmp, alt>>
    /\ UNCHANGED <<pkg, fp, act, setmeta, firstlink, bak, data, meta, pre, stuck>>

CommitEnd ==
    /\ pc = "commit" /\ fx > N
    /\ pc' = "done"
    /\ UNCHANGED <<pkg, fp, fx, sub, fdata, disk, rc, pre, post, stuck>>

----------------------------------------------------------------------------
\* "On failure, walk backwards and erase non-committed files": fp->fpath is
\* removed, which is the final name of a directory.  Errors are ignored, and a
\* directory that has something in it stays.
Cleanup ==
    /\ pc = "cleanup" /\ fx >= 1
    /\ LET remove == stage[fx] # "commit" /\ ~Skip(fx) /\ act[fx] # "TOUCH" IN
         \/ /\ remove
            /\ pkg[fx].type = "dir" => dest[fx] = "dir"
            /\ IF Suffix(fx) THEN tmp' = [tmp EXCEPT ![fx] = "none"] /\ UNCHANGED dest
                             ELSE dest' = [dest EXCEPT ![fx] = "none"] /\ UNCHANGED tmp
            /\ UNCHANGED stuck
         \/ /\ ~remove \/ pkg[fx].type = "dir"
            /\ UNCHANGED <<dest, tmp, stuck>>
         \/ /\ remove /\ Suffix(fx) /\ tmp[fx] # "none"
            /\ stuck' = TRUE
            /\ UNCHANGED <<dest, tmp>>
    /\ fx' = fx - 1
    /\ UNCHANGED <<pkg, fp, pc, sub, fdata, alt, bak, data, meta, rc, pre, post>>

CleanupEnd ==
    /\ pc = "cleanup" /\ fx < 1
    /\ pc' = "done"
    /\ UNCHANGED <<pkg, fp, fx, sub, fdata, disk, rc, pre, post, stuck>>

Returned == pc = "done" /\ UNCHANGED vars

Next ==
    \/ PayloadSkip \/ PayloadPre \/ PayloadTouch \/ PayloadMake \/ PayloadUnpack
    \/ PayloadMeta \/ PayloadEnd
    \/ CommitSkip \/ CommitBackup \/ CommitRename \/ CommitEnd
    \/ Cleanup \/ CleanupEnd
    \/ Returned

Spec == Init /\ [][Next]_vars
----------------------------------------------------------------------------
Sets == {pkg[i].set : i \in Files}

\* All of the file at this name is there: the content, and metadata set by way
\* of one of the names of its link set.
Complete(i, where) ==
    /\ where[i] = pkg[i].set
    /\ data[pkg[i].set] = "full"
    /\ \E j \in meta : pkg[j].set = pkg[i].set /\ pkg[j].action # "TOUCH"

\* Crash safety of the temporary names: at no time, and so after no crash, is
\* there a file under its final or its .rpmnew name that lacks content or
\* metadata.  A file to be touched that vanished has no temporary name.
NeverPartial ==
    \A i \in Files : Suffix(i) =>
        /\ dest[i] \in Sets => Complete(i, dest)
        /\ alt[i] \in Sets => Complete(i, alt)

\* At no time, whatever fails, is the old file lost before the new one stands
\* in for it: what is to be saved is under its own name or the backup's, what is
\* not to be replaced stays, what is to be replaced is there or its successor.
OldDataKept ==
    \A i \in Files : pkg[i].old = "old" =>
        /\ pkg[i].action \in {"SAVE", "BACKUP"} => "old" \in {dest[i], bak[i]}
        /\ pkg[i].action \in {"ALTNAME", "SKIP", "TOUCH"} => dest[i] = "old"
        /\ pkg[i].action = "CREATE" /\ pkg[i].type # "dir" => dest[i] # "none"

\* A successful return means that every file that was not to be skipped is in
\* place with all of its content and its metadata, whichever names of its hard
\* link set are skipped, and that no temporary name is left.
SuccessComplete ==
    pc = "done" /\ rc = 0 =>
        \A i \in Files :
            /\ tmp[i] = "none"
            /\ Suffix(i) => Complete(i, IF act[i] = "ALTNAME" THEN alt ELSE dest)
            /\ ~Skip(i) /\ ~Suffix(i) => i \in meta /\ dest[i] # "none"
            /\ Skip(i) => dest[i] = pkg[i].old

\* A failed return leaves no temporary file behind that could be removed, and if
\* no file was committed the files that were there are still there, under their
\* own names or, for the one whose commit failed, its backup's.
FailureUndone ==
    pc = "done" /\ rc = 1 =>
        /\ stuck \/ \A i \in Files : tmp[i] = "none"
        /\ \A i \in Files : Suffix(i) /\ stage[i] # "commit" =>
              \/ dest[i] = pkg[i].old
              \/ dest[i] = "none" /\ bak[i] = "old"

\* lib/transaction.cc: "fsm can't handle FA_TOUCH of hardlinked files".  A touched
\* name takes no content from the archive, which is lost for the other names, and
\* the files that follow are linked to them.
HandledLinks == \A i \in Files : pkg[i].action = "TOUCH" => ~Linked(i)

\* While a package is unpacked no old file is lost before the new one stands in
\* for it, and a failed return leaves nothing that could be removed.  No file at
\* its final name lacks content or metadata, wherever rpmPackageFilesInstall()
\* stops, and a successful return leaves everything in place, if no hard linked
\* file is only to be touched.
UnpackingAtomic ==
    /\ OldDataKept /\ FailureUndone
    /\ HandledLinks => NeverPartial /\ SuccessComplete

=============================================================================
