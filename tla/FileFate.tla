------------------------------ MODULE FileFate ------------------------------
(***************************************************************************)
(* What a transaction does to the files on the disk: rpmtsPrepare() of     *)
(* lib/transaction.cc decides about every file of every element, and the   *)
(* elements are then processed in order.                                   *)
(*                                                                         *)
(* A system (Systems) is a transaction set and the machine it meets: the   *)
(* packages' files, the order of the elements, the options, the file       *)
(* states the database records for the installed packages (whose numbers   *)
(* are their database offsets), what is on the disk and how much room is   *)
(* left on it.  Laying down the files of a package either happens or fails *)
(* without effect; Fsm has the steps of it.                                *)
(***************************************************************************)
EXTENDS FileRules

CONSTANTS
    Systems,    \* the transactions and machines to look at
    Size        \* blocks taken by a file of each dig

SaveNames == {"", ".rpmsave", ".rpmorig", ".rpmnew"}

VARIABLES
    sys,        \* the transaction set
    db,         \* installed package -> sequence of file states
    disk,       \* path -> suffix -> content
    act,        \* element -> sequence of actions                (rpmfs)
    repl,       \* element -> sequence of replaced files         (rpmfs)
    prev,       \* element -> sizes of the files replaced, -1 if none
    recs,       \* <<element, file>> for every file fingerprinted (fpc)
    probs,      \* problems found
    dsi,        \* blocks needed, to be freed, needed at the last problem
    failed,     \* elements that failed
    used,       \* blocks taken since the start, and the most taken at any time
    test,       \* this is a --test run
    pc, pos     \* where rpmtsRun() is, and the element it is at

decisions == <<act, repl, prev, recs, probs, dsi>>
vars == <<sys, db, disk, decisions, failed, used, test, pc, pos>>

Paths == DOMAIN DirOf
Elements == DOMAIN sys.order
Type(k) == sys.order[k].type
Files(k) == sys.files[sys.order[k].pkg]
RemovedPackages == {sys.order[k].pkg : k \in {e \in Elements : Type(e) = "removed"}}
On(d, path) == d[path][""]

\* rpmteAddProblem()
Problem(type, k, path) == [type |-> type, te |-> k, path |-> path]

Init ==
    /\ sys \in Systems
    /\ db = sys.db
    /\ disk = [p \in Paths |-> [s \in SaveNames |->
                  IF s = "" THEN sys.disk[p] ELSE Nothing]]
    /\ act = [k \in Elements |-> sys.excluded[k]]
    /\ repl = [k \in Elements |-> <<>>]
    /\ prev = [k \in Elements |-> [i \in DOMAIN Files(k) |-> -1]]
    /\ recs = <<>> /\ probs = {} /\ failed = {}
    /\ dsi = [need |-> 0, delta |-> 0, old |-> 0]
    /\ used = [now |-> 0, most |-> 0]
    /\ test \in BOOLEAN
    /\ pc = "reset" /\ pos = 1

\* rpmtsPrepare(), first loop, and fpCachePopulate()
ResetAndSkip ==
    /\ pc = "reset"
    /\ act' = [k \in Elements |->
                  IF Type(k) = "added"
                  THEN SkipInstallFiles(Files(k), ResetActions(act[k]),
                                        sys.color, sys.dirs)
                  ELSE SkipEraseFiles(Files(k), ResetActions(act[k]))]
    /\ recs' = FlattenSeq([k \in Elements |->
                  SelectSeq([i \in DOMAIN Files(k) |-> <<k, i>>],
                            LAMBDA r : ~XFA_SKIPPING(act'[r[1]][r[2]]))])
    /\ pc' = "installed"
    /\ UNCHANGED <<sys, db, disk, repl, prev, probs, dsi, failed, used, test, pos>>

----------------------------------------------------------------------------
(* Files of installed packages. *)

\* The records of the fingerprint cache for a path, in element order
RecordsOf(path) == SelectSeq(recs, LAMBDA r : Files(r[1])[r[2]].path = path)

\* handleInstInstalledFile(): st has the actions, replaced files, replaced
\* sizes and problems; f is file i of added element k, o file x of installed
\* package p.
HandleInstInstalledFile(st, k, i, p, x) ==
    LET f == Files(k)[i]
        o == sys.files[p][x]
        a == st.act[k][i]
        d == On(disk, f.path)
        beingRemoved == p \in RemovedPackages
        isCfgFile == "CONFIG" \in o.flags \cup f.flags
        differ == Compare(o, f)
        conflict == /\ differ
                    /\ beingRemoved => /\ RemovalConflict(f, o, d)
                                       /\ ~(sys.order[k].pretrans /\ test)
        colored == IF conflict
                   THEN ColorConflict(sys.color, sys.prefcolor, f, a, o, "none")
                   ELSE [conflict |-> FALSE, act |-> a]
        replaces == differ /\ ~isCfgFile /\ ~XFA_SKIPPING(colored.act) /\ ~beingRemoved
        rstate == IF conflict /\ ~colored.conflict /\ colored.act = "CREATE"
                  THEN "WRONGCOLOR" ELSE "REPLACED"
        fate == IF isCfgFile
                THEN DecideFate(o, f, "ALLFILES" \notin sys.opts, d)
                ELSE IF /\ "MINWRITES" \in sys.opts
                        /\ colored.act = "UNKNOWN"
                        /\ ContentsEqual(o, f, d)
                THEN "TOUCH" ELSE colored.act
    IN IF XFA_SKIPPING(a) \/ db[p][x] = "NOTINSTALLED" THEN st
       ELSE [act |-> [st.act EXCEPT ![k][i] = fate],
             repl |-> IF replaces
                      THEN [st.repl EXCEPT ![k] = Append(@,
                              [pkg |-> p, file |-> x, state |-> rstate])]
                      ELSE st.repl,
             prev |-> [st.prev EXCEPT ![k][i] = Size[o.dig]],
             probs |-> IF colored.conflict /\ "REPLACEOLD" \notin sys.opts
                       THEN st.probs \cup {Problem("FILE_CONFLICT", k, f.path)}
                       ELSE st.probs]

\* Mutant: a removed package counts as one that keeps the file.
CheckRecordAnyOwner(st, p, x, r) ==
    CASE Type(r[1]) = "added" -> HandleInstInstalledFile(st, r[1], r[2], p, x)
      [] Type(r[1]) = "removed" /\ db[p][x] = "NORMAL" ->
            [st EXCEPT !.act[r[1]][r[2]] = "SKIP"]
      [] OTHER -> st

\* checkInstalledFiles(), the body for one file of an installed package and
\* one record of the transaction
CheckRecord(st, p, x, r) ==
    CASE Type(r[1]) = "added" -> HandleInstInstalledFile(st, r[1], r[2], p, x)
      [] /\ Type(r[1]) = "removed"
         /\ p \notin RemovedPackages
         /\ db[p][x] = "NORMAL" -> [st EXCEPT !.act[r[1]][r[2]] = "SKIP"]
      [] OTHER -> st

\* checkInstalledFiles(): the database's packages by offset, their files in order
CheckInstalledFiles ==
    /\ pc = "installed"
    /\ LET CheckFile(st, p, x) ==
               FoldLeft(LAMBDA s, r : CheckRecord(s, p, x, r), st,
                        RecordsOf(sys.files[p][x].path))
           CheckPackage(st, p) ==
               FoldLeft(LAMBDA s, x : CheckFile(s, p, x), st,
                        [x \in DOMAIN sys.files[p] |-> x])
       IN \E st \in {FoldLeft(CheckPackage,
                              [act |-> act, repl |-> repl, prev |-> prev, probs |-> probs],
                              SetToSortSeq(DOMAIN db, <))} :
             /\ act' = st.act /\ repl' = st.repl
             /\ prev' = st.prev /\ probs' = st.probs
    /\ pc' = "overlap" /\ pos' = 1
    /\ UNCHANGED <<sys, db, disk, recs, dsi, failed, used, test>>

----------------------------------------------------------------------------
(* Files of other elements of the transaction, and the room they take. *)

\* The file's record that handleOverlappedFiles() takes for the previous one,
\* 0 if there is none: among the records before this one, the last that was
\* decided upon; added elements look at added ones only.
Previous(acts, k, i) ==
    LET all == RecordsOf(Files(k)[i].path)
        j == CHOOSE n \in DOMAIN all : all[n] = <<k, i>>
    IN SelectLastInSubSeq(all, 1, j - 1, LAMBDA r :
           /\ Type(k) = "added" => Type(r[1]) = "added"
           /\ acts[r[1]][r[2]] # "UNKNOWN")

\* rpmtsUpdateDSI(), in blocks; the inodes are counted the same way.
UpdateDSI(ds, size, replaced, fixup, a) ==
    LET need == CASE XFA_CREATING(a) -> ds.need + size
                  [] a = "ERASE" -> ds.need - size
                  [] OTHER -> ds.need
        freed == IF a = "CREATE"
                 THEN (IF replaced >= 0 THEN replaced ELSE 0)
                      + (IF fixup >= 0 THEN fixup ELSE 0)
                 ELSE 0
    IN [need |-> need, delta |-> ds.delta + freed,
        old |-> IF need < ds.old THEN need ELSE ds.old]

\* The TR_ADDED case: what becomes of file i of element k and of the previous
\* record r (<<>> if there is none).
OverlapAdded(st, k, i, r) ==
    LET f == Files(k)[i]
        a == st.act[k][i]
        config == ConfigConflict(f, On(disk, f.path))
        Settle(acts) ==     \* a file that is not skipped after all
            IF XFA_SKIPPING(acts[k][i]) THEN acts
            ELSE IF config
            THEN [acts EXCEPT ![k][i] =
                     IF "NOREPLACE" \in f.flags THEN "ALTNAME" ELSE "SKIP"]
            ELSE IF acts[k][i] = "UNKNOWN" THEN [acts EXCEPT ![k][i] = "CREATE"]
            ELSE acts
    IN IF r = <<>>
       THEN [st EXCEPT !.act[k][i] =
                IF a # "UNKNOWN" THEN a
                ELSE IF ~config THEN "CREATE"
                ELSE IF "NOREPLACE" \in f.flags THEN "ALTNAME" ELSE "BACKUP"]
       ELSE LET o == Files(r[1])[r[2]]
                oa == st.act[r[1]][r[2]]
                c == ColorConflict(sys.color, sys.prefcolor, f, a, o, oa)
                share == IF ~XFA_SKIPPING(oa) /\ "GHOST" \notin o.flags THEN "SKIP"
                         ELSE IF oa = "SKIPCOLOR" THEN "SKIPCOLOR"
                         ELSE a
                acts == IF Compare(o, f)
                        THEN [st.act EXCEPT ![k][i] = c.act, ![r[1]][r[2]] = c.oact]
                        ELSE [st.act EXCEPT ![k][i] = share]
            IN [st EXCEPT
                   !.act = Settle(acts),
                   !.fixup = IF XFA_SKIPPING(acts[k][i]) THEN -1 ELSE Size[o.dig],
                   !.probs = IF /\ Compare(o, f) /\ c.conflict
                                /\ "REPLACENEW" \notin sys.opts
                             THEN @ \cup {Problem("NEW_FILE_CONFLICT", k, f.path)}
                             ELSE @]

\* Mutant: a removal does not look at the other elements.
OverlapRemovedAlone(st, k, i, r) ==
    [st EXCEPT !.act[k][i] =
        IF ConfigConflict(Files(k)[i], On(disk, Files(k)[i].path))
        THEN "SKIP" ELSE "ERASE"]

\* The TR_REMOVED case: a file another element leaves there is skipped, and of
\* several removals the last one counts.
OverlapRemoved(st, k, i, r) ==
    LET f == Files(k)[i]
        kept == r # <<>> /\ st.act[r[1]][r[2]] # "ERASE"
        a == IF kept \/ db[sys.order[k].pkg][i] # "NORMAL" THEN "SKIP"
             ELSE IF ConfigConflict(f, On(disk, f.path)) THEN "SAVE"
             ELSE "ERASE"
    IN IF r = <<>> \/ kept THEN [st EXCEPT !.act[k][i] = a]
       ELSE [st EXCEPT !.act = [@ EXCEPT ![r[1]][r[2]] = "SKIP", ![k][i] = a]]

\* The TR_RESTORED case
OverlapRestored(st, k, i) ==
    [st EXCEPT !.act[k][i] =
        IF db[sys.order[k].pkg][i] # "NORMAL" THEN "SKIP" ELSE "TOUCH"]

\* handleOverlappedFiles(), the body for file i of element k
OverlapFile(st, k, i) ==
    LET n == Previous(st.act, k, i)
        Decided(s, r) ==
            CASE Type(k) = "added" -> OverlapAdded(s, k, i, r)
              [] Type(k) = "removed" -> OverlapRemoved(s, k, i, r)
              [] Type(k) = "restored" -> OverlapRestored(s, k, i)
        Counted(s) ==
            [s EXCEPT !.dsi = UpdateDSI(@, Size[Files(k)[i].dig], prev[k][i], s.fixup, s.act[k][i])]
    IN IF XFA_SKIPPING(st.act[k][i]) THEN st
       ELSE Counted(Decided([st EXCEPT !.fixup = -1],
                            IF n = 0 THEN <<>> ELSE RecordsOf(Files(k)[i].path)[n]))

\* adj_fs_blocks()
AdjFsBlocks(n) == (n * 21) \div 20

\* rpmtsCheckDSIProblems()
CheckDSIProblems(st, k) ==
    LET short == /\ AdjFsBlocks(st.dsi.need) > sys.avail
                 /\ st.dsi.need > st.dsi.old
    IN [st EXCEPT
           !.probs = IF short THEN @ \cup {Problem("DISKSPACE", k, "none")} ELSE @,
           !.dsi = [need |-> @.need - @.delta, delta |-> 0,
                    old |-> IF short THEN @.need ELSE @.old]]

\* rpmtsPrepare(), last loop: one element
HandleOverlappedFiles ==
    /\ pc = "overlap" /\ pos \in Elements
    /\ \E st \in {FoldLeft(LAMBDA s, i : OverlapFile(s, pos, i),
                           [act |-> act, probs |-> probs, dsi |-> dsi, fixup |-> -1],
                           [i \in DOMAIN Files(pos) |-> i])} :
       \E checked \in {IF Type(pos) = "added" /\ "DISKSPACE" \notin sys.opts
                       THEN CheckDSIProblems(st, pos) ELSE st} :
          act' = checked.act /\ probs' = checked.probs /\ dsi' = checked.dsi
    /\ pos' = pos + 1
    /\ UNCHANGED <<sys, db, disk, repl, prev, recs, failed, used, test, pc>>

\* rpmtsRun() after rpmtsPrepare(): problems end it, and so does a test run
Prepared ==
    /\ pc = "overlap" /\ pos \notin Elements
    /\ pc' = IF test \/ probs # {} THEN "done" ELSE "process"
    /\ pos' = 1
    /\ UNCHANGED <<sys, db, disk, decisions, failed, used, test>>

\* A test run that found nothing is followed by the real one on the same
\* transaction set; someone may have edited a file in the meantime.  The list
\* of replaced files and the replaced sizes are those of the test run.
RunAgain ==
    /\ pc = "done" /\ test /\ probs = {}
    /\ test' = FALSE /\ pc' = "reset" /\ pos' = 1
    /\ dsi' = [need |-> 0, delta |-> 0, old |-> 0]
    /\ \/ disk' = disk
       \/ \E p \in sys.edits : disk' = [disk EXCEPT ![p][""] =
                                          [what |-> "REG", dig |-> "user"]]
    /\ UNCHANGED <<sys, db, act, repl, prev, recs, probs, failed, used>>

----------------------------------------------------------------------------
(* Processing the elements. *)

\* Blocks on a disk
Blocks(d) == MapThenSumSet(LAMBDA x : Size[d[x[1]][x[2]].dig], Paths \X SaveNames)

Put(d, p, suffix, c) == [d EXCEPT ![p][suffix] = c]
Rename(d, p, suffix) ==
    [d EXCEPT ![p] = [@ EXCEPT ![suffix] = d[p][""], ![""] = Nothing]]

Empty(d, dir) == \A p \in Paths, s \in SaveNames :
                     DirOf[p] = dir => d[p][s] = Nothing

\* fsmBackup()
Backup(d, f, a) ==
    IF "GHOST" \in f.flags THEN d
    ELSE CASE a = "SAVE" -> Rename(d, f.path, ".rpmsave")
           [] a = "BACKUP" -> Rename(d, f.path, ".rpmorig")
           [] OTHER -> d

\* What rpmPackageFilesInstall() leaves of one file when it succeeds.  A
\* directory stays if there is one, or a link to one.
InstallFile(d, f, a) ==
    LET dir == DirOf[f.path]
        saved == Backup(d, f, a)
        there == On(saved, f.path)
        made == IF dir \in Paths /\ On(saved, dir) = Nothing
                THEN Put(saved, dir, "", [what |-> "XDIR", dig |-> "dir"])
                ELSE saved
    IN IF "GHOST" \in f.flags \/ XFA_SKIPPING(a) THEN d
       ELSE IF a = "TOUCH" /\ On(d, f.path) # Nothing THEN d
       ELSE IF f.what = "XDIR" /\ LeadsToDir(there) THEN saved
       ELSE Put(made, f.path, IF a = "ALTNAME" THEN ".rpmnew" ELSE "", Content(f))

\* The calls of it that must succeed: renaming what is to be saved, and renaming
\* a file over something that is no directory.
CanInstall(d, f, a) ==
    "GHOST" \notin f.flags =>
        /\ a \in {"SAVE", "BACKUP"} => On(d, f.path) # Nothing
        /\ a = "CREATE" /\ f.what # "XDIR" => On(d, f.path).what # "XDIR"

\* rpmPackageFilesRemove(), one file: errors are ignored.
RemoveFile(d, f, a) ==
    LET there == On(d, f.path)
    IN IF XFA_SKIPPING(a) \/ there = Nothing THEN d
       ELSE IF a = "ERASE"
       THEN IF there.what = "XDIR" /\ ~Empty(d, f.path) THEN d
            ELSE Put(d, f.path, "", Nothing)
       ELSE Backup(d, f, a)

Account(d) ==
    used' = LET now == Blocks(d) - Blocks(disk) + used.now
            IN [now |-> now, most |-> IF now > used.most THEN now ELSE used.most]

\* rpmteMarkFailed(): the removals that depend on element k fail with it
Fail(k) == failed' = failed \cup {k} \cup {e \in Elements : sys.order[e].dep = k}

\* rpmPackageInstall(): the files, then the database.  The room taken is at its
\* most before the old files are replaced.
Install ==
    /\ pc = "process" /\ pos \in Elements \ failed /\ Type(pos) = "added"
    /\ LET fs == Files(pos)
           Step(d, i) == InstallFile(d, fs[i], act[pos][i])
           temporary == MapThenSumSet(LAMBDA i : Size[fs[i].dig],
                            {i \in DOMAIN fs : /\ "GHOST" \notin fs[i].flags
                                               /\ XFA_CREATING(act[pos][i])})
       IN /\ \A i \in DOMAIN fs : CanInstall(disk, fs[i], act[pos][i])
          /\ disk' = FoldLeft(Step, disk, [i \in DOMAIN fs |-> i])
          /\ used' = [now |-> used.now + Blocks(disk') - Blocks(disk),
                      most |-> Max({used.most, used.now + temporary})]
          /\ db' = (sys.order[pos].pkg :>
                       [i \in DOMAIN fs |-> FileState(act[pos][i])]) @@ db
    /\ pc' = "replaced"
    /\ UNCHANGED <<sys, decisions, failed, test, pos>>

\* markReplacedFiles(): the packages whose files were replaced are read once per
\* run of entries for them, and the entries followed as long as they match.
MarkReplacedFiles(d, list) ==
    LET pkgs == [i \in DOMAIN list |-> list[i].pkg]
        offsets == SelectSeq([i \in DOMAIN list |-> i],
                             LAMBDA i : i = 1 \/ pkgs[i] # pkgs[i - 1])
        RunEnd(i, p) == Max({j \in (i - 1)..Len(list) :
                               \A n \in i..j : pkgs[n] = p})
        Step(st, o) ==
            LET p == pkgs[o]
                end == RunEnd(st.next, p)
            IN IF p \notin DOMAIN st.db THEN st
               ELSE [next |-> end + 1,
                     db |-> [st.db EXCEPT ![p] =
                         FoldLeft(LAMBDA s, n : [s EXCEPT ![list[n].file] = list[n].state],
                                  @, [n \in 1..(end + 1 - st.next) |-> st.next + n - 1])]]
    IN FoldLeft(Step, [next |-> 1, db |-> d], offsets).db

\* The end of rpmPackageInstall()
MarkReplaced ==
    /\ pc = "replaced"
    /\ db' = MarkReplacedFiles(db, repl[pos])
    /\ pc' = "process" /\ pos' = pos + 1
    /\ UNCHANGED <<sys, disk, decisions, failed, used, test>>

\* A trigger fails after the package is in the database
TriggerFails ==
    /\ pc = "replaced" /\ sys.faults
    /\ Fail(pos)
    /\ pc' = "process" /\ pos' = pos + 1
    /\ UNCHANGED <<sys, db, disk, decisions, used, test>>

\* rpmPackageErase(): the files from the last to the first, then the database
Erase ==
    /\ pc = "process" /\ pos \in Elements \ failed /\ Type(pos) = "removed"
    /\ LET fs == Files(pos)
           Step(i, d) == RemoveFile(d, fs[i], act[pos][i])
       IN disk' = FoldRight(Step, [i \in DOMAIN fs |-> i], disk)
    /\ Account(disk')
    /\ db' = [p \in DOMAIN db \ {sys.order[pos].pkg} |-> db[p]]
    /\ pos' = pos + 1
    /\ UNCHANGED <<sys, decisions, failed, test, pc>>

\* rpmPackageRestore(): metadata only
Restore ==
    /\ pc = "process" /\ pos \in Elements \ failed /\ Type(pos) = "restored"
    /\ pos' = pos + 1
    /\ UNCHANGED <<sys, db, disk, decisions, failed, used, test, pc>>

\* A scriptlet fails before the files are touched, or laying them down fails
ElementFails ==
    /\ pc = "process" /\ pos \in Elements \ failed
    /\ \/ sys.faults
       \/ /\ Type(pos) = "added"
          /\ ~ \A i \in DOMAIN Files(pos) : CanInstall(disk, Files(pos)[i], act[pos][i])
    /\ Fail(pos)
    /\ pos' = pos + 1
    /\ UNCHANGED <<sys, db, disk, decisions, used, test, pc>>

SkipFailed ==
    /\ pc = "process" /\ pos \in failed
    /\ pos' = pos + 1
    /\ UNCHANGED <<sys, db, disk, decisions, failed, used, test, pc>>

Finish ==
    /\ pc = "process" /\ pos \notin Elements
    /\ pc' = "done"
    /\ UNCHANGED <<sys, db, disk, decisions, failed, used, test, pos>>

Stopped == pc = "done" /\ (~test \/ probs # {}) /\ UNCHANGED vars

Next ==
    \/ ResetAndSkip \/ CheckInstalledFiles \/ HandleOverlappedFiles \/ Prepared
    \/ RunAgain \/ Install \/ MarkReplaced \/ TriggerFails \/ Erase \/ Restore
    \/ ElementFails \/ SkipFailed \/ Finish \/ Stopped

Spec == Init /\ [][Next]_vars

----------------------------------------------------------------------------
(* Properties. *)

\* Everything the database calls NORMAL is on the disk as the package has it.
AsRecorded(states, d, relevant(_)) ==
    \A p \in DOMAIN states : \A i \in DOMAIN states[p] :
        LET f == sys.files[p][i]
        IN states[p][i] = "NORMAL" /\ relevant(f) => d[f.path] = Content(f)

NotGhost(f) == "GHOST" \notin f.flags
NotConfig(f) ==     \* nor in any other package
    /\ NotGhost(f)
    /\ \A p \in DOMAIN sys.files : \A i \in DOMAIN sys.files[p] :
          sys.files[p][i].path = f.path => "CONFIG" \notin sys.files[p][i].flags
Here == [p \in Paths |-> On(disk, p)]

TypeOK ==
    /\ \A p \in DOMAIN db : DOMAIN db[p] = DOMAIN sys.files[p]
    /\ \A k \in Elements : DOMAIN act[k] = DOMAIN Files(k)
    /\ failed \subseteq Elements /\ pos \in 1..(Len(sys.order) + 1)
    /\ pc \in {"reset", "installed", "overlap", "process", "replaced", "done"}

\* A transaction without failures never takes a file away from a package that
\* is installed when it is over: what handleOverlappedFiles() and
\* checkInstalledFiles() decide pair by pair adds up.  (A %config file the user
\* modified may be left as .rpmsave only: an earlier removal of another package
\* that had it saves it before an upgrade that keeps it comes by.)
OwnedFilesStay ==
    pc = "done" /\ failed = {} =>
        \A p \in DOMAIN db : \A i \in DOMAIN db[p] :
            LET f == sys.files[p][i]
            IN /\ db[p][i] = "NORMAL"
               /\ f.flags \cap {"GHOST", "MISSINGOK"} = {}
               /\ p \in DOMAIN sys.db => sys.disk[f.path] # Nothing
               => \/ On(disk, f.path) # Nothing
                  \/ "CONFIG" \in f.flags /\ disk[f.path][".rpmsave"].dig = "user"

\* A transaction without failures leaves the record true: if the disk was as
\* the database said, it is so again, files of other packages that were
\* overwritten being marked REPLACED or WRONGCOLOR (markReplacedFiles()).
RecordStaysTrue ==
    /\ pc = "done" /\ failed = {}
    /\ "REPLACENEW" \notin sys.opts /\ sys.edits = {}
    /\ AsRecorded(sys.db, sys.disk, NotGhost)
    => AsRecorded(db, Here, NotConfig)

\* Whatever fails, a configuration file the user has written survives under
\* its own name or as .rpmsave or .rpmorig: rpmfilesDecideFate() and
\* rpmfilesConfigConflict().
UserConfigKept ==
    \A p \in Paths :
        /\ sys.disk[p].dig = "user"
        /\ "REPLACENEW" \notin sys.opts
        /\ \A q \in DOMAIN sys.files : \A i \in DOMAIN sys.files[q] :
              sys.files[q][i].path = p => "CONFIG" \in sys.files[q][i].flags
        => \E s \in SaveNames : disk[p][s].dig = "user"

\* A transaction without failures or force leaves no unmodified file behind that
\* only removed packages had.  (If one of them had lost it to another, or has it
\* as a %ghost %config, its SKIP or SAVE keeps the others from erasing it.)
LeftoversGone ==
    /\ pc = "done" /\ ~test /\ failed = {} /\ probs = {}
    /\ "REPLACEOLD" \notin sys.opts
    =>
        \A path \in Paths :
            LET Having(p) == {i \in DOMAIN sys.files[p] : sys.files[p][i].path = path}
            IN /\ \E p \in RemovedPackages : Having(p) # {}
               /\ \A p \in RemovedPackages : \A i \in Having(p) :
                     LET f == sys.files[p][i]
                     IN /\ sys.db[p][i] = "NORMAL" /\ f.policy = "none"
                        /\ f.what # "XDIR" /\ sys.disk[path] = Content(f)
                        /\ ~({"GHOST", "CONFIG"} \subseteq f.flags)
               /\ \A p \in DOMAIN db : \A i \in Having(p) : db[p][i] # "NORMAL"
               => On(disk, path) = Nothing

\* When no problem is reported the transaction fits on the disk at any time:
\* the running estimate of rpmtsUpdateDSI() is no less than what is used, for
\* a disk that is as recorded and packages that do not overlap.
SpaceSuffices ==
    /\ pc \in {"process", "replaced", "done"} /\ ~test /\ failed = {}
    /\ "DISKSPACE" \notin sys.opts
    /\ AsRecorded(sys.db, sys.disk, NotGhost) /\ sys.edits = {}
    /\ \A r, q \in Range(recs) : /\ r # q
                                 /\ Type(r[1]) = "added" /\ Type(q[1]) = "added"
                                 => Files(r[1])[r[2]].path # Files(q[1])[q[2]].path
    => used.most <= sys.avail
=============================================================================
