---------------------------- MODULE FileTriggers ----------------------------
(***************************************************************************)
(* File triggers: lib/rpmtriggers.cc and the places of lib/psm.cc and      *)
(* lib/transaction.cc that call it.  A package may carry scriptlets that   *)
(* run when files under a path prefix are installed or removed, by any     *)
(* package of a transaction ("file" triggers, run around each element) or  *)
(* once for the whole transaction ("trans" triggers).  Which scriptlets    *)
(* run, and with which files, is found out from the database as it is at   *)
(* that moment, so it depends on what has been recorded and removed        *)
(* before.  Everything else an element does is modelled in Transaction;    *)
(* here only its database record and its failing before it are kept, with  *)
(* all trigger flags at their defaults.                                    *)
(*                                                                         *)
(* A package is a record [name, files, triggers]; a file [dir, path, skip] *)
(* where skip says that the transaction decided not to create it; a        *)
(* trigger [tm, sense, prefixes, prio].                                    *)
(***************************************************************************)
EXTENDS Integers, Sequences, FiniteSets, SequencesExt, FiniteSetsExt

CONSTANTS
    Packages,   \* package version |-> [name, files, triggers]
    Olds,       \* the versions that may be installed at the start (a sequence)
    News        \* the versions a transaction may install

VARIABLES
    db,         \* instance number of each recorded package (a function)
    order,      \* elements in processing order: [type, id]
    pos,        \* the element being processed
    stage,      \* where rpmtsRun or rpmpsmRun is
    installed,  \* ts->members->installedPackages
    removed,    \* ts->members->removedPackages
    trigs2run,  \* ts->trigs2run: {[id, num, tix, prio]}
    failed,     \* elements that failed
    start,      \* history: the packages recorded at the start
    ran         \* history: scriptlet runs and erasures, in order

vars == <<db, order, pos, stage, installed, removed, trigs2run, failed, start, ran>>

Bound == 10000      \* TRIGGER_PRIORITY_BOUND

Trigger(id, tix) == Packages[id].triggers[tix]
Recorded == DOMAIN db
Num(id) == db[id]

(* rpmfilesFindPrefix: a path starts with the prefix.  The index of        *)
(* directories knows directories only.                                     *)
Matches(pfx, f) == pfx \in {f.dir, f.path}
DirMatches(pfx, f) == pfx = f.dir
SomeDir(pfx, id) == \E f \in Packages[id].files : DirMatches(pfx, f)

-----------------------------------------------------------------------------
(* getTrigPriority and the order of std::set<triggerInfo>.                 *)
Found(id, tix) == [id |-> id, num |-> Num(id), tix |-> tix, prio |-> Trigger(id, tix).prio]
Before(a, b) ==
    \/ a.prio > b.prio
    \/ a.prio = b.prio /\ a.num < b.num
    \/ a.prio = b.prio /\ a.num = b.num /\ a.tix < b.tix
Sorted(S) == SortSeq(FoldSet(LAMBDA x, s : Append(s, x), <<>>, S), Before)
InClass(class, t) ==
    CASE class = 1 -> t.prio >= Bound
      [] class = 2 -> t.prio < Bound
      [] OTHER -> TRUE

(* matchFilesInPkg, matchFilesInTran.                                      *)
MatchFilesInPkg(te, pfx) == \E f \in Packages[te].files : Matches(pfx, f)
TranPkgs(sense) == (IF sense = "in" THEN installed ELSE removed) \cap Recorded
MatchFilesInTran(sense, pfx) == \E id \in TranPkgs(sense) : SomeDir(pfx, id)

(* Mutant: the new version answers for what is about to go, too.           *)
(* skipFileTrigger: which of the two versions of a package that is being   *)
(* upgraded answers.                                                       *)
SkipFileTrigger(tm, sense, id) ==
    CASE tm = "trans" -> id \in removed \cup installed
      [] sense \in {"postun", "in"} -> id \in removed
      [] sense = "un" -> id \in installed

(* matchFilesNext over the files of one element, skipped ones left out;    *)
(* over the database, where a file counts by the state it is recorded      *)
(* with.  An element that is open has its files in memory, without states  *)
(* when they come from the package: these are never INSTALLED.             *)
FilesInTe(te, t) ==
    {<<te, f>> : f \in {g \in Packages[te].files : ~g.skip /\ \E p \in t.prefixes : Matches(p, g)}}
\* Mutant: the files of an element that is open have their states, too.
OpenNever(id) == FALSE
Open(id) == pos \in DOMAIN order /\ order[pos] = [type |-> "add", id |-> id]
FilesInDB(ids, t) ==
    UNION {{<<id, f>> : f \in {g \in Packages[id].files :
                                 /\ ~g.skip /\ ~Open(id)
                                 /\ \E p \in t.prefixes : SomeDir(p, id) /\ Matches(p, g)}} : id \in ids}

(* runHandleTriggersInPkg: nothing when the trigger is of another sense or *)
(* no file matches, else a run of the scriptlet with the files on stdin.   *)
HandleTriggerInPkg(id, tix, sense, files) ==
    IF Trigger(id, tix).sense = sense /\ files # {}
    THEN <<[id |-> id, tix |-> tix, files |-> files]>> ELSE <<>>

(* runFileTriggers: the triggers of recorded packages.                     *)
RunFileTriggers(te, tm, sense, class) ==
    LET Fires(t) == t.tm = tm /\ \E p \in t.prefixes :
                       IF tm = "file" THEN MatchFilesInPkg(te, p) ELSE MatchFilesInTran(sense, p)
        triggers == UNION {{Found(id, tix) : tix \in {i \in DOMAIN Packages[id].triggers : Fires(Trigger(id, i))}}
                             : id \in {r \in Recorded : ~SkipFileTrigger(tm, sense, r)}}
        Run(t) == HandleTriggerInPkg(t.id, t.tix, sense,
                      IF tm = "file" THEN FilesInTe(te, Trigger(t.id, t.tix))
                                     ELSE FilesInDB(TranPkgs(sense), Trigger(t.id, t.tix)))
    IN FlattenSeq([i \in DOMAIN Sorted(triggers) |->
          IF InClass(class, Sorted(triggers)[i]) THEN Run(Sorted(triggers)[i]) ELSE <<>>])

(* runImmedFileTriggers: the triggers of the element itself, against the   *)
(* files of all recorded packages.                                         *)
RunImmedFileTriggers(te, tm, sense, class) ==
    LET triggers == {[id |-> te, num |-> 0, tix |-> tix, prio |-> Trigger(te, tix).prio]
                       : tix \in {i \in DOMAIN Packages[te].triggers : Trigger(te, i).tm = tm}}
        Run(t) == HandleTriggerInPkg(te, t.tix, sense, FilesInDB(Recorded, Trigger(te, t.tix)))
    IN FlattenSeq([i \in DOMAIN Sorted(triggers) |->
          IF InClass(class, Sorted(triggers)[i]) THEN Run(Sorted(triggers)[i]) ELSE <<>>])

(* Mutant: only triggers of packages that were there before are kept.      *)
(* rpmtriggersPrepPostUnTransFileTrigs with addTriggers: before the record *)
(* of an erased package goes, keep which triggers its files set off.       *)
PrepPostUnTransFileTrigs(te) ==
    UNION {{Found(id, tix) : tix \in {i \in DOMAIN Packages[id].triggers :
              LET t == Trigger(id, i) IN
              /\ t.tm = "trans" /\ t.sense = "postun"
              /\ \E p \in t.prefixes : \E f \in Packages[te].files : Matches(p, f) /\ ~f.skip}}
              : id \in Recorded}

(* runPostUnTransFileTrigs: a package whose record is gone is passed over. *)
RunPostUnTransFileTrigs ==
    LET todo == Sorted({t \in trigs2run : t.id \in Recorded /\ Num(t.id) = t.num})
    IN [i \in DOMAIN todo |-> [id |-> todo[i].id, tix |-> todo[i].tix, files |-> {}]]

-----------------------------------------------------------------------------
(* rpmtsOrder, modelled in Order: installations first, then erasures.      *)
Orders(adds, rems) ==
    {a \o r : a \in SetToSeqs({[type |-> "add", id |-> x] : x \in adds}),
              r \in SetToSeqs({[type |-> "rem", id |-> x] : x \in rems})}
SameName(a, b) == Packages[a].name = Packages[b].name

(* An old version is removed when a new one comes (rpmtsAddInstallElement) *)
(* and may be removed by request.                                          *)
Init ==
    /\ \E old \in SUBSET Range(Olds), adds \in SUBSET News :
         \E rems \in {r \in SUBSET old : \A o \in old : (\E n \in adds : SameName(o, n)) => o \in r} :
           /\ adds \cup rems # {}
           /\ order \in Orders(adds, rems)
           /\ removed = rems
           /\ start = old
           /\ db = [o \in old |-> CHOOSE i \in DOMAIN Olds : Olds[i] = o]
    /\ pos = 0 /\ stage = "transun" /\ installed = {} /\ trigs2run = {} /\ failed = {} /\ ran = <<>>

InOrder(type) == SelectSeq(order, LAMBDA e : e.type = type /\ e.id \notin failed)

(* rpmtsRun before the elements: %transfiletriggerun of packages that are  *)
(* not in the transaction, then of the ones being removed.                 *)
TransUn ==
    /\ stage = "transun"
    /\ ran' = RunFileTriggers("", "trans", "un", 0)
              \o FlattenSeq([i \in DOMAIN InOrder("rem") |->
                    RunImmedFileTriggers(InOrder("rem")[i].id, "trans", "un", 0)])
    /\ stage' = "next"
    /\ UNCHANGED <<db, order, pos, installed, removed, trigs2run, failed, start>>

(* The next element; a failed one is passed over (rpmteOpen).              *)
NextElement ==
    /\ stage = "next"
    /\ pos' = pos + 1
    /\ stage' = IF pos = Len(order) THEN "transin"
                ELSE IF order[pos + 1].id \in failed THEN "next"
                ELSE order[pos + 1].type
    /\ UNCHANGED <<db, order, installed, removed, trigs2run, failed, start, ran>>

Te == order[pos].id

(* Anything that stops an element before its record changes; the erasures  *)
(* of the versions it replaces fail with it (rpmteMarkFailed).             *)
Fails ==
    /\ stage \in {"add", "rem lo"}
    /\ failed' = failed \cup {Te} \cup
                   (IF stage = "add" THEN {r \in removed : SameName(r, Te)} ELSE {})
    /\ stage' = "next"
    /\ UNCHANGED <<db, order, pos, installed, removed, trigs2run, start, ran>>

(* rpmPackageInstall: unpack and dbAdd.                                    *)
Add ==
    /\ stage = "add"
    /\ db' = [id \in Recorded \cup {Te} |->
                IF id = Te THEN 1 + Max({0} \cup {db[r] : r \in Recorded}) ELSE db[id]]
    /\ installed' = installed \cup {Te}
    /\ stage' = "in hi"
    /\ UNCHANGED <<order, pos, removed, trigs2run, failed, start, ran>>

(* %filetriggerin of any recorded package set off by the element, then its *)
(* own set off by any; high priorities before %post and low ones after it. *)
In(class, from, to) ==
    /\ stage = from
    /\ ran' = ran \o RunFileTriggers(Te, "file", "in", class)
                  \o RunImmedFileTriggers(Te, "file", "in", class)
    /\ stage' = to
    /\ UNCHANGED <<db, order, pos, installed, removed, trigs2run, failed, start>>
InHi == In(1, "in hi", "in lo")
InLo == In(2, "in lo", "next")

(* rpmPackageErase, around %preun: the other way round.                    *)
Un(class, from, to) ==
    /\ stage = from
    /\ ran' = ran \o RunImmedFileTriggers(Te, "file", "un", class)
                  \o RunFileTriggers(Te, "file", "un", class)
    /\ stage' = to
    /\ UNCHANGED <<db, order, pos, installed, removed, trigs2run, failed, start>>
UnHi == Un(1, "rem", "rem lo")
UnLo == Un(2, "rem lo", "erase")

(* The files go, then %filetriggerpostun around %postun.                   *)
Erase ==
    /\ stage = "erase"
    /\ ran' = Append(ran, [id |-> Te, tix |-> 0, files |-> {}])
                \o RunFileTriggers(Te, "file", "postun", 1)
                \o RunFileTriggers(Te, "file", "postun", 2)
    /\ stage' = "unrecord"
    /\ UNCHANGED <<db, order, pos, installed, removed, trigs2run, failed, start>>

Unrecord ==
    /\ stage = "unrecord"
    /\ trigs2run' = trigs2run \cup PrepPostUnTransFileTrigs(Te)
    /\ db' = [id \in Recorded \ {Te} |-> db[id]]
    /\ stage' = "next"
    /\ UNCHANGED <<order, pos, installed, removed, failed, start, ran>>

(* rpmtsRun after the elements.                                            *)
TransIn ==
    /\ stage = "transin"
    /\ ran' = ran \o RunFileTriggers("", "trans", "in", 0)
                  \o RunPostUnTransFileTrigs
                  \o FlattenSeq([i \in DOMAIN InOrder("add") |->
                       RunImmedFileTriggers(InOrder("add")[i].id, "trans", "in", 0)])
    /\ stage' = "end"
    /\ UNCHANGED <<db, order, pos, installed, removed, trigs2run, failed, start>>

Next == TransUn \/ NextElement \/ Fails \/ Add \/ InHi \/ InLo \/ UnHi \/ UnLo \/ Erase \/ Unrecord \/ TransIn

Spec == Init /\ [][Next]_vars

-----------------------------------------------------------------------------
Triggers(id, tm, sense) == {i \in DOMAIN Packages[id].triggers : Trigger(id, i).tm = tm /\ Trigger(id, i).sense = sense}
Seen(id, tix, x, f) == {i \in DOMAIN ran : ran[i].id = id /\ ran[i].tix = tix /\ <<x, f>> \in ran[i].files}
Runs(id, tix) == {i \in DOMAIN ran : ran[i].id = id /\ ran[i].tix = tix}
Erasure(x) == {i \in DOMAIN ran : ran[i].id = x /\ ran[i].tix = 0}
Wanted(id, tix, x) == {f \in Packages[x].files : ~f.skip /\ \E p \in Trigger(id, tix).prefixes : DirMatches(p, f)}
(* Nothing about the package went wrong: its old version is not left over  *)
(* from an upgrade that failed.                                            *)
Untroubled(id) == \A x \in failed : ~SameName(x, id)

(* After the transaction every package it installed has been shown to      *)
(* every installed %filetriggerin exactly once: file by file, whether the  *)
(* package of the trigger was there before, came earlier, later or in the  *)
(* same element, or was upgraded around it.                                *)
InstalledFilesSeen ==
    stage = "end" =>
      \A id \in {r \in Recorded : Untroubled(r)}, x \in installed :
        \A tix \in Triggers(id, "file", "in") :
          \A f \in Wanted(id, tix, x) : Cardinality(Seen(id, tix, x, f)) = 1

(* The files of a removed package have been shown to every %filetriggerun  *)
(* that was installed at the start before they went, and every             *)
(* %filetriggerpostun still installed once after.                          *)
RemovedFilesSeen ==
    stage = "end" =>
      \A x \in removed \ failed : \A e \in Erasure(x) :
        /\ \A id \in start : Untroubled(id) =>
             \A tix \in Triggers(id, "file", "un") : \A f \in Wanted(id, tix, x) :
               \E i \in Seen(id, tix, x, f) : i < e
        /\ \A id \in Recorded : Untroubled(id) =>
             \A tix \in Triggers(id, "file", "postun") : \A f \in Wanted(id, tix, x) :
               /\ Cardinality(Seen(id, tix, x, f)) = 1
               /\ \A i \in Seen(id, tix, x, f) : e < i

(* A transaction trigger runs once, however many packages set it off, and  *)
(* does run when one did: %transfiletriggerin of what is installed at the  *)
(* end, %transfiletriggerun of what was at the start, and of               *)
(* %transfiletriggerpostun the version that stays.                         *)
TransTriggersOnce ==
    stage = "end" =>
      /\ \A id \in Recorded \cup start : \A tix \in DOMAIN Packages[id].triggers :
           Trigger(id, tix).tm = "trans" => Cardinality(Runs(id, tix)) <= 1
      /\ \A id \in Recorded : Untroubled(id) =>
           /\ \A tix \in Triggers(id, "trans", "in") :
                (\E x \in installed : Wanted(id, tix, x) # {}) => Runs(id, tix) # {}
           /\ \A tix \in Triggers(id, "trans", "postun") :
                (\E x \in removed \ failed : Wanted(id, tix, x) # {}) => Runs(id, tix) # {}
      /\ \A id \in start : \A tix \in Triggers(id, "trans", "un") :
           (\E x \in removed : Wanted(id, tix, x) # {}) => Runs(id, tix) # {}
=============================================================================
