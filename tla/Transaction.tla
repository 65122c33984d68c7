---------------------------- MODULE Transaction ----------------------------
(***************************************************************************)
(* Running a transaction set: rpmtsRun() of lib/transaction.cc with the    *)
(* package state machine of lib/psm.cc and the element bookkeeping of      *)
(* lib/rpmte.cc.  One behaviour is one call of rpmtsRun().                 *)
(*                                                                         *)
(* The elements are processed in order; an element is a sequence of steps  *)
(* (scriptlets, triggers, unpacking or erasing, database updates), and     *)
(* what a step does to the world is left to the environment: a scriptlet   *)
(* exits zero or not, a call fails or not, and the process may be killed   *)
(* between any two steps.  Every package has every kind of scriptlet (one  *)
(* that is absent behaves as one that exits zero).                         *)
(***************************************************************************)
EXTENDS Integers, Sequences, FiniteSets

CONSTANTS
    Order,       \* the elements in processing order (tsmem->order)
    Kind,        \* Kind[e]: "added", "removed" or "restored"
    DependsOn,   \* DependsOn[e]: the element a removal belongs to, or NoElem
    Name,        \* Name[e]: package name
    Reinstalled, \* added elements with the same NEVRA in the database, when
                 \* RPMPROB_FILTER_REPLACEPKG lets them through
    FlagSets,    \* the transaction flags to run with
    Chroot,      \* rootDir is not "/": rpmChrootIn() does something, may fail
    NoElem

Elems == {Order[i] : i \in 1..Len(Order)}

Added == {e \in Elems : Kind[e] = "added"}
Removed == {e \in Elems : Kind[e] = "removed"}

\* The elements with a record in the database before the transaction
Installed == (Elems \ Added) \cup Reinstalled

\* Erasures that belong to an install come after it (rpmtsOrder() puts the
\* removals last), and one that depends on nothing is a plain erase.
ASSUME TransactionAssumption ==
    /\ Order \in Seq(Elems)
    /\ Kind \in [Elems -> {"added", "removed", "restored"}]
    /\ DependsOn \in [Elems -> Added \cup {NoElem}]
    /\ NoElem \notin Elems
    /\ Reinstalled \subseteq Added
    /\ Chroot \in BOOLEAN
    /\ \A i, j \in 1..Len(Order) :
         /\ i # j => Order[i] # Order[j]
         /\ Order[i] \in Added /\ DependsOn[Order[j]] = Order[i] => i < j

NoScripts == {"NOPRE", "NOPOST", "NOPREUN", "NOPOSTUN", "NOPRETRANS",
              "NOPOSTTRANS", "NOPREUNTRANS", "NOPOSTUNTRANS"}
NoTriggers == {"NOTRIGGERPREIN", "NOTRIGGERIN", "NOTRIGGERUN",
               "NOTRIGGERPOSTUN"}

\* Mutant: %postun runs before the files go.
EraseStepsPostunEarly ==
    <<"preun", "postun", "filetriggerun own lo", "erase", "dbremove">>

\* rpmPackageInstall(), rpmPackageErase(), rpmPackageRestore()
InstallSteps ==
    <<"sysusers", "triggerprein any", "triggerprein own", "pre", "unpack",
      "dbremove", "dbadd", "filetriggerin any hi", "filetriggerin own hi",
      "post", "triggerin any", "triggerin own", "filetriggerin any lo",
      "filetriggerin own lo", "markreplaced">>
EraseSteps ==
    <<"filetriggerun own hi", "filetriggerun any hi", "triggerun own",
      "triggerun any", "preun", "filetriggerun own lo", "filetriggerun any lo",
      "erase", "filetriggerpostun hi", "postun", "triggerpostun",
      "filetriggerpostun lo", "preptransfiletriggers", "dbremove">>
RestoreSteps == <<"unpack">>

Steps(e) ==
    CASE Kind[e] = "added" -> InstallSteps
      [] Kind[e] = "removed" -> EraseSteps
      [] Kind[e] = "restored" -> RestoreSteps

NSteps(e) == Len(Steps(e))

\* The flags that leave a step out.
DisabledBy(s) ==
    CASE s = "sysusers" -> {"NOSYSUSERS"}
      [] s \in {"triggerprein any", "triggerprein own"} -> {"NOTRIGGERPREIN"}
      [] s = "pre" -> {"NOPRE"}
      [] s = "post" -> {"NOPOST"}
      [] s = "preun" -> {"NOPREUN"}
      [] s = "postun" -> {"NOPOSTUN"}
      [] s \in {"dbremove", "dbadd"} -> {"NODB"}
      [] s \in {"filetriggerin any hi", "filetriggerin own hi",
                "triggerin any", "triggerin own", "filetriggerin any lo",
                "filetriggerin own lo"} -> {"NOTRIGGERIN"}
      [] s \in {"filetriggerun own hi", "filetriggerun any hi",
                "triggerun own", "triggerun any", "filetriggerun own lo",
                "filetriggerun any lo"} -> {"NOTRIGGERUN"}
      [] s \in {"filetriggerpostun hi", "triggerpostun",
                "filetriggerpostun lo"} -> {"NOTRIGGERPOSTUN"}
      [] s = "preptransfiletriggers" -> {"NOPOSTTRANS", "NOTRIGGERPOSTUN"}
      [] OTHER -> {}

\* RPMSCRIPT_FLAG_CRITICAL: a non-zero exit fails the element.  File triggers
\* never do.
Critical ==
    {"pretrans", "preuntrans", "sysusers", "triggerprein any",
     "triggerprein own", "pre", "triggerun own", "triggerun any", "preun"}

\* runTriggers() and runImmedTriggers() can fail without running anything when
\* the instances of a package cannot be counted.
NormalTriggers ==
    {"triggerprein any", "triggerprein own", "triggerin any", "triggerin own",
     "triggerun own", "triggerun any", "triggerpostun"}

NotScripts ==
    {"unpack", "dbremove", "dbadd", "markreplaced", "erase",
     "preptransfiletriggers"}

\* What the environment may make of a scriptlet: exit zero, exit non-zero, or
\* not be run at all.
Outcomes(s) ==
    {"ok", "fail"}
    \cup (IF s \in NormalTriggers \/ (Chroot /\ s # "sysusers")
          THEN {"notrun"} ELSE {})

\* The flags that leave out a phase of rpmtsRun()
PhaseDisabledBy(ph) ==
    CASE ph = "preuntrans" -> {"NOPREUNTRANS"}
      [] ph \in {"transfiletriggerun any", "transfiletriggerun"} ->
           {"NOPRETRANS", "NOTRIGGERUN"}
      [] ph = "posttrans" -> {"NOPOSTTRANS"}
      [] ph = "postuntrans" -> {"NOPOSTUNTRANS"}
      [] ph \in {"transfiletriggerin any", "transfiletriggerin"} ->
           {"NOPOSTTRANS", "NOTRIGGERIN"}
      [] ph = "transfiletriggerpostun any" -> {"NOPOSTTRANS", "NOTRIGGERPOSTUN"}
      [] OTHER -> {}

\* runTransScripts(): the elements a script phase goes over
PhaseElems(ph) ==
    IF ph \in {"preuntrans", "transfiletriggerun", "postuntrans"}
    THEN Removed ELSE Added

ScriptPhases ==
    {"pretrans", "preuntrans", "transfiletriggerun", "posttrans",
     "postuntrans", "transfiletriggerin"}
TriggerPhases ==
    {"transfiletriggerun any", "transfiletriggerin any",
     "transfiletriggerpostun any"}

\* rpmtsRun() after the checks, phase by phase
Successor(ph) ==
    CASE ph = "pretrans" -> "prepare"
      [] ph = "preuntrans" -> "transfiletriggerun any"
      [] ph = "transfiletriggerun any" -> "transfiletriggerun"
      [] ph = "transfiletriggerun" -> "process"
      [] ph = "process" -> "posttrans"
      [] ph = "posttrans" -> "postuntrans"
      [] ph = "postuntrans" -> "transfiletriggerin any"
      [] ph = "transfiletriggerin any" -> "transfiletriggerpostun any"
      [] ph = "transfiletriggerpostun any" -> "transfiletriggerin"
      [] ph = "transfiletriggerin" -> "final"

VARIABLES
    pc,          \* where rpmtsRun() is
    flags,       \* rpmtsFlags(ts)
    pos,         \* rpmtsi: position in Order
    step,        \* position in Steps(Order[pos]) while the element is open
    ok,          \* the element's result so far
    arg,         \* psm->scriptArg
    failed,      \* elements with te->failed > 0
    problems,    \* there are unfiltered problems
    nfailed,     \* elements rpmtsProcess() failed on, -1 before it
    scriptError, \* ts->scriptError
    rc,          \* what rpmtsRun() returns
    locks,       \* locks taken
    settings,    \* process settings changed: umask, SIGPIPE
    hooks,       \* <<"pre" or "post", "tsm" or element>>: plugin hooks called
    trigs,       \* ts->trigs2run is not empty
    db,          \* <<e, "old">> and <<e, "new">>: records in the database
    disk,        \* disk[e]: how much of e's files is there
    last,        \* history: the last scriptlet run, "none" before the first
    nonzero,     \* history: some scriptlet exited non-zero
    dberr        \* history: a database update failed without being reported

elemVars == <<pos, step, ok, arg>>
resultVars == <<failed, problems, nfailed, rc>>
worldVars == <<db, disk, dberr>>
scriptVars == <<scriptError, last, nonzero>>
ownVars == <<locks, settings, hooks>>
vars == <<pc, flags, elemVars, resultVars, worldVars, scriptVars, ownVars, trigs>>

Init ==
    /\ pc = "start"
    /\ flags \in FlagSets
    /\ pos = 1 /\ step = 0 /\ ok = TRUE /\ arg = 0
    /\ failed = {} /\ problems = FALSE /\ nfailed = -1 /\ rc = -1
    /\ scriptError = FALSE /\ last = "none" /\ nonzero = FALSE
    /\ locks = {} /\ settings = {} /\ hooks = {}
    /\ trigs = FALSE
    /\ db = {<<e, "old">> : e \in Installed}
    /\ disk = [e \in Elems |->
                 IF e \in Installed THEN "complete" ELSE "absent"]
    /\ dberr = FALSE

\* Mutants: the failure stays with the install; it goes the other way.
WithoutErasures(S) == S
WithInstalls(S) == S \cup {DependsOn[r] : r \in S \cap Removed}

\* rpmteMarkFailed(): the erasures that belong to a failed install fail too.
WithErasures(S) == S \cup {r \in Removed : DependsOn[r] \in S}

\* rpmdbCountPackages(); an index that cannot be read (-1) is left out.
CountPackages(n) == Cardinality({r \in db : Name[r[1]] = n})

----------------------------------------------------------------------------
\* rpmtsRun() up to the point where packages are touched

Start ==
    /\ pc = "start"
    /\ settings' = {"umask", "sigpipe"}
    /\ rc' = IF Order = <<>> THEN 0 ELSE rc
    /\ pc' = CASE Order = <<>> -> "exit"
               [] Order # <<>> /\ "TEST" \in flags -> "setup"
               [] OTHER -> "txnlock"
    /\ UNCHANGED <<flags, elemVars, failed, problems, nfailed, worldVars,
                   scriptVars, locks, hooks, trigs>>

\* Mutant: a lock that is not granted does not stop the run.
TakeLockOrNot(l, from, to) ==
    /\ pc = from /\ pc' = to
    /\ locks' \in {locks, locks \cup {l}}
    /\ UNCHANGED <<flags, elemVars, resultVars, worldVars, scriptVars, settings,
                   hooks, trigs>>

\* rpmtxnBegin(RPMTXN_WRITE), then rpmkxnBegin(RPMTXN_READ)
TakeLock(l, from, to) ==
    /\ pc = from
    /\ \/ pc' = to /\ locks' = locks \cup {l}
       \/ pc' = "exit" /\ UNCHANGED locks
    /\ UNCHANGED <<flags, elemVars, resultVars, worldVars, scriptVars, settings,
                   hooks, trigs>>

SetupFlags(fl) ==
    fl \cup (IF fl \cap {"NOSCRIPTS", "JUSTDB", "TEST"} # {}
            THEN NoScripts \cup NoTriggers ELSE {})
       \cup (IF "NOTRIGGERS" \in fl THEN NoTriggers ELSE {})

\* rpmtsSetup(): opening the database or setting the root may fail.
Setup ==
    /\ pc = "setup"
    /\ flags' = SetupFlags(flags)
    /\ pc' \in {"check", "exit"}
    /\ UNCHANGED <<elemVars, resultVars, worldVars, scriptVars, ownVars, trigs>>

\* A problem marks its element failed.
FindProblems(S) ==
    /\ problems' = (problems \/ S # {})
    /\ failed' = failed \cup WithErasures(S)

\* checkProblems(), then the TsmPre hooks
Check ==
    /\ pc = "check"
    /\ \E S \in SUBSET Elems : FindProblems(S)
    /\ hooks' = hooks \cup {<<"pre", "tsm">>}
    /\ \/ pc' = "exit"
       \/ pc' = IF \/ problems'
                   \/ flags \cap {"BUILD_PROBS", "NOPRETRANS"} # {}
                THEN "prepare" ELSE "pretrans"
    /\ pos' = 1
    /\ UNCHANGED <<flags, step, ok, arg, nfailed, rc, worldVars, scriptVars,
                   locks, settings, trigs>>

\* rpmtsPrepare(): file conflicts and disk space; then the final decision.
Prepare ==
    /\ pc = "prepare"
    /\ \/ /\ \E S \in SUBSET Elems : FindProblems(S)
          /\ IF problems' \/ "BUILD_PROBS" \in flags
             THEN pc' = "exit" /\ rc' = Len(Order)
             ELSE pc' = "preuntrans" /\ UNCHANGED rc
       \/ pc' = "exit" /\ UNCHANGED <<problems, failed, rc>>
    /\ pos' = 1
    /\ UNCHANGED <<flags, step, ok, arg, nfailed, worldVars, scriptVars, ownVars,
                   trigs>>

----------------------------------------------------------------------------
\* runScript(): a non-zero exit is remembered in ts->scriptError; only a
\* critical scriptlet's is returned.
RunScript(s, o) ==
    /\ last' = IF o = "notrun" THEN last ELSE s
    /\ nonzero' = (nonzero \/ o = "fail")
    /\ scriptError' = (scriptError \/ o = "fail")

ScriptOk(s, o) == o = "ok" \/ (o = "fail" /\ s \notin Critical)

NextPhase(ph) == pc' = Successor(ph) /\ pos' = 1

\* A phase its flags disable, and the end of the loop of one that is not.
LeavePhase ==
    /\ pc \in ScriptPhases \cup TriggerPhases \cup {"process"}
    /\ \/ PhaseDisabledBy(pc) \cap flags # {}
       \/ pc \notin TriggerPhases /\ pos > Len(Order)
    /\ step = 0
    /\ NextPhase(pc)
    /\ nfailed' = IF Successor(pc) = "process" THEN 0 ELSE nfailed
    /\ UNCHANGED <<flags, step, ok, arg, failed, problems, rc, worldVars,
                   scriptVars, ownVars, trigs>>

Running(ph) == pc = ph /\ PhaseDisabledBy(ph) \cap flags = {}

\* Mutant: the iterator does not move on from an element of the other kind.
ScriptPhaseStays(ph) ==
    /\ Running(ph) /\ pos <= Len(Order)
    /\ \E o \in Outcomes(ph) :
         IF Order[pos] \in PhaseElems(ph) THEN RunScript(ph, o)
                                        ELSE UNCHANGED scriptVars
    /\ pos' = IF Order[pos] \in PhaseElems(ph) THEN pos + 1 ELSE pos
    /\ UNCHANGED <<pc, flags, step, ok, arg, resultVars, worldVars, ownVars, trigs>>

\* One element of runTransScripts(): rpmteProcess() opens it, which a failed
\* element refuses and an unreadable header prevents.
ScriptPhase(ph) ==
    /\ Running(ph) /\ pos <= Len(Order)
    /\ LET e == Order[pos] IN
         \/ /\ e \notin PhaseElems(ph)
            /\ UNCHANGED <<failed, scriptVars>>
         \/ /\ e \in PhaseElems(ph)
            /\ failed' = failed \cup WithErasures({e})
            /\ UNCHANGED scriptVars
         \/ /\ e \in PhaseElems(ph) /\ e \notin failed
            /\ \E o \in Outcomes(ph) :
                 /\ RunScript(ph, o)
                 /\ failed' = failed \cup
                      (IF ScriptOk(ph, o) THEN {} ELSE WithErasures({e}))
    /\ pos' = pos + 1
    /\ UNCHANGED <<pc, flags, step, ok, arg, problems, nfailed, rc, worldVars,
                   ownVars, trigs>>

\* runFileTriggers() over the whole transaction, and runPostUnTransFileTrigs()
TriggerPhase(ph) ==
    /\ Running(ph)
    /\ IF ph = "transfiletriggerpostun any" /\ ~trigs
       THEN UNCHANGED scriptVars
       ELSE \E o \in Outcomes(ph) : RunScript(ph, o)
    /\ NextPhase(ph)
    /\ UNCHANGED <<flags, step, ok, arg, resultVars, worldVars, ownVars, trigs>>

----------------------------------------------------------------------------
\* rpmtsProcess(): one element at a time, rpmteProcess() and rpmpsmRun()

Processing == Running("process") /\ pos <= Len(Order)

Cur == Order[pos]

ElemFailed ==
    /\ failed' = failed \cup WithErasures({Cur})
    /\ nfailed' = nfailed + 1

\* rpmpsmNew(): the number of instances of the package after the operation
ScriptArg(e) ==
    CASE Kind[e] = "added" -> CountPackages(Name[e]) + 1
      [] Kind[e] = "removed" -> CountPackages(Name[e]) - 1
      [] OTHER -> 0

\* rpmteOpen() refuses a failed element and fails on an unreadable package.
OpenRefused ==
    /\ Processing /\ step = 0
    /\ ElemFailed
    /\ pos' = pos + 1
    /\ UNCHANGED <<pc, flags, step, ok, arg, problems, rc, worldVars, scriptVars,
                   ownVars, trigs>>

\* "Psm can't fail in test mode, just return early"
OpenTest ==
    /\ Processing /\ step = 0
    /\ Cur \notin failed /\ "TEST" \in flags
    /\ pos' = pos + 1
    /\ UNCHANGED <<pc, flags, step, ok, arg, resultVars, worldVars, scriptVars,
                   ownVars, trigs>>

\* Mutant: an element that has failed is opened all the same.
OpenAnyway ==
    /\ Processing /\ step = 0 /\ "TEST" \notin flags
    /\ arg' = ScriptArg(Cur)
    /\ hooks' = hooks \cup {<<"pre", Cur>>} /\ ok' = TRUE /\ step' = 1
    /\ UNCHANGED <<pc, flags, pos, resultVars, worldVars, scriptVars, locks,
                   settings, trigs>>

\* The PsmPre hooks run in the chroot; without it they are passed over.
Open ==
    /\ Processing /\ step = 0
    /\ Cur \notin failed /\ "TEST" \notin flags
    /\ arg' = ScriptArg(Cur)
    /\ \/ hooks' = hooks \cup {<<"pre", Cur>>} /\ ok' \in BOOLEAN
       \/ Chroot /\ ok' = TRUE /\ UNCHANGED hooks
    /\ step' = IF ok' THEN 1 ELSE NSteps(Cur) + 1
    /\ UNCHANGED <<pc, flags, pos, resultVars, worldVars, scriptVars, locks,
                   settings, trigs>>

\* rpmpsmUnpack(), rpmpsmRemove(): "complete" or "absent" when all goes well
MoveFiles(to) ==
    /\ \/ "JUSTDB" \in flags /\ ok' = TRUE /\ UNCHANGED disk
       \/ "JUSTDB" \notin flags /\ ok' = TRUE /\ disk' = [disk EXCEPT ![Cur] = to]
       \/ "JUSTDB" \notin flags /\ ok' = FALSE
          /\ disk' = [disk EXCEPT ![Cur] = "partial"]
       \/ Chroot /\ ok' = FALSE /\ UNCHANGED disk
    /\ UNCHANGED <<db, dberr, scriptVars, trigs>>

\* dbRemove(): a header that cannot be read is an error, a failed deletion is
\* not ("XXX return ret").  An install has nothing to remove unless it
\* replaces the same package.
DbRemove ==
    /\ \/ Cur \in Added \ Reinstalled /\ ok' = TRUE /\ UNCHANGED <<db, dberr>>
       \/ /\ Cur \notin Added \ Reinstalled
          /\ \/ ok' = TRUE /\ db' = db \ {<<Cur, "old">>} /\ UNCHANGED dberr
             \/ ok' = TRUE /\ dberr' = TRUE /\ UNCHANGED db
             \/ ok' = FALSE /\ UNCHANGED <<db, dberr>>
    /\ UNCHANGED <<disk, scriptVars, trigs>>

\* dbAdd(): when an index update fails the header has been stored already.
DbAdd ==
    /\ \/ ok' = TRUE /\ db' = db \cup {<<Cur, "new">>}
       \/ ok' = FALSE /\ db' \in {db, db \cup {<<Cur, "new">>}}
    /\ UNCHANGED <<disk, dberr, scriptVars, trigs>>

\* A scriptlet or trigger of the element.  rpmPackageErase() does not look at
\* the result of the first file triggers after the removal.
ElemScript(s) ==
    /\ \E o \in Outcomes(s) :
         /\ RunScript(s, o)
         /\ ok' = (ScriptOk(s, o) \/ s = "filetriggerpostun hi")
    /\ UNCHANGED <<worldVars, trigs>>

StepEffect(s) ==
    CASE DisabledBy(s) \cap flags # {} ->
           ok' = TRUE /\ UNCHANGED <<worldVars, scriptVars, trigs>>
      [] OTHER ->
           \/ s = "unpack" /\ MoveFiles("complete")
           \/ s = "erase" /\ MoveFiles("absent")
           \/ s = "dbremove" /\ DbRemove
           \/ s = "dbadd" /\ DbAdd
           \/ s = "markreplaced" /\ ok' = TRUE
              /\ UNCHANGED <<worldVars, scriptVars, trigs>>
           \/ s = "preptransfiletriggers" /\ ok' = TRUE
              /\ trigs' \in {trigs, TRUE} /\ UNCHANGED <<worldVars, scriptVars>>
           \/ s \notin NotScripts /\ ElemScript(s)

\* One step of rpmPackageInstall(), rpmPackageErase() or rpmPackageRestore():
\* "if (rc) break".
Step ==
    /\ Processing /\ step \in 1..NSteps(Cur)
    /\ StepEffect(Steps(Cur)[step])
    /\ step' = IF ok' THEN step + 1 ELSE NSteps(Cur) + 1
    /\ UNCHANGED <<pc, flags, pos, arg, resultVars, ownVars>>

\* The PsmPost hooks run even on failure.
Close ==
    /\ Processing /\ step = NSteps(Cur) + 1
    /\ \/ hooks' = hooks \cup {<<"post", Cur>>}
       \/ Chroot /\ UNCHANGED hooks
    /\ IF ok THEN UNCHANGED <<failed, nfailed>> ELSE ElemFailed
    /\ pos' = pos + 1 /\ step' = 0
    /\ UNCHANGED <<pc, flags, ok, arg, problems, rc, worldVars, scriptVars, locks,
                   settings, trigs>>

----------------------------------------------------------------------------
\* Mutant: only scriptlets count.
FinalScriptsOnly ==
    /\ pc = "final"
    /\ rc' = IF scriptError THEN -1 ELSE 0
    /\ pc' = "exit"
    /\ UNCHANGED <<flags, elemVars, failed, problems, nfailed, worldVars,
                   scriptVars, ownVars, trigs>>

Final ==
    /\ pc = "final"
    /\ rc' = IF nfailed # 0 \/ scriptError THEN -1 ELSE 0
    /\ pc' = "exit"
    /\ UNCHANGED <<flags, elemVars, failed, problems, nfailed, worldVars,
                   scriptVars, ownVars, trigs>>

\* The exit label: every path ends here.
Exit ==
    /\ pc = "exit"
    /\ hooks' = IF <<"pre", "tsm">> \in hooks
                THEN hooks \cup {<<"post", "tsm">>} ELSE hooks
    /\ locks' = {} /\ settings' = {}
    /\ pc' = "done"
    /\ UNCHANGED <<flags, elemVars, resultVars, worldVars, scriptVars, trigs>>

Returned == pc = "done" /\ UNCHANGED vars

Next ==
    \/ Start
    \/ TakeLock("txn", "txnlock", "keylock")
    \/ TakeLock("key", "keylock", "setup")
    \/ Setup
    \/ Check
    \/ Prepare
    \/ LeavePhase
    \/ \E ph \in ScriptPhases : ScriptPhase(ph)
    \/ \E ph \in TriggerPhases : TriggerPhase(ph)
    \/ OpenRefused
    \/ OpenTest
    \/ Open
    \/ Step
    \/ Close
    \/ Final
    \/ Exit
    \/ Returned

\* rpmtsRun() is sequential code: as long as it can take a step it does.
Spec == Init /\ [][Next]_vars /\ WF_vars(Next)

----------------------------------------------------------------------------
Slots == ScriptPhases \cup TriggerPhases
         \cup {InstallSteps[i] : i \in 1..Len(InstallSteps)}
         \cup {EraseSteps[i] : i \in 1..Len(EraseSteps)}

TypeOK ==
    /\ pc \in {"start", "txnlock", "keylock", "setup", "check", "prepare", "final",
               "exit", "done", "process"} \cup ScriptPhases \cup TriggerPhases
    /\ pos \in 1..(Len(Order) + 1)
    /\ step \in 0..16
    /\ ok \in BOOLEAN /\ problems \in BOOLEAN /\ scriptError \in BOOLEAN
    /\ trigs \in BOOLEAN /\ nonzero \in BOOLEAN /\ dberr \in BOOLEAN
    /\ arg \in Int /\ rc \in Int /\ nfailed \in Int
    /\ failed \subseteq Elems
    /\ locks \subseteq {"txn", "key"}
    /\ settings \subseteq {"umask", "sigpipe"}
    /\ hooks \subseteq {"pre", "post"} \X (Elems \cup {"tsm"})
    /\ db \subseteq Elems \X {"old", "new"}
    /\ disk \in [Elems -> {"absent", "partial", "complete"}]
    /\ last \in Slots \cup {"none"}

\* rpmteMarkFailed() and the order of installs and erasures: an old version
\* goes, from the database and from the file system, only when the version
\* that replaces it is recorded and unpacked.  As an invariant it also speaks
\* of a process killed at any point.
UpgradeKeepsAVersion ==
    \A r \in Removed : DependsOn[r] # NoElem =>
        /\ <<r, "old">> \notin db => <<DependsOn[r], "new">> \in db
        /\ disk[r] # "complete" => disk[DependsOn[r]] = "complete"

\* rpmPackageInstall() records a package after unpacking it and
\* rpmPackageErase() forgets it after erasing it: the database never lists
\* files that were not unpacked nor misses files that were not erased.
RecordFollowsFiles ==
    "JUSTDB" \notin flags =>
        /\ \A e \in Added : <<e, "new">> \in db => disk[e] = "complete"
        /\ \A e \in Removed : <<e, "old">> \notin db => disk[e] = "absent"

\* "Non-zero exit prevents the installation of the containing package"
\* (rpm-scriptlets(7)): once an element has failed, by its own %pretrans, %pre
\* or %preun, by a problem, or because the install it belongs to failed, the
\* rest of the run does not touch its files or its record.
FailedIsLeftAlone ==
    [][\A e \in failed :
         /\ disk'[e] = disk[e]
         /\ \A v \in {"old", "new"} : <<e, v>> \in db' <=> <<e, v>> \in db]_vars

\* rpmtsRun() changes files and database only while it has the transaction
\* lock and the keyring lock.
ChangesUnderLocks ==
    [][db' # db \/ disk' # disk => locks = {"txn", "key"}]_vars

\* A zero result means that no scriptlet failed ("A non-zero exit code from any
\* scriptlet will be reflected as an error in the transaction result code",
\* rpm-scriptlets(7)), and that every install is recorded and every erasure is
\* gone, save for a database error nobody reports.
SuccessMeansDone ==
    pc = "done" /\ rc = 0 =>
       /\ ~nonzero
       /\ flags \cap {"TEST", "NODB"} = {} /\ ~dberr =>
            db = {<<e, IF e \in Added THEN "new" ELSE "old">> : e \in Elems \ Removed}

\* A failure stops "further processing related to that package, not the whole
\* transaction" (rpm-scriptlets(7)): what has not failed has been done.
FailureIsContained ==
    /\ pc = "done" /\ nfailed >= 0
    /\ flags \cap {"TEST", "NODB"} = {}
    => /\ \A e \in Added \ failed : <<e, "new">> \in db
       /\ \A e \in Removed \ failed : <<e, "old">> \notin db \/ dberr

\* "Post hook is guaranteed to execute whenever pre hook was executed"
\* (plugins.md), for the transaction and element hooks, as long as the chroot
\* can be entered.
HooksPaired ==
    pc = "done" /\ ~Chroot =>
        \A h \in Elems \cup {"tsm"} :
            <<"pre", h>> \in hooks <=> <<"post", h>> \in hooks

\* rpmpsmNew() counts instances before the operation; when it is over the
\* number is the one in the database, unless the package replaces itself.
ScriptArgRight(replacing) ==
    /\ pc = "process" /\ pos <= Len(Order)
    /\ step = NSteps(Cur) + 1 /\ ok
    /\ "NODB" \notin flags /\ ~dberr
    /\ Kind[Cur] # "restored"
    /\ Cur \in Reinstalled => replacing
    => arg = CountPackages(Name[Cur])

ScriptArgCounts == ScriptArgRight(FALSE)

\* What rpmtsRun() reports, records, unpacks and tells its scriptlets and plugins
\* agrees, whichever elements, scriptlets, locks or database updates fail.
OutcomesAgree ==
    /\ RecordFollowsFiles
    /\ SuccessMeansDone
    /\ FailureIsContained
    /\ HooksPaired
    /\ ScriptArgCounts

\* The EXECUTION ORDER of rpm-scriptlets(7) for the upgrade of one package.
\* The page does not place %triggerpostun; it is put where %postun is.
DocumentedOrder ==
    <<{"pretrans"}, {"preuntrans"},
      {"transfiletriggerun any", "transfiletriggerun"}, {"sysusers"},
      {"triggerprein any"}, {"triggerprein own"}, {"pre"},
      {"filetriggerin any hi"}, {"filetriggerin own hi"}, {"post"},
      {"triggerin any"}, {"triggerin own"},
      {"filetriggerin any lo"}, {"filetriggerin own lo"},
      {"triggerun own"}, {"triggerun any"},
      {"filetriggerun own hi"}, {"filetriggerun any hi"}, {"preun"},
      {"filetriggerun own lo"}, {"filetriggerun any lo"},
      {"filetriggerpostun hi"}, {"postun", "triggerpostun"},
      {"filetriggerpostun lo"}, {"posttrans"}, {"postuntrans"},
      {"transfiletriggerpostun any"},
      {"transfiletriggerin any", "transfiletriggerin"}>>

DocRank(s) == CHOOSE i \in 1..Len(DocumentedOrder) : s \in DocumentedOrder[i]

\* The two groups the code runs in another order than the page gives
EraseTriggers ==
    {"triggerun own", "triggerun any", "filetriggerun own hi",
     "filetriggerun any hi"}
TransactionEndTriggers ==
    {"transfiletriggerpostun any", "transfiletriggerin any",
     "transfiletriggerin"}

InDocumentedOrder(apartFrom) ==
    \/ last = "none" \/ last' = last
    \/ \E G \in apartFrom : {last, last'} \subseteq G
    \/ DocRank(last) <= DocRank(last')

\* Scriptlets run in the documented order, whatever is left out or fails,
\* apart from the order within those two groups.
ScriptletOrder ==
    [][InDocumentedOrder({EraseTriggers, TransactionEndTriggers})]_vars

\* rpmtsRun() comes to its end whatever fails.
Termination == <>(pc = "done")

----------------------------------------------------------------------------
\* The inductive invariant behind UpgradeKeepsAVersion.  An element is open
\* only if it has not failed, a failed install has failed erasures, and an
\* install that rpmtsProcess() has passed without failing is unpacked and
\* recorded.
FailedClosed == \A r \in Removed : DependsOn[r] \in failed => r \in failed

OpenElement ==
    step # 0 =>
        /\ pc = "process" /\ pos <= Len(Order)
        /\ step <= NSteps(Cur) + 1 /\ (~ok => step = NSteps(Cur) + 1)
        /\ Cur \notin failed /\ "TEST" \notin flags

Unpacked(e) == disk[e] = "complete" \/ "JUSTDB" \in flags
Recorded(e) == <<e, "new">> \in db \/ "NODB" \in flags

UnpackStep == 5
DbAddStep == 7

OpenInstall ==
    step # 0 /\ ok /\ Cur \in Added =>
        /\ step > UnpackStep => Unpacked(Cur)
        /\ step > DbAddStep => Recorded(Cur)

PassedInstalls ==
    pc = "process" /\ "TEST" \notin flags =>
        \A i \in 1..(pos - 1) :
            Order[i] \in Added \ failed => Unpacked(Order[i]) /\ Recorded(Order[i])

BeforeProcess ==
    {"start", "txnlock", "keylock", "setup", "check", "prepare", "pretrans",
     "preuntrans", "transfiletriggerun any", "transfiletriggerun"}

RemovalsWait ==
    /\ pc \in BeforeProcess => \A r \in Removed : disk[r] = "complete"
    /\ pc = "process" =>
         \A j \in (pos + 1)..Len(Order) :
             Order[j] \in Removed => disk[Order[j]] = "complete"

LocksHeld ==
    pc \in {"setup", "check", "prepare", "process", "final"}
          \cup ScriptPhases \cup TriggerPhases
    => "TEST" \in flags \/ locks = {"txn", "key"}

LocksInTurn ==
    /\ pc \in {"start", "txnlock"} => locks = {}
    /\ pc = "keylock" => locks = {"txn"}

TransactionInv ==
    /\ TypeOK /\ FailedClosed /\ OpenElement /\ OpenInstall
    /\ PassedInstalls /\ RemovalsWait /\ LocksHeld /\ LocksInTurn /\ UpgradeKeepsAVersion
\* The inductive invariant behind OutcomesAgree, together with TransactionInv.
AfterProcess ==
    {"posttrans", "postuntrans", "transfiletriggerin any", "transfiletriggerpostun any",
     "transfiletriggerin", "final"}

\* The elements rpmtsProcess() is through with
Passed == IF pc = "process" THEN 1..(pos - 1)
          ELSE IF nfailed >= 0 THEN 1..Len(Order) ELSE {}

\* rpmpsmRun() has brought the database up to date for an element.
Done(e) ==
    flags \cap {"TEST", "NODB"} = {} =>
        /\ e \in Added => <<e, "new">> \in db
        /\ e \in Added \cup Removed => <<e, "old">> \notin db \/ dberr

PassedDone == \A i \in Passed : Order[i] \notin failed \/ nfailed = 0 => Done(Order[i])

\* No step has come to the records of an element yet.
Unrecorded(e) ==
    /\ e \in Added => <<e, "new">> \notin db
    /\ e \in Removed => <<e, "old">> \in db

RecordsWait ==
    /\ pc \in BeforeProcess => \A e \in Elems : Unrecorded(e)
    /\ pc = "process" =>
         \A i \in pos..Len(Order) : (i = pos /\ step # 0) \/ Unrecorded(Order[i])

RecordKinds ==
    /\ \A e \in Elems : <<e, "new">> \in db => e \in Added
    /\ \A e \in Elems : <<e, "old">> \in db => e \in Installed
    /\ \A e \in Elems \ (Added \cup Removed) : <<e, "old">> \in db

DbReplaceStep == 6
EraseStep == 8
DbRemoveStep == 14

OpenRecords ==
    step # 0 /\ ok =>
        /\ Cur \in Added =>
             /\ step <= DbAddStep => <<Cur, "new">> \notin db
             /\ step > DbReplaceStep => <<Cur, "old">> \notin db \/ dberr \/ "NODB" \in flags
        /\ Cur \in Removed =>
             /\ step <= DbRemoveStep => <<Cur, "old">> \in db
             /\ step > EraseStep => disk[Cur] = "absent" \/ "JUSTDB" \in flags
             /\ step > DbRemoveStep => <<Cur, "old">> \notin db \/ dberr \/ "NODB" \in flags

\* psm->scriptArg, before and after the element's record comes or goes
OpenCount ==
    step # 0 /\ ok /\ "NODB" \notin flags /\ ~dberr /\ Cur \notin Reinstalled =>
        /\ Cur \in Added =>
             arg = CountPackages(Name[Cur]) + (IF step <= DbAddStep THEN 1 ELSE 0)
        /\ Cur \in Removed =>
             arg = CountPackages(Name[Cur]) - (IF step <= DbRemoveStep THEN 1 ELSE 0)

ResultsFollow ==
    /\ pc \in BeforeProcess => nfailed = -1
    /\ pc \in AfterProcess \cup {"process"} => nfailed >= 0
    /\ nonzero => scriptError
    /\ pc = "start" => ~scriptError
    /\ pc \notin {"start", "exit", "done"} => Order # <<>>
    /\ rc = 0 => /\ pc \in {"exit", "done"} /\ ~scriptError
                 /\ Order = <<>> \/ nfailed = 0

HooksOpen ==
    ~Chroot =>
        /\ \A h \in Elems \cup {"tsm"} : <<"post", h>> \in hooks => <<"pre", h>> \in hooks
        /\ \A e \in Elems \ {"tsm"} :
             <<"pre", e>> \in hooks => <<"post", e>> \in hooks \/ (step # 0 /\ e = Cur)
        /\ step # 0 => <<"pre", Cur>> \in hooks
        /\ pc = "done" /\ <<"pre", "tsm">> \in hooks => <<"post", "tsm">> \in hooks

OutcomesInv ==
    /\ RecordFollowsFiles /\ PassedDone /\ RecordsWait /\ RecordKinds /\ OpenRecords
    /\ OpenCount /\ ResultsFollow /\ HooksOpen
=============================================================================
