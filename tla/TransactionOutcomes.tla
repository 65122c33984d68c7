------------------------ MODULE TransactionOutcomes ------------------------
(***************************************************************************)
(* What rpmtsRun() reports and records agrees, for any transaction set,    *)
(* any flags and any failures.  The argument is OutcomesInv on top of      *)
(* TransactionInv: the records of an element stay as they are until the    *)
(* step of rpmpsmRun() that changes them, and an element that              *)
(* rpmtsProcess() is through with has failed or has its records changed.   *)
(***************************************************************************)
EXTENDS TransactionProofs

\* Where in rpmPackageInstall(), rpmPackageErase() and rpmPackageRestore() files
\* and records change.
LEMMA StepNames ==
  ASSUME NEW e \in Elems, NEW i \in 1..NSteps(e)
  PROVE  /\ e \in Added =>
              /\ i \in 1..15 /\ NSteps(e) = 15 /\ Steps(e)[i] # "erase"
              /\ Steps(e)[i] = "unpack" <=> i = UnpackStep
              /\ Steps(e)[i] = "dbremove" <=> i = DbReplaceStep
              /\ Steps(e)[i] = "dbadd" <=> i = DbAddStep
         /\ e \in Removed =>
              /\ i \in 1..14 /\ NSteps(e) = 14 /\ Steps(e)[i] \notin {"unpack", "dbadd"}
              /\ Steps(e)[i] = "erase" <=> i = EraseStep
              /\ Steps(e)[i] = "dbremove" <=> i = DbRemoveStep
         /\ e \notin Added \cup Removed => Steps(e)[i] = "unpack"
<1>1. CASE e \in Added
  <2>1. Steps(e) = InstallSteps /\ NSteps(e) = 15
    BY <1>1, StepsFacts
  <2>2. e \notin Removed
    BY <1>1, OrderFacts
  <2>3. i \in {1, 2, 3, 4, 5, 6, 7, 8, 9, 10, 11, 12, 13, 14, 15}
    BY <2>1
  <2>4. InstallSteps[i] = "dbremove" <=> i = DbReplaceStep
    <3>1. /\ InstallSteps[1] = "sysusers" /\ InstallSteps[2] = "triggerprein any"
          /\ InstallSteps[3] = "triggerprein own" /\ InstallSteps[4] = "pre"
          /\ InstallSteps[5] = "unpack" /\ InstallSteps[6] = "dbremove"
          /\ InstallSteps[7] = "dbadd" /\ InstallSteps[8] = "filetriggerin any hi"
          /\ InstallSteps[9] = "filetriggerin own hi" /\ InstallSteps[10] = "post"
          /\ InstallSteps[11] = "triggerin any" /\ InstallSteps[12] = "triggerin own"
          /\ InstallSteps[13] = "filetriggerin any lo"
          /\ InstallSteps[14] = "filetriggerin own lo"
          /\ InstallSteps[15] = "markreplaced"
      BY DEF InstallSteps
    <3> QED BY <2>3, <3>1 DEF DbReplaceStep
  <2> QED BY <1>1, <2>1, <2>2, <2>4, InstallFacts
<1>2. CASE e \in Removed
  <2>1. Steps(e) = EraseSteps /\ e \notin Added
    BY <1>2, StepsFacts, OrderFacts
  <2>2. NSteps(e) = 14
    <3>1. Len(EraseSteps) = 14
      BY DEF EraseSteps
    <3> QED BY <2>1, <3>1 DEF NSteps
  <2>3. i \in {1, 2, 3, 4, 5, 6, 7, 8, 9, 10, 11, 12, 13, 14}
    BY <2>2
  <2>4. /\ EraseSteps[i] \notin {"unpack", "dbadd"}
        /\ EraseSteps[i] = "erase" <=> i = EraseStep
        /\ EraseSteps[i] = "dbremove" <=> i = DbRemoveStep
    <3>1. /\ EraseSteps[1] = "filetriggerun own hi" /\ EraseSteps[2] = "filetriggerun any hi"
          /\ EraseSteps[3] = "triggerun own" /\ EraseSteps[4] = "triggerun any"
          /\ EraseSteps[5] = "preun" /\ EraseSteps[6] = "filetriggerun own lo"
          /\ EraseSteps[7] = "filetriggerun any lo" /\ EraseSteps[8] = "erase"
          /\ EraseSteps[9] = "filetriggerpostun hi" /\ EraseSteps[10] = "postun"
          /\ EraseSteps[11] = "triggerpostun" /\ EraseSteps[12] = "filetriggerpostun lo"
          /\ EraseSteps[13] = "preptransfiletriggers" /\ EraseSteps[14] = "dbremove"
      BY DEF EraseSteps
    <3> QED BY <2>3, <3>1 DEF EraseStep, DbRemoveStep
  <2> QED BY <1>2, <2>1, <2>2, <2>4
<1>3. CASE e \notin Added \cup Removed
  <2>1. Kind[e] = "restored"
    BY <1>3, TransactionAssumption DEF TransactionAssumption, Added, Removed
  <2>2. Steps(e) = <<"unpack">> /\ NSteps(e) = 1
    BY <2>1 DEF Steps, NSteps, RestoreSteps
  <2> QED BY <1>3, <2>2
<1> QED BY <1>1, <1>2, <1>3

\* What a step does to the records, the files and the results.
StepRecords(s) ==
    /\ s \notin {"dbadd", "dbremove"} => UNCHANGED <<db, dberr>>
    /\ s = "dbadd" => /\ dberr' = dberr
                      /\ db' \in {db, db \cup {<<Cur, "new">>}}
                      /\ ok' /\ "NODB" \notin flags => db' = db \cup {<<Cur, "new">>}
    /\ s = "dbremove" =>
         /\ dberr => dberr'
         /\ db' = db \/ (db' = db \ {<<Cur, "old">>} /\ Cur \notin Added \ Reinstalled)
         /\ ok' /\ "NODB" \notin flags /\ Cur \notin Added \ Reinstalled =>
              dberr' \/ db' = db \ {<<Cur, "old">>}
    /\ s = "erase" /\ ok' => disk'[Cur] = "absent" \/ "JUSTDB" \in flags
    /\ nonzero' /\ ~nonzero => scriptError'
    /\ scriptError => scriptError'

LEMMA StepRecordFacts ==
  ASSUME TypeOK, Cur \in Elems, NEW s \in Slots \cup NotScripts, StepEffect(s)
  PROVE  StepRecords(s)
<1>1. CASE DisabledBy(s) \cap flags # {}
  <2>1. ok' = TRUE /\ UNCHANGED <<worldVars, scriptVars, trigs>>
    BY <1>1 DEF StepEffect
  <2>2. s = "erase" => DisabledBy(s) = {}
    BY DEF DisabledBy
  <2>3. s \in {"dbadd", "dbremove"} => DisabledBy(s) = {"NODB"}
    BY DEF DisabledBy
  <2> QED BY <1>1, <2>1, <2>2, <2>3 DEF worldVars, scriptVars, StepRecords
<1>2. ASSUME s \in {"unpack", "erase"}, NEW to, MoveFiles(to), s = "erase" => to = "absent"
      PROVE  StepRecords(s)
  BY <1>2 DEF MoveFiles, TypeOK, scriptVars, StepRecords
<1>3. ASSUME s = "dbremove", DbRemove
      PROVE  StepRecords(s)
  BY <1>3 DEF DbRemove, scriptVars, StepRecords
<1>4. ASSUME s = "dbadd", DbAdd
      PROVE  StepRecords(s)
  BY <1>4 DEF DbAdd, scriptVars, StepRecords
<1>5. ASSUME s \notin NotScripts, ElemScript(s)
      PROVE  StepRecords(s)
  <2>1. UNCHANGED worldVars /\ s \notin {"dbadd", "dbremove", "erase"}
    BY <1>5 DEF ElemScript, NotScripts
  <2>2. PICK o \in Outcomes(s) : RunScript(s, o)
    BY <1>5 DEF ElemScript
  <2> QED BY <2>1, <2>2 DEF RunScript, worldVars, StepRecords
<1>6. ASSUME s \in {"markreplaced", "preptransfiletriggers"},
             UNCHANGED <<worldVars, scriptVars>>
      PROVE  StepRecords(s)
  BY <1>6 DEF worldVars, scriptVars, StepRecords
<1>7. CASE DisabledBy(s) \cap flags = {}
  <2>1. \/ s = "unpack" /\ MoveFiles("complete")
        \/ s = "erase" /\ MoveFiles("absent")
        \/ s = "dbremove" /\ DbRemove
        \/ s = "dbadd" /\ DbAdd
        \/ s = "markreplaced" /\ ok' = TRUE
           /\ UNCHANGED <<worldVars, scriptVars, trigs>>
        \/ s = "preptransfiletriggers" /\ ok' = TRUE
           /\ trigs' \in {trigs, TRUE} /\ UNCHANGED <<worldVars, scriptVars>>
        \/ s \notin NotScripts /\ ElemScript(s)
    BY <1>7, Zenon DEF StepEffect
  <2> QED BY <2>1, <1>2, <1>3, <1>4, <1>5, <1>6, Zenon
<1> QED BY <1>1, <1>7

\* A record that comes or goes changes the count of its package by one.
LEMMA CountChanges ==
  ASSUME TypeOK, NEW e \in Elems, NEW v \in {"old", "new"}
  PROVE  /\ <<e, v>> \notin db /\ db' = db \cup {<<e, v>>} =>
              CountPackages(Name[e])' = CountPackages(Name[e]) + 1
         /\ <<e, v>> \in db /\ db' = db \ {<<e, v>>} =>
              CountPackages(Name[e])' = CountPackages(Name[e]) - 1
         /\ db' = db => CountPackages(Name[e])' = CountPackages(Name[e])
<1> DEFINE S == {r \in db : Name[r[1]] = Name[e]}
           T == {r \in db' : Name[r[1]] = Name[e]}
<1>1. CountPackages(Name[e]) = Cardinality(S) /\ CountPackages(Name[e])' = Cardinality(T)
  BY DEF CountPackages
<1>2. IsFiniteSet(S)
  BY DatabaseFinite
<1>3. ASSUME <<e, v>> \notin db, db' = db \cup {<<e, v>>}
      PROVE  CountPackages(Name[e])' = CountPackages(Name[e]) + 1
  <2>1. T = S \cup {<<e, v>>} /\ <<e, v>> \notin S
    BY <1>3
  <2> HIDE DEF S, T
  <2> QED BY <1>1, <1>2, <2>1, FS_AddElement
<1>4. ASSUME <<e, v>> \in db, db' = db \ {<<e, v>>}
      PROVE  CountPackages(Name[e])' = CountPackages(Name[e]) - 1
  <2>1. T = S \ {<<e, v>>} /\ <<e, v>> \in S
    BY <1>4
  <2> HIDE DEF S, T
  <2> QED BY <1>1, <1>2, <2>1, FS_RemoveElement
<1>5. db' = db => CountPackages(Name[e])' = CountPackages(Name[e])
  BY DEF CountPackages
<1> QED BY <1>3, <1>4, <1>5

\* The records a transaction starts from.
LEMMA InitOutcomesInv == Init => OutcomesInv
<1> SUFFICES ASSUME Init PROVE OutcomesInv
  OBVIOUS
<1>1. /\ db = {<<e, "old">> : e \in Installed}
      /\ disk = [e \in Elems |-> IF e \in Installed THEN "complete" ELSE "absent"]
      /\ pc = "start" /\ step = 0 /\ pos = 1 /\ nfailed = -1 /\ rc = -1 /\ hooks = {}
      /\ ~nonzero /\ ~scriptError
  BY DEF Init
<1>2. /\ \A e \in Elems : <<e, "new">> \notin db
      /\ \A e \in Elems : <<e, "old">> \in db <=> e \in Installed
  BY <1>1
<1>3. Removed \subseteq Installed /\ Elems \ Added \subseteq Installed
  BY OrderFacts DEF Installed
<1>4. RecordFollowsFiles /\ RecordKinds
  BY <1>2, <1>3, OrderFacts DEF RecordFollowsFiles, RecordKinds
<1>5. PassedDone
  BY <1>1 DEF PassedDone, Passed
<1>6. RecordsWait
  BY <1>1, <1>2, <1>3, OrderFacts DEF RecordsWait, Unrecorded
<1>7. OpenRecords /\ OpenCount /\ HooksOpen
  BY <1>1 DEF OpenRecords, OpenCount, HooksOpen
<1>8. ResultsFollow
  BY <1>1 DEF ResultsFollow, AfterProcess
<1> QED BY <1>4, <1>5, <1>6, <1>7, <1>8 DEF OutcomesInv

\* The steps between elements: files and records stay, no element is open.
SameFlags ==
    \A fl \in {"TEST", "NODB", "JUSTDB"} : fl \in flags' <=> fl \in flags

LEMMA QuietOutcomes ==
  ASSUME OutcomesInv, step = 0, step' = 0, UNCHANGED <<db, disk, dberr>>, SameFlags,
         ResultsFollow', HooksOpen', failed \subseteq failed',
         pc' \in BeforeProcess => pc \in BeforeProcess,
         pc' = "process" => pc \in BeforeProcess /\ pos' = 1,
         Passed' # {} => Passed' = Passed /\ nfailed' = nfailed
  PROVE  OutcomesInv'
<1>1. RecordFollowsFiles'
  BY DEF OutcomesInv, RecordFollowsFiles, SameFlags
<1>2. RecordKinds'
  BY DEF OutcomesInv, RecordKinds
<1>3. OpenRecords' /\ OpenCount'
  BY DEF OpenRecords, OpenCount
<1>4. RecordsWait'
  <2>1. ASSUME pc' \in BeforeProcess \cup {"process"}, NEW e \in Elems
        PROVE  Unrecorded(e)'
    BY <2>1 DEF OutcomesInv, RecordsWait, Unrecorded
  <2> QED BY <2>1, OrderFacts DEF RecordsWait
<1>5. PassedDone'
  <2> SUFFICES ASSUME NEW i \in Passed', Order[i] \notin failed' \/ nfailed' = 0
               PROVE  Done(Order[i])'
    BY DEF PassedDone
  <2>1. Done(Order[i])
    BY DEF OutcomesInv, PassedDone
  <2> QED BY <2>1 DEF Done, SameFlags
<1> QED BY <1>1, <1>2, <1>3, <1>4, <1>5 DEF OutcomesInv

\* The steps before and after processing.
LEMMA OuterStepOutcomes ==
  ASSUME TransactionInv, OutcomesInv,
         \/ Start \/ TakeLock("txn", "txnlock", "keylock")
         \/ TakeLock("key", "keylock", "setup") \/ Setup \/ Check \/ Prepare
         \/ Final \/ Exit
  PROVE  OutcomesInv'
<1> USE DEF elemVars, resultVars, worldVars, scriptVars, ownVars
<1>1. step = 0 /\ pc # "process" /\ UNCHANGED <<step, db, disk, dberr, scriptError, nonzero>>
  <2>1. pc # "process"
    BY DEF Start, TakeLock, Setup, Check, Prepare, Final, Exit
  <2>2. UNCHANGED <<step, db, disk, dberr, scriptError, nonzero>>
    BY DEF Start, TakeLock, Setup, Check, Prepare, Final, Exit
  <2> QED BY <2>1, <2>2 DEF TransactionInv, OpenElement
<1>2. SameFlags
  <2>1. CASE Setup
    BY <2>1 DEF Setup, SetupFlags, SameFlags, NoScripts, NoTriggers
  <2>2. CASE ~Setup
    BY <2>2 DEF Start, TakeLock, Check, Prepare, Final, Exit, SameFlags
  <2> QED BY <2>1, <2>2
<1>3. failed \subseteq failed' /\ nfailed' = nfailed /\ pc' # "process"
  BY DEF Start, TakeLock, Setup, Check, Prepare, Final, Exit, FindProblems
<1>4. pc' \in BeforeProcess => pc \in BeforeProcess
  BY DEF Start, TakeLock, Setup, Check, Prepare, Final, Exit, BeforeProcess
<1>5. Passed' = Passed
  BY <1>1, <1>3 DEF Passed
<1>6. ResultsFollow'
  <2>1. ResultsFollow
    BY DEF OutcomesInv
  <2>2. CASE Start
    BY <1>1, <1>3, <2>1, <2>2 DEF Start, ResultsFollow, BeforeProcess, AfterProcess
  <2>3. CASE \/ TakeLock("txn", "txnlock", "keylock")
             \/ TakeLock("key", "keylock", "setup") \/ Setup \/ Check
    BY <1>1, <1>3, <2>1, <2>3
    DEF TakeLock, Setup, Check, ResultsFollow, BeforeProcess, AfterProcess
  <2>4. CASE Prepare
    <3>1. rc' = Len(Order) \/ rc' = rc
      BY <2>4 DEF Prepare
    <3>2. Order # <<>> /\ rc # 0 /\ nfailed = -1
      BY <2>1, <2>4 DEF Prepare, ResultsFollow, BeforeProcess
    <3>3. Len(Order) # 0
      BY <3>2, TransactionAssumption DEF TransactionAssumption
    <3>4. pc' \in {"exit", "preuntrans"}
      BY <2>4 DEF Prepare
    <3> QED BY <1>1, <1>3, <2>1, <3>1, <3>2, <3>3, <3>4
            DEF ResultsFollow, BeforeProcess, AfterProcess
  <2>5. CASE Final
    BY <1>1, <1>3, <2>1, <2>5 DEF Final, ResultsFollow, BeforeProcess, AfterProcess
  <2>6. CASE Exit
    BY <1>1, <1>3, <2>1, <2>6 DEF Exit, ResultsFollow, BeforeProcess, AfterProcess
  <2> QED BY <2>2, <2>3, <2>4, <2>5, <2>6
<1>7. HooksOpen'
  <2> SUFFICES ASSUME ~Chroot PROVE HooksOpen'
    BY DEF HooksOpen
  <2>1. /\ \A h \in Elems \cup {"tsm"} : <<"post", h>> \in hooks => <<"pre", h>> \in hooks
        /\ \A e \in Elems \ {"tsm"} : <<"pre", e>> \in hooks => <<"post", e>> \in hooks
    BY <1>1 DEF OutcomesInv, HooksOpen
  <2>2. CASE Check
    <3>1. hooks' = hooks \cup {<<"pre", "tsm">>} /\ pc' # "done"
      BY <2>2 DEF Check
    <3> QED BY <1>1, <2>1, <3>1 DEF HooksOpen
  <2>3. CASE Exit
    <3>1. hooks' = IF <<"pre", "tsm">> \in hooks THEN hooks \cup {<<"post", "tsm">>} ELSE hooks
      BY <2>3 DEF Exit
    <3> QED BY <1>1, <2>1, <3>1 DEF HooksOpen
  <2>4. CASE ~Check /\ ~Exit
    <3>1. hooks' = hooks /\ pc' # "done"
      BY <2>4 DEF Start, TakeLock, Setup, Prepare, Final
    <3> QED BY <1>1, <2>1, <3>1 DEF HooksOpen
  <2> QED BY <2>2, <2>3, <2>4
<1> QED BY <1>1, <1>2, <1>3, <1>4, <1>5, <1>6, <1>7, QuietOutcomes

\* The script and trigger phases.
LEMMA PhaseStepOutcomes ==
  ASSUME TransactionInv, OutcomesInv,
         \/ LeavePhase
         \/ \E ph \in ScriptPhases : ScriptPhase(ph)
         \/ \E ph \in TriggerPhases : TriggerPhase(ph)
  PROVE  OutcomesInv'
<1> USE DEF elemVars, resultVars, worldVars, scriptVars, ownVars
<1>1. /\ UNCHANGED <<flags, step, db, disk, dberr, hooks, rc>>
      /\ pc \in ScriptPhases \cup TriggerPhases \cup {"process"}
  BY Zenon DEF LeavePhase, ScriptPhase, TriggerPhase, Running
<1>2. step = 0
  BY <1>1, Zenon DEF LeavePhase, ScriptPhase, TriggerPhase, Running, TransactionInv,
                     OpenElement, ScriptPhases, TriggerPhases
<1>3. failed \subseteq failed'
  BY DEF LeavePhase, ScriptPhase, TriggerPhase
<1>4. (nonzero => scriptError) => (nonzero' => scriptError')
  BY DEF LeavePhase, ScriptPhase, TriggerPhase, RunScript
<1>5. \/ pc' = pc /\ pc # "process" /\ nfailed' = nfailed
      \/ /\ pc' = Successor(pc) /\ pos' = 1
         /\ nfailed' = IF Successor(pc) = "process" THEN 0 ELSE nfailed
         /\ pc = "process" => pos > Len(Order)
  <2>1. CASE LeavePhase
    BY <2>1 DEF LeavePhase, NextPhase, PhaseDisabledBy
  <2>2. CASE \E ph \in ScriptPhases : ScriptPhase(ph)
    BY <2>2 DEF ScriptPhase, Running, ScriptPhases
  <2>3. CASE \E ph \in TriggerPhases : TriggerPhase(ph)
    BY <2>3, PhaseOrder DEF TriggerPhase, Running, NextPhase, TriggerPhases
  <2> QED BY <2>1, <2>2, <2>3
<1>6. pc' \in {"prepare", "process", "final"} \cup ScriptPhases \cup TriggerPhases
  BY <1>1, <1>5, PhaseOrder
<1>7. /\ pc' \in BeforeProcess => pc \in BeforeProcess
      /\ pc' = "process" => pc \in BeforeProcess /\ pos' = 1 /\ nfailed' = 0
      /\ pc' \in AfterProcess => pc \in AfterProcess \cup {"process"} /\ nfailed' = nfailed
      /\ pc' # "process" => nfailed' = nfailed
  <2>1. pc' \in AfterProcess => pc' # "process"
    BY DEF AfterProcess
  <2>2. CASE pc' = pc /\ pc # "process" /\ nfailed' = nfailed
    BY <2>1, <2>2
  <2>3. CASE /\ pc' = Successor(pc) /\ pos' = 1
             /\ nfailed' = IF Successor(pc) = "process" THEN 0 ELSE nfailed
    BY <1>1, <2>1, <2>3, PhaseOrder
  <2> QED BY <1>5, <2>2, <2>3
<1>8. ResultsFollow'
  <2>1. ResultsFollow
    BY DEF OutcomesInv
  <2>2. /\ pc' \notin {"start", "exit", "done"} /\ pc \notin {"start", "exit", "done"}
        /\ "process" \notin BeforeProcess /\ "process" \notin AfterProcess
    BY <1>1, <1>6 DEF ScriptPhases, TriggerPhases, BeforeProcess, AfterProcess
  <2> QED BY <1>1, <1>4, <1>7, <2>1, <2>2 DEF ResultsFollow
<1>9. HooksOpen'
  <2>1. pc' # "done"
    BY <1>6 DEF ScriptPhases, TriggerPhases
  <2> QED BY <1>1, <1>2, <2>1 DEF OutcomesInv, HooksOpen
<1>10. Passed' # {} => Passed' = Passed /\ nfailed' = nfailed
  <2>1. CASE pc' = "process"
    BY <1>7, <2>1 DEF Passed
  <2>2. CASE pc' # "process" /\ pc = "process"
    <3>1. nfailed >= 0 /\ nfailed' = nfailed
      BY <1>7, <2>2 DEF OutcomesInv, ResultsFollow
    <3>2. pos - 1 = Len(Order)
      BY <1>5, <2>2, OrderFacts DEF TransactionInv, TypeOK
    <3> QED BY <2>2, <3>1, <3>2 DEF Passed
  <2>3. CASE pc' # "process" /\ pc # "process"
    BY <1>7, <2>3 DEF Passed
  <2> QED BY <2>1, <2>2, <2>3
<1>11. SameFlags
  BY <1>1 DEF SameFlags
<1> QED BY <1>1, <1>2, <1>3, <1>7, <1>8, <1>9, <1>10, <1>11, QuietOutcomes

\* Opening, passing over and closing an element.
LEMMA ElementStepOutcomes ==
  ASSUME TransactionInv, OutcomesInv, OpenRefused \/ OpenTest \/ Open \/ Close
  PROVE  OutcomesInv'
<1> USE DEF elemVars, resultVars, worldVars, scriptVars, ownVars
<1>1. /\ pc = "process" /\ pc' = pc /\ pos <= Len(Order) /\ pos \in Nat /\ pos >= 1
      /\ UNCHANGED <<flags, db, disk, dberr, rc, scriptError, nonzero>>
  <2>1. /\ pc = "process" /\ pc' = pc /\ pos <= Len(Order)
        /\ UNCHANGED <<flags, db, disk, dberr, rc, scriptError, nonzero>>
    BY Zenon DEF OpenRefused, OpenTest, Open, Close, Processing, Running
  <2>2. pos \in 1..(Len(Order) + 1)
    BY Zenon DEF TransactionInv, TypeOK
  <2> QED BY <2>1, <2>2, OrderFacts
<1>2. Cur \in Elems /\ Order[pos] = Cur /\ Len(Order) \in Nat
  BY <1>1, OrderFacts DEF Cur
<1>3. nfailed >= 0 /\ nfailed \in Int
  BY <1>1 DEF OutcomesInv, ResultsFollow, TransactionInv, TypeOK
<1>4. nfailed' \in {nfailed, nfailed + 1} /\ failed \subseteq failed'
  BY DEF OpenRefused, OpenTest, Open, Close, ElemFailed
<1>5. RecordFollowsFiles' /\ RecordKinds'
  BY <1>1 DEF OutcomesInv, RecordFollowsFiles, RecordKinds
<1>6. ResultsFollow'
  BY <1>1, <1>3, <1>4 DEF OutcomesInv, ResultsFollow, BeforeProcess
<1>7. ASSUME pos' = pos + 1, step' = 0,
             Cur \notin failed' \/ nfailed' = 0 => Done(Cur)
      PROVE  PassedDone' /\ RecordsWait' /\ OpenRecords' /\ OpenCount'
  <2>1. OpenRecords' /\ OpenCount'
    BY <1>7 DEF OpenRecords, OpenCount
  <2>2. RecordsWait'
    <3> SUFFICES ASSUME NEW i \in (pos + 1)..Len(Order)
                 PROVE  Unrecorded(Order[i])'
      BY <1>1, <1>7 DEF RecordsWait, BeforeProcess
    <3>1. Unrecorded(Order[i])
      BY <1>1, <1>2 DEF OutcomesInv, RecordsWait
    <3> QED BY <1>1, <3>1 DEF Unrecorded
  <2>3. PassedDone'
    <3> SUFFICES ASSUME NEW i \in 1..pos, Order[i] \notin failed' \/ nfailed' = 0
                 PROVE  Done(Order[i])'
      BY <1>1, <1>7 DEF PassedDone, Passed
    <3>1. Done(Order[i])
      <4>1. CASE i = pos
        BY <1>2, <1>7, <4>1
      <4>2. CASE i # pos
        BY <1>1, <1>3, <1>4, <4>2 DEF OutcomesInv, PassedDone, Passed
      <4> QED BY <4>1, <4>2
    <3> QED BY <1>1, <3>1 DEF Done
  <2> QED BY <2>1, <2>2, <2>3
<1>8. CASE OpenRefused
  <2>1. /\ step = 0 /\ pos' = pos + 1 /\ step' = 0 /\ hooks' = hooks
        /\ failed' = failed \cup WithErasures({Cur}) /\ nfailed' = nfailed + 1
    BY <1>8 DEF OpenRefused, ElemFailed
  <2>2. Cur \in failed' /\ nfailed' # 0
    BY <1>3, <2>1 DEF WithErasures
  <2>3. HooksOpen'
    BY <1>1, <2>1 DEF OutcomesInv, HooksOpen
  <2> QED BY <1>5, <1>6, <1>7, <2>1, <2>2, <2>3 DEF OutcomesInv
<1>9. CASE OpenTest
  <2>1. step = 0 /\ pos' = pos + 1 /\ step' = 0 /\ hooks' = hooks /\ "TEST" \in flags
    BY <1>9 DEF OpenTest
  <2>2. HooksOpen'
    BY <1>1, <2>1 DEF OutcomesInv, HooksOpen
  <2>3. Done(Cur)
    BY <2>1 DEF Done
  <2> QED BY <1>5, <1>6, <1>7, <2>1, <2>2, <2>3 DEF OutcomesInv
<1>10. CASE Close
  <2>1. /\ step = NSteps(Cur) + 1 /\ pos' = pos + 1 /\ step' = 0
        /\ ~Chroot => hooks' = hooks \cup {<<"post", Cur>>}
    BY <1>10 DEF Close
  <2>2. NSteps(Cur) \in 1..15 /\ step # 0
    BY <1>2, <2>1, StepsFacts, SMTT(30)
  <2>3. ~ok => Cur \in failed' /\ nfailed' # 0
    BY <1>3, <1>10, SMTT(30) DEF Close, ElemFailed, WithErasures
  <2>4. ok => Done(Cur)
    <3> SUFFICES ASSUME ok PROVE Done(Cur)
      OBVIOUS
    <3>1. CASE Cur \in Added
      <4>1. step = 16
        BY <1>2, <2>1, <3>1, StepsFacts
      <4>2. Recorded(Cur)
        BY <2>2, <3>1, <4>1 DEF TransactionInv, OpenInstall, DbAddStep
      <4>3. <<Cur, "old">> \notin db \/ dberr \/ "NODB" \in flags
        BY <2>2, <3>1, <4>1 DEF OutcomesInv, OpenRecords, DbReplaceStep
      <4> QED BY <4>2, <4>3 DEF Done, Recorded
    <3>2. CASE Cur \in Removed
      <4>1. step = 15
        BY <1>2, <2>1, <2>2, <3>2, StepNames, SMTT(30)
      <4>2. <<Cur, "old">> \notin db \/ dberr \/ "NODB" \in flags
        BY <2>2, <3>2, <4>1 DEF OutcomesInv, OpenRecords, DbRemoveStep
      <4> QED BY <3>2, <4>2, OrderFacts DEF Done
    <3>3. CASE Cur \notin Added \cup Removed
      BY <3>3 DEF Done
    <3> QED BY <3>1, <3>2, <3>3
  <2>5. HooksOpen'
    <3> SUFFICES ASSUME ~Chroot PROVE HooksOpen'
      BY DEF HooksOpen
    <3>1. hooks' = hooks \cup {<<"post", Cur>>} /\ <<"pre", Cur>> \in hooks
      BY <2>1, <2>2 DEF OutcomesInv, HooksOpen
    <3> QED BY <1>1, <2>1, <3>1 DEF OutcomesInv, HooksOpen
  <2> QED BY <1>5, <1>6, <1>7, <2>1, <2>3, <2>4, <2>5 DEF OutcomesInv
<1>11. CASE Open
  <2>1. /\ step = 0 /\ arg' = ScriptArg(Cur) /\ UNCHANGED <<pos, failed, nfailed>>
        /\ step' = IF ok' THEN 1 ELSE NSteps(Cur) + 1
        /\ ~Chroot => hooks' = hooks \cup {<<"pre", Cur>>}
    BY <1>11, Zenon DEF Open
  <2>2. Cur' = Cur /\ step' # 0 /\ (ok' => step' = 1)
    BY <1>2, <2>1, StepsFacts, SMTT(30) DEF Cur
  <2>3. HooksOpen'
    <3> SUFFICES ASSUME ~Chroot PROVE HooksOpen'
      BY DEF HooksOpen
    <3> QED BY <1>1, <2>1, <2>2, SMTT(30) DEF OutcomesInv, HooksOpen
  <2>4. RecordsWait'
    BY <1>1, <2>1, <2>2 DEF OutcomesInv, RecordsWait, Unrecorded, BeforeProcess
  <2>5. PassedDone'
    BY <1>1, <2>1 DEF OutcomesInv, PassedDone, Passed, Done
  <2>6. Unrecorded(Cur)
    BY <1>1, <1>2, <2>1 DEF OutcomesInv, RecordsWait
  <2>7. OpenRecords'
    BY <1>1, <2>2, <2>6
    DEF OpenRecords, Unrecorded, DbAddStep, DbReplaceStep, DbRemoveStep, EraseStep
  <2>8. OpenCount'
    <3> SUFFICES ASSUME ok'
                 PROVE  /\ Cur \in Added => arg' = CountPackages(Name[Cur])' + 1
                        /\ Cur \in Removed => arg' = CountPackages(Name[Cur])' - 1
      BY <2>2 DEF OpenCount, DbAddStep, DbRemoveStep
    <3>1. CountPackages(Name[Cur])' = CountPackages(Name[Cur])
      BY <1>1, <2>2 DEF CountPackages
    <3> QED BY <2>1, <3>1 DEF ScriptArg, Added, Removed
  <2> QED BY <1>5, <1>6, <2>3, <2>4, <2>5, <2>7, <2>8 DEF OutcomesInv
<1> QED BY <1>8, <1>9, <1>10, <1>11

\* A step of an open element.
LEMMA StepOutcomes ==
  ASSUME TransactionInv, OutcomesInv, Step
  PROVE  OutcomesInv'
<1> DEFINE s == Steps(Cur)[step]
<1>1. /\ pc = "process" /\ pc' = pc /\ pos <= Len(Order) /\ pos \in Nat /\ pos >= 1
      /\ step \in 1..NSteps(Cur) /\ StepEffect(s)
      /\ step' = IF ok' THEN step + 1 ELSE NSteps(Cur) + 1
      /\ UNCHANGED <<flags, pos, arg, failed, nfailed, rc, hooks>>
  BY SMTT(30) DEF TransactionInv, TypeOK, Step, Processing, Running, resultVars, ownVars
<1>2. /\ Cur \in Elems /\ Order[pos] = Cur /\ Cur' = Cur /\ Len(Order) \in Nat
      /\ \A i \in 1..Len(Order) : i # pos => Order[i] \in Elems /\ Order[i] # Cur
  <2>1. pos \in 1..Len(Order) /\ pos' = pos
    BY <1>1, OrderFacts
  <2>2. Order[pos] = Cur /\ Cur' = Cur
    BY <2>1, Zenon DEF Cur
  <2> QED BY <2>1, <2>2, OrderFacts, Zenon
<1>3. /\ Cur \in Added =>
           /\ step \in 1..15 /\ NSteps(Cur) = 15 /\ s # "erase"
           /\ s = "unpack" <=> step = UnpackStep
           /\ s = "dbremove" <=> step = DbReplaceStep
           /\ s = "dbadd" <=> step = DbAddStep
      /\ Cur \in Removed =>
           /\ step \in 1..14 /\ NSteps(Cur) = 14 /\ s \notin {"unpack", "dbadd"}
           /\ s = "erase" <=> step = EraseStep
           /\ s = "dbremove" <=> step = DbRemoveStep
      /\ Cur \notin Added \cup Removed => s = "unpack"
  BY <1>1, <1>2, StepNames
<1>4. s \in Slots \cup NotScripts
  BY <1>1, <1>2, StepsInSlots
<1> HIDE DEF s
<1>5. StepLocal(s) /\ StepRecords(s)
  BY <1>1, <1>2, <1>4, StepEffectFacts, StepRecordFacts DEF TransactionInv
<1>6. NSteps(Cur) \in 1..15 /\ step # 0 /\ step' # 0 /\ ok /\ (ok' => step' = step + 1)
  BY <1>1, <1>2, StepsFacts, SMTT(30) DEF TransactionInv, OpenElement
<1>7. /\ Cur \in Added =>
           /\ step <= DbAddStep => <<Cur, "new">> \notin db
           /\ step > DbReplaceStep => <<Cur, "old">> \notin db \/ dberr \/ "NODB" \in flags
      /\ Cur \in Removed =>
           /\ Cur \notin Added
           /\ step <= DbRemoveStep => <<Cur, "old">> \in db
           /\ step > EraseStep => disk[Cur] = "absent" \/ "JUSTDB" \in flags
           /\ step > DbRemoveStep => <<Cur, "old">> \notin db \/ dberr \/ "NODB" \in flags
  BY <1>6, OrderFacts, Zenon DEF OutcomesInv, OpenRecords
<1>8. RecordKinds'
  <2>1. /\ \A e \in Elems : <<e, "new">> \in db' => e \in Added
        /\ \A e \in Elems : <<e, "old">> \in db' => e \in Installed
        /\ \A e \in Elems \ (Added \cup Removed) : <<e, "old">> \in db'
    BY <1>2, <1>3, <1>5 DEF OutcomesInv, RecordKinds, StepRecords, StepLocal
  <2> QED BY <2>1 DEF RecordKinds
<1>9. ResultsFollow'
  BY <1>1, <1>5 DEF OutcomesInv, ResultsFollow, StepRecords, BeforeProcess, AfterProcess
<1>10. HooksOpen'
  BY <1>1, <1>2, <1>6 DEF OutcomesInv, HooksOpen
<1>11. RecordsWait'
  <2> SUFFICES ASSUME NEW i \in (pos + 1)..Len(Order)
               PROVE  Unrecorded(Order[i])'
    BY <1>1, <1>2, <1>6 DEF RecordsWait, BeforeProcess
  <2>1. Unrecorded(Order[i]) /\ Order[i] \in Elems /\ Order[i] # Cur
    BY <1>1, <1>2 DEF OutcomesInv, RecordsWait
  <2> QED BY <1>5, <2>1 DEF Unrecorded, StepLocal
<1>12. PassedDone'
  <2> SUFFICES ASSUME NEW i \in 1..(pos - 1), Order[i] \notin failed \/ nfailed = 0
               PROVE  Done(Order[i])'
    BY <1>1 DEF PassedDone, Passed
  <2>1. Done(Order[i]) /\ Order[i] \in Elems /\ Order[i] # Cur
    BY <1>1, <1>2 DEF OutcomesInv, PassedDone, Passed
  <2>2. dberr => dberr'
    BY <1>5 DEF StepRecords
  <2> QED BY <1>1, <1>5, <2>1, <2>2 DEF Done, StepLocal
<1>13. OpenRecords'
  <2> SUFFICES ASSUME ok'
               PROVE  /\ Cur \in Added =>
                           /\ step' <= DbAddStep => <<Cur, "new">> \notin db'
                           /\ step' > DbReplaceStep =>
                                <<Cur, "old">> \notin db' \/ dberr' \/ "NODB" \in flags
                      /\ Cur \in Removed =>
                           /\ step' <= DbRemoveStep => <<Cur, "old">> \in db'
                           /\ step' > EraseStep =>
                                disk'[Cur] = "absent" \/ "JUSTDB" \in flags
                           /\ step' > DbRemoveStep =>
                                <<Cur, "old">> \notin db' \/ dberr' \/ "NODB" \in flags
    BY <1>1, <1>2 DEF OpenRecords
  <2>1. step' = step + 1
    BY <1>6, Zenon
  <2>2. ASSUME Cur \in Added
        PROVE  /\ step' <= DbAddStep => <<Cur, "new">> \notin db'
               /\ step' > DbReplaceStep =>
                    <<Cur, "old">> \notin db' \/ dberr' \/ "NODB" \in flags
    <3>1. Cur \notin Reinstalled => <<Cur, "old">> \notin db'
      BY <1>2, <1>8, <2>2 DEF RecordKinds, Installed
    <3>2. ASSUME step' <= DbAddStep
          PROVE  <<Cur, "new">> \notin db'
      <4>1. step <= DbAddStep /\ s # "dbadd"
        BY <1>3, <2>1, <2>2, <3>2 DEF DbAddStep
      <4> QED BY <1>5, <1>7, <2>2, <4>1, Zenon DEF StepRecords
    <3>3. ASSUME step' > DbReplaceStep
          PROVE  <<Cur, "old">> \notin db' \/ dberr' \/ "NODB" \in flags
      <4>1. s = "dbremove" \/ step > DbReplaceStep
        BY <1>3, <2>1, <2>2, <3>3 DEF DbReplaceStep
      <4>2. CASE s = "dbremove"
        BY <1>5, <2>2, <3>1, <4>2 DEF StepRecords
      <4>3. CASE s # "dbremove"
        <5>1. dberr' = dberr /\ db' \subseteq db \cup {<<Cur, "new">>}
          BY <1>5, <4>3 DEF StepRecords
        <5> QED BY <1>7, <2>2, <4>1, <4>3, <5>1
      <4> QED BY <4>2, <4>3
    <3> QED BY <3>2, <3>3, Zenon
  <2>3. ASSUME Cur \in Removed
        PROVE  /\ step' <= DbRemoveStep => <<Cur, "old">> \in db'
               /\ step' > EraseStep => disk'[Cur] = "absent" \/ "JUSTDB" \in flags
               /\ step' > DbRemoveStep =>
                    <<Cur, "old">> \notin db' \/ dberr' \/ "NODB" \in flags
    <3>1. /\ s = "dbremove" <=> step = DbRemoveStep
          /\ s = "erase" <=> step = EraseStep
          /\ step \in 1..14 /\ s \notin {"unpack", "dbadd"} /\ Cur \notin Added
      BY <1>3, <1>7, <2>3, Zenon
    <3>2. ASSUME step' <= DbRemoveStep
          PROVE  <<Cur, "old">> \in db'
      <4>1. step <= DbRemoveStep /\ s # "dbremove"
        BY <2>1, <3>1, <3>2 DEF DbRemoveStep
      <4> QED BY <1>5, <1>7, <2>3, <3>1, <4>1, Zenon DEF StepRecords
    <3>3. ASSUME step' > EraseStep
          PROVE  disk'[Cur] = "absent" \/ "JUSTDB" \in flags
      <4>1. s = "erase" \/ (step > EraseStep /\ s # "erase")
        BY <2>1, <3>1, <3>3 DEF EraseStep
      <4> QED BY <1>5, <1>7, <2>3, <3>1, <4>1, Zenon DEF StepRecords, StepLocal
    <3>4. ASSUME step' > DbRemoveStep
          PROVE  <<Cur, "old">> \notin db' \/ dberr' \/ "NODB" \in flags
      <4>1. s = "dbremove"
        BY <2>1, <3>1, <3>4 DEF DbRemoveStep
      <4> QED BY <1>5, <3>1, <4>1 DEF StepRecords
    <3> QED BY <3>2, <3>3, <3>4, Zenon
  <2> QED BY <2>2, <2>3
<1>14. OpenCount'
  <2> SUFFICES ASSUME ok', "NODB" \notin flags, ~dberr', Cur \notin Reinstalled
               PROVE  /\ Cur \in Added =>
                           arg = CountPackages(Name[Cur])'
                                   + (IF step' <= DbAddStep THEN 1 ELSE 0)
                      /\ Cur \in Removed =>
                           arg = CountPackages(Name[Cur])'
                                   - (IF step' <= DbRemoveStep THEN 1 ELSE 0)
    BY <1>1, <1>2 DEF OpenCount
  <2>1. /\ step' = step + 1 /\ ~dberr
        /\ Cur \in Added =>
             arg = CountPackages(Name[Cur]) + (IF step <= DbAddStep THEN 1 ELSE 0)
        /\ Cur \in Removed =>
             arg = CountPackages(Name[Cur]) - (IF step <= DbRemoveStep THEN 1 ELSE 0)
    <3>1. step' = step + 1 /\ ~dberr
      BY <1>5, <1>6 DEF StepRecords
    <3> QED BY <1>6, <3>1, Zenon DEF OutcomesInv, OpenCount
  <2>2. CountPackages(Name[Cur]) \in Nat
    BY CountIsNat DEF TransactionInv
  <2>3. /\ <<Cur, "new">> \notin db /\ db' = db \cup {<<Cur, "new">>} =>
             CountPackages(Name[Cur])' = CountPackages(Name[Cur]) + 1
        /\ <<Cur, "old">> \in db /\ db' = db \ {<<Cur, "old">>} =>
             CountPackages(Name[Cur])' = CountPackages(Name[Cur]) - 1
        /\ db' = db => CountPackages(Name[Cur])' = CountPackages(Name[Cur])
    BY <1>2, CountChanges DEF TransactionInv
  <2>4. ASSUME Cur \in Added
        PROVE  arg = CountPackages(Name[Cur])' + (IF step' <= DbAddStep THEN 1 ELSE 0)
    <3>1. CASE step = DbAddStep
      <4>1. <<Cur, "new">> \notin db /\ db' = db \cup {<<Cur, "new">>}
        <5>1. s = "dbadd" /\ <<Cur, "new">> \notin db
          BY <1>3, <1>7, <2>4, <3>1
        <5> QED BY <1>5, <5>1, Zenon DEF StepRecords
      <4> QED BY <2>1, <2>2, <2>3, <2>4, <3>1, <4>1 DEF DbAddStep
    <3>2. CASE step # DbAddStep
      <4>1. db' = db
        BY <1>3, <1>5, <2>4, <3>2 DEF StepRecords
      <4> QED BY <1>3, <2>1, <2>2, <2>3, <2>4, <3>2, <4>1 DEF DbAddStep
    <3> QED BY <3>1, <3>2
  <2>5. ASSUME Cur \in Removed
        PROVE  arg = CountPackages(Name[Cur])' - (IF step' <= DbRemoveStep THEN 1 ELSE 0)
    <3>1. CASE step = DbRemoveStep
      <4>1. <<Cur, "old">> \in db /\ db' = db \ {<<Cur, "old">>}
        <5>1. s = "dbremove" /\ <<Cur, "old">> \in db /\ Cur \notin Added
          BY <1>3, <1>7, <2>5, <3>1
        <5> QED BY <1>5, <5>1, Zenon DEF StepRecords
      <4> QED BY <2>1, <2>2, <2>3, <2>5, <3>1, <4>1 DEF DbRemoveStep
    <3>2. CASE step # DbRemoveStep
      <4>1. db' = db
        BY <1>3, <1>5, <2>5, <3>2 DEF StepRecords
      <4> QED BY <1>3, <2>1, <2>2, <2>3, <2>5, <3>2, <4>1 DEF DbRemoveStep
    <3> QED BY <3>1, <3>2
  <2> QED BY <2>4, <2>5
<1>15. RecordFollowsFiles'
  <2> SUFFICES ASSUME "JUSTDB" \notin flags
               PROVE  /\ \A e \in Added : <<e, "new">> \in db' => disk'[e] = "complete"
                      /\ \A e \in Removed : <<e, "old">> \notin db' => disk'[e] = "absent"
    BY <1>1 DEF RecordFollowsFiles
  <2>1. /\ \A e \in Added : <<e, "new">> \in db => disk[e] = "complete"
        /\ \A e \in Removed : <<e, "old">> \notin db => disk[e] = "absent"
    BY DEF OutcomesInv, RecordFollowsFiles
  <2>2. ASSUME Cur \in Added, <<Cur, "new">> \in db'
        PROVE  disk'[Cur] = "complete"
    <3>1. step > UnpackStep => disk[Cur] = "complete"
      BY <1>6, <2>2 DEF TransactionInv, OpenInstall, Unpacked
    <3>2. step > UnpackStep
      <4>1. s = "dbadd" \/ ~(step <= DbAddStep)
        BY <1>5, <1>7, <2>2 DEF StepRecords
      <4> QED BY <1>3, <2>2, <4>1 DEF UnpackStep, DbAddStep
    <3> QED BY <1>3, <1>5, <2>2, <3>1, <3>2 DEF StepLocal, UnpackStep
  <2>3. ASSUME Cur \in Removed, <<Cur, "old">> \notin db'
        PROVE  disk'[Cur] = "absent"
    <3>1. step <= DbRemoveStep /\ <<Cur, "old">> \in db
      BY <1>3, <1>7, <2>3 DEF DbRemoveStep
    <3>2. s = "dbremove"
      BY <1>3, <1>5, <2>3, <3>1, Zenon DEF StepRecords
    <3>3. step > EraseStep
      BY <1>3, <2>3, <3>2 DEF DbRemoveStep, EraseStep
    <3> QED BY <1>5, <1>7, <2>3, <3>2, <3>3, Zenon DEF StepLocal
  <2>4. \A e \in Added \cup Removed : e \in Elems
    BY OrderFacts
  <2> QED BY <1>5, <2>1, <2>2, <2>3, <2>4 DEF StepLocal
<1> QED BY <1>8, <1>9, <1>10, <1>11, <1>12, <1>13, <1>14, <1>15 DEF OutcomesInv

\* Every step of rpmtsRun() keeps it.
LEMMA NextOutcomesInv == TransactionInv /\ OutcomesInv /\ [Next]_vars => OutcomesInv'
<1> SUFFICES ASSUME TransactionInv, OutcomesInv, [Next]_vars PROVE OutcomesInv'
  OBVIOUS
<1>1. CASE UNCHANGED vars
  <2>1. /\ UNCHANGED <<pc, flags, pos, step, ok, arg, failed, nfailed, rc>>
        /\ UNCHANGED <<db, disk, dberr, scriptError, nonzero, hooks>>
    BY <1>1 DEF vars, elemVars, resultVars, worldVars, scriptVars, ownVars
  <2>2. RecordFollowsFiles' /\ RecordKinds' /\ ResultsFollow'
    BY <2>1 DEF OutcomesInv, RecordFollowsFiles, RecordKinds, ResultsFollow
  <2>3. PassedDone' /\ RecordsWait'
    BY <2>1 DEF OutcomesInv, PassedDone, Passed, Done, RecordsWait, Unrecorded
  <2>4. OpenRecords' /\ HooksOpen'
    BY <2>1 DEF OutcomesInv, OpenRecords, HooksOpen, Cur
  <2>5. OpenCount'
    BY <2>1 DEF OutcomesInv, OpenCount, CountPackages, Cur
  <2> QED BY <2>2, <2>3, <2>4, <2>5 DEF OutcomesInv
<1>2. CASE Next
  BY <1>1, <1>2, OuterStepOutcomes, PhaseStepOutcomes, ElementStepOutcomes, StepOutcomes
  DEF Next, Returned
<1> QED BY <1>1, <1>2

\* What the two invariants say when rpmtsRun() returns.
LEMMA OutcomesAtEnd == TransactionInv /\ OutcomesInv => OutcomesAgree
<1> SUFFICES ASSUME TransactionInv, OutcomesInv PROVE OutcomesAgree
  OBVIOUS
<1>1. RecordFollowsFiles
  BY DEF OutcomesInv
<1>2. ASSUME pc = "done", nfailed >= 0, NEW e \in Elems, e \notin failed \/ nfailed = 0
      PROVE  Done(e)
  <2>1. PICK i \in 1..Len(Order) : Order[i] = e
    BY DEF Elems
  <2> QED BY <1>2, <2>1 DEF OutcomesInv, PassedDone, Passed
<1>3. SuccessMeansDone
  <2> SUFFICES ASSUME pc = "done", rc = 0
               PROVE  /\ ~nonzero
                      /\ flags \cap {"TEST", "NODB"} = {} /\ ~dberr =>
                           db = {<<e, IF e \in Added THEN "new" ELSE "old">> :
                                   e \in Elems \ Removed}
    BY DEF SuccessMeansDone
  <2>1. ~nonzero /\ (Order = <<>> \/ nfailed = 0)
    BY DEF OutcomesInv, ResultsFollow
  <2>2. ASSUME flags \cap {"TEST", "NODB"} = {}, ~dberr, NEW e \in Elems
        PROVE  /\ <<e, "new">> \in db <=> e \in Added
               /\ <<e, "old">> \in db <=> e \notin Added \cup Removed
    <3>1. Order # <<>>
      BY DEF Elems
    <3>2. Done(e)
      BY <1>2, <2>1, <3>1
    <3> QED BY <2>2, <3>2 DEF Done, OutcomesInv, RecordKinds
  <2>3. db \subseteq Elems \X {"old", "new"}
    BY DEF TransactionInv, TypeOK
  <2>4. ASSUME flags \cap {"TEST", "NODB"} = {}, ~dberr
        PROVE  db = {<<e, IF e \in Added THEN "new" ELSE "old">> : e \in Elems \ Removed}
    <3> DEFINE want == {<<e, IF e \in Added THEN "new" ELSE "old">> : e \in Elems \ Removed}
    <3>1. ASSUME NEW x \in db PROVE x \in want
      <4>1. PICK e \in Elems, v \in {"old", "new"} : x = <<e, v>>
        BY <2>3
      <4>2. e \notin Removed /\ v = IF e \in Added THEN "new" ELSE "old"
        BY <2>2, <2>4, <4>1, OrderFacts
      <4> QED BY <4>1, <4>2
    <3>2. ASSUME NEW x \in want PROVE x \in db
      <4>1. PICK e \in Elems \ Removed : x = <<e, IF e \in Added THEN "new" ELSE "old">>
        OBVIOUS
      <4> QED BY <2>2, <2>4, <4>1
    <3> QED BY <3>1, <3>2
  <2> QED BY <2>1, <2>4
<1>4. FailureIsContained
  <2> SUFFICES ASSUME pc = "done", nfailed >= 0, flags \cap {"TEST", "NODB"} = {}
               PROVE  /\ \A e \in Added \ failed : <<e, "new">> \in db
                      /\ \A e \in Removed \ failed : <<e, "old">> \notin db \/ dberr
    BY DEF FailureIsContained
  <2> QED BY <1>2, OrderFacts DEF Done
<1>5. HooksPaired
  <2> SUFFICES ASSUME pc = "done", ~Chroot, NEW h \in Elems \cup {"tsm"}
               PROVE  <<"pre", h>> \in hooks <=> <<"post", h>> \in hooks
    BY DEF HooksPaired
  <2>1. step = 0
    BY DEF TransactionInv, OpenElement
  <2> QED BY <2>1 DEF OutcomesInv, HooksOpen
<1>6. ScriptArgCounts
  <2> SUFFICES ASSUME pc = "process", pos <= Len(Order), step = NSteps(Cur) + 1, ok,
                      "NODB" \notin flags, ~dberr, Kind[Cur] # "restored",
                      Cur \notin Reinstalled
               PROVE  arg = CountPackages(Name[Cur])
    BY DEF ScriptArgCounts, ScriptArgRight
  <2>1. Cur \in Elems
    BY OrderRange, SMTT(30) DEF TransactionInv, TypeOK, Cur
  <2>2. NSteps(Cur) \in 1..15
    BY <2>1, StepsFacts
  <2>3. 1 \in 1..NSteps(Cur)
    BY <2>2
  <2>4. (Cur \in Added /\ NSteps(Cur) = 15) \/ (Cur \in Removed /\ NSteps(Cur) = 14)
    <3>1. \A e \in Elems : Kind[e] \in {"added", "removed", "restored"}
      BY TransactionAssumption DEF TransactionAssumption
    <3>2. Cur \in Added \cup Removed
      BY <2>1, <3>1 DEF Added, Removed
    <3>3. Cur \in Added => NSteps(Cur) = 15
      BY <2>1, StepsFacts
    <3>4. Cur \in Removed => NSteps(Cur) = 14
      BY <2>1, <2>3, StepNames
    <3> QED BY <3>2, <3>3, <3>4
  <2>5. CountPackages(Name[Cur]) \in Nat
    BY CountIsNat DEF TransactionInv
  <2> QED BY <2>2, <2>4, <2>5, SMTT(30) DEF OutcomesInv, OpenCount, DbAddStep, DbRemoveStep
<1> QED BY <1>1, <1>3, <1>4, <1>5, <1>6 DEF OutcomesAgree

\* What rpmtsRun() returns, records, unpacks and tells its scriptlets and plugins
\* agrees, for every transaction set, whichever elements, scriptlets or database
\* updates fail, and the first part of it also where the process is killed.
THEOREM OutcomesAlwaysAgree == Spec => []OutcomesAgree
<1>1. Init => TransactionInv /\ OutcomesInv
  BY InitTransactionInv, InitOutcomesInv
<1>2. TransactionInv /\ OutcomesInv /\ [Next]_vars => TransactionInv' /\ OutcomesInv'
  BY NextTransactionInv, NextOutcomesInv
<1>3. TransactionInv /\ OutcomesInv => OutcomesAgree
  BY OutcomesAtEnd
<1> QED BY <1>1, <1>2, <1>3, PTL DEF Spec
=====================
