------------------------- MODULE TransactionProofs -------------------------
(***************************************************************************)
(* An upgrade never loses both versions, for any transaction set, any      *)
(* flags and any failures.  The argument is TransactionInv of Transaction: *)
(* a step that erases or forgets an old version is a step of an open       *)
(* element; an open element has not failed; so the install it belongs to   *)
(* has not failed either, it comes earlier in the order, and an install    *)
(* that was passed without failing is unpacked and recorded.               *)
(***************************************************************************)
EXTENDS Transaction, FiniteSetTheorems, TLAPS

Phase == {"start", "txnlock", "keylock", "setup", "check", "prepare", "final",
          "exit", "done", "process"} \cup ScriptPhases \cup TriggerPhases

\* What the assumption on the constants says of positions in the order.
LEMMA OrderDistinct ==
    ASSUME NEW i \in 1..Len(Order), NEW j \in 1..Len(Order), Order[i] = Order[j]
    PROVE  i = j
BY TransactionAssumption DEF TransactionAssumption

LEMMA OrderRange ==
    Len(Order) \in Nat /\ \A i \in 1..Len(Order) : Order[i] \in Elems
BY TransactionAssumption DEF TransactionAssumption

LEMMA OrderFacts ==
    /\ Len(Order) \in Nat
    /\ \A i \in 1..Len(Order) : Order[i] \in Elems
    /\ \A i, j \in 1..Len(Order) : Order[i] = Order[j] => i = j
    /\ \A r \in Removed : DependsOn[r] # NoElem => DependsOn[r] \in Added
    /\ Added \subseteq Elems /\ Removed \subseteq Elems
    /\ Added \cap Removed = {}
    /\ \A i, j \in 1..Len(Order) :
         Order[i] \in Added /\ DependsOn[Order[j]] = Order[i] => i < j
<1>1. Len(Order) \in Nat /\ \A i \in 1..Len(Order) : Order[i] \in Elems
  BY OrderRange
<1>2. /\ Added \subseteq Elems /\ Removed \subseteq Elems
      /\ Added \cap Removed = {}
  BY DEF Added, Removed
<1>3. \A r \in Removed : DependsOn[r] # NoElem => DependsOn[r] \in Added
  BY <1>2, TransactionAssumption DEF TransactionAssumption
<1>4. \A i, j \in 1..Len(Order) : Order[i] = Order[j] => i = j
  BY TransactionAssumption DEF TransactionAssumption
<1>5. \A i, j \in 1..Len(Order) :
         Order[i] \in Added /\ DependsOn[Order[j]] = Order[i] => i < j
  BY TransactionAssumption DEF TransactionAssumption
<1> QED BY <1>1, <1>2, <1>3, <1>4, <1>5

\* rpmPackageInstall() unpacks and records once, and erases nothing.
LEMMA InstallFacts ==
    /\ Len(InstallSteps) = 15
    /\ \A i \in 1..15 :
         /\ InstallSteps[i] = "unpack" <=> i = UnpackStep
         /\ InstallSteps[i] = "dbadd" <=> i = DbAddStep
         /\ InstallSteps[i] # "erase"
<1>1. Len(InstallSteps) = 15
  BY DEF InstallSteps
<1>2. SUFFICES ASSUME NEW i \in 1..15
      PROVE /\ InstallSteps[i] = "unpack" <=> i = UnpackStep
            /\ InstallSteps[i] = "dbadd" <=> i = DbAddStep
            /\ InstallSteps[i] # "erase"
  BY <1>1
<1>3. /\ InstallSteps[1] = "sysusers" /\ InstallSteps[2] = "triggerprein any"
      /\ InstallSteps[3] = "triggerprein own" /\ InstallSteps[4] = "pre"
      /\ InstallSteps[5] = "unpack" /\ InstallSteps[6] = "dbremove"
      /\ InstallSteps[7] = "dbadd"
      /\ InstallSteps[8] = "filetriggerin any hi"
      /\ InstallSteps[9] = "filetriggerin own hi"
      /\ InstallSteps[10] = "post" /\ InstallSteps[11] = "triggerin any"
      /\ InstallSteps[12] = "triggerin own"
      /\ InstallSteps[13] = "filetriggerin any lo"
      /\ InstallSteps[14] = "filetriggerin own lo"
      /\ InstallSteps[15] = "markreplaced"
  BY DEF InstallSteps
<1>4. i \in {1,2,3,4,5,6,7,8,9,10,11,12,13,14,15}
  OBVIOUS
<1> QED BY <1>3, <1>4 DEF UnpackStep, DbAddStep

\* How many steps an element has.
LEMMA StepsFacts ==
  ASSUME NEW e \in Elems
  PROVE  /\ NSteps(e) \in 1..15
         /\ e \in Added => Steps(e) = InstallSteps /\ NSteps(e) = 15
         /\ e \in Removed => Steps(e) = EraseSteps
<1>1. Kind[e] \in {"added", "removed", "restored"}
  BY TransactionAssumption DEF TransactionAssumption
<1>2. Len(InstallSteps) = 15 /\ Len(EraseSteps) = 14 /\ Len(RestoreSteps) = 1
  BY DEF InstallSteps, EraseSteps, RestoreSteps
<1> QED BY <1>1, <1>2 DEF Steps, NSteps, Added, Removed

\* Every step of an element is a scriptlet slot or one of the other steps.
LEMMA StepsInSlots ==
  ASSUME NEW e \in Elems, NEW i \in 1..NSteps(e)
  PROVE  Steps(e)[i] \in Slots \cup NotScripts
<1>1. Kind[e] \in {"added", "removed", "restored"}
  BY TransactionAssumption DEF TransactionAssumption
<1>2. CASE Kind[e] = "restored"
  BY <1>2 DEF Steps, NSteps, RestoreSteps, NotScripts
<1> QED BY <1>1, <1>2 DEF Steps, NSteps, Slots

\* What a step of an element does to the world: only its own files and its own
\* records change, no new record goes, a file move that succeeds completes the
\* package, a dbAdd() that succeeds records it.
StepTypes ==
    /\ ok' \in BOOLEAN /\ dberr' \in BOOLEAN /\ trigs' \in BOOLEAN
    /\ scriptError' \in BOOLEAN /\ nonzero' \in BOOLEAN
    /\ last' \in Slots \cup {"none"}
    /\ disk' \in [Elems -> {"absent", "partial", "complete"}]
    /\ db' \subseteq Elems \X {"old", "new"}

StepLocal(s) ==
    /\ \A e \in Elems : e # Cur => disk'[e] = disk[e]
    /\ \A e \in Elems, v \in {"old", "new"} :
         e # Cur => (<<e, v>> \in db' <=> <<e, v>> \in db)
    /\ <<Cur, "new">> \in db => <<Cur, "new">> \in db'
    /\ s \notin {"unpack", "erase"} \/ "JUSTDB" \in flags => disk' = disk
    /\ s = "unpack" /\ ok' => disk'[Cur] = "complete" \/ "JUSTDB" \in flags
    /\ s = "dbadd" /\ ok' => <<Cur, "new">> \in db' \/ "NODB" \in flags
    /\ "NODB" \in flags => db' = db

LEMMA StepEffectFacts ==
  ASSUME TypeOK, Cur \in Elems, NEW s \in Slots \cup NotScripts, StepEffect(s)
  PROVE  StepTypes /\ StepLocal(s)
<1>1. CASE DisabledBy(s) \cap flags # {}
  <2>1. ok' = TRUE /\ UNCHANGED <<worldVars, scriptVars, trigs>>
    BY <1>1 DEF StepEffect
  <2>2. s = "unpack" => DisabledBy(s) = {}
    BY DEF DisabledBy
  <2>3. s = "dbadd" => DisabledBy(s) = {"NODB"}
    BY DEF DisabledBy
  <2> QED BY <1>1, <2>1, <2>2, <2>3
          DEF TypeOK, worldVars, scriptVars, StepTypes, StepLocal
<1>2. ASSUME DisabledBy(s) \cap flags = {}, s \in {"unpack", "erase"},
             NEW to \in {"complete", "absent"}, MoveFiles(to),
             s = "unpack" => to = "complete"
      PROVE StepTypes /\ StepLocal(s)
  <2>1. StepTypes
    BY <1>2, Zenon DEF TypeOK, MoveFiles, scriptVars, StepTypes
  <2>2. StepLocal(s)
    BY <1>2 DEF TypeOK, MoveFiles, StepLocal
  <2> QED BY <2>1, <2>2
<1>3. ASSUME DisabledBy(s) \cap flags = {}, s = "dbremove", DbRemove
      PROVE StepTypes /\ StepLocal(s)
  <2>1. "NODB" \notin flags
    BY <1>3 DEF DisabledBy
  <2>2. StepTypes
    <3>1. /\ ok' \in BOOLEAN /\ dberr' \in BOOLEAN
          /\ UNCHANGED <<disk, scriptVars, trigs>>
      BY <1>3, Zenon DEF DbRemove, TypeOK
    <3>2. db' = db \/ db' = db \ {<<Cur, "old">>}
      BY <1>3 DEF DbRemove
    <3>3. db' \subseteq Elems \X {"old", "new"}
      BY <3>2 DEF TypeOK
    <3> QED BY <3>1, <3>3 DEF TypeOK, scriptVars, StepTypes
  <2>3. StepLocal(s)
    BY <1>3, <2>1 DEF TypeOK, DbRemove, StepLocal
  <2> QED BY <2>2, <2>3
<1>4. ASSUME DisabledBy(s) \cap flags = {}, s = "dbadd", DbAdd
      PROVE StepTypes /\ StepLocal(s)
  <2>1. "NODB" \notin flags
    BY <1>4 DEF DisabledBy
  <2>2. StepTypes
    <3>1. ok' \in BOOLEAN /\ UNCHANGED <<disk, dberr, scriptVars, trigs>>
      BY <1>4, Zenon DEF DbAdd
    <3>2. db' = db \/ db' = db \cup {<<Cur, "new">>}
      BY <1>4 DEF DbAdd
    <3>3. db' \subseteq Elems \X {"old", "new"}
      BY <3>2 DEF TypeOK
    <3> QED BY <3>1, <3>3 DEF TypeOK, scriptVars, StepTypes
  <2>3. StepLocal(s)
    BY <1>4, <2>1 DEF TypeOK, DbAdd, StepLocal
  <2> QED BY <2>2, <2>3
<1>5. ASSUME s \in Slots \ NotScripts, ElemScript(s)
      PROVE StepTypes /\ StepLocal(s)
  <2>1. UNCHANGED worldVars /\ UNCHANGED trigs
    BY <1>5 DEF ElemScript
  <2>2. PICK o \in Outcomes(s) :
             RunScript(s, o) /\ ok' = (ScriptOk(s, o) \/ s = "filetriggerpostun hi")
    BY <1>5 DEF ElemScript
  <2>3. scriptError' \in BOOLEAN /\ nonzero' \in BOOLEAN
        /\ last' \in Slots \cup {"none"}
    BY <1>5, <2>2 DEF RunScript, TypeOK
  <2>4. ok' \in BOOLEAN
    BY <2>2 DEF ScriptOk
  <2>5. StepTypes
    BY <2>1, <2>3, <2>4 DEF StepTypes, TypeOK, worldVars
  <2>6. StepLocal(s)
    BY <1>5, <2>1 DEF StepLocal, worldVars, NotScripts
  <2> QED BY <2>5, <2>6
<1>6. ASSUME s \in {"markreplaced", "preptransfiletriggers"}, ok' = TRUE,
             trigs' \in {trigs, TRUE}, UNCHANGED <<worldVars, scriptVars>>
      PROVE StepTypes /\ StepLocal(s)
  BY <1>6, Zenon DEF StepTypes, StepLocal, TypeOK, worldVars, scriptVars
<1>7. CASE DisabledBy(s) \cap flags = {}
  <2>1. \/ s = "unpack" /\ MoveFiles("complete")
        \/ s = "erase" /\ MoveFiles("absent")
        \/ s = "dbremove" /\ DbRemove
        \/ s = "dbadd" /\ DbAdd
        \/ s = "markreplaced" /\ ok' = TRUE
           /\ UNCHANGED <<worldVars, scriptVars, trigs>>
        \/ s = "preptransfiletriggers" /\ ok' = TRUE
           /\ trigs' \in {trigs, TRUE} /\ UNCHANGED <<worldVars, scriptVars>>
        \/ s \notin NotScripts /\ ElemScript(s)
    BY <1>7, Zenon DEF StepEffect
  <2> QED BY <2>1, <1>2, <1>3, <1>4, <1>5, <1>6, <1>7, Zenon
<1> QED BY <1>1, <1>7

\* rpmteMarkFailed() keeps the failed elements closed under their erasures.
LEMMA WithErasuresFacts ==
  ASSUME FailedClosed, failed \subseteq Elems, NEW S \in SUBSET Elems,
         failed' = failed \cup WithErasures(S)
  PROVE  FailedClosed' /\ failed' \in SUBSET Elems
<1>1. failed' \in SUBSET Elems
  BY OrderFacts DEF WithErasures
<1>2. SUFFICES ASSUME NEW r \in Removed, DependsOn[r] \in failed'
               PROVE  r \in failed'
  BY <1>1 DEF FailedClosed
<1>3. DependsOn[r] \notin Removed
  BY OrderFacts, TransactionAssumption, <1>1, <1>2 DEF TransactionAssumption
<1> QED BY <1>2, <1>3 DEF FailedClosed, WithErasures

\* The steps between elements: files and records stay, no element is open.
LEMMA QuietStep ==
  ASSUME TransactionInv, step = 0, step' = 0, UNCHANGED <<db, disk>>,
         TypeOK', FailedClosed', LocksHeld', LocksInTurn',
         pc' = "process" => pos' = 1,
         pc' \in BeforeProcess \cup {"process"} => pc \in BeforeProcess
  PROVE  TransactionInv'
<1>1. OpenElement' /\ OpenInstall'
  BY DEF OpenElement, OpenInstall
<1>2. PassedInstalls'
  BY DEF PassedInstalls
<1>3. RemovalsWait'
  <2>1. ASSUME pc' \in BeforeProcess \cup {"process"}
        PROVE  \A r \in Removed : disk'[r] = "complete"
    BY <2>1 DEF TransactionInv, RemovalsWait
  <2> QED BY <2>1 DEF RemovalsWait
<1>4. UpgradeKeepsAVersion'
  BY DEF UpgradeKeepsAVersion, TransactionInv
<1> QED BY <1>1, <1>2, <1>3, <1>4 DEF TransactionInv

\* Init establishes the invariant: what is to go is there.
LEMMA InitTransactionInv == Init => TransactionInv
<1> SUFFICES ASSUME Init PROVE TransactionInv
  OBVIOUS
<1>1. Removed \subseteq Installed /\ Installed \subseteq Elems
  BY OrderFacts, TransactionAssumption
  DEF Installed, Removed, Added, TransactionAssumption
<1>2. /\ db \subseteq Elems \X {"old", "new"}
      /\ disk \in [Elems -> {"absent", "partial", "complete"}]
      /\ \A r \in Removed : disk[r] = "complete" /\ <<r, "old">> \in db
  BY <1>1, OrderFacts DEF Init
<1>3. TypeOK
  <2>1. /\ pos \in 1..(Len(Order) + 1) /\ step \in 0..16
        /\ arg \in Int /\ rc \in Int /\ nfailed \in Int
    BY OrderFacts DEF Init
  <2>2. /\ ok \in BOOLEAN /\ problems \in BOOLEAN /\ scriptError \in BOOLEAN
        /\ trigs \in BOOLEAN /\ nonzero \in BOOLEAN /\ dberr \in BOOLEAN
    BY DEF Init
  <2> QED BY <1>2, <2>1, <2>2 DEF Init, TypeOK
<1>4. FailedClosed /\ OpenElement /\ OpenInstall /\ PassedInstalls
  BY DEF Init, FailedClosed, OpenElement, OpenInstall, PassedInstalls
<1>5. RemovalsWait /\ LocksHeld /\ LocksInTurn
  BY <1>2 DEF Init, RemovalsWait, LocksHeld, LocksInTurn, ScriptPhases,
              TriggerPhases
<1>6. UpgradeKeepsAVersion
  BY <1>2 DEF UpgradeKeepsAVersion
<1> QED BY <1>3, <1>4, <1>5, <1>6 DEF TransactionInv

\* The steps before and after processing keep the invariant.
LEMMA OuterStepInv ==
  ASSUME TransactionInv,
         \/ Start \/ TakeLock("txn", "txnlock", "keylock")
         \/ TakeLock("key", "keylock", "setup") \/ Setup \/ Check \/ Prepare
         \/ Final \/ Exit
  PROVE  TransactionInv'
<1> USE DEF elemVars, resultVars, worldVars, scriptVars, ownVars
<1>1. CASE Start
  <2>1. step = 0 /\ step' = 0 /\ UNCHANGED <<db, disk>>
    BY <1>1 DEF Start, TransactionInv, OpenElement
  <2>2. pc' \in {"exit", "setup", "txnlock"}
        /\ (pc' = "setup" => "TEST" \in flags')
    BY <1>1 DEF Start
  <2>3. TypeOK'
    BY <1>1, <2>2 DEF Start, TransactionInv, TypeOK
  <2>4. FailedClosed'
    BY <1>1 DEF Start, TransactionInv, FailedClosed
  <2>5. LocksHeld' /\ LocksInTurn'
    BY <1>1, <2>2 DEF Start, TransactionInv, LocksHeld, LocksInTurn, ScriptPhases, TriggerPhases
  <2>6. pc \in BeforeProcess
    BY <1>1 DEF Start, BeforeProcess
  <2> QED BY <2>1, <2>2, <2>3, <2>4, <2>5, <2>6, QuietStep
<1>2. CASE TakeLock("txn", "txnlock", "keylock")
  <2>1. step = 0 /\ step' = 0 /\ UNCHANGED <<db, disk>>
    BY <1>2 DEF TakeLock, TransactionInv, OpenElement
  <2>2. \/ pc' = "keylock" /\ locks' = locks \cup {"txn"}
        \/ pc' = "exit" /\ locks' = locks
    BY <1>2 DEF TakeLock
  <2>3. TypeOK'
    BY <1>2, <2>2, Zenon DEF TakeLock, TransactionInv, TypeOK
  <2>4. FailedClosed'
    BY <1>2 DEF TakeLock, TransactionInv, FailedClosed
  <2>5. LocksHeld' /\ LocksInTurn'
    BY <1>2, <2>2
    DEF TakeLock, TransactionInv, LocksHeld, LocksInTurn,
        ScriptPhases, TriggerPhases
  <2>6. pc \in BeforeProcess
    BY <1>2 DEF TakeLock, BeforeProcess
  <2> QED BY <2>1, <2>2, <2>3, <2>4, <2>5, <2>6, QuietStep
<1>3. CASE TakeLock("key", "keylock", "setup")
  <2>1. step = 0 /\ step' = 0 /\ UNCHANGED <<db, disk>>
    BY <1>3 DEF TakeLock, TransactionInv, OpenElement
  <2>2. \/ pc' = "setup" /\ locks' = locks \cup {"key"}
        \/ pc' = "exit" /\ locks' = locks
    BY <1>3 DEF TakeLock
  <2>3. TypeOK'
    BY <1>3, <2>2, Zenon DEF TakeLock, TransactionInv, TypeOK
  <2>4. FailedClosed'
    BY <1>3 DEF TakeLock, TransactionInv, FailedClosed
  <2>5. LocksHeld' /\ LocksInTurn'
    BY <1>3, <2>2
    DEF TakeLock, TransactionInv, LocksHeld, LocksInTurn, ScriptPhases,
        TriggerPhases
  <2>6. pc \in BeforeProcess
    BY <1>3 DEF TakeLock, BeforeProcess
  <2> QED BY <2>1, <2>2, <2>3, <2>4, <2>5, <2>6, QuietStep
<1>4. CASE Setup
  <2>1. step = 0 /\ step' = 0 /\ UNCHANGED <<db, disk>>
    BY <1>4 DEF Setup, TransactionInv, OpenElement
  <2>2. pc' \in {"check", "exit"} /\ flags \subseteq flags'
    BY <1>4 DEF Setup, SetupFlags
  <2>3. TypeOK'
    BY <1>4, <2>2 DEF Setup, TransactionInv, TypeOK
  <2>4. FailedClosed'
    BY <1>4 DEF Setup, TransactionInv, FailedClosed
  <2>5. LocksHeld' /\ LocksInTurn'
    BY <1>4, <2>2 DEF Setup, TransactionInv, LocksHeld, LocksInTurn
  <2>6. pc \in BeforeProcess
    BY <1>4 DEF Setup, BeforeProcess
  <2> QED BY <2>1, <2>2, <2>3, <2>4, <2>5, <2>6, QuietStep
<1>5. CASE Check
  <2>1. step = 0 /\ step' = 0 /\ UNCHANGED <<db, disk>>
    BY <1>5 DEF Check, TransactionInv, OpenElement
  <2>2. pc' \in {"exit", "prepare", "pretrans"}
    BY <1>5 DEF Check
  <2>3. PICK S \in SUBSET Elems : FindProblems(S)
    BY <1>5 DEF Check
  <2>4. FailedClosed' /\ failed' \in SUBSET Elems
    BY <2>3, WithErasuresFacts DEF FindProblems, TransactionInv, TypeOK
  <2>5. TypeOK'
    <3>1. problems' \in BOOLEAN
      BY <2>3 DEF FindProblems
    <3>2. hooks' \subseteq {"pre", "post"} \X (Elems \cup {"tsm"})
      BY <1>5 DEF Check, TransactionInv, TypeOK
    <3> QED BY <1>5, <2>2, <2>4, <3>1, <3>2, OrderRange
            DEF Check, TransactionInv, TypeOK, ScriptPhases
  <2>6. LocksHeld' /\ LocksInTurn'
    BY <1>5, <2>2 DEF Check, TransactionInv, LocksHeld, LocksInTurn
  <2>7. pc \in BeforeProcess
    BY <1>5 DEF Check, BeforeProcess
  <2> QED BY <2>1, <2>2, <2>4, <2>5, <2>6, <2>7, QuietStep
<1>6. CASE Prepare
  <2>1. step = 0 /\ step' = 0 /\ UNCHANGED <<db, disk>>
    BY <1>6 DEF Prepare, TransactionInv, OpenElement
  <2>2. pc' \in {"exit", "preuntrans"}
    BY <1>6 DEF Prepare
  <2>3. /\ FailedClosed' /\ failed' \in SUBSET Elems /\ problems' \in BOOLEAN
        /\ rc' \in Int
    <3>1. ASSUME NEW S \in SUBSET Elems, FindProblems(S),
                 rc' = Len(Order) \/ rc' = rc
          PROVE /\ FailedClosed' /\ failed' \in SUBSET Elems
                /\ problems' \in BOOLEAN /\ rc' \in Int
      BY <3>1, WithErasuresFacts, OrderFacts
      DEF FindProblems, TransactionInv, TypeOK
    <3>2. CASE UNCHANGED <<problems, failed, rc>>
      BY <3>2 DEF TransactionInv, TypeOK, FailedClosed
    <3> QED BY <1>6, <3>1, <3>2 DEF Prepare
  <2>4. TypeOK'
    BY <1>6, <2>2, <2>3, OrderRange, SMTT(30)
    DEF Prepare, TransactionInv, TypeOK, ScriptPhases
  <2>5. LocksHeld' /\ LocksInTurn'
    BY <1>6, <2>2 DEF Prepare, TransactionInv, LocksHeld, LocksInTurn
  <2>6. pc \in BeforeProcess
    BY <1>6 DEF Prepare, BeforeProcess
  <2> QED BY <2>1, <2>2, <2>3, <2>4, <2>5, <2>6, QuietStep
<1>7. CASE Final
  <2>1. step = 0 /\ step' = 0 /\ UNCHANGED <<db, disk>> /\ pc' = "exit"
    BY <1>7 DEF Final, TransactionInv, OpenElement
  <2>2. TypeOK'
    BY <1>7, SMTT(30) DEF Final, TransactionInv, TypeOK
  <2>3. FailedClosed'
    BY <1>7 DEF Final, TransactionInv, FailedClosed
  <2>4. LocksHeld' /\ LocksInTurn'
    BY <2>1 DEF LocksHeld, LocksInTurn, ScriptPhases, TriggerPhases
  <2>5. pc' \notin BeforeProcess \cup {"process"}
    BY <2>1 DEF BeforeProcess
  <2> QED BY <2>1, <2>2, <2>3, <2>4, <2>5, QuietStep
<1>8. CASE Exit
  <2>1. step = 0 /\ step' = 0 /\ UNCHANGED <<db, disk>> /\ pc' = "done"
    BY <1>8 DEF Exit, TransactionInv, OpenElement
  <2>2. TypeOK'
    <3>1. hooks' \subseteq {"pre", "post"} \X (Elems \cup {"tsm"})
      BY <1>8 DEF Exit, TransactionInv, TypeOK
    <3> QED BY <1>8, <3>1 DEF Exit, TransactionInv, TypeOK
  <2>3. FailedClosed'
    BY <1>8 DEF Exit, TransactionInv, FailedClosed
  <2>4. LocksHeld' /\ LocksInTurn'
    BY <2>1 DEF LocksHeld, LocksInTurn, ScriptPhases, TriggerPhases
  <2>5. pc' \notin BeforeProcess \cup {"process"}
    BY <2>1 DEF BeforeProcess
  <2> QED BY <2>1, <2>2, <2>3, <2>4, <2>5, QuietStep
<1> QED BY <1>1, <1>2, <1>3, <1>4, <1>5, <1>6, <1>7, <1>8

\* The order of the phases: none before rpmtsProcess() follows one after it.
LEMMA PhaseOrder ==
  ASSUME NEW ph \in ScriptPhases \cup TriggerPhases \cup {"process"}
  PROVE  /\ Successor(ph) \in {"prepare", "process", "final"}
                               \cup ScriptPhases \cup TriggerPhases
         /\ Successor(ph) \in BeforeProcess \cup {"process"} => ph \in BeforeProcess
         /\ Successor(ph) \in AfterProcess => ph \in AfterProcess \cup {"process"}
         /\ ph \in TriggerPhases => Successor(ph) # "process"
<1>1. /\ Successor("pretrans") = "prepare"
      /\ Successor("preuntrans") = "transfiletriggerun any"
      /\ Successor("transfiletriggerun any") = "transfiletriggerun"
      /\ Successor("transfiletriggerun") = "process"
      /\ Successor("process") = "posttrans"
      /\ Successor("posttrans") = "postuntrans"
      /\ Successor("postuntrans") = "transfiletriggerin any"
      /\ Successor("transfiletriggerin any") = "transfiletriggerpostun any"
      /\ Successor("transfiletriggerpostun any") = "transfiletriggerin"
      /\ Successor("transfiletriggerin") = "final"
  BY DEF Successor
<1> QED BY <1>1 DEF ScriptPhases, TriggerPhases, BeforeProcess, AfterProcess

\* The script and trigger phases keep the invariant.
LEMMA PhaseStepInv ==
  ASSUME TransactionInv,
         \/ LeavePhase
         \/ \E ph \in ScriptPhases : ScriptPhase(ph)
         \/ \E ph \in TriggerPhases : TriggerPhase(ph)
  PROVE  TransactionInv'
<1> USE DEF elemVars, resultVars, worldVars, scriptVars, ownVars
<1>1. \A ph \in ScriptPhases \cup TriggerPhases \cup {"process"} :
        /\ Successor(ph) \in {"prepare", "process", "final"}
                             \cup ScriptPhases \cup TriggerPhases
        /\ Successor(ph) \in BeforeProcess \cup {"process"} => ph \in BeforeProcess
  BY PhaseOrder
<1>2. ASSUME NEW ph \in ScriptPhases \cup TriggerPhases \cup {"process"}, pc = ph,
             NextPhase(ph), UNCHANGED <<locks, flags>>
      PROVE  /\ LocksHeld' /\ LocksInTurn'
             /\ pc' \in {"prepare", "process", "final"}
                        \cup ScriptPhases \cup TriggerPhases
             /\ pc' \in BeforeProcess \cup {"process"} => pc \in BeforeProcess
             /\ pos' = 1
  <2>1. /\ pc' \in {"prepare", "process", "final"}
                    \cup ScriptPhases \cup TriggerPhases
        /\ pc' \in BeforeProcess \cup {"process"} => pc \in BeforeProcess
        /\ pos' = 1
    BY <1>1, <1>2 DEF NextPhase
  <2>2. pc' \notin {"start", "txnlock", "keylock"}
    BY <2>1 DEF ScriptPhases, TriggerPhases
  <2> QED BY <1>2, <2>1, <2>2 DEF TransactionInv, LocksHeld, LocksInTurn
<1>3. CASE LeavePhase
  <2>1. step = 0 /\ step' = 0 /\ UNCHANGED <<db, disk, locks, flags>>
    BY <1>3 DEF LeavePhase
  <2>2. /\ LocksHeld' /\ LocksInTurn'
        /\ pc' \in {"prepare", "process", "final"}
                   \cup ScriptPhases \cup TriggerPhases
        /\ pc' \in BeforeProcess \cup {"process"} => pc \in BeforeProcess
        /\ pos' = 1
    BY <1>2, <1>3, <2>1 DEF LeavePhase
  <2>3. TypeOK'
    BY <1>3, <2>1, <2>2, OrderRange, SMTT(30) DEF LeavePhase, TransactionInv, TypeOK
  <2>4. FailedClosed'
    BY <1>3, Zenon DEF LeavePhase, TransactionInv, FailedClosed
  <2> QED BY <2>1, <2>2, <2>3, <2>4, QuietStep
<1>4. ASSUME NEW ph \in ScriptPhases, ScriptPhase(ph)
      PROVE  TransactionInv'
  <2>1. /\ pc = ph /\ pc' = pc /\ pos <= Len(Order) /\ pos' = pos + 1
        /\ UNCHANGED <<db, disk, dberr, locks, flags, step, ok, arg, problems,
                       nfailed, rc, settings, hooks, trigs>>
    BY <1>4 DEF ScriptPhase, Running
  <2>2. pc # "process" /\ pc \notin {"start", "txnlock", "keylock"}
    BY <2>1 DEF ScriptPhases
  <2>3. step = 0 /\ step' = 0
    BY <2>1, <2>2 DEF TransactionInv, OpenElement
  <2>4. Order[pos] \in Elems
    BY <2>1, OrderRange DEF TransactionInv, TypeOK
  <2>5. /\ \/ failed' = failed \cup WithErasures({Order[pos]})
           \/ failed' = failed
        /\ \/ UNCHANGED scriptVars
           \/ \E o \in Outcomes(ph) : RunScript(ph, o)
    BY <1>4, Zenon DEF ScriptPhase
  <2>6. FailedClosed' /\ failed' \in SUBSET Elems
    BY <2>4, <2>5, WithErasuresFacts DEF TransactionInv, TypeOK, FailedClosed
  <2>7. /\ scriptError' \in BOOLEAN /\ nonzero' \in BOOLEAN
        /\ last' \in Slots \cup {"none"}
    BY <2>5, Zenon DEF TransactionInv, TypeOK, RunScript, Slots
  <2>8. pos' \in 1..(Len(Order) + 1)
    BY <2>1, OrderRange DEF TransactionInv, TypeOK
  <2>9. TypeOK'
    BY <2>1, <2>6, <2>7, <2>8 DEF TransactionInv, TypeOK
  <2>10. LocksHeld' /\ LocksInTurn'
    BY <2>1, <2>2 DEF TransactionInv, LocksHeld, LocksInTurn
  <2> QED BY <2>1, <2>2, <2>3, <2>6, <2>9, <2>10, QuietStep
<1>5. ASSUME NEW ph \in TriggerPhases, TriggerPhase(ph)
      PROVE  TransactionInv'
  <2>1. /\ pc = ph
        /\ UNCHANGED <<flags, step, ok, arg, failed, problems, nfailed, rc, db,
                       disk, dberr, locks, settings, hooks, trigs>>
    BY <1>5 DEF TriggerPhase, Running
  <2>2. step = 0 /\ step' = 0
    BY <2>1 DEF TransactionInv, OpenElement, TriggerPhases
  <2>3. /\ LocksHeld' /\ LocksInTurn'
        /\ pc' \in {"prepare", "process", "final"}
                   \cup ScriptPhases \cup TriggerPhases
        /\ pc' \in BeforeProcess \cup {"process"} => pc \in BeforeProcess
        /\ pos' = 1
    BY <1>2, <1>5, <2>1 DEF TriggerPhase
  <2>4. /\ scriptError' \in BOOLEAN /\ nonzero' \in BOOLEAN
        /\ last' \in Slots \cup {"none"}
    BY <1>5 DEF TriggerPhase, TransactionInv, TypeOK, RunScript, Slots
  <2>5. TypeOK'
    BY <2>1, <2>3, <2>4, OrderRange, SMTT(30) DEF TransactionInv, TypeOK
  <2>6. FailedClosed'
    BY <2>1 DEF TransactionInv, FailedClosed
  <2> QED BY <2>1, <2>2, <2>3, <2>5, <2>6, QuietStep
<1> QED BY <1>3, <1>4, <1>5

\* The database is finite, so that its records can be counted.
LEMMA DatabaseFinite ==
  ASSUME TypeOK, NEW n
  PROVE  IsFiniteSet({r \in db : Name[r[1]] = n})
<1>1. IsFiniteSet(Elems)
  <2>1. IsFiniteSet(1..Len(Order))
    BY OrderFacts, FS_Interval
  <2>2. Order \in [1..Len(Order) -> Elems]
    BY TransactionAssumption DEF TransactionAssumption
  <2>3. Order \in Surjection(1..Len(Order), Elems)
    BY <2>2 DEF Surjection, Elems
  <2> QED BY <2>1, <2>3, FS_Surjection
<1>2. IsFiniteSet({"old", "new"})
  <2>1. IsFiniteSet({"old"})
    BY FS_Singleton
  <2>2. {"old", "new"} = {"old"} \cup {"new"}
    OBVIOUS
  <2> QED BY <2>1, <2>2, FS_AddElement
<1>3. IsFiniteSet(Elems \X {"old", "new"})
  BY <1>1, <1>2, FS_Product
<1>4. {r \in db : Name[r[1]] = n} \in SUBSET (Elems \X {"old", "new"})
  BY DEF TypeOK
<1> QED BY <1>3, <1>4, FS_Subset

LEMMA CountIsNat ==
  ASSUME TypeOK, NEW n
  PROVE  CountPackages(n) \in Nat
BY DatabaseFinite, FS_CardinalityType DEF CountPackages

\* Opening, passing over and closing an element keep the invariant.
LEMMA ElementStepInv ==
  ASSUME TransactionInv, OpenRefused \/ OpenTest \/ Open \/ Close
  PROVE  TransactionInv'
<1> USE DEF elemVars, resultVars, worldVars, scriptVars, ownVars
<1>1. /\ pc = "process" /\ pc' = pc /\ pos <= Len(Order) /\ pos \in Nat /\ pos >= 1
      /\ UNCHANGED <<flags, db, disk, dberr, locks, settings, problems, rc,
                     scriptError, last, nonzero, trigs>>
  <2>1. /\ pc = "process" /\ pc' = pc /\ pos <= Len(Order)
        /\ UNCHANGED <<flags, db, disk, dberr, locks, settings, problems, rc,
                       scriptError, last, nonzero, trigs>>
    BY Zenon DEF OpenRefused, OpenTest, Open, Close, Processing, Running
  <2>2. pos \in 1..(Len(Order) + 1)
    BY Zenon DEF TransactionInv, TypeOK
  <2> QED BY <2>1, <2>2, OrderRange
<1>2. Cur \in Elems /\ Order[pos] = Cur
  BY <1>1, OrderRange, SMTT(30) DEF Cur
<1>3. LocksHeld' /\ LocksInTurn' /\ UpgradeKeepsAVersion'
  BY <1>1 DEF TransactionInv, LocksHeld, LocksInTurn, UpgradeKeepsAVersion
<1>4. ASSUME pos' = pos + 1, step' = 0, failed \subseteq failed',
             "TEST" \notin flags /\ Cur \in Added \ failed' =>
                 Unpacked(Cur) /\ Recorded(Cur)
      PROVE  OpenElement' /\ OpenInstall' /\ PassedInstalls' /\ RemovalsWait'
  <2>1. OpenElement' /\ OpenInstall'
    BY <1>4 DEF OpenElement, OpenInstall
  <2>2. RemovalsWait'
    <3>1. \A j \in (pos + 1)..Len(Order) :
            Order[j] \in Removed => disk[Order[j]] = "complete"
      BY <1>1 DEF TransactionInv, RemovalsWait
    <3>2. (pos' + 1)..Len(Order) \subseteq (pos + 1)..Len(Order)
      BY <1>1, <1>4, OrderRange
    <3>3. pc' \notin BeforeProcess
      BY <1>1 DEF BeforeProcess
    <3> QED BY <1>1, <3>1, <3>2, <3>3 DEF RemovalsWait
  <2>3. PassedInstalls'
    <3> SUFFICES ASSUME "TEST" \notin flags, NEW i \in 1..pos,
                        Order[i] \in Added \ failed'
                 PROVE  Unpacked(Order[i])' /\ Recorded(Order[i])'
      BY <1>1, <1>4 DEF PassedInstalls
    <3>1. Unpacked(Order[i]) /\ Recorded(Order[i])
      <4>1. CASE i = pos
        BY <1>2, <1>4, <4>1
      <4>2. CASE i \in 1..(pos - 1)
        BY <1>1, <1>4, <4>2 DEF TransactionInv, PassedInstalls
      <4> QED BY <1>1, <4>1, <4>2
    <3> QED BY <1>1, <3>1 DEF Unpacked, Recorded
  <2> QED BY <2>1, <2>2, <2>3
<1>5. ASSUME ElemFailed
      PROVE  /\ FailedClosed' /\ failed' \in SUBSET Elems /\ nfailed' \in Int
             /\ failed \subseteq failed' /\ Cur \in failed'
  <2>1. failed' = failed \cup WithErasures({Cur}) /\ nfailed' = nfailed + 1
    BY <1>5 DEF ElemFailed
  <2>2. FailedClosed' /\ failed' \in SUBSET Elems
    <3>1. {Cur} \in SUBSET Elems
      BY <1>2
    <3>2. FailedClosed /\ failed \subseteq Elems
      BY DEF TransactionInv, TypeOK
    <3> QED BY <2>1, <3>1, <3>2, WithErasuresFacts
  <2> QED BY <2>1, <2>2 DEF WithErasures, TransactionInv, TypeOK
<1>6. CASE OpenRefused
  <2>1. ElemFailed /\ pos' = pos + 1 /\ step' = 0 /\ UNCHANGED <<ok, arg, hooks>>
    BY <1>6 DEF OpenRefused
  <2>2. TypeOK'
    BY <1>1, <1>5, <2>1, OrderRange, SMTT(30) DEF TransactionInv, TypeOK
  <2> QED BY <1>3, <1>4, <1>5, <2>1, <2>2 DEF TransactionInv
<1>7. CASE OpenTest
  <2>1. /\ pos' = pos + 1 /\ step' = 0 /\ "TEST" \in flags
        /\ UNCHANGED <<ok, arg, hooks, failed, nfailed>>
    BY <1>7 DEF OpenTest
  <2>2. TypeOK'
    BY <1>1, <2>1, OrderRange, SMTT(30) DEF TransactionInv, TypeOK
  <2>3. FailedClosed'
    BY <2>1 DEF TransactionInv, FailedClosed
  <2> QED BY <1>3, <1>4, <2>1, <2>2, <2>3 DEF TransactionInv
<1>8. CASE Close
  <2>1. /\ pos' = pos + 1 /\ step' = 0 /\ step = NSteps(Cur) + 1
        /\ UNCHANGED <<ok, arg>>
    BY <1>8 DEF Close
  <2>2. /\ FailedClosed' /\ failed' \in SUBSET Elems /\ nfailed' \in Int
        /\ failed \subseteq failed'
        /\ ~ok => Cur \in failed'
    <3>1. CASE ok
      BY <1>8, <3>1 DEF Close, TransactionInv, TypeOK, FailedClosed
    <3>2. CASE ~ok
      BY <1>5, <1>8, <3>2 DEF Close
    <3> QED BY <3>1, <3>2
  <2>3. hooks' \subseteq {"pre", "post"} \X (Elems \cup {"tsm"})
    BY <1>2, <1>8, SMTT(30) DEF Close, TransactionInv, TypeOK
  <2>4. TypeOK'
    BY <1>1, <2>1, <2>2, <2>3, OrderRange, SMTT(30) DEF TransactionInv, TypeOK
  <2>5. Cur \in Added \ failed' => Unpacked(Cur) /\ Recorded(Cur)
    <3>1. Cur \in Added => NSteps(Cur) = 15
      BY <1>2, StepsFacts, InstallFacts
    <3>2. Cur \in Added => step = 16
      BY <2>1, <3>1
    <3>3. Cur \in Added \ failed' => ok
      BY <2>2
    <3> QED BY <3>2, <3>3
            DEF TransactionInv, OpenInstall, UnpackStep, DbAddStep
  <2> QED BY <1>3, <1>4, <2>1, <2>2, <2>4, <2>5 DEF TransactionInv
<1>9. CASE Open
  <2>1. /\ Cur \notin failed /\ "TEST" \notin flags
        /\ UNCHANGED <<pos, failed, nfailed>>
        /\ arg' = ScriptArg(Cur)
        /\ ok' \in BOOLEAN
        /\ step' = IF ok' THEN 1 ELSE NSteps(Cur) + 1
    BY <1>9, Zenon DEF Open
  <2>2. NSteps(Cur) \in 1..15
    BY <1>2, StepsFacts
  <2>3. step' \in 1..16 /\ step' <= NSteps(Cur) + 1 /\ (ok' => step' = 1)
    <3>1. CASE ok'
      BY <2>1, <2>2, <3>1
    <3>2. CASE ~ok'
      BY <2>1, <2>2, <3>2
    <3> QED BY <3>1, <3>2
  <2>4. hooks' \subseteq {"pre", "post"} \X (Elems \cup {"tsm"})
    <3>1. hooks \subseteq {"pre", "post"} \X (Elems \cup {"tsm"})
      BY Zenon DEF TransactionInv, TypeOK
    <3>2. hooks' \subseteq hooks \cup {<<"pre", Cur>>}
      BY <1>9 DEF Open
    <3> QED BY <1>2, <3>1, <3>2
  <2>5. arg' \in Int
    <3>1. CountPackages(Name[Cur]) \in Nat
      BY CountIsNat DEF TransactionInv
    <3>2. \/ arg' = CountPackages(Name[Cur]) + 1
          \/ arg' = CountPackages(Name[Cur]) - 1
          \/ arg' = 0
      BY <2>1 DEF ScriptArg
    <3> QED BY <3>1, <3>2
  <2>6. TypeOK'
    <3>1. step' \in 0..16
      BY <2>3
    <3> QED BY <1>1, <2>1, <2>4, <2>5, <3>1, Zenon DEF TransactionInv, TypeOK
  <2>7. OpenElement' /\ OpenInstall'
    BY <1>1, <2>1, <2>3, SMTT(30)
    DEF OpenElement, OpenInstall, Cur, UnpackStep, DbAddStep
  <2>8. FailedClosed' /\ PassedInstalls' /\ RemovalsWait'
    BY <1>1, <2>1, Zenon
    DEF TransactionInv, FailedClosed, PassedInstalls, RemovalsWait, Unpacked,
        Recorded
  <2> QED BY <1>3, <2>6, <2>7, <2>8 DEF TransactionInv
<1> QED BY <1>6, <1>7, <1>8, <1>9

\* A step of an open element keeps the invariant.
LEMMA StepInv ==
  ASSUME TransactionInv, Step
  PROVE  TransactionInv'
<1> DEFINE s == Steps(Cur)[step]
<1>1. /\ pc = "process" /\ pos <= Len(Order) /\ pos \in Nat /\ pos >= 1
      /\ step \in 1..NSteps(Cur) /\ StepEffect(s)
      /\ step' = IF ok' THEN step + 1 ELSE NSteps(Cur) + 1
      /\ UNCHANGED <<pc, flags, pos, arg, failed, problems, nfailed, rc, locks,
                     settings, hooks>>
  BY SMTT(30) DEF TransactionInv, TypeOK, Step, Processing, Running, resultVars, ownVars
<1> HIDE DEF s
<1>0. pos \in 1..Len(Order)
  BY <1>1, OrderRange
<1>2. Cur \in Elems /\ Order[pos] = Cur /\ Cur' = Cur
  BY <1>0, <1>1, OrderFacts, Zenon DEF Cur
<1>3. NSteps(Cur) \in 1..15
  BY <1>2, StepsFacts
<1>4. s \in Slots \cup NotScripts
  BY <1>1, <1>2, StepsInSlots DEF s
<1>5. StepTypes /\ StepLocal(s)
  BY <1>1, <1>2, <1>4, StepEffectFacts DEF TransactionInv
<1>6. /\ step' \in 1..16 /\ step' <= NSteps(Cur) + 1
      /\ ok' => step' = step + 1
  <2> DEFINE n == NSteps(Cur)
  <2>0. /\ n \in 1..15 /\ step \in 1..n
        /\ ok' => step' = step + 1
        /\ ~ok' => step' = n + 1
    BY <1>1, <1>3, Zenon
  <2> HIDE DEF n
  <2>1. step' = step + 1 \/ step' = n + 1
    BY <2>0, Zenon
  <2>2. step' \in 1..16 /\ step' <= n + 1
    BY <2>0, <2>1
  <2> QED BY <2>0, <2>2, Zenon DEF n
<1>7. TypeOK'
  BY <1>1, <1>5, <1>6, SMTT(30) DEF TransactionInv, TypeOK, StepTypes
<1>8. FailedClosed' /\ LocksHeld' /\ LocksInTurn'
  BY <1>1 DEF TransactionInv, FailedClosed, LocksHeld, LocksInTurn
<1>9. Cur \notin failed /\ "TEST" \notin flags
  BY <1>1 DEF TransactionInv, OpenElement
<1>10. OpenElement'
  BY <1>1, <1>2, <1>6, <1>9 DEF OpenElement
<1>11. \A i \in 1..Len(Order) : i # pos => Order[i] \in Elems /\ Order[i] # Cur
  BY <1>1, <1>2, OrderFacts, SMTT(30)
<1>12. PassedInstalls'
  <2> SUFFICES ASSUME NEW i \in 1..(pos - 1), Order[i] \in Added \ failed
               PROVE  Unpacked(Order[i])' /\ Recorded(Order[i])'
    BY <1>1 DEF PassedInstalls
  <2>1. Unpacked(Order[i]) /\ Recorded(Order[i])
    BY <1>1, <1>9 DEF TransactionInv, PassedInstalls
  <2>2. Order[i] \in Elems /\ Order[i] # Cur
    BY <1>1, <1>11, OrderFacts, SMTT(30)
  <2> QED BY <1>1, <1>5, <2>1, <2>2, Zenon DEF Unpacked, Recorded, StepLocal
<1>13. RemovalsWait'
  <2>1. ASSUME NEW j \in (pos + 1)..Len(Order), Order[j] \in Removed
        PROVE  disk'[Order[j]] = "complete"
    <3>1. disk[Order[j]] = "complete"
      BY <1>1, <2>1, Zenon DEF TransactionInv, RemovalsWait
    <3>2. j \in 1..Len(Order) /\ j # pos
      BY <1>1, OrderFacts
    <3> QED BY <1>5, <1>11, <3>1, <3>2, Zenon DEF StepLocal
  <2> QED BY <1>1, <2>1 DEF RemovalsWait, BeforeProcess
<1>14. OpenInstall'
  <2> SUFFICES ASSUME Cur \in Added, ok'
               PROVE  /\ step' > UnpackStep =>
                             disk'[Cur] = "complete" \/ "JUSTDB" \in flags
                      /\ step' > DbAddStep =>
                             <<Cur, "new">> \in db' \/ "NODB" \in flags
    BY <1>1, <1>2, Zenon DEF OpenInstall, Unpacked, Recorded
  <2>1. step' = step + 1 /\ step \in 1..15 /\ Steps(Cur) = InstallSteps
    BY <1>1, <1>2, <1>6, StepsFacts, InstallFacts
  <2>2. /\ s = "unpack" <=> step = UnpackStep
        /\ s = "dbadd" <=> step = DbAddStep
        /\ s # "erase"
    BY <2>1, InstallFacts DEF s
  <2>3. ok
    BY <1>1, <1>3, SMTT(30) DEF TransactionInv, OpenElement
  <2>4. /\ step > UnpackStep => Unpacked(Cur)
        /\ step > DbAddStep => Recorded(Cur)
    BY <2>1, <2>3 DEF TransactionInv, OpenInstall
  <2>5. step' > UnpackStep => disk'[Cur] = "complete" \/ "JUSTDB" \in flags
    <3>1. CASE step = UnpackStep
      BY <1>1, <1>5, <2>2, <3>1 DEF Unpacked, StepLocal
    <3>2. CASE step # UnpackStep
      <4>1. disk' = disk
        BY <1>5, <2>2, <3>2 DEF StepLocal
      <4>2. step' > UnpackStep => step > UnpackStep
        BY <2>1, <3>2 DEF UnpackStep
      <4> QED BY <1>1, <2>4, <4>1, <4>2 DEF Unpacked
    <3> QED BY <3>1, <3>2
  <2>6. step' > DbAddStep => <<Cur, "new">> \in db' \/ "NODB" \in flags
    <3>1. CASE step = DbAddStep
      BY <1>1, <1>5, <2>2, <3>1 DEF Recorded, StepLocal
    <3>2. CASE step # DbAddStep
      <4>1. step' > DbAddStep => step > DbAddStep
        BY <2>1, <3>2 DEF DbAddStep
      <4> QED BY <1>1, <1>5, <2>4, <4>1 DEF Recorded, StepLocal
    <3> QED BY <3>1, <3>2
  <2> QED BY <2>5, <2>6
<1>15. UpgradeKeepsAVersion'
  <2> SUFFICES ASSUME NEW r \in Removed, DependsOn[r] # NoElem
               PROVE  /\ <<r, "old">> \notin db' => <<DependsOn[r], "new">> \in db'
                      /\ disk'[r] # "complete" => disk'[DependsOn[r]] = "complete"
    BY DEF UpgradeKeepsAVersion
  <2> DEFINE a == DependsOn[r]
  <2>1. a \in Added /\ a \in Elems /\ r \in Elems /\ a # r
    BY OrderFacts
  <2>2. /\ <<r, "old">> \notin db => <<a, "new">> \in db
        /\ disk[r] # "complete" => disk[a] = "complete"
    BY DEF TransactionInv, UpgradeKeepsAVersion
  <2>3. PICK i \in 1..Len(Order) : Order[i] = a
    BY <2>1 DEF Elems
  <2>4. PICK j \in 1..Len(Order) : Order[j] = r
    BY <2>1 DEF Elems
  <2>5. i < j
    BY <2>1, <2>3, <2>4, OrderFacts
  <2>6. CASE r = Cur
    <3>1. i \in 1..(pos - 1)
      <4>1. pos \in 1..Len(Order) /\ Order[pos] = Order[j]
        BY <1>0, <1>2, <2>4, <2>6
      <4>2. pos = j
        BY <2>4, <4>1, OrderDistinct
      <4> QED BY <2>3, <2>4, <2>5, <4>2
    <3>2. a \notin failed
      BY <1>9, <2>6, Zenon DEF TransactionInv, FailedClosed
    <3>3. Unpacked(a) /\ Recorded(a)
      BY <1>1, <1>9, <2>1, <2>3, <3>1, <3>2 DEF TransactionInv, PassedInstalls
    <3>4. disk'[a] = disk[a] /\ (<<a, "new">> \in db' <=> <<a, "new">> \in db)
      BY <1>5, <2>1, <2>6, Zenon DEF StepLocal
    <3>5. ("NODB" \in flags => db' = db) /\ ("JUSTDB" \in flags => disk' = disk)
      BY <1>5, Zenon DEF StepLocal
    <3> QED BY <2>2, <3>3, <3>4, <3>5 DEF Unpacked, Recorded
  <2>7. CASE a = Cur
    <3>1. i = pos
      <4>1. pos \in 1..Len(Order) /\ Order[pos] = Order[i]
        BY <1>0, <1>2, <2>3, <2>7
      <4> QED BY <2>3, <4>1, OrderDistinct
    <3>2. disk[r] = "complete"
      <4>1. j \in (pos + 1)..Len(Order)
        <5>1. pos < j /\ j <= Len(Order) /\ j \in Nat /\ pos \in Nat /\ Len(Order) \in Nat
          BY <1>1, <2>4, <2>5, <3>1, OrderRange, SMTT(30)
        <5> QED BY <5>1
      <4> QED BY <1>1, <2>4, <4>1 DEF TransactionInv, RemovalsWait
    <3>3. /\ disk'[r] = disk[r] /\ (<<r, "old">> \in db' <=> <<r, "old">> \in db)
          /\ <<a, "new">> \in db => <<a, "new">> \in db'
      BY <1>5, <2>1, <2>7, Zenon DEF StepLocal
    <3> QED BY <2>2, <3>2, <3>3
  <2>8. CASE r # Cur /\ a # Cur
    <3>1. /\ disk'[r] = disk[r] /\ disk'[a] = disk[a]
          /\ <<r, "old">> \in db' <=> <<r, "old">> \in db
          /\ <<a, "new">> \in db' <=> <<a, "new">> \in db
      BY <1>5, <2>1, <2>8, Zenon DEF StepLocal
    <3> QED BY <2>2, <3>1
  <2> QED BY <2>6, <2>7, <2>8
<1> QED BY <1>7, <1>8, <1>10, <1>12, <1>13, <1>14, <1>15 DEF TransactionInv

\* Every step of rpmtsRun() keeps the invariant.
LEMMA NextTransactionInv == TransactionInv /\ [Next]_vars => TransactionInv'
<1> SUFFICES ASSUME TransactionInv, [Next]_vars PROVE TransactionInv'
  OBVIOUS
<1>1. CASE UNCHANGED vars
  <2>1. /\ UNCHANGED <<pc, flags, pos, step, ok, arg, failed, problems, nfailed, rc>>
        /\ UNCHANGED <<db, disk, dberr, scriptError, last, nonzero, locks>>
        /\ UNCHANGED <<settings, hooks, trigs>>
    BY <1>1 DEF vars, elemVars, resultVars, worldVars, scriptVars, ownVars
  <2>2. TypeOK'
    BY <2>1 DEF TransactionInv, TypeOK
  <2>5. FailedClosed' /\ LocksHeld' /\ LocksInTurn'
    BY <2>1, Zenon DEF TransactionInv, FailedClosed, LocksHeld, LocksInTurn
  <2>3. OpenElement' /\ OpenInstall' /\ PassedInstalls' /\ RemovalsWait'
    BY <2>1 DEF TransactionInv, OpenElement, OpenInstall, PassedInstalls,
                RemovalsWait, Cur, Unpacked, Recorded
  <2>4. UpgradeKeepsAVersion'
    BY <2>1, Zenon DEF TransactionInv, UpgradeKeepsAVersion
  <2> QED BY <2>2, <2>3, <2>4, <2>5, Zenon DEF TransactionInv
<1>2. CASE Next
  BY <1>1, <1>2, OuterStepInv, PhaseStepInv, ElementStepInv, StepInv
  DEF Next, Returned
<1> QED BY <1>1, <1>2

\* Type correctness of rpmtsRun() and the package state machine.
THEOREM TransactionTypeCorrect == Spec => []TypeOK
<1>1. Init => TransactionInv
  BY InitTransactionInv
<1>2. TransactionInv /\ [Next]_vars => TransactionInv'
  BY NextTransactionInv
<1>3. TransactionInv => TypeOK
  BY DEF TransactionInv
<1> QED BY <1>1, <1>2, <1>3, PTL DEF Spec

\* An old version is erased or forgotten only when the version replacing it is
\* unpacked and recorded (rpmteMarkFailed(), rpmteOpen(), rpmtsProcess()), at
\* every point of every run, so also when the process is killed there.
THEOREM UpgradeIsSafe == Spec => []UpgradeKeepsAVersion
<1>1. Init => TransactionInv
  BY InitTransactionInv
<1>2. TransactionInv /\ [Next]_vars => TransactionInv'
  BY NextTransactionInv
<1>3. TransactionInv => UpgradeKeepsAVersion
  BY DEF TransactionInv
<1> QED BY <1>1, <1>2, <1>3, PTL DEF Spec

\* Only a step of an open element touches files and records, and only its own.
LEMMA WorldChanges ==
  ASSUME TransactionInv, [Next]_vars
  PROVE  \/ UNCHANGED <<db, disk>>
         \/ /\ Cur \in Elems \ failed /\ locks = {"txn", "key"}
            /\ \A e \in Elems \ {Cur} :
                 /\ disk'[e] = disk[e]
                 /\ \A v \in {"old", "new"} : <<e, v>> \in db' <=> <<e, v>> \in db
<1> USE DEF elemVars, resultVars, worldVars, scriptVars, ownVars
<1>1. CASE Step
  <2>1. /\ pc = "process" /\ pos <= Len(Order) /\ pos \in Nat /\ pos >= 1
        /\ step \in 1..NSteps(Cur) /\ StepEffect(Steps(Cur)[step])
    BY <1>1, SMTT(30) DEF TransactionInv, TypeOK, Step, Processing, Running
  <2>2. Cur \in Elems
    BY <2>1, OrderRange DEF Cur
  <2>3. NSteps(Cur) \in 1..15
    BY <2>2, StepsFacts
  <2>4. Cur \notin failed /\ "TEST" \notin flags
    BY <2>1, <2>3 DEF TransactionInv, OpenElement
  <2>5. locks = {"txn", "key"}
    BY <2>1, <2>4 DEF TransactionInv, LocksHeld
  <2>6. Steps(Cur)[step] \in Slots \cup NotScripts
    BY <2>1, <2>2, StepsInSlots
  <2>7. StepLocal(Steps(Cur)[step])
    BY <2>1, <2>2, <2>6, StepEffectFacts DEF TransactionInv
  <2> QED BY <2>2, <2>4, <2>5, <2>7 DEF StepLocal
<1>2. CASE ~Step
  <2>1. CASE UNCHANGED vars
    BY <2>1 DEF vars
  <2>2. CASE Start \/ Setup \/ Check \/ Prepare \/ LeavePhase \/ Final \/ Exit
    BY <2>2 DEF Start, Setup, Check, Prepare, LeavePhase, Final, Exit
  <2>3. CASE TakeLock("txn", "txnlock", "keylock") \/ TakeLock("key", "keylock", "setup")
    BY <2>3 DEF TakeLock
  <2>4. CASE \/ \E ph \in ScriptPhases : ScriptPhase(ph)
             \/ \E ph \in TriggerPhases : TriggerPhase(ph)
    BY <2>4, Zenon DEF ScriptPhase, TriggerPhase
  <2>5. CASE OpenRefused \/ OpenTest \/ Open \/ Close
    BY <2>5, Zenon DEF OpenRefused, OpenTest, Open, Close
  <2> QED BY <1>2, <2>1, <2>2, <2>3, <2>4, <2>5 DEF Next, Returned
<1> QED BY <1>1, <1>2

\* Once an element has failed (rpmteMarkFailed()), no step of the run touches
\* its files or its records.
THEOREM FailedElementsUntouched == Spec => FailedIsLeftAlone
<1>1. Init => TransactionInv
  BY InitTransactionInv
<1>2. TransactionInv /\ [Next]_vars => TransactionInv'
  BY NextTransactionInv
<1>3. TransactionInv /\ [Next]_vars =>
        [\A e \in failed :
           /\ disk'[e] = disk[e]
           /\ \A v \in {"old", "new"} : <<e, v>> \in db' <=> <<e, v>> \in db]_vars
  <2> SUFFICES ASSUME TransactionInv, [Next]_vars, NEW e \in failed
               PROVE  /\ disk'[e] = disk[e]
                      /\ \A v \in {"old", "new"} :
                             <<e, v>> \in db' <=> <<e, v>> \in db
    OBVIOUS
  <2>1. e \in Elems
    BY DEF TransactionInv, TypeOK
  <2> QED BY <2>1, WorldChanges
<1> QED BY <1>1, <1>2, <1>3, PTL DEF Spec, FailedIsLeftAlone

\* rpmtsRun() touches files and records only with both locks.
THEOREM WorldChangesUnderLocks == Spec => ChangesUnderLocks
<1>1. Init => TransactionInv
  BY InitTransactionInv
<1>2. TransactionInv /\ [Next]_vars => TransactionInv'
  BY NextTransactionInv
<1>3. TransactionInv /\ [Next]_vars =>
        [db' # db \/ disk' # disk => locks = {"txn", "key"}]_vars
  BY WorldChanges
<1> QED BY <1>1, <1>2, <1>3, PTL DEF Spec, ChangesUnderLocks
=============================================================================
