--------------------------- MODULE RpmLockProofs ---------------------------
(***************************************************************************)
(* Mutual exclusion of the transaction and keyring locks, for any number   *)
(* of processes, lock files and nested handles, and that the callers in    *)
(* the code base behave.  The invariant LockInv ties the reference count   *)
(* to the outstanding handles, the kernel lock to the count, and a write   *)
(* handle to an exclusive kernel lock; CallersInv adds where each process  *)
(* is in its program, and that its handles are those on its stack.         *)
(***************************************************************************)
EXTENDS RpmLockClients, SequenceTheorems, TLAPS

\* Init establishes the invariant: no object, no lock, no handle.
LEMMA InitLockInv == Init => LockInv
  BY LockAssumption
  DEF Init, LockInv, TypeOK, LockFollowsHandles, KernelExclusive,
      WriteHandleBacked, SleepersHaveObject, Open, Modes, NoWait

\* Granting a lock that the count or the kernel allows keeps the invariant.
LEMMA GrantLockInv ==
  ASSUME LockInv,
         NEW p \in Procs, NEW f \in Files, NEW m \in Modes,
         LockInit(p, f) > 0,
         LockInit(p, f) > 1 \/ Compatible(p, f, m),
         Grant(p, f, m),
         waiting' \in [Procs -> [file : Files, mode : Modes] \cup {NoWait}],
         SleepersHaveObject'
  PROVE  LockInv'
<1>1. LockInit(p, f) \in Nat
  BY DEF LockInv, TypeOK, LockInit
<1>2. TypeOK'
  <2>1. upgraded' \in [Procs -> [Files -> BOOLEAN]]
    BY DEF LockInv, TypeOK, Grant
  <2>2. /\ fdrefs' \in [Procs -> [Files -> Nat]]
        /\ blocked' \in [Procs -> Nat]
    BY <1>1 DEF LockInv, TypeOK, Grant
  <2>3. kernel' \in [Procs -> [Files -> {"none", "read", "write"}]]
    BY DEF LockInv, TypeOK, Grant, Modes
  <2>4. txns' \in [Procs -> [Files -> [Modes -> Nat]]]
    BY DEF LockInv, TypeOK, Grant
  <2> QED BY <2>1, <2>2, <2>3, <2>4 DEF TypeOK
<1>3. LockInit(p, f) = 1 + Open(p, f)
  BY DEF LockInv, TypeOK, LockFollowsHandles, LockInit, Open, Modes
<1>4. LockFollowsHandles'
  BY <1>2, <1>3 DEF LockInv, TypeOK, LockFollowsHandles, Grant, Open, Modes
<1>5. KernelExclusive'
  BY <1>3 DEF LockInv, TypeOK, KernelExclusive, Grant, Compatible, Modes
<1>6. WriteHandleBacked'
  <2> SUFFICES ASSUME NEW q \in Procs, NEW g \in Files,
                      txns'[q][g]["write"] > 0, ~upgraded'[q][g]
               PROVE  kernel'[q][g] = "write"
    BY DEF WriteHandleBacked
  <2>1. CASE q = p /\ g = f
    <3>1. m = "write" => kernel[p][f] # "read"
      BY <2>1 DEF LockInv, TypeOK, Grant
    <3>2. ~upgraded[p][f]
      BY <2>1 DEF LockInv, TypeOK, Grant
    <3>3. txns'[p][f]["write"] =
            txns[p][f]["write"] + (IF m = "write" THEN 1 ELSE 0)
      BY DEF LockInv, TypeOK, Grant, Modes
    <3>4. kernel'[p][f] = IF LockInit(p, f) > 1 THEN kernel[p][f] ELSE m
      BY DEF LockInv, TypeOK, Grant
    <3>5. kernel[p][f] = "none" <=> Open(p, f) = 0
      BY DEF LockInv, LockFollowsHandles
    <3>6. txns[p][f]["write"] > 0 => kernel[p][f] = "write"
      BY <3>2 DEF LockInv, WriteHandleBacked
    <3>7. kernel[p][f] \in {"none", "read", "write"}
      BY DEF LockInv, TypeOK
    <3>8. /\ txns[p][f]["write"] \in Nat
          /\ txns[p][f]["read"] \in Nat
      BY DEF LockInv, TypeOK, Modes
    <3> QED BY <1>3, <2>1, <3>1, <3>3, <3>4, <3>5, <3>6, <3>7, <3>8
            DEF Open, Modes
  <2>2. CASE ~(q = p /\ g = f)
    <3>1. /\ txns'[q][g] = txns[q][g]
          /\ kernel'[q][g] = kernel[q][g]
      BY <2>2 DEF LockInv, TypeOK, Grant
    <3>2. ~upgraded[q][g]
      BY <2>2 DEF LockInv, TypeOK, Grant
    <3> QED BY <3>1, <3>2 DEF LockInv, WriteHandleBacked
  <2> QED BY <2>1, <2>2
<1> QED BY <1>2, <1>4, <1>5, <1>6 DEF LockInv

\* Every step keeps the invariant.
LEMMA NextLockInv == LockInv /\ [Next]_vars => LockInv'
<1> SUFFICES ASSUME LockInv, [Next]_vars PROVE LockInv'
  OBVIOUS
<1>1. CASE UNCHANGED vars
  BY <1>1 DEF vars, LockInv, TypeOK, LockFollowsHandles, KernelExclusive,
              WriteHandleBacked, SleepersHaveObject, Open
<1>2. ASSUME NEW p \in Procs, NEW f \in Files, NEW m \in Modes,
             TxnBegin(p, f, m)
      PROVE  LockInv'
  <2>1. LockInit(p, f) > 0
    BY <1>2 DEF TxnBegin, MayGrant, OpenMode, LockInit, LockInv, TypeOK
  <2>2. waiting' \in [Procs -> [file : Files, mode : Modes] \cup {NoWait}]
    BY <1>2 DEF TxnBegin, LockInv, TypeOK
  <2>3. SleepersHaveObject'
    BY <1>2 DEF TxnBegin, LockInv, SleepersHaveObject
  <2> QED BY <1>2, <2>1, <2>2, <2>3, GrantLockInv DEF TxnBegin, MayGrant
<1>3. ASSUME NEW p \in Procs, NEW f \in Files, NEW m \in Modes,
             TxnBeginFails(p, f, m)
      PROVE  LockInv'
  BY <1>3 DEF TxnBeginFails, LockInit, LockInv, TypeOK, LockFollowsHandles,
              KernelExclusive, WriteHandleBacked, SleepersHaveObject, Open,
              Modes
<1>4. ASSUME NEW p \in Procs, NEW f \in Files, NEW m \in Modes,
             TxnWait(p, f, m)
      PROVE  LockInv'
  BY <1>4 DEF TxnWait, OpenMode, LockInit, LockInv, TypeOK, LockFollowsHandles,
              KernelExclusive, WriteHandleBacked, SleepersHaveObject, Open,
              Modes
<1>5. ASSUME NEW p \in Procs, NEW f \in Files, NEW m \in Modes,
             TxnWaitGranted(p, f, m)
      PROVE  LockInv'
  <2>1. LockInit(p, f) > 0
    BY <1>5 DEF TxnWaitGranted, LockInit, LockInv, TypeOK, SleepersHaveObject,
                NoWait, Modes
  <2>2. waiting' \in [Procs -> [file : Files, mode : Modes] \cup {NoWait}]
    BY <1>5 DEF TxnWaitGranted, LockInv, TypeOK
  <2>3. SleepersHaveObject'
    BY <1>5 DEF TxnWaitGranted, LockInv, TypeOK, SleepersHaveObject
  <2> QED BY <1>5, <2>1, <2>2, <2>3, GrantLockInv DEF TxnWaitGranted
<1>6. ASSUME NEW p \in Procs, NEW f \in Files, NEW m \in Modes,
             TxnEnd(p, f, m)
      PROVE  LockInv'
  <2>1. fdrefs[p][f] = 1 + Open(p, f) /\ Open(p, f) > 0
    <3>1. /\ txns[p][f]["write"] \in Nat
          /\ txns[p][f]["read"] \in Nat
          /\ fdrefs[p][f] \in Nat
      BY DEF LockInv, TypeOK, Modes
    <3>2. Open(p, f) > 0
      BY <1>6, <3>1 DEF TxnEnd, Open, Modes
    <3> QED BY <3>1, <3>2 DEF LockInv, LockFollowsHandles
  <2>2. TypeOK'
    BY <1>6 DEF TxnEnd, Release, LockInv, TypeOK, Modes
  <2>3. LockFollowsHandles'
    <3>1. /\ Open(p, f)' = Open(p, f) - 1
          /\ fdrefs'[p][f] = Open(p, f)
          /\ kernel'[p][f] = IF Open(p, f) = 1 THEN "none" ELSE kernel[p][f]
      <4>1. /\ txns'[p][f]["read"] =
                 txns[p][f]["read"] - (IF m = "read" THEN 1 ELSE 0)
            /\ txns'[p][f]["write"] =
                 txns[p][f]["write"] - (IF m = "write" THEN 1 ELSE 0)
        BY <1>6 DEF TxnEnd, LockInv, TypeOK, Modes
      <4>2. /\ txns[p][f]["read"] \in Nat
            /\ txns[p][f]["write"] \in Nat
        BY DEF LockInv, TypeOK, Modes
      <4>3. Open(p, f)' = Open(p, f) - 1
        BY <4>1, <4>2 DEF Open, Modes
      <4>4. Open(p, f) \in Nat
        BY <4>2 DEF Open
      <4>5. fdrefs'[p][f] = Open(p, f)
        BY <1>6, <2>1, <4>4 DEF TxnEnd, Release, LockInv, TypeOK
      <4>6. kernel'[p][f] = IF fdrefs[p][f] = 2 THEN "none" ELSE kernel[p][f]
        BY <1>6 DEF TxnEnd, Release, LockInv, TypeOK
      <4> QED BY <2>1, <4>3, <4>4, <4>5, <4>6
    <3>2. \A q \in Procs, g \in Files :
            ~(q = p /\ g = f) => /\ Open(q, g)' = Open(q, g)
                                 /\ fdrefs'[q][g] = fdrefs[q][g]
                                 /\ kernel'[q][g] = kernel[q][g]
      BY <1>6 DEF TxnEnd, Release, LockInv, TypeOK, Open, Modes
    <3>3. Open(p, f) \in Nat
      BY DEF LockInv, TypeOK, Open, Modes
    <3> QED BY <2>1, <3>1, <3>2, <3>3 DEF LockInv, LockFollowsHandles
  <2>4. KernelExclusive'
    BY <1>6 DEF TxnEnd, Release, LockInv, TypeOK, KernelExclusive, Modes
  <2>5. WriteHandleBacked'
    BY <1>6, <2>1 DEF TxnEnd, Release, LockInv, TypeOK, WriteHandleBacked,
                      Open, Modes
  <2>6. SleepersHaveObject'
    BY <1>6 DEF TxnEnd, LockInv, SleepersHaveObject
  <2> QED BY <2>2, <2>3, <2>4, <2>5, <2>6 DEF LockInv
<1>7. ASSUME NEW p \in Procs, NEW f \in Files, LockFree(p, f)
      PROVE  LockInv'
  BY <1>7 DEF LockFree, LockInv, TypeOK, LockFollowsHandles, KernelExclusive,
              WriteHandleBacked, SleepersHaveObject, Open,
              Modes
<1>8. ASSUME NEW p \in Procs, Die(p) PROVE LockInv'
  BY <1>8 DEF Die, LockInv, TypeOK, LockFollowsHandles, KernelExclusive,
              WriteHandleBacked, SleepersHaveObject, Open,
              Modes, NoWait
<1> QED
  BY <1>1, <1>2, <1>3, <1>4, <1>5, <1>6, <1>7, <1>8 DEF Next

\* The variables keep their types in every run of the lock protocol.
THEOREM LockTypeCorrect == Spec => []TypeOK
<1>1. LockInv => TypeOK
  BY DEF LockInv
<1> QED BY InitLockInv, NextLockInv, <1>1, PTL DEF Spec

\* Reference counts, kernel locks and outstanding handles always agree.
THEOREM LockAccounting == Spec => []LockFollowsHandles
<1>1. LockInv => LockFollowsHandles
  BY DEF LockInv
<1> QED BY InitLockInv, NextLockInv, <1>1, PTL DEF Spec

\* A process that began a write transaction is alone on the lock file.
THEOREM LockMutualExclusion == Spec => []WriterExcludes
<1>1. LockInv => WriterExcludes
  BY DEF LockInv, LockFollowsHandles, KernelExclusive, WriteHandleBacked,
         WriterExcludes
<1> QED BY InitLockInv, NextLockInv, <1>1, PTL DEF Spec

----------------------------------------------------------------------------
(***************************************************************************)
(* The callers of the locks.  Each of their programs is short, so where a  *)
(* process can stand in one, and with which handles open, is a finite      *)
(* list, however many processes there are.                                 *)
(***************************************************************************)

\* The handles a caller may have to end
TxnW == End(TxnFile, "write")
TxnR == End(TxnFile, "read")
KeyW == End(KeyFile, "write")
KeyR == End(KeyFile, "read")

Handles == {TxnW, TxnR, KeyW, KeyR}

\* The handles a process may have open, innermost first
Stacks ==
    {<<>>, <<TxnW>>, <<TxnR>>, <<KeyW>>, <<KeyR>>, <<KeyR, TxnW>>, <<KeyR, KeyR, TxnW>>,
     <<KeyW, TxnW>>, <<KeyR, KeyW>>, <<KeyR, KeyW, TxnW>>}

\* Where a process may stand: with handles st open it has td to do.  Either it
\* only ends what it has open, or it is at the start or in the middle of one of
\* the programs.
Point(td, st) ==
    \/ td = st /\ st \in Stacks
    \/ st = <<>> /\ td \in Programs
    \/ /\ st = <<TxnW>>
       /\ td \in {Tail(RunTransaction), Tail(RebuildDB), Tail(Tail(RebuildDB)), Tail(ImportKeysOldAPI)}
    \/ st = <<KeyR, TxnW>> /\ td = Tail(Tail(RunTransaction))
    \/ st = <<KeyW>> /\ td = Tail(ImportKeys)
    \/ st = <<KeyW, TxnW>> /\ td = Tail(Tail(ImportKeysOldAPI))

\* A sequence with the elements of s and then those of t is their concatenation.
LEMMA Joined ==
    ASSUME NEW S, NEW s \in Seq(S), NEW t \in Seq(S), NEW w \in Seq(S), Len(w) = Len(s) + Len(t),
           \A i \in 1..Len(w) : w[i] = IF i <= Len(s) THEN s[i] ELSE t[i - Len(s)]
    PROVE  s \o t = w
<1>1. s \o t \in Seq(S) /\ Len(s \o t) = Len(w)
  BY ConcatProperties
<1>2. \A i \in 1..Len(s \o t) : (s \o t)[i] = w[i]
  BY <1>1, ConcatProperties
<1> QED BY <1>1, <1>2, SeqEqual

\* The concatenations the programs are made of, written out.
LEMMA Join11 ==
    ASSUME NEW a, NEW b
    PROVE  <<a>> \o <<b>> = <<a, b>>
<1> DEFINE S == {a, b}  s == <<a>>  t == <<b>>  w == <<a, b>>
<1> SUFFICES s \o t = w
  OBVIOUS
<1>1. s \in Seq(S) /\ t \in Seq(S) /\ w \in Seq(S)
  OBVIOUS
<1>2. Len(w) = Len(s) + Len(t) /\ \A i \in 1..Len(w) : w[i] = IF i <= Len(s) THEN s[i] ELSE t[i - Len(s)]
  OBVIOUS
<1> HIDE DEF S, s, t, w
<1> QED BY <1>1, <1>2, Joined, Zenon

LEMMA Join12 ==
    ASSUME NEW a, NEW b, NEW c
    PROVE  <<a>> \o <<b, c>> = <<a, b, c>>
<1> DEFINE S == {a, b, c}  s == <<a>>  t == <<b, c>>  w == <<a, b, c>>
<1> SUFFICES s \o t = w
  OBVIOUS
<1>1. s \in Seq(S) /\ t \in Seq(S) /\ w \in Seq(S)
  OBVIOUS
<1>2. Len(w) = Len(s) + Len(t) /\ \A i \in 1..Len(w) : w[i] = IF i <= Len(s) THEN s[i] ELSE t[i - Len(s)]
  OBVIOUS
<1> HIDE DEF S, s, t, w
<1> QED BY <1>1, <1>2, Joined, Zenon

LEMMA Join22 ==
    ASSUME NEW a, NEW b, NEW c, NEW d
    PROVE  <<a, b>> \o <<c, d>> = <<a, b, c, d>>
<1> DEFINE S == {a, b, c, d}  s == <<a, b>>  t == <<c, d>>  w == <<a, b, c, d>>
<1> SUFFICES s \o t = w
  OBVIOUS
<1>1. s \in Seq(S) /\ t \in Seq(S) /\ w \in Seq(S)
  OBVIOUS
<1>2. Len(w) = Len(s) + Len(t) /\ \A i \in 1..Len(w) : w[i] = IF i <= Len(s) THEN s[i] ELSE t[i - Len(s)]
  OBVIOUS
<1> HIDE DEF S, s, t, w
<1> QED BY <1>1, <1>2, Joined, Zenon

LEMMA Join42 ==
    ASSUME NEW a, NEW b, NEW c, NEW d, NEW e, NEW f
    PROVE  <<a, b, c, d>> \o <<e, f>> = <<a, b, c, d, e, f>>
<1> DEFINE S == {a, b, c, d, e, f}  s == <<a, b, c, d>>  t == <<e, f>>  w == <<a, b, c, d, e, f>>
<1> SUFFICES s \o t = w
  OBVIOUS
<1>1. s \in Seq(S) /\ t \in Seq(S) /\ w \in Seq(S)
  OBVIOUS
<1>2. Len(w) = Len(s) + Len(t) /\ \A i \in 1..Len(w) : w[i] = IF i <= Len(s) THEN s[i] ELSE t[i - Len(s)]
  OBVIOUS
<1> HIDE DEF S, s, t, w
<1> QED BY <1>1, <1>2, Joined, Zenon

LEMMA Join13 ==
    ASSUME NEW a, NEW b, NEW c, NEW d
    PROVE  <<a>> \o <<b, c, d>> = <<a, b, c, d>>
<1> DEFINE S == {a, b, c, d}  s == <<a>>  t == <<b, c, d>>  w == <<a, b, c, d>>
<1> SUFFICES s \o t = w
  OBVIOUS
<1>1. s \in Seq(S) /\ t \in Seq(S) /\ w \in Seq(S)
  OBVIOUS
<1>2. Len(w) = Len(s) + Len(t) /\ \A i \in 1..Len(w) : w[i] = IF i <= Len(s) THEN s[i] ELSE t[i - Len(s)]
  OBVIOUS
<1> HIDE DEF S, s, t, w
<1> QED BY <1>1, <1>2, Joined, Zenon

LEMMA Join41 ==
    ASSUME NEW a, NEW b, NEW c, NEW d, NEW e
    PROVE  <<a, b, c, d>> \o <<e>> = <<a, b, c, d, e>>
<1> DEFINE S == {a, b, c, d, e}  s == <<a, b, c, d>>  t == <<e>>  w == <<a, b, c, d, e>>
<1> SUFFICES s \o t = w
  OBVIOUS
<1>1. s \in Seq(S) /\ t \in Seq(S) /\ w \in Seq(S)
  OBVIOUS
<1>2. Len(w) = Len(s) + Len(t) /\ \A i \in 1..Len(w) : w[i] = IF i <= Len(s) THEN s[i] ELSE t[i - Len(s)]
  OBVIOUS
<1> HIDE DEF S, s, t, w
<1> QED BY <1>1, <1>2, Joined, Zenon

LEMMA Join31 ==
    ASSUME NEW a, NEW b, NEW c, NEW d
    PROVE  <<a, b, c>> \o <<d>> = <<a, b, c, d>>
<1> DEFINE S == {a, b, c, d}  s == <<a, b, c>>  t == <<d>>  w == <<a, b, c, d>>
<1> SUFFICES s \o t = w
  OBVIOUS
<1>1. s \in Seq(S) /\ t \in Seq(S) /\ w \in Seq(S)
  OBVIOUS
<1>2. Len(w) = Len(s) + Len(t) /\ \A i \in 1..Len(w) : w[i] = IF i <= Len(s) THEN s[i] ELSE t[i - Len(s)]
  OBVIOUS
<1> HIDE DEF S, s, t, w
<1> QED BY <1>1, <1>2, Joined, Zenon

LEMMA Join14 ==
    ASSUME NEW a, NEW b, NEW c, NEW d, NEW e
    PROVE  <<a>> \o <<b, c, d, e>> = <<a, b, c, d, e>>
<1> DEFINE S == {a, b, c, d, e}  s == <<a>>  t == <<b, c, d, e>>  w == <<a, b, c, d, e>>
<1> SUFFICES s \o t = w
  OBVIOUS
<1>1. s \in Seq(S) /\ t \in Seq(S) /\ w \in Seq(S)
  OBVIOUS
<1>2. Len(w) = Len(s) + Len(t) /\ \A i \in 1..Len(w) : w[i] = IF i <= Len(s) THEN s[i] ELSE t[i - Len(s)]
  OBVIOUS
<1> HIDE DEF S, s, t, w
<1> QED BY <1>1, <1>2, Joined, Zenon

LEMMA Join51 ==
    ASSUME NEW a, NEW b, NEW c, NEW d, NEW e, NEW f
    PROVE  <<a, b, c, d, e>> \o <<f>> = <<a, b, c, d, e, f>>
<1> DEFINE S == {a, b, c, d, e, f}  s == <<a, b, c, d, e>>  t == <<f>>  w == <<a, b, c, d, e, f>>
<1> SUFFICES s \o t = w
  OBVIOUS
<1>1. s \in Seq(S) /\ t \in Seq(S) /\ w \in Seq(S)
  OBVIOUS
<1>2. Len(w) = Len(s) + Len(t) /\ \A i \in 1..Len(w) : w[i] = IF i <= Len(s) THEN s[i] ELSE t[i - Len(s)]
  OBVIOUS
<1> HIDE DEF S, s, t, w
<1> QED BY <1>1, <1>2, Joined, Zenon

\* The begins of the programs: one that is refused makes the caller give up (Ask)
\* or is passed over (Try).
AskTxnW == Begin(TxnFile, "write", "exit")
AskTxnR == Begin(TxnFile, "read", "exit")
AskKeyW == Begin(KeyFile, "write", "exit")
TryKeyW == Begin(KeyFile, "write", "skip")
AskKeyR == Begin(KeyFile, "read", "exit")
TryKeyR == Begin(KeyFile, "read", "skip")
FreeKey == Free(KeyFile)

\* What these operations are.
LEMMA TheSteps ==
    /\ \A b \in {AskTxnW, AskTxnR, AskKeyW, TryKeyW, AskKeyR, TryKeyR} : b.do = "begin"
    /\ \A e \in Handles : e.do = "end"
    /\ FreeKey.do = "free"
    /\ AskTxnW.file = TxnFile /\ AskTxnW.mode = "write" /\ AskTxnW.fail = "exit"
    /\ AskTxnR.file = TxnFile /\ AskTxnR.mode = "read" /\ AskTxnR.fail = "exit"
    /\ AskKeyW.file = KeyFile /\ AskKeyW.mode = "write" /\ AskKeyW.fail = "exit"
    /\ TryKeyW.file = KeyFile /\ TryKeyW.mode = "write" /\ TryKeyW.fail = "skip"
    /\ AskKeyR.file = KeyFile /\ AskKeyR.mode = "read" /\ AskKeyR.fail = "exit"
    /\ TryKeyR.file = KeyFile /\ TryKeyR.mode = "read" /\ TryKeyR.fail = "skip"
    /\ TxnW.file = TxnFile /\ TxnR.file = TxnFile /\ KeyW.file = KeyFile /\ KeyR.file = KeyFile
  BY DEF Handles, AskTxnW, AskTxnR, AskKeyW, TryKeyW, AskKeyR, TryKeyR, TxnW, TxnR, KeyW, KeyR, FreeKey, Begin, End, Free

\* The programs, written out.
LEMMA ThePrograms ==
    /\ LoadKeyring = <<TryKeyR, KeyR>>
    /\ VerifyDB = <<AskTxnR, TxnR>>
    /\ ImportDB = <<AskTxnW, TxnW>>
    /\ RunTransaction = <<AskTxnW, AskKeyR, TryKeyR, KeyR, KeyR, TxnW>>
    /\ RebuildDB = <<AskTxnW, FreeKey, TryKeyW, KeyW, TxnW>>
    /\ ImportKeys = <<AskKeyW, TryKeyR, KeyR, KeyW>>
    /\ ImportKeysOldAPI = <<AskTxnW, AskKeyW, TryKeyR, KeyR, KeyW, TxnW>>
<1>1. /\ LoadKeyring = <<TryKeyR, KeyR>> /\ VerifyDB = <<AskTxnR, TxnR>>
      /\ ImportDB = <<AskTxnW, TxnW>> /\ EnsureKrlock = <<FreeKey, TryKeyW, KeyW>>
  BY DEF LoadKeyring, VerifyDB, ImportDB, EnsureKrlock, TryKeyR, AskTxnR, AskTxnW, KeyR, TxnR, TxnW,
         FreeKey, TryKeyW, KeyW
<1>2. RunTransaction = <<AskTxnW, AskKeyR>> \o <<TryKeyR, KeyR>> \o <<KeyR, TxnW>>
  BY <1>1 DEF RunTransaction, AskTxnW, AskKeyR, KeyR, TxnW
<1>3. RebuildDB = <<AskTxnW>> \o <<FreeKey, TryKeyW, KeyW>> \o <<TxnW>>
  BY <1>1 DEF RebuildDB, AskTxnW, TxnW
<1>4. ImportKeys = <<AskKeyW>> \o <<TryKeyR, KeyR>> \o <<KeyW>>
  BY <1>1 DEF ImportKeys, AskKeyW, KeyW
<1>5. ImportKeys = <<AskKeyW, TryKeyR, KeyR, KeyW>>
  <2>1. <<AskKeyW>> \o <<TryKeyR, KeyR>> = <<AskKeyW, TryKeyR, KeyR>>
    BY Join12, Zenon
  <2>2. <<AskKeyW, TryKeyR, KeyR>> \o <<KeyW>> = <<AskKeyW, TryKeyR, KeyR, KeyW>>
    BY Join31, Zenon
  <2> QED BY <1>4, <2>1, <2>2, Zenon
<1>6. ImportKeysOldAPI = <<AskTxnW>> \o <<AskKeyW, TryKeyR, KeyR, KeyW>> \o <<TxnW>>
  BY <1>5 DEF ImportKeysOldAPI, AskTxnW, TxnW
<1>7. RunTransaction = <<AskTxnW, AskKeyR, TryKeyR, KeyR, KeyR, TxnW>>
  <2>1. <<AskTxnW, AskKeyR>> \o <<TryKeyR, KeyR>> = <<AskTxnW, AskKeyR, TryKeyR, KeyR>>
    BY Join22, Zenon
  <2>2. <<AskTxnW, AskKeyR, TryKeyR, KeyR>> \o <<KeyR, TxnW>> = <<AskTxnW, AskKeyR, TryKeyR, KeyR, KeyR, TxnW>>
    BY Join42
  <2> QED BY <1>2, <2>1, <2>2, Zenon
<1>8. RebuildDB = <<AskTxnW, FreeKey, TryKeyW, KeyW, TxnW>>
  <2>1. <<AskTxnW>> \o <<FreeKey, TryKeyW, KeyW>> = <<AskTxnW, FreeKey, TryKeyW, KeyW>>
    BY Join13, Zenon
  <2>2. <<AskTxnW, FreeKey, TryKeyW, KeyW>> \o <<TxnW>> = <<AskTxnW, FreeKey, TryKeyW, KeyW, TxnW>>
    BY Join41, Zenon
  <2> QED BY <1>3, <2>1, <2>2, Zenon
<1>9. ImportKeysOldAPI = <<AskTxnW, AskKeyW, TryKeyR, KeyR, KeyW, TxnW>>
  <2>1. <<AskTxnW>> \o <<AskKeyW, TryKeyR, KeyR, KeyW>> = <<AskTxnW, AskKeyW, TryKeyR, KeyR, KeyW>>
    BY Join14, Zenon
  <2>2. <<AskTxnW, AskKeyW, TryKeyR, KeyR, KeyW>> \o <<TxnW>> = <<AskTxnW, AskKeyW, TryKeyR, KeyR, KeyW, TxnW>>
    BY Join51, Zenon
  <2> QED BY <1>6, <2>1, <2>2, Zenon
<1> QED BY <1>1, <1>5, <1>7, <1>8, <1>9

\* What the next operation of a process leads to.  A begin that is granted and
\* an end lead to another point; a begin that is refused leaves exactly the open
\* handles to be ended, whether the caller gives up or goes on; and a write
\* handle is never asked for on a file the process already has a handle on.
Moves(td, st) ==
    /\ Head(td).do \in {"begin", "end", "free"}
    /\ Head(td).do = "begin" =>
          /\ Head(td).file \in {TxnFile, KeyFile} /\ Head(td).mode \in Modes
          /\ Point(Tail(td), <<End(Head(td).file, Head(td).mode)>> \o st) /\ Len(st) < 3
          /\ (IF Head(td).fail = "exit" THEN st ELSE Tail(Tail(td))) = st
          /\ Head(td).mode = "write" => \A i \in DOMAIN st : st[i].file # Head(td).file
    /\ Head(td).do = "end" => st # <<>> /\ Head(td) = Head(st) /\ Point(Tail(td), Tail(st))
    /\ Head(td).do = "free" => Head(td).file = KeyFile /\ Point(Tail(td), st)

\* The stacks that begins make, written out.
LEMMA Pushed ==
    /\ \A e : <<e>> \o <<>> = <<e>>
    /\ <<KeyR>> \o <<TxnW>> = <<KeyR, TxnW>>
    /\ <<KeyW>> \o <<TxnW>> = <<KeyW, TxnW>>
    /\ <<KeyR>> \o <<KeyW>> = <<KeyR, KeyW>>
    /\ <<KeyR>> \o <<KeyR, TxnW>> = <<KeyR, KeyR, TxnW>>
    /\ <<KeyR>> \o <<KeyW, TxnW>> = <<KeyR, KeyW, TxnW>>
<1>1. ASSUME NEW e PROVE <<e>> \o <<>> = <<e>>
  <2>1. <<e>> \in Seq({e})
    OBVIOUS
  <2> QED BY <2>1, ConcatEmptySeq, Zenon
<1> QED BY <1>1, Join11, Join12, Zenon

\* The handle each begin makes.
LEMMA EndsOfBegins ==
    /\ End(AskTxnW.file, AskTxnW.mode) = TxnW
    /\ End(AskTxnR.file, AskTxnR.mode) = TxnR
    /\ End(AskKeyW.file, AskKeyW.mode) = KeyW
    /\ End(TryKeyW.file, TryKeyW.mode) = KeyW
    /\ End(AskKeyR.file, AskKeyR.mode) = KeyR
    /\ End(TryKeyR.file, TryKeyR.mode) = KeyR
  BY TheSteps DEF TxnW, TxnR, KeyW, KeyR

\* At a begin, Moves follows from these facts of the program.
LEMMA BeginMoves ==
    ASSUME NEW td, NEW st \in Stacks, NEW b \in {AskTxnW, AskTxnR, AskKeyW, TryKeyW, AskKeyR, TryKeyR},
           Head(td) = b, Point(Tail(td), <<End(b.file, b.mode)>> \o st), Len(st) < 3,
           b.fail = "exit" \/ Tail(Tail(td)) = st,
           b.mode = "write" => \A i \in DOMAIN st : st[i].file # b.file
    PROVE  Moves(td, st)
<1>1. b.do = "begin" /\ b.file \in {TxnFile, KeyFile} /\ b.mode \in Modes
  BY TheSteps DEF Modes
<1>2. (IF b.fail = "exit" THEN st ELSE Tail(Tail(td))) = st
  BY TheSteps
<1>3. "begin" # "end" /\ "begin" # "free"
  OBVIOUS
<1> QED BY <1>1, <1>2, <1>3, Zenon DEF Moves

\* A process that only ends what it has open moves from point to point.
LEMMA EndMoves ==
    ASSUME NEW st \in Stacks, st # <<>>
    PROVE  Moves(st, st)
<1>1. Head(st) \in Handles /\ Tail(st) \in Stacks
  <2>1. CASE st = <<TxnW>>
    <3>1. Head(st) = TxnW /\ Tail(st) = <<>>
      BY <2>1
    <3> QED BY <3>1, Zenon DEF Handles, Stacks
  <2>2. CASE st = <<TxnR>>
    <3>1. Head(st) = TxnR /\ Tail(st) = <<>>
      BY <2>2
    <3> QED BY <3>1, Zenon DEF Handles, Stacks
  <2>3. CASE st = <<KeyW>>
    <3>1. Head(st) = KeyW /\ Tail(st) = <<>>
      BY <2>3
    <3> QED BY <3>1, Zenon DEF Handles, Stacks
  <2>4. CASE st = <<KeyR>>
    <3>1. Head(st) = KeyR /\ Tail(st) = <<>>
      BY <2>4
    <3> QED BY <3>1, Zenon DEF Handles, Stacks
  <2>5. CASE st = <<KeyR, TxnW>>
    <3>1. Head(st) = KeyR /\ Tail(st) = <<TxnW>>
      BY <2>5
    <3> QED BY <3>1, Zenon DEF Handles, Stacks
  <2>6. CASE st = <<KeyW, TxnW>>
    <3>1. Head(st) = KeyW /\ Tail(st) = <<TxnW>>
      BY <2>6
    <3> QED BY <3>1, Zenon DEF Handles, Stacks
  <2>7. CASE st = <<KeyR, KeyW>>
    <3>1. Head(st) = KeyR /\ Tail(st) = <<KeyW>>
      BY <2>7
    <3> QED BY <3>1, Zenon DEF Handles, Stacks
  <2>8. CASE st = <<KeyR, KeyR, TxnW>>
    <3>1. Head(st) = KeyR /\ Tail(st) = <<KeyR, TxnW>>
      BY <2>8
    <3> QED BY <3>1, Zenon DEF Handles, Stacks
  <2>9. CASE st = <<KeyR, KeyW, TxnW>>
    <3>1. Head(st) = KeyR /\ Tail(st) = <<KeyW, TxnW>>
      BY <2>9
    <3> QED BY <3>1, Zenon DEF Handles, Stacks
  <2> QED BY <2>1, <2>2, <2>3, <2>4, <2>5, <2>6, <2>7, <2>8, <2>9, Zenon DEF Stacks
<1>2. Head(st).do = "end"
  BY <1>1, TheSteps, Zenon
<1>3. Point(Tail(st), Tail(st))
  BY <1>1 DEF Point
<1>4. "end" # "begin" /\ "end" # "free"
  OBVIOUS
<1> QED BY <1>2, <1>3, <1>4, Zenon DEF Moves
\* From every point the next operation leads to a point.
LEMMA PointMoves ==
    ASSUME NEW td, NEW st, Point(td, st), td # <<>>
    PROVE  Moves(td, st)
<1> st \in Stacks
  BY Zenon DEF Point, Stacks
<1>1. CASE td = st
  BY <1>1, EndMoves
<1>2. CASE td = Tail(RebuildDB) /\ st = <<TxnW>>
  <2>1. Head(td) = FreeKey /\ FreeKey.file = KeyFile /\ FreeKey.do = "free"
    BY <1>2, ThePrograms, TheSteps DEF FreeKey, Free
  <2>2. Point(Tail(td), st)
    BY <1>2, Zenon DEF Point
  <2>3. "free" # "begin" /\ "free" # "end"
    OBVIOUS
  <2> QED BY <2>1, <2>2, <2>3, Zenon DEF Moves
<1>3. CASE td = RunTransaction /\ st = <<>>
  <2>1. Head(td) = AskTxnW /\ AskTxnW.fail = "exit"
    BY <1>3, ThePrograms, TheSteps
  <2>2. Point(Tail(td), <<End(AskTxnW.file, AskTxnW.mode)>> \o st)
    BY <1>3, Pushed, EndsOfBegins, Zenon DEF Point
  <2>3. Len(st) < 3 /\ \A i \in DOMAIN st : AskTxnW.mode = "write" => st[i].file # AskTxnW.file
    BY <1>3, TheSteps, ClientsAssumption
  <2> QED BY <2>1, <2>2, <2>3, BeginMoves, Zenon
<1>4. CASE td = RebuildDB /\ st = <<>>
  <2>1. Head(td) = AskTxnW /\ AskTxnW.fail = "exit"
    BY <1>4, ThePrograms, TheSteps
  <2>2. Point(Tail(td), <<End(AskTxnW.file, AskTxnW.mode)>> \o st)
    BY <1>4, Pushed, EndsOfBegins, Zenon DEF Point
  <2>3. Len(st) < 3 /\ \A i \in DOMAIN st : AskTxnW.mode = "write" => st[i].file # AskTxnW.file
    BY <1>4, TheSteps, ClientsAssumption
  <2> QED BY <2>1, <2>2, <2>3, BeginMoves, Zenon
<1>5. CASE td = VerifyDB /\ st = <<>>
  <2>1. Head(td) = AskTxnR /\ Tail(td) = <<TxnR>> /\ AskTxnR.fail = "exit"
    BY <1>5, ThePrograms, TheSteps
  <2>2. Point(Tail(td), <<End(AskTxnR.file, AskTxnR.mode)>> \o st)
    BY <1>5, <2>1, Pushed, EndsOfBegins, Zenon DEF Point, Stacks
  <2>3. Len(st) < 3 /\ \A i \in DOMAIN st : AskTxnR.mode = "write" => st[i].file # AskTxnR.file
    BY <1>5, TheSteps, ClientsAssumption
  <2> QED BY <2>1, <2>2, <2>3, BeginMoves, Zenon
<1>6. CASE td = ImportDB /\ st = <<>>
  <2>1. Head(td) = AskTxnW /\ Tail(td) = <<TxnW>> /\ AskTxnW.fail = "exit"
    BY <1>6, ThePrograms, TheSteps
  <2>2. Point(Tail(td), <<End(AskTxnW.file, AskTxnW.mode)>> \o st)
    BY <1>6, <2>1, Pushed, EndsOfBegins, Zenon DEF Point, Stacks
  <2>3. Len(st) < 3 /\ \A i \in DOMAIN st : AskTxnW.mode = "write" => st[i].file # AskTxnW.file
    BY <1>6, TheSteps, ClientsAssumption
  <2> QED BY <2>1, <2>2, <2>3, BeginMoves, Zenon
<1>7. CASE td = ImportKeys /\ st = <<>>
  <2>1. Head(td) = AskKeyW /\ AskKeyW.fail = "exit"
    BY <1>7, ThePrograms, TheSteps
  <2>2. Point(Tail(td), <<End(AskKeyW.file, AskKeyW.mode)>> \o st)
    BY <1>7, Pushed, EndsOfBegins, Zenon DEF Point
  <2>3. Len(st) < 3 /\ \A i \in DOMAIN st : AskKeyW.mode = "write" => st[i].file # AskKeyW.file
    BY <1>7, TheSteps, ClientsAssumption
  <2> QED BY <2>1, <2>2, <2>3, BeginMoves, Zenon
<1>8. CASE td = ImportKeysOldAPI /\ st = <<>>
  <2>1. Head(td) = AskTxnW /\ AskTxnW.fail = "exit"
    BY <1>8, ThePrograms, TheSteps
  <2>2. Point(Tail(td), <<End(AskTxnW.file, AskTxnW.mode)>> \o st)
    BY <1>8, Pushed, EndsOfBegins, Zenon DEF Point
  <2>3. Len(st) < 3 /\ \A i \in DOMAIN st : AskTxnW.mode = "write" => st[i].file # AskTxnW.file
    BY <1>8, TheSteps, ClientsAssumption
  <2> QED BY <2>1, <2>2, <2>3, BeginMoves, Zenon
<1>9. CASE td = LoadKeyring /\ st = <<>>
  <2>1. Head(td) = TryKeyR /\ Tail(td) = <<KeyR>> /\ Tail(Tail(td)) = st
    BY <1>9, ThePrograms
  <2>2. Point(Tail(td), <<End(TryKeyR.file, TryKeyR.mode)>> \o st)
    BY <1>9, <2>1, Pushed, EndsOfBegins, Zenon DEF Point, Stacks
  <2>3. Len(st) < 3 /\ \A i \in DOMAIN st : TryKeyR.mode = "write" => st[i].file # TryKeyR.file
    BY <1>9, TheSteps, ClientsAssumption
  <2> QED BY <2>1, <2>2, <2>3, BeginMoves, Zenon
<1>10. CASE td = Tail(RunTransaction) /\ st = <<TxnW>>
  <2>1. Head(td) = AskKeyR /\ AskKeyR.fail = "exit"
    BY <1>10, ThePrograms, TheSteps
  <2>2. Point(Tail(td), <<End(AskKeyR.file, AskKeyR.mode)>> \o st)
    BY <1>10, Pushed, EndsOfBegins, Zenon DEF Point
  <2>3. Len(st) < 3 /\ \A i \in DOMAIN st : AskKeyR.mode = "write" => st[i].file # AskKeyR.file
    BY <1>10, TheSteps, ClientsAssumption
  <2> QED BY <2>1, <2>2, <2>3, BeginMoves, Zenon
<1>11. CASE td = Tail(Tail(RebuildDB)) /\ st = <<TxnW>>
  <2>1. Head(td) = TryKeyW /\ Tail(td) = <<KeyW, TxnW>> /\ Tail(Tail(td)) = st
    BY <1>11, ThePrograms
  <2>2. Point(Tail(td), <<End(TryKeyW.file, TryKeyW.mode)>> \o st)
    BY <1>11, <2>1, Pushed, EndsOfBegins, Zenon DEF Point, Stacks
  <2>3. Len(st) < 3 /\ \A i \in DOMAIN st : TryKeyW.mode = "write" => st[i].file # TryKeyW.file
    BY <1>11, TheSteps, ClientsAssumption
  <2> QED BY <2>1, <2>2, <2>3, BeginMoves, Zenon
<1>12. CASE td = Tail(ImportKeysOldAPI) /\ st = <<TxnW>>
  <2>1. Head(td) = AskKeyW /\ AskKeyW.fail = "exit"
    BY <1>12, ThePrograms, TheSteps
  <2>2. Point(Tail(td), <<End(AskKeyW.file, AskKeyW.mode)>> \o st)
    BY <1>12, Pushed, EndsOfBegins, Zenon DEF Point
  <2>3. Len(st) < 3 /\ \A i \in DOMAIN st : AskKeyW.mode = "write" => st[i].file # AskKeyW.file
    BY <1>12, TheSteps, ClientsAssumption
  <2> QED BY <2>1, <2>2, <2>3, BeginMoves, Zenon
<1>13. CASE td = Tail(Tail(RunTransaction)) /\ st = <<KeyR, TxnW>>
  <2>1. Head(td) = TryKeyR /\ Tail(td) = <<KeyR, KeyR, TxnW>> /\ Tail(Tail(td)) = st
    BY <1>13, ThePrograms
  <2>2. Point(Tail(td), <<End(TryKeyR.file, TryKeyR.mode)>> \o st)
    BY <1>13, <2>1, Pushed, EndsOfBegins, Zenon DEF Point, Stacks
  <2>3. Len(st) < 3 /\ \A i \in DOMAIN st : TryKeyR.mode = "write" => st[i].file # TryKeyR.file
    BY <1>13, TheSteps, ClientsAssumption
  <2> QED BY <2>1, <2>2, <2>3, BeginMoves, Zenon
<1>14. CASE td = Tail(ImportKeys) /\ st = <<KeyW>>
  <2>1. Head(td) = TryKeyR /\ Tail(td) = <<KeyR, KeyW>> /\ Tail(Tail(td)) = st
    BY <1>14, ThePrograms
  <2>2. Point(Tail(td), <<End(TryKeyR.file, TryKeyR.mode)>> \o st)
    BY <1>14, <2>1, Pushed, EndsOfBegins, Zenon DEF Point, Stacks
  <2>3. Len(st) < 3 /\ \A i \in DOMAIN st : TryKeyR.mode = "write" => st[i].file # TryKeyR.file
    BY <1>14, TheSteps, ClientsAssumption
  <2> QED BY <2>1, <2>2, <2>3, BeginMoves, Zenon
<1>15. CASE td = Tail(Tail(ImportKeysOldAPI)) /\ st = <<KeyW, TxnW>>
  <2>1. Head(td) = TryKeyR /\ Tail(td) = <<KeyR, KeyW, TxnW>> /\ Tail(Tail(td)) = st
    BY <1>15, ThePrograms
  <2>2. Point(Tail(td), <<End(TryKeyR.file, TryKeyR.mode)>> \o st)
    BY <1>15, <2>1, Pushed, EndsOfBegins, Zenon DEF Point, Stacks
  <2>3. Len(st) < 3 /\ \A i \in DOMAIN st : TryKeyR.mode = "write" => st[i].file # TryKeyR.file
    BY <1>15, TheSteps, ClientsAssumption
  <2> QED BY <2>1, <2>2, <2>3, BeginMoves, Zenon
<1> QED BY <1>1, <1>2, <1>3, <1>4, <1>5, <1>6, <1>7, <1>8, <1>9, <1>10,
           <1>11, <1>12, <1>13, <1>14, <1>15, Zenon DEF Point, Programs

\* How often the handle e is open in the stack st
At(st, i, e) == IF i \in DOMAIN st /\ st[i] = e THEN 1 ELSE 0
Count(st, e) == At(st, 1, e) + At(st, 2, e) + At(st, 3, e)

\* The stacks are sequences of at most three handles.
LEMMA StackSeqs ==
    \A st \in Stacks : st \in Seq(Handles) /\ Len(st) <= 3
<1>1. /\ <<>> \in Seq(Handles) /\ Len(<<>>) <= 3
      /\ \A x \in Handles : <<x>> \in Seq(Handles) /\ Len(<<x>>) <= 3
      /\ \A x, y \in Handles : <<x, y>> \in Seq(Handles) /\ Len(<<x, y>>) <= 3
      /\ \A x, y, z \in Handles : <<x, y, z>> \in Seq(Handles) /\ Len(<<x, y, z>>) <= 3
  OBVIOUS
<1>2. TxnW \in Handles /\ TxnR \in Handles /\ KeyW \in Handles /\ KeyR \in Handles
  BY Zenon DEF Handles
<1> QED BY <1>1, <1>2, Zenon DEF Stacks

\* A handle on top counts once.
LEMMA CountPushed ==
    ASSUME NEW st \in Seq(Handles), Len(st) < 3, NEW x \in Handles, NEW e
    PROVE  Count(<<x>> \o st, e) = Count(st, e) + (IF x = e THEN 1 ELSE 0)
<1>1. <<x>> \in Seq(Handles) /\ Len(<<x>>) = 1 /\ <<x>>[1] = x
  OBVIOUS
<1>2. /\ <<x>> \o st \in Seq(Handles)
      /\ Len(<<x>> \o st) = 1 + Len(st)
      /\ \A i \in 1 .. 1 + Len(st) : (<<x>> \o st)[i] = IF i <= 1 THEN <<x>>[i] ELSE st[i - 1]
  BY <1>1, ConcatProperties, Zenon
<1>3. DOMAIN (<<x>> \o st) = 1 .. 1 + Len(st) /\ DOMAIN st = 1 .. Len(st) /\ Len(st) \in Nat
  BY <1>2, LenProperties
<1>4. At(<<x>> \o st, 1, e) = IF x = e THEN 1 ELSE 0
  BY <1>1, <1>2, <1>3 DEF At
<1>5. At(<<x>> \o st, 2, e) = At(st, 1, e)
  BY <1>2, <1>3 DEF At
<1>6. At(<<x>> \o st, 3, e) = At(st, 2, e)
  BY <1>2, <1>3 DEF At
<1>7. At(st, 3, e) = 0 /\ At(st, 1, e) \in Nat /\ At(st, 2, e) \in Nat
  BY <1>3 DEF At
<1> QED BY <1>4, <1>5, <1>6, <1>7 DEF Count

\* So does the handle that is taken off.
LEMMA CountPopped ==
    ASSUME NEW st \in Seq(Handles), st # <<>>, Len(st) <= 3, NEW e
    PROVE  Count(Tail(st), e) = Count(st, e) - (IF Head(st) = e THEN 1 ELSE 0)
<1>1. /\ Tail(st) \in Seq(Handles) /\ Len(Tail(st)) = Len(st) - 1
      /\ \A i \in 1 .. Len(Tail(st)) : Tail(st)[i] = st[i + 1]
  BY HeadTailProperties
<1>2. /\ DOMAIN Tail(st) = 1 .. Len(st) - 1 /\ DOMAIN st = 1 .. Len(st)
      /\ Len(st) \in Nat /\ Len(st) >= 1 /\ Head(st) = st[1]
  BY <1>1, LenProperties, EmptySeq
<1>3. At(st, 1, e) = IF Head(st) = e THEN 1 ELSE 0
  BY <1>2 DEF At
<1>4. At(Tail(st), 1, e) = At(st, 2, e)
  BY <1>1, <1>2 DEF At
<1>5. At(Tail(st), 2, e) = At(st, 3, e)
  BY <1>1, <1>2 DEF At
<1>6. At(Tail(st), 3, e) = 0 /\ At(st, 2, e) \in Nat /\ At(st, 3, e) \in Nat
  BY <1>2 DEF At
<1> QED BY <1>3, <1>4, <1>5, <1>6 DEF Count

\* A process stands at a point of its program, its handles are those on its
\* stack, none was nested in a read handle on the same file, and its signals are
\* blocked once for every write handle it has.
CallerInv(p) ==
    /\ stack[p] \in Stacks
    /\ Point(todo[p], stack[p])
    /\ \A f \in Files, m \in Modes : txns[p][f][m] = Count(stack[p], End(f, m))
    /\ \A f \in Files : ~upgraded[p][f]
    /\ blocked[p] = txns[p][TxnFile]["write"] + txns[p][KeyFile]["write"]

\* What makes CallersBehave inductive.
CallersInv ==
    /\ LockInv
    /\ todo = [p \in Procs |-> todo[p]]
    /\ stack = [p \in Procs |-> stack[p]]
    /\ \A p \in Procs : CallerInv(p)

\* Updating one entry of a function.
LEMMA NewEntry ==
    ASSUME NEW S, NEW g, g = [p \in S |-> g[p]], NEW q \in S, NEW v, NEW h, h = [g EXCEPT ![q] = v]
    PROVE  /\ h = [p \in S |-> h[p]]
           /\ h[q] = v
           /\ \A p \in S : p # q => h[p] = g[p]
  OBVIOUS

\* What a step leaves alone stays as it should be.
LEMMA OthersInv ==
    ASSUME NEW q \in Procs, CallerInv(q), todo'[q] = todo[q], stack'[q] = stack[q],
           txns'[q] = txns[q], upgraded'[q] = upgraded[q], blocked'[q] = blocked[q]
    PROVE  CallerInv(q)'
  BY Zenon DEF CallerInv

\* Handles differ in their file or mode.
LEMMA EndsDiffer ==
    \A f, g, m, n : End(f, m) = End(g, n) <=> f = g /\ m = n
  BY DEF End

\* At a point the open handles are one of the stacks.
LEMMA PointStack ==
    ASSUME NEW td, NEW st, Point(td, st)
    PROVE  st \in Stacks
  BY Zenon DEF Point, Stacks

\* A process with nothing left to do has nothing open.
LEMMA NothingLeft ==
    ASSUME NEW st, Point(<<>>, st)
    PROVE  st = <<>>
<1>1. /\ Tail(RunTransaction) # <<>> /\ Tail(RebuildDB) # <<>> /\ Tail(ImportKeysOldAPI) # <<>>
      /\ Tail(Tail(RebuildDB)) # <<>> /\ Tail(Tail(RunTransaction)) # <<>>
      /\ Tail(ImportKeys) # <<>> /\ Tail(Tail(ImportKeysOldAPI)) # <<>>
  BY ThePrograms
<1> QED BY <1>1, Zenon DEF Point

\* rpmtxnBegin() or rpmkxnBegin() returning a handle, at once or after a wait.
LEMMA BeginInv ==
    ASSUME CallersInv, NEW p \in Procs, StepBegin(p)
    PROVE  CallersInv'
<1> DEFINE s == Head(todo[p])
           f == s.file
           m == s.mode
           st == stack[p]
           e == End(f, m)
<1>1. /\ CallerInv(p) /\ LockInv /\ st \in Stacks
      /\ Moves(todo[p], st) /\ s.do = "begin"
  BY PointMoves, Zenon DEF CallersInv, CallerInv, StepBegin, Doing
<1>2. /\ f \in {TxnFile, KeyFile} /\ m \in Modes
      /\ Point(Tail(todo[p]), <<e>> \o st) /\ Len(st) < 3
      /\ m = "write" => \A i \in DOMAIN st : st[i].file # f
  BY <1>1, Zenon DEF Moves
<1>3. f \in Files
  BY <1>2, ClientsAssumption
<1> HIDE DEF f, m, st, e
<1>4. TxnBegin(p, f, m) \/ TxnWaitGranted(p, f, m)
  BY Zenon DEF StepBegin, f, m
<1>5. Next
  BY <1>2, <1>3, <1>4, Zenon DEF Next
<1>6. LockInv'
  BY <1>1, <1>5, NextLockInv, Zenon
<1>7. Grant(p, f, m)
  BY <1>4, Zenon DEF TxnBegin, TxnWaitGranted
<1>8. /\ todo' = [todo EXCEPT ![p] = Tail(todo[p])]
      /\ stack' = [stack EXCEPT ![p] = <<e>> \o st]
  BY DEF StepBegin, Advance, Push, e, f, m, st
<1>9. /\ todo' = [q \in Procs |-> todo'[q]] /\ stack' = [q \in Procs |-> stack'[q]]
      /\ todo'[p] = Tail(todo[p]) /\ stack'[p] = <<e>> \o st
      /\ \A q \in Procs : q # p => todo'[q] = todo[q] /\ stack'[q] = stack[q]
  BY <1>8, NewEntry DEF CallersInv
<1>10. ASSUME NEW q \in Procs, q # p PROVE CallerInv(q)'
  <2>1. txns'[q] = txns[q] /\ upgraded'[q] = upgraded[q] /\ blocked'[q] = blocked[q]
    BY <1>1, <1>7, <1>10 DEF LockInv, TypeOK, Grant
  <2> QED BY <1>9, <1>10, <2>1, OthersInv DEF CallersInv
<1>11. CallerInv(p)'
  <2>1. stack'[p] \in Stacks /\ Point(todo'[p], stack'[p])
    BY <1>2, <1>9, PointStack, Zenon
  <2>2. ASSUME NEW g \in Files, NEW n \in Modes
        PROVE  txns'[p][g][n] = txns[p][g][n] + (IF End(f, m) = End(g, n) THEN 1 ELSE 0)
    <3>1. txns'[p][g][n] = IF g = f /\ n = m THEN txns[p][g][n] + 1 ELSE txns[p][g][n]
      BY <1>1, <1>2, <1>3, <1>7 DEF LockInv, TypeOK, Grant
    <3>2. txns[p][g][n] \in Nat
      BY <1>1 DEF LockInv, TypeOK
    <3> QED BY <3>1, <3>2, EndsDiffer
  <2>3. \A g \in Files, n \in Modes : txns'[p][g][n] = Count(stack'[p], End(g, n))
    <3> SUFFICES ASSUME NEW g \in Files, NEW n \in Modes
                 PROVE  txns'[p][g][n] = Count(stack'[p], End(g, n))
      OBVIOUS
    <3>1. Count(<<e>> \o st, End(g, n)) = Count(st, End(g, n)) + (IF e = End(g, n) THEN 1 ELSE 0)
      <4>1. st \in Seq(Handles)
        BY <1>1, StackSeqs, Zenon
      <4>2. e \in Handles
        BY <1>2 DEF Handles, e, TxnW, TxnR, KeyW, KeyR, Modes
      <4> QED BY <1>2, <4>1, <4>2, CountPushed, Zenon
    <3>2. txns[p][g][n] = Count(st, End(g, n))
      BY <1>1, Zenon DEF CallerInv, st
    <3> QED BY <1>9, <2>2, <3>1, <3>2, Zenon DEF e
  <2>4. \A g \in Files : ~upgraded'[p][g]
    <3>1. m = "write" => Open(p, f) = 0
      <4> SUFFICES ASSUME m = "write" PROVE Open(p, f) = 0
        OBVIOUS
      <4>1. \A n \in Modes : Count(st, End(f, n)) = 0
        BY <1>2 DEF Count, At, End
      <4> QED BY <1>1, <1>3, <4>1 DEF CallerInv, Open, Modes, st
    <3>2. m = "write" => kernel[p][f] = "none"
      BY <1>1, <1>3, <3>1 DEF LockInv, LockFollowsHandles
    <3>3. \A g \in Files :
            upgraded'[p][g] = IF g = f THEN upgraded[p][f] \/ (m = "write" /\ kernel[p][f] = "read")
                              ELSE upgraded[p][g]
      BY <1>1, <1>3, <1>7 DEF LockInv, TypeOK, Grant
    <3> QED BY <1>1, <1>3, <3>2, <3>3 DEF CallerInv
  <2>5. blocked'[p] = txns'[p][TxnFile]["write"] + txns'[p][KeyFile]["write"]
    <3>1. blocked'[p] = IF m = "write" THEN blocked[p] + 1 ELSE blocked[p]
      BY <1>1, <1>7 DEF LockInv, TypeOK, Grant
    <3>2. /\ txns[p][TxnFile]["write"] \in Nat /\ txns[p][KeyFile]["write"] \in Nat
          /\ blocked[p] = txns[p][TxnFile]["write"] + txns[p][KeyFile]["write"]
      <4>1. txns[p][TxnFile]["write"] \in Nat /\ txns[p][KeyFile]["write"] \in Nat
        BY <1>1, ClientsAssumption DEF LockInv, TypeOK, Modes
      <4> QED BY <1>1, <4>1, Zenon DEF CallerInv
    <3>3. \A g \in {TxnFile, KeyFile} :
            txns'[p][g]["write"] = txns[p][g]["write"] + (IF f = g /\ m = "write" THEN 1 ELSE 0)
      BY <2>2, EndsDiffer, ClientsAssumption DEF Modes
    <3> QED BY <1>2, <3>1, <3>2, <3>3, ClientsAssumption DEF Modes
  <2> QED BY <2>1, <2>3, <2>4, <2>5, Zenon DEF CallerInv
<1> QED BY <1>6, <1>9, <1>10, <1>11, Zenon DEF CallersInv

\* rpmtxnEnd() of the innermost handle.
LEMMA EndInv ==
    ASSUME CallersInv, NEW p \in Procs, StepEnd(p)
    PROVE  CallersInv'
<1> DEFINE s == Head(todo[p])
           f == s.file
           m == s.mode
           st == stack[p]
<1>1. /\ CallerInv(p) /\ LockInv /\ st \in Stacks
      /\ Moves(todo[p], st) /\ s.do = "end"
  BY PointMoves, Zenon DEF CallersInv, CallerInv, StepEnd, Doing
<1>2. st # <<>> /\ s = Head(st) /\ Point(Tail(todo[p]), Tail(st))
  BY <1>1, Zenon DEF Moves
<1>3. st \in Seq(Handles) /\ Len(st) <= 3
  BY <1>1, StackSeqs, Zenon
<1>4. s \in Handles
  BY <1>2, <1>3
<1>5. s = End(f, m) /\ f \in {TxnFile, KeyFile} /\ f \in Files /\ m \in Modes
  BY <1>4, ClientsAssumption DEF Handles, TxnW, TxnR, KeyW, KeyR, End, Modes
<1> HIDE DEF s, f, m, st
<1>6. TxnEnd(p, f, m)
  BY Zenon DEF StepEnd, s, f, m
<1>7. LockInv'
  <2>1. Next
    BY <1>5, <1>6, Zenon DEF Next
  <2> QED BY <1>1, <2>1, NextLockInv, Zenon
<1>8. /\ todo' = [todo EXCEPT ![p] = Tail(todo[p])]
      /\ stack' = [stack EXCEPT ![p] = Tail(st)]
  BY DEF StepEnd, Advance, st
<1>9. /\ todo' = [q \in Procs |-> todo'[q]] /\ stack' = [q \in Procs |-> stack'[q]]
      /\ todo'[p] = Tail(todo[p]) /\ stack'[p] = Tail(st)
      /\ \A q \in Procs : q # p => todo'[q] = todo[q] /\ stack'[q] = stack[q]
  BY <1>8, NewEntry DEF CallersInv
<1>10. ASSUME NEW q \in Procs, q # p PROVE CallerInv(q)'
  <2>1. txns'[q] = txns[q] /\ upgraded'[q] = upgraded[q] /\ blocked'[q] = blocked[q]
    BY <1>1, <1>6, <1>10 DEF LockInv, TypeOK, TxnEnd
  <2> QED BY <1>9, <1>10, <2>1, OthersInv DEF CallersInv
<1>11. CallerInv(p)'
  <2>1. stack'[p] \in Stacks /\ Point(todo'[p], stack'[p])
    BY <1>2, <1>9, PointStack, Zenon
  <2>2. ASSUME NEW g \in Files, NEW n \in Modes
        PROVE  txns'[p][g][n] = txns[p][g][n] - (IF s = End(g, n) THEN 1 ELSE 0)
    <3>1. txns'[p][g][n] = IF g = f /\ n = m THEN txns[p][g][n] - 1 ELSE txns[p][g][n]
      BY <1>1, <1>5, <1>6 DEF LockInv, TypeOK, TxnEnd
    <3>2. txns[p][g][n] \in Nat
      BY <1>1 DEF LockInv, TypeOK
    <3> QED BY <1>5, <3>1, <3>2, EndsDiffer
  <2>3. \A g \in Files, n \in Modes : txns'[p][g][n] = Count(stack'[p], End(g, n))
    <3> SUFFICES ASSUME NEW g \in Files, NEW n \in Modes
                 PROVE  txns'[p][g][n] = Count(stack'[p], End(g, n))
      OBVIOUS
    <3>1. Count(Tail(st), End(g, n)) = Count(st, End(g, n)) - (IF s = End(g, n) THEN 1 ELSE 0)
      BY <1>2, <1>3, CountPopped, Zenon
    <3>2. txns[p][g][n] = Count(st, End(g, n))
      BY <1>1, Zenon DEF CallerInv, st
    <3> QED BY <1>9, <2>2, <3>1, <3>2, Zenon
  <2>4. \A g \in Files : ~upgraded'[p][g]
    BY <1>1, <1>6 DEF LockInv, TypeOK, TxnEnd, CallerInv
  <2>5. blocked'[p] = txns'[p][TxnFile]["write"] + txns'[p][KeyFile]["write"]
    <3>1. blocked'[p] = IF m = "write" /\ blocked[p] > 0 THEN blocked[p] - 1 ELSE blocked[p]
      BY <1>1, <1>6 DEF LockInv, TypeOK, TxnEnd
    <3>2. /\ txns[p][TxnFile]["write"] \in Nat /\ txns[p][KeyFile]["write"] \in Nat
          /\ blocked[p] = txns[p][TxnFile]["write"] + txns[p][KeyFile]["write"]
      <4>1. txns[p][TxnFile]["write"] \in Nat /\ txns[p][KeyFile]["write"] \in Nat
        BY <1>1, ClientsAssumption DEF LockInv, TypeOK, Modes
      <4> QED BY <1>1, <4>1, Zenon DEF CallerInv
    <3>3. \A g \in {TxnFile, KeyFile} :
            txns'[p][g]["write"] = txns[p][g]["write"] - (IF f = g /\ m = "write" THEN 1 ELSE 0)
      BY <1>5, <2>2, EndsDiffer, ClientsAssumption DEF Modes
    <3>4. txns[p][f][m] > 0
      BY <1>6 DEF TxnEnd
    <3>5. CASE m = "read"
      BY <3>1, <3>2, <3>3, <3>5
    <3>6. CASE m = "write" /\ f = TxnFile
      BY <3>1, <3>2, <3>3, <3>4, <3>6, ClientsAssumption
    <3>7. CASE m = "write" /\ f = KeyFile
      BY <3>1, <3>2, <3>3, <3>4, <3>7, ClientsAssumption
    <3> QED BY <1>5, <3>5, <3>6, <3>7 DEF Modes
  <2> QED BY <2>1, <2>3, <2>4, <2>5, Zenon DEF CallerInv
<1> QED BY <1>7, <1>9, <1>10, <1>11, Zenon DEF CallersInv

\* A step that leaves every handle as it is, and td to do.
LEMMA QuietInv ==
    ASSUME CallersInv, NEW p \in Procs, LockInv', UNCHANGED <<txns, upgraded, blocked, stack>>,
           NEW td, todo' = [todo EXCEPT ![p] = td], Point(td, stack[p])
    PROVE  CallersInv'
<1>1. /\ todo' = [q \in Procs |-> todo'[q]] /\ todo'[p] = td
      /\ \A q \in Procs : q # p => todo'[q] = todo[q]
  BY NewEntry DEF CallersInv
<1>2. ASSUME NEW q \in Procs PROVE CallerInv(q)'
  BY <1>1 DEF CallersInv, CallerInv
<1> QED BY <1>1, <1>2 DEF CallersInv

\* A process that is killed leaves nothing behind.
LEMMA KilledInv ==
    ASSUME CallersInv, NEW p \in Procs, Killed(p)
    PROVE  CallersInv'
<1>1. LockInv /\ LockInv'
  BY NextLockInv, Zenon DEF CallersInv, Killed, Next
<1>2. /\ todo' = [q \in Procs |-> todo'[q]] /\ stack' = [q \in Procs |-> stack'[q]]
      /\ todo'[p] = <<>> /\ stack'[p] = <<>>
      /\ \A q \in Procs : q # p => todo'[q] = todo[q] /\ stack'[q] = stack[q]
  BY NewEntry DEF CallersInv, Killed
<1>3. ASSUME NEW q \in Procs, q # p PROVE CallerInv(q)'
  <2>1. txns'[q] = txns[q] /\ upgraded'[q] = upgraded[q] /\ blocked'[q] = blocked[q]
    BY <1>1, <1>3 DEF LockInv, TypeOK, Killed, Die
  <2> QED BY <1>2, <1>3, <2>1, OthersInv DEF CallersInv
<1>4. CallerInv(p)'
  <2>1. /\ \A f \in Files : ~upgraded'[p][f]
        /\ \A f \in Files, m \in Modes : txns'[p][f][m] = 0
        /\ blocked'[p] = 0
    BY <1>1 DEF LockInv, TypeOK, Killed, Die
  <2>2. <<>> \in Stacks /\ Point(<<>>, <<>>) /\ \A e : Count(<<>>, e) = 0
    BY DEF Stacks, Point, Count, At
  <2> QED BY <1>2, <2>1, <2>2, ClientsAssumption DEF CallerInv, Modes
<1> QED BY <1>1, <1>2, <1>3, <1>4, Zenon DEF CallersInv

\* Every step of a caller keeps the invariant.
LEMMA ClientNextInv == CallersInv /\ [ClientNext]_clientVars => CallersInv'
<1> SUFFICES ASSUME CallersInv, [ClientNext]_clientVars PROVE CallersInv'
  OBVIOUS
<1>1. CASE UNCHANGED clientVars
  <2>1. LockInv'
    BY <1>1, NextLockInv, Zenon DEF CallersInv, clientVars
  <2> QED BY <1>1, <2>1 DEF clientVars, vars, CallersInv, CallerInv
<1>2. ASSUME NEW p \in Procs, Start(p) PROVE CallersInv'
  <2>1. LockInv'
    BY <1>2, NextLockInv, Zenon DEF CallersInv, Start
  <2>2. PICK prog \in Programs : todo' = [todo EXCEPT ![p] = prog]
    BY <1>2, Zenon DEF Start
  <2>3. stack[p] = <<>>
    BY <1>2, NothingLeft DEF Start, CallersInv, CallerInv
  <2>4. Point(prog, stack[p])
    BY <2>3, Zenon DEF Point
  <2>5. UNCHANGED <<txns, upgraded, blocked, stack>>
    BY <1>2 DEF Start, vars
  <2> QED BY <2>1, <2>2, <2>4, <2>5, QuietInv, Zenon
<1>3. ASSUME NEW p \in Procs, StepWait(p) PROVE CallersInv'
  <2>1. Moves(todo[p], stack[p]) /\ Point(todo[p], stack[p]) /\ Head(todo[p]).do = "begin"
    BY <1>3, PointMoves, Zenon DEF CallersInv, CallerInv, StepWait, Doing
  <2>2. Head(todo[p]).file \in Files /\ Head(todo[p]).mode \in Modes
    BY <2>1, ClientsAssumption, Zenon DEF Moves
  <2>3. LockInv'
    BY <1>3, <2>2, NextLockInv, Zenon DEF CallersInv, StepWait, Next
  <2>4. UNCHANGED <<txns, upgraded, blocked, stack>> /\ todo' = [todo EXCEPT ![p] = todo[p]]
    BY <1>3 DEF StepWait, TxnWait, CallersInv
  <2> QED BY <2>1, <2>3, <2>4, QuietInv, Zenon
<1>4. ASSUME NEW p \in Procs, StepBeginFails(p) PROVE CallersInv'
  <2>1. Moves(todo[p], stack[p]) /\ stack[p] \in Stacks /\ Head(todo[p]).do = "begin"
    BY <1>4, PointMoves, Zenon DEF CallersInv, CallerInv, StepBeginFails, Doing
  <2>2. Head(todo[p]).file \in Files /\ Head(todo[p]).mode \in Modes
    BY <2>1, ClientsAssumption, Zenon DEF Moves
  <2>3. LockInv'
    BY <1>4, <2>2, NextLockInv, Zenon DEF CallersInv, StepBeginFails, Next
  <2>4. (IF Head(todo[p]).fail = "exit" THEN stack[p] ELSE Tail(Tail(todo[p]))) = stack[p]
    BY <2>1, Zenon DEF Moves
  <2>5. UNCHANGED <<txns, upgraded, blocked, stack>> /\ todo' = [todo EXCEPT ![p] = stack[p]]
    BY <1>4, <2>4 DEF StepBeginFails, TxnBeginFails
  <2>6. Point(stack[p], stack[p])
    BY <2>1, Zenon DEF Point
  <2> QED BY <2>3, <2>5, <2>6, QuietInv, Zenon
<1>5. ASSUME NEW p \in Procs, StepFree(p) PROVE CallersInv'
  <2>1. Moves(todo[p], stack[p]) /\ Head(todo[p]).do = "free"
    BY <1>5, PointMoves, Zenon DEF CallersInv, CallerInv, StepFree, Doing
  <2>2. Head(todo[p]).file \in Files /\ Point(Tail(todo[p]), stack[p])
    BY <2>1, ClientsAssumption, Zenon DEF Moves
  <2>3. LockInv'
    BY <1>5, <2>2, NextLockInv, Zenon DEF CallersInv, StepFree, Next
  <2>4. UNCHANGED <<txns, upgraded, blocked, stack>> /\ todo' = [todo EXCEPT ![p] = Tail(todo[p])]
    BY <1>5 DEF StepFree, LockFree, vars, Advance
  <2> QED BY <2>2, <2>3, <2>4, QuietInv, Zenon
<1> QED BY <1>1, <1>2, <1>3, <1>4, <1>5, BeginInv, EndInv, KilledInv, Zenon DEF ClientNext, Step

\* Nobody has begun anything.
LEMMA ClientInitInv == ClientInit => CallersInv
<1> SUFFICES ASSUME ClientInit PROVE CallersInv
  OBVIOUS
<1>1. LockInv
  BY InitLockInv, Zenon DEF ClientInit
<1>2. <<>> \in Stacks /\ Point(<<>>, <<>>) /\ \A e : Count(<<>>, e) = 0
  BY DEF Stacks, Point, Count, At
<1>3. ASSUME NEW p \in Procs PROVE CallerInv(p)
  BY <1>2, ClientsAssumption DEF ClientInit, Init, CallerInv, Modes
<1> QED BY <1>1, <1>3 DEF ClientInit, CallersInv

\* The invariant is what the callers promise.
LEMMA InvBehave == CallersInv => CallersBehave
<1> SUFFICES ASSUME CallersInv PROVE CallersBehave
  OBVIOUS
<1>1. /\ LockInv /\ \A p \in Procs : CallerInv(p)
      /\ \A p \in Procs, f \in Files, m \in Modes : txns[p][f][m] \in Nat
  BY DEF CallersInv, LockInv, TypeOK
<1>2. SignalsBlockedWhileWriting
  <2> SUFFICES ASSUME NEW p \in Procs
               PROVE  blocked[p] > 0 <=> \E f \in Files : txns[p][f]["write"] > 0
    BY DEF SignalsBlockedWhileWriting
  <2>1. blocked[p] = txns[p][TxnFile]["write"] + txns[p][KeyFile]["write"]
    BY <1>1 DEF CallerInv
  <2>2. \A f \in Files : txns[p][f]["write"] > 0 => f \in {TxnFile, KeyFile}
    <3> SUFFICES ASSUME NEW f \in Files, f \notin {TxnFile, KeyFile} PROVE txns[p][f]["write"] = 0
      BY <1>1 DEF Modes
    <3>1. End(f, "write") \notin Handles
      BY EndsDiffer DEF Handles, TxnW, TxnR, KeyW, KeyR
    <3>2. stack[p] \in Seq(Handles)
      BY <1>1, StackSeqs, Zenon DEF CallerInv
    <3>3. \A i \in DOMAIN stack[p] : stack[p][i] # End(f, "write")
      BY <3>1, <3>2
    <3>4. Count(stack[p], End(f, "write")) = 0
      BY <3>3 DEF Count, At
    <3> QED BY <1>1, <3>4 DEF CallerInv, Modes
  <2> QED BY <1>1, <2>1, <2>2, ClientsAssumption DEF Modes
<1>3. WriterAlone
  <2>1. WriterExcludes
    BY <1>1 DEF LockInv, LockFollowsHandles, KernelExclusive, WriteHandleBacked, WriterExcludes
  <2> QED BY <1>1, <2>1 DEF WriterExcludes, WriterAlone, CallerInv
<1>4. IdleHoldsNothing
  <2> SUFFICES ASSUME NEW p \in Procs, todo[p] = <<>>
               PROVE  blocked[p] = 0 /\ \A f \in Files : kernel[p][f] = "none"
    BY DEF IdleHoldsNothing
  <2>1. stack[p] = <<>>
    BY <1>1, NothingLeft DEF CallerInv
  <2>2. \A e : Count(<<>>, e) = 0
    BY DEF Count, At
  <2>3. \A f \in Files, m \in Modes : txns[p][f][m] = 0
    BY <1>1, <2>1, <2>2 DEF CallerInv
  <2>4. blocked[p] = 0
    <3>1. txns[p][TxnFile]["write"] = 0 /\ txns[p][KeyFile]["write"] = 0
      BY <2>3, ClientsAssumption DEF Modes
    <3>2. blocked[p] = txns[p][TxnFile]["write"] + txns[p][KeyFile]["write"]
      BY <1>1 DEF CallerInv
    <3> QED BY <3>1, <3>2
  <2>5. \A f \in Files : kernel[p][f] = "none"
    BY <1>1, <2>3 DEF LockInv, LockFollowsHandles, Open, Modes
  <2> QED BY <2>4, <2>5
<1> QED BY <1>2, <1>3, <1>4 DEF CallersBehave

\* However the programs of any number of processes interleave, fail to get a lock
\* or are killed, a process with a write handle has its signals blocked and is
\* alone on that lock, and an idle one holds nothing and has its signals
\* unblocked: every path through rpmtsRun(), rpmtsRebuildDB(), rpmtsImportPubkey()
\* and the others ends what it began.
THEOREM CallersAlwaysBehave == ClientSpec => []CallersBehave
<1>1. ClientInit => CallersInv
  BY ClientInitInv
<1>2. CallersInv /\ [ClientNext]_clientVars => CallersInv'
  BY ClientNextInv
<1>3. CallersInv => CallersBehave
  BY InvBehave
<1> QED BY <1>1, <1>2, <1>3, PTL DEF ClientSpec
=============================================================================
