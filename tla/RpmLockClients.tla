-------------------------- MODULE RpmLockClients ---------------------------
(***************************************************************************)
(* The callers of the transaction and keyring locks, each as the sequence  *)
(* of lock operations its code performs, run concurrently on RpmLock.      *)
(*                                                                         *)
(* A begin that returns NULL either makes the caller give up ("exit": it   *)
(* ends the handles it has, in reverse order) or is passed over ("skip":   *)
(* loadKeyring() and ensureKrlock() go on without the handle).             *)
(***************************************************************************)
EXTENDS RpmLock, Sequences

CONSTANTS TxnFile, KeyFile, Starts

\* .rpm.lock and .keyring.lock
ASSUME ClientsAssumption == TxnFile \in Files /\ KeyFile \in Files /\ TxnFile # KeyFile

Begin(f, m, fail) == [do |-> "begin", file |-> f, mode |-> m, fail |-> fail]
End(f, m) == [do |-> "end", file |-> f, mode |-> m]
Free(f) == [do |-> "free", file |-> f]

\* loadKeyring()
LoadKeyring ==
    <<Begin(KeyFile, "read", "skip"), End(KeyFile, "read")>>

\* ensureKrlock()
EnsureKrlock ==
    <<Free(KeyFile), Begin(KeyFile, "write", "skip"), End(KeyFile, "write")>>

\* rpmtsRun(): the keyring is loaded on the first signature check inside.
RunTransaction ==
    <<Begin(TxnFile, "write", "exit"), Begin(KeyFile, "read", "exit")>>
    \o LoadKeyring
    \o <<End(KeyFile, "read"), End(TxnFile, "write")>>

\* rpmtsInitDB(), rpmtsRebuildDB()
RebuildDB ==
    <<Begin(TxnFile, "write", "exit")>> \o EnsureKrlock
    \o <<End(TxnFile, "write")>>

\* rpmtsVerifyDB(), rpmdb --exportdb
VerifyDB == <<Begin(TxnFile, "read", "exit"), End(TxnFile, "read")>>

\* rpmdb --importdb
ImportDB == <<Begin(TxnFile, "write", "exit"), End(TxnFile, "write")>>

\* rpmkeys --import, --delete and --rebuild; rpmtsImportPubkey()
ImportKeys ==
    <<Begin(KeyFile, "write", "exit")>> \o LoadKeyring
    \o <<End(KeyFile, "write")>>

\* Mutant: the two locks are taken in the opposite order.
ImportKeysReversed ==
    <<Begin(KeyFile, "write", "exit"), Begin(TxnFile, "write", "exit"),
      End(TxnFile, "write"), End(KeyFile, "write")>>

\* rpmtxnImportPubkey() given a transaction handle: ensureKxn() opens a
\* keyring handle under it.
ImportKeysOldAPI ==
    <<Begin(TxnFile, "write", "exit")>> \o ImportKeys
    \o <<End(TxnFile, "write")>>

Programs ==
    {RunTransaction, RebuildDB, VerifyDB, ImportDB, ImportKeys, ImportKeysOldAPI,
     LoadKeyring}

VARIABLES
    todo,       \* todo[p]: the lock operations p has still to do
    stack,      \* stack[p]: the handles p has open, innermost first
    starts      \* how many programs have been started (bound: Starts)

clientVars == <<vars, todo, stack, starts>>

ClientInit ==
    /\ Init
    /\ todo = [p \in Procs |-> <<>>]
    /\ stack = [p \in Procs |-> <<>>]
    /\ starts = 0

Doing(p, what) == todo[p] # <<>> /\ Head(todo[p]).do = what

Advance(p) == todo' = [todo EXCEPT ![p] = Tail(@)]

Start(p) ==
    /\ todo[p] = <<>> /\ starts < Starts
    /\ \E prog \in Programs : todo' = [todo EXCEPT ![p] = prog]
    /\ starts' = starts + 1
    /\ UNCHANGED <<vars, stack>>

Push(p, s) == stack' = [stack EXCEPT ![p] = <<End(s.file, s.mode)>> \o @]

StepBegin(p) ==
    /\ Doing(p, "begin")
    /\ LET s == Head(todo[p]) IN
         /\ TxnBegin(p, s.file, s.mode) \/ TxnWaitGranted(p, s.file, s.mode)
         /\ Push(p, s)
    /\ Advance(p)
    /\ UNCHANGED starts

StepWait(p) ==
    /\ Doing(p, "begin")
    /\ TxnWait(p, Head(todo[p]).file, Head(todo[p]).mode)
    /\ UNCHANGED <<todo, stack, starts>>

\* "exit" unwinds what is open; "skip" also skips the end of the handle that
\* was not made.
StepBeginFails(p) ==
    /\ Doing(p, "begin")
    /\ LET s == Head(todo[p]) IN
         /\ TxnBeginFails(p, s.file, s.mode)
         /\ todo' = [todo EXCEPT ![p] =
                       IF s.fail = "exit" THEN stack[p] ELSE Tail(Tail(@))]
    /\ UNCHANGED <<stack, starts>>

StepEnd(p) ==
    /\ Doing(p, "end")
    /\ TxnEnd(p, Head(todo[p]).file, Head(todo[p]).mode)
    /\ stack' = [stack EXCEPT ![p] = Tail(@)]
    /\ Advance(p)
    /\ UNCHANGED starts

\* rpmlockFree(NULL) does nothing.
StepFree(p) ==
    /\ Doing(p, "free")
    /\ \/ LockFree(p, Head(todo[p]).file)
       \/ fdrefs[p][Head(todo[p]).file] = 0 /\ UNCHANGED vars
    /\ Advance(p)
    /\ UNCHANGED <<stack, starts>>

\* The process is killed somewhere in the middle.
Killed(p) ==
    /\ todo[p] # <<>>
    /\ Die(p)
    /\ todo' = [todo EXCEPT ![p] = <<>>]
    /\ stack' = [stack EXCEPT ![p] = <<>>]
    /\ UNCHANGED starts

Step(p) ==
    StepBegin(p) \/ StepWait(p) \/ StepBeginFails(p) \/ StepEnd(p) \/ StepFree(p)

ClientNext == \E p \in Procs : Start(p) \/ Step(p) \/ Killed(p)

\* A process that can run does run.
ClientSpec ==
    /\ ClientInit
    /\ [][ClientNext]_clientVars
    /\ \A p \in Procs : WF_clientVars(Step(p))

----------------------------------------------------------------------------
\* No caller nests a write handle in a read handle, so every write handle in
\* the code base is exclusive: a transaction, a rebuild or a key import is
\* never concurrent with any other use of the same lock.
WriterAlone ==
    \A p, q \in Procs, f \in Files :
        p # q /\ txns[p][f]["write"] > 0 => Open(q, f) = 0

\* Every handle is ended on every path, failed begins included: an idle
\* process holds nothing and has its signals unblocked.
IdleHoldsNothing ==
    \A p \in Procs : todo[p] = <<>> =>
        /\ blocked[p] = 0
        /\ \A f \in Files : kernel[p][f] = "none"

\* The callers of the locks keep to their rules: a process that has a write
\* handle has its signals blocked and is alone, and one that is idle, however
\* it came to that, holds nothing.
CallersBehave == SignalsBlockedWhileWriting /\ WriterAlone /\ IdleHoldsNothing

\* rpmtsRun() takes the transaction lock before the keyring lock and nobody
\* takes them the other way round, so no set of callers waits in a circle:
\* what has been started comes to its end.
AllComplete == \A p \in Procs : []<>(todo[p] = <<>>)
=============================================================================
