------------------------------ MODULE RpmLock ------------------------------
(***************************************************************************)
(* The transaction and keyring locks of librpm: lib/rpmlock.cc and the     *)
(* handles of lib/rpmts.cc built on it (rpmtxnBegin, rpmkxnBegin,          *)
(* rpmtxnEnd), used by processes that each own one transaction set.        *)
(*                                                                         *)
(* A lock object is a descriptor on a lock file plus a reference count.    *)
(* The kernel lock behind it is a POSIX record lock: it belongs to the     *)
(* process, is shared or exclusive, and goes away with the process.  Only  *)
(* the first acquisition through an object talks to the kernel; a nested   *)
(* one is granted by the count alone, whatever mode it asks for.           *)
(***************************************************************************)
EXTENDS Naturals, FiniteSets

CONSTANTS
    Procs,      \* processes, each with one transaction set
    Files,      \* the lock files: .rpm.lock and .keyring.lock
    Access,     \* Access[p]: what open() of a lock file gives p
    Tty,        \* the processes whose standard input is a terminal
    MaxNest     \* bound: handles a process has open on one file

Modes == {"read", "write"}

ASSUME LockAssumption ==
    /\ Access \in [Procs -> {"rw", "ro", "none"}]
    /\ Tty \subseteq Procs
    /\ MaxNest \in Nat \ {0}

VARIABLES
    fdrefs,     \* fdrefs[p][f]: 0 when there is no lock object, else its count
    kernel,     \* kernel[p][f]: the record lock process p has on file f
    txns,       \* txns[p][f][m]: outstanding handles of p on f, by flag
    upgraded,   \* upgraded[p][f]: a write handle was nested in read handles only
    waiting,    \* waiting[p]: the F_SETLKW request p sleeps in, or NoWait
    blocked     \* blocked[p]: the nesting count of rpmsqBlock()

vars == <<fdrefs, kernel, txns, upgraded, waiting, blocked>>

NoWait == [file |-> "none", mode |-> "none"]

Open(p, f) == txns[p][f]["read"] + txns[p][f]["write"]

\* mode & lock->openmode, the object being opened on first use
OpenMode(p) ==
    CASE Access[p] = "rw" -> Modes
      [] Access[p] = "ro" -> {"read"}
      [] Access[p] = "none" -> {}

\* The kernel grants p a record lock of mode m on f (external: fcntl(2)).
Compatible(p, f, m) ==
    \A q \in Procs \ {p} :
        IF m = "write" THEN kernel[q][f] = "none" ELSE kernel[q][f] # "write"

----------------------------------------------------------------------------
Init ==
    /\ fdrefs = [p \in Procs |-> [f \in Files |-> 0]]
    /\ kernel = [p \in Procs |-> [f \in Files |-> "none"]]
    /\ txns = [p \in Procs |-> [f \in Files |-> [m \in Modes |-> 0]]]
    /\ upgraded = [p \in Procs |-> [f \in Files |-> FALSE]]
    /\ waiting = [p \in Procs |-> NoWait]
    /\ blocked = [p \in Procs |-> 0]

\* rpmtxnLockInit(): the object is created unless there is one; a file that
\* cannot be opened leaves the pointer NULL.
LockInit(p, f) ==
    IF fdrefs[p][f] = 0 /\ Access[p] # "none" THEN 1 ELSE fdrefs[p][f]

\* Mutant: the record lock is always taken as F_RDLCK.
GrantShared(p, f, m) ==
    /\ fdrefs' = [fdrefs EXCEPT ![p][f] = LockInit(p, f) + 1]
    /\ kernel' = IF LockInit(p, f) > 1 THEN kernel
                 ELSE [kernel EXCEPT ![p][f] = "read"]
    /\ txns' = [txns EXCEPT ![p][f][m] = @ + 1]
    /\ upgraded' = [upgraded EXCEPT ![p][f] =
                      @ \/ (m = "write" /\ kernel[p][f] = "read")]
    /\ blocked' = [blocked EXCEPT ![p] = IF m = "write" THEN @ + 1 ELSE @]

\* rpmlock_acquire() and the rest of rpmtxnCreate() once the lock is granted:
\* the count goes up, and a write handle blocks signals.
Grant(p, f, m) ==
    /\ fdrefs' = [fdrefs EXCEPT ![p][f] = LockInit(p, f) + 1]
    /\ kernel' = IF LockInit(p, f) > 1 THEN kernel
                 ELSE [kernel EXCEPT ![p][f] = m]
    /\ txns' = [txns EXCEPT ![p][f][m] = @ + 1]
    /\ upgraded' = [upgraded EXCEPT ![p][f] =
                      @ \/ (m = "write" /\ kernel[p][f] = "read")]
    /\ blocked' = [blocked EXCEPT ![p] = IF m = "write" THEN @ + 1 ELSE @]

\* rpmlock_acquire() answers without sleeping.
MayGrant(p, f, m) ==
    /\ m \in OpenMode(p)
    /\ LockInit(p, f) > 1 \/ Compatible(p, f, m)

\* rpmtxnBegin()/rpmkxnBegin() return a handle.
TxnBegin(p, f, m) ==
    /\ waiting[p] = NoWait
    /\ Open(p, f) < MaxNest
    /\ MayGrant(p, f, m)
    /\ Grant(p, f, m)
    /\ UNCHANGED waiting

\* They return NULL: the file cannot be opened for this mode, or somebody else
\* has it and this process does not wait.
TxnBeginFails(p, f, m) ==
    /\ waiting[p] = NoWait
    /\ ~MayGrant(p, f, m)
    /\ m \notin OpenMode(p) \/ p \notin Tty
    /\ fdrefs' = [fdrefs EXCEPT ![p][f] = LockInit(p, f)]
    /\ UNCHANGED <<kernel, txns, upgraded, waiting, blocked>>

\* rpmlockAcquire() repeats the request with RPMLOCK_WAIT on a terminal.
TxnWait(p, f, m) ==
    /\ waiting[p] = NoWait
    /\ ~MayGrant(p, f, m)
    /\ m \in OpenMode(p) /\ p \in Tty
    /\ fdrefs' = [fdrefs EXCEPT ![p][f] = LockInit(p, f)]
    /\ waiting' = [waiting EXCEPT ![p] = [file |-> f, mode |-> m]]
    /\ UNCHANGED <<kernel, txns, upgraded, blocked>>

\* The kernel wakes the sleeper when the lock is free for it.
TxnWaitGranted(p, f, m) ==
    /\ waiting[p] = [file |-> f, mode |-> m]
    /\ Compatible(p, f, m)
    /\ Grant(p, f, m)
    /\ waiting' = [waiting EXCEPT ![p] = NoWait]

\* rpmlock_release(): never below one reference; the kernel lock goes when
\* only the object's own reference is left.
Release(p, f) ==
    /\ fdrefs' = [fdrefs EXCEPT ![p][f] = IF @ <= 1 THEN @ ELSE @ - 1]
    /\ kernel' = IF fdrefs[p][f] = 2 THEN [kernel EXCEPT ![p][f] = "none"]
                 ELSE kernel

\* Mutant: ending a read handle unblocks signals too.
TxnEndUnblocksAlways(p, f, m) ==
    /\ waiting[p] = NoWait
    /\ txns[p][f][m] > 0
    /\ Release(p, f)
    /\ txns' = [txns EXCEPT ![p][f][m] = @ - 1]
    /\ upgraded' = [upgraded EXCEPT ![p][f] =
                      @ /\ ~(m = "write" /\ txns[p][f]["write"] = 1)]
    /\ blocked' = [blocked EXCEPT ![p] = IF @ > 0 THEN @ - 1 ELSE @]
    /\ UNCHANGED waiting

\* rpmtxnEnd() of a handle begun in mode m.
TxnEnd(p, f, m) ==
    /\ waiting[p] = NoWait
    /\ txns[p][f][m] > 0
    /\ Release(p, f)
    /\ txns' = [txns EXCEPT ![p][f][m] = @ - 1]
    /\ upgraded' = [upgraded EXCEPT ![p][f] =
                      @ /\ ~(m = "write" /\ txns[p][f]["write"] = 1)]
    /\ blocked' = [blocked EXCEPT ![p] =
                      IF m = "write" /\ @ > 0 THEN @ - 1 ELSE @]
    /\ UNCHANGED waiting

\* Mutant: rpmlockFree() releases an object nobody locked before freeing it.
LockFreeDropsTwice(p, f) ==
    /\ waiting[p] = NoWait
    /\ fdrefs[p][f] > 0 /\ Open(p, f) = 0
    /\ fdrefs' = [fdrefs EXCEPT ![p][f] = @ - 2]
    /\ kernel' = [kernel EXCEPT ![p][f] = "none"]
    /\ UNCHANGED <<txns, upgraded, waiting, blocked>>

\* rpmlockFree() through rpmtsFree() or ensureKrlock(): a handle keeps its
\* transaction set referenced and no caller of ensureKrlock() has a keyring
\* handle open, so no handle is outstanding on the file.
LockFree(p, f) ==
    /\ waiting[p] = NoWait
    /\ fdrefs[p][f] > 0 /\ Open(p, f) = 0
    /\ fdrefs' = [fdrefs EXCEPT ![p][f] = 0]
    /\ kernel' = [kernel EXCEPT ![p][f] = "none"]
    /\ UNCHANGED <<txns, upgraded, waiting, blocked>>

\* The process dies (a fatal signal, SIGKILL): the kernel drops its locks, and
\* what runs under the same name afterwards is a fresh process.
Die(p) ==
    /\ fdrefs' = [fdrefs EXCEPT ![p] = [f \in Files |-> 0]]
    /\ kernel' = [kernel EXCEPT ![p] = [f \in Files |-> "none"]]
    /\ txns' = [txns EXCEPT ![p] = [f \in Files |-> [m \in Modes |-> 0]]]
    /\ upgraded' = [upgraded EXCEPT ![p] = [f \in Files |-> FALSE]]
    /\ waiting' = [waiting EXCEPT ![p] = NoWait]
    /\ blocked' = [blocked EXCEPT ![p] = 0]

Next ==
    \E p \in Procs :
        \/ \E f \in Files :
              \/ \E m \in Modes :
                    \/ TxnBegin(p, f, m)
                    \/ TxnBeginFails(p, f, m)
                    \/ TxnWait(p, f, m)
                    \/ TxnWaitGranted(p, f, m)
                    \/ TxnEnd(p, f, m)
              \/ LockFree(p, f)
        \/ Die(p)

Spec == Init /\ [][Next]_vars

----------------------------------------------------------------------------
TypeOK ==
    /\ fdrefs \in [Procs -> [Files -> Nat]]
    /\ kernel \in [Procs -> [Files -> {"none", "read", "write"}]]
    /\ txns \in [Procs -> [Files -> [Modes -> Nat]]]
    /\ upgraded \in [Procs -> [Files -> BOOLEAN]]
    /\ waiting \in [Procs -> [file : Files, mode : Modes] \cup {NoWait}]
    /\ blocked \in [Procs -> Nat]

\* The reference count is one for the object and one per outstanding handle,
\* and the kernel lock is held exactly while a handle is outstanding
\* (rpmlock_acquire() and rpmlock_release() count, the kernel does not).
LockFollowsHandles ==
    \A p \in Procs, f \in Files :
        /\ fdrefs[p][f] > 0 => fdrefs[p][f] = 1 + Open(p, f)
        /\ fdrefs[p][f] = 0 => Open(p, f) = 0
        /\ kernel[p][f] = "none" <=> Open(p, f) = 0

\* The kernel's own promise: an exclusive record lock stands alone.
KernelExclusive ==
    \A p, q \in Procs, f \in Files :
        p # q /\ kernel[p][f] = "write" => kernel[q][f] = "none"

\* A write handle that was not nested in a mere read handle rests on an
\* exclusive kernel lock.
WriteHandleBacked ==
    \A p \in Procs, f \in Files :
        txns[p][f]["write"] > 0 /\ ~upgraded[p][f] => kernel[p][f] = "write"

\* Mutual exclusion, the purpose of rpmtxnBegin(RPMTXN_WRITE): while a process
\* has a write handle it did not nest in a read handle, no other process has
\* any handle on the same lock file.
WriterExcludes ==
    \A p, q \in Procs, f \in Files :
        /\ p # q
        /\ txns[p][f]["write"] > 0
        /\ ~upgraded[p][f]
        => Open(q, f) = 0

\* Only a process that could open the lock file sleeps on it.
SleepersHaveObject ==
    \A p \in Procs : waiting[p] # NoWait => Access[p] # "none"

\* What makes WriterExcludes inductive.
LockInv ==
    /\ TypeOK
    /\ LockFollowsHandles
    /\ KernelExclusive
    /\ WriteHandleBacked
    /\ SleepersHaveObject

\* rpmtxnCreate() blocks signals once per write handle and rpmtxnEnd() unblocks
\* as often, over both lock files: signals are blocked exactly while the
\* process has a write handle.
SignalsBlockedWhileWriting ==
    \A p \in Procs :
        blocked[p] > 0 <=> \E f \in Files : txns[p][f]["write"] > 0
=============================================================================
