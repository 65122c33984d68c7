----------------------------- MODULE RpmdbRebuild -----------------------------
(***************************************************************************)
(* rpmdbRebuild() of lib/rpmdb.cc, called by rpmtsRebuildDB(): the headers *)
(* are copied to a database of its own, which then takes the place of the  *)
(* old one by two renames, or stays where %_dbpath_rebuild says.  Other    *)
(* commands go on meanwhile: readers take no lock and create a database    *)
(* where they find none; a transaction waits for the lock.  Any system     *)
(* call may fail and the process may be killed between any two of them.    *)
(***************************************************************************)

EXTENDS TLAPS

CONSTANTS
    Packages,       \* the headers of the database
    Damaged,        \* the ones that fail the check of headers
    Fresh           \* one that a transaction installs

VARIABLES
    db, new, old,   \* directories
    nocleanup,      \* the new database is wanted elsewhere
    todo,           \* headers still to be copied
    failed, cut,    \* an addition failed; reading stopped before the end
    installed,      \* what is installed
    lock,           \* who holds the transaction lock
    pc, rc

vars == <<db, new, old, nocleanup, todo, failed, cut, installed, lock, pc, rc>>

Directory(pkgs, keys) == [there |-> TRUE, pkgs |-> pkgs, keys |-> keys]
Absent == [there |-> FALSE, pkgs |-> {}, keys |-> FALSE]
Empty == Directory({}, FALSE)
Good(S) == S \ Damaged

Init ==
    /\ db = Directory(Packages, TRUE) /\ new = Absent /\ old = Absent
    /\ nocleanup \in BOOLEAN /\ todo = {}
    /\ failed = FALSE /\ cut = FALSE /\ installed = Packages
    /\ lock = "free" /\ pc = "start" /\ rc = 0

Stop(r) == pc' = "done" /\ rc' = r /\ lock' = "free"
Go(to) == pc' = to /\ UNCHANGED <<rc, lock>>

\* file by file, and nobody looks whether that worked: the database may be gone and
\* the directory with the keys still be there
RemoveDatabase(d) == {Absent, d, [d EXCEPT !.pkgs = {}]}

-----------------------------------------------------------------------------

\* Mutant: the lock is not taken.
StartUnlocked ==
    /\ pc = "start" /\ lock = "free" /\ pc' = "mkdir"
    /\ UNCHANGED <<db, new, old, nocleanup, todo, failed, cut, installed, lock, rc>>
\* rpmtsRebuildDB(): nothing is done without the transaction lock
Start ==
    /\ pc = "start" /\ lock = "free" /\ lock' = "rebuild" /\ pc' = "mkdir"
    /\ UNCHANGED <<db, new, old, nocleanup, todo, failed, cut, installed, rc>>

\* the new directory, then both databases opened; the old one is created if it is missing
Open ==
    /\ pc = "mkdir"
    /\ \/ Stop(1) /\ UNCHANGED <<db, new, todo>>
       \/ new' = Empty /\ Stop(1) /\ UNCHANGED <<db, todo>>
       \/ /\ new' = Empty /\ Go("copy")
          /\ db' = IF db.there THEN db ELSE Empty
          /\ todo' = db'.pkgs
    /\ UNCHANGED <<old, nocleanup, failed, cut, installed>>

\* one header: skipped if it is damaged; one that cannot be added ends the copy, and so does a
\* read that fails, which looks like the end of the database
Copy ==
    /\ pc = "copy" /\ todo # {}
    /\ \/ \E h \in todo :
            /\ todo' = todo \ {h} /\ UNCHANGED <<failed, cut>>
            /\ new' = IF h \in Damaged THEN new ELSE [new EXCEPT !.pkgs = @ \cup {h}]
       \/ todo' = {} /\ failed' = TRUE /\ UNCHANGED <<new, cut>>
       \/ todo' = {} /\ cut' = TRUE /\ UNCHANGED <<new, failed>>
    /\ Go("copy") /\ UNCHANGED <<db, old, nocleanup, installed>>

\* after closing: the original stays in place when anything failed, and when the new one is
\* wanted elsewhere
MoveOrNot(bad) == IF bad THEN Stop(1) ELSE IF nocleanup THEN Stop(0) ELSE Go("rename")
EndCopy ==
    /\ pc = "copy" /\ todo = {}
    /\ \E closeFails \in BOOLEAN :
         /\ failed' = (failed \/ closeFails)
         /\ IF failed' THEN new' \in RemoveDatabase(new) ELSE new' = new
         /\ MoveOrNot(failed')
    /\ UNCHANGED <<db, old, nocleanup, todo, cut, installed>>

\* rpmdbMoveDatabase(): the old database out of the way
RenameOld ==
    /\ pc = "rename"
    /\ \/ old' = db /\ db' = Absent /\ Go("place")
       \/ Stop(1) /\ UNCHANGED <<db, old>>
    /\ UNCHANGED <<new, nocleanup, todo, failed, cut, installed>>

\* the new one in its place, unless someone made a database there; else the old one back
RenameNew ==
    /\ pc = "place"
    /\ \/ ~db.there /\ db' = new /\ new' = Absent /\ Go("keys")
       \/ UNCHANGED <<db, new>> /\ Go("restore")
    /\ UNCHANGED <<old, nocleanup, todo, failed, cut, installed>>
Restore ==
    /\ pc = "restore" /\ Stop(1)
    /\ \/ ~db.there /\ db' = old /\ old' = Absent
       \/ UNCHANGED <<db, old>>
    /\ UNCHANGED <<new, nocleanup, todo, failed, cut, installed>>

\* the keys are not part of the copy: their directory is moved
MoveKeys ==
    /\ pc = "keys"
    /\ \/ /\ Go("remove")
          /\ db' = [db EXCEPT !.keys = @ \/ old.keys] /\ old' = [old EXCEPT !.keys = FALSE]
       \/ old.keys /\ Stop(1) /\ UNCHANGED <<db, old>>
    /\ UNCHANGED <<new, nocleanup, todo, failed, cut, installed>>

\* removing the old one may fail, which is only reported
RemoveOld ==
    /\ pc = "remove" /\ old' \in RemoveDatabase(old) /\ Stop(0)
    /\ UNCHANGED <<db, new, nocleanup, todo, failed, cut, installed>>

\* the process is killed; the lock goes with it
Crash ==
    /\ pc \notin {"start", "done", "killed"} /\ pc' = "killed" /\ rc' = 1 /\ lock' = "free"
    /\ UNCHANGED <<db, new, old, nocleanup, todo, failed, cut, installed>>

\* openDatabase() of any other command: a database that is missing is created
Reader ==
    /\ ~db.there /\ db' = Empty
    /\ UNCHANGED <<new, old, nocleanup, todo, failed, cut, installed, lock, pc, rc>>

\* a transaction of another process installs a package, when it gets the lock
Install ==
    /\ lock = "free" /\ Fresh \notin installed /\ db.there
    /\ db' = [db EXCEPT !.pkgs = @ \cup {Fresh}] /\ installed' = installed \cup {Fresh}
    /\ UNCHANGED <<new, old, nocleanup, todo, failed, cut, lock, pc, rc>>

Next ==
    \/ Start \/ Open \/ Copy \/ EndCopy \/ RenameOld \/ RenameNew \/ Restore \/ MoveKeys \/ RemoveOld
    \/ Crash \/ Reader \/ Install
Spec == Init /\ [][Next]_vars

-----------------------------------------------------------------------------

Holds(d, S) == d.there /\ S \subseteq d.pkgs

(* Whatever system call of a rebuild fails, wherever it is killed and      *)
(* whatever other commands do meanwhile, no package is lost: the headers   *)
(* that were there before are all in one directory; and when the rebuild   *)
(* reports success the database in place has everything that is installed  *)
(* and the public keys, or the one made elsewhere has all the headers.     *)
(* (Not when reading the old database stops early, which rpmdbRebuild()    *)
(* cannot tell from its end.)                                              *)
RebuildKeepsPackages ==
    ~cut => /\ \E d \in {db, new, old} : Holds(d, Good(Packages))
            /\ pc = "done" /\ rc = 0 => /\ Holds(db, Good(installed)) /\ db.keys
                                        /\ nocleanup => Holds(new, Good(Packages))

-------------------------------------------------------------------------------
(* A rebuild loses no package, for any set of packages, any damaged headers *)
(* among them and any package installed meanwhile: the invariant says where *)
(* everything that is installed is, at each step.                           *)
Working == {"mkdir", "copy", "rename", "place", "restore", "keys", "remove"}
Headers == Packages \cup {Fresh}
Directories == [there : BOOLEAN, pkgs : SUBSET Headers, keys : BOOLEAN]

DirectoriesOK == db \in Directories /\ new \in Directories /\ old \in Directories
RebuildTypeOK ==
    /\ nocleanup \in BOOLEAN /\ failed \in BOOLEAN /\ cut \in BOOLEAN
    /\ todo \in SUBSET Headers /\ installed \in SUBSET Headers
    /\ lock \in {"free", "rebuild"} /\ pc \in Working \cup {"start", "done", "killed"} /\ rc \in {0, 1}

\* The rebuild has the lock while it works, so nothing is installed meanwhile
LockWhileWorking == pc \in Working => lock = "rebuild"
\* and moves a database only if it is not wanted elsewhere.
MovedInPlace == pc \in Working \ {"mkdir", "copy"} => ~nocleanup
PackagesInstalled == Packages \subseteq installed

\* Where everything that is installed is, at each step of the rebuild
Whole(d) == Holds(d, Good(installed))
Placed ==
    ~cut => /\ pc \in {"start", "mkdir", "copy", "rename"} => Whole(db) /\ db.keys
            /\ pc = "copy" => new.there /\ (failed \/ Good(installed) \subseteq new.pkgs \cup todo)
            /\ pc = "rename" => Whole(new)
            /\ pc \in {"place", "restore"} => Whole(new) /\ Whole(old) /\ old.keys
            /\ pc = "keys" => Whole(db) /\ Whole(old) /\ old.keys
            /\ pc = "remove" => Whole(db) /\ db.keys
            /\ pc = "done" /\ rc = 0 => Whole(db) /\ db.keys /\ (nocleanup => Holds(new, Good(Packages)))
Somewhere == ~cut => \E d \in {db, new, old} : Holds(d, Good(Packages))
RebuildInv ==
    /\ DirectoriesOK /\ RebuildTypeOK /\ LockWhileWorking
    /\ MovedInPlace /\ PackagesInstalled /\ Placed /\ Somewhere

-------------------------------------------------------------------------------
\* What a directory is after the changes that the steps make
LEMMA DirectoryIsEmpty ==
    /\ Absent \in Directories /\ ~Absent.there
    /\ Empty \in Directories /\ Empty.there /\ Empty.pkgs = {}
  BY DEF Absent, Empty, Directory, Directories

LEMMA DirectoryPackages ==
    ASSUME NEW d \in Directories, NEW S \in SUBSET Headers
    PROVE  LET e == [d EXCEPT !.pkgs = S]
           IN e \in Directories /\ e.pkgs = S /\ e.there = d.there /\ e.keys = d.keys
  BY DEF Directories

LEMMA DirectoryKeys ==
    ASSUME NEW d \in Directories, NEW k \in BOOLEAN
    PROVE  LET e == [d EXCEPT !.keys = k]
           IN e \in Directories /\ e.pkgs = d.pkgs /\ e.there = d.there /\ e.keys = k
  BY DEF Directories

LEMMA InitialDatabase == Init => RebuildInv
<1> SUFFICES ASSUME Init PROVE RebuildInv
  OBVIOUS
<1>1. /\ db \in Directories /\ db.there /\ db.keys /\ db.pkgs = Packages
  BY DEF Init, Directory, Directories, Headers
<1> QED
  BY <1>1, DirectoryIsEmpty DEF Init, RebuildInv, DirectoriesOK, Working, RebuildTypeOK,
     LockWhileWorking, MovedInPlace, PackagesInstalled, Placed, Somewhere, Whole, Holds, Good,
     Headers

\* Every step keeps the invariant: a directory is moved or removed only when
\* another one is whole, and nothing is installed while the rebuild has the lock.
LEMMA StepKeepsInvariant == RebuildInv /\ [Next]_vars => RebuildInv'
<1> SUFFICES ASSUME RebuildInv, [Next]_vars PROVE RebuildInv'
  OBVIOUS
<1> USE DEF RebuildInv
<1>1. CASE Start
  <2>1. DirectoriesOK'
    BY <1>1 DEF Start, DirectoriesOK
  <2>2. RebuildTypeOK'
    BY <1>1 DEF Start, RebuildTypeOK, Working
  <2>3. LockWhileWorking' /\ MovedInPlace' /\ PackagesInstalled'
    BY <1>1 DEF Start, LockWhileWorking, MovedInPlace, PackagesInstalled
  <2>4. Placed'
    BY <1>1 DEF Start, Placed, Whole
  <2>5. Somewhere'
    BY <1>1 DEF Start, Somewhere
  <2> QED
    BY <2>1, <2>2, <2>3, <2>4, <2>5
<1>2. CASE Open
  <2>1. DirectoriesOK'
    BY <1>2, DirectoryIsEmpty DEF Open, DirectoriesOK
  <2>2. RebuildTypeOK'
    BY <1>2, <2>1 DEF Open, DirectoriesOK, RebuildTypeOK, Directories, Working, Stop, Go
  <2>3. LockWhileWorking' /\ MovedInPlace' /\ PackagesInstalled'
    BY <1>2 DEF Open, LockWhileWorking, MovedInPlace, PackagesInstalled, Working, Stop, Go
  <2>4. Placed'
    BY <1>2, DirectoryIsEmpty DEF Open, Placed, Whole, Holds, Stop, Go
  <2>5. Somewhere'
    BY <1>2 DEF Open, PackagesInstalled, Placed, Somewhere, Whole, Holds, Good
  <2> QED
    BY <2>1, <2>2, <2>3, <2>4, <2>5
<1>3. CASE Copy
  <2>0. \A h \in todo : new.pkgs \cup {h} \in SUBSET Headers
    BY DEF DirectoriesOK, Directories, RebuildTypeOK
  <2>1. DirectoriesOK'
    BY <1>3, <2>0, DirectoryPackages DEF Copy, DirectoriesOK
  <2>2. RebuildTypeOK'
    BY <1>3, <2>1 DEF Copy, DirectoriesOK, RebuildTypeOK, Directories, Working, Headers, Go
  <2>3. LockWhileWorking' /\ MovedInPlace' /\ PackagesInstalled'
    BY <1>3 DEF Copy, LockWhileWorking, MovedInPlace, PackagesInstalled, Go
  <2>4. Placed'
    <3>1. ASSUME NEW h \in todo, todo' = todo \ {h}, UNCHANGED <<failed, cut>>,
                 new' = IF h \in Damaged THEN new ELSE [new EXCEPT !.pkgs = @ \cup {h}]
          PROVE  Placed'
      <4>1. new'.there = new.there /\ new.pkgs \cup Good({h}) \subseteq new'.pkgs
        BY <3>1 DEF Good
      <4> QED
        BY <1>3, <3>1 DEF Copy, Go, Placed, Whole, Good
    <3>2. ASSUME failed' \/ cut', new' = new, cut' = FALSE => cut = FALSE PROVE Placed'
      BY <1>3, <3>2 DEF Copy, Go, Placed, Whole
    <3> QED
      BY <1>3, <3>1, <3>2 DEF Copy
  <2>5. Somewhere'
    BY <1>3 DEF Copy, PackagesInstalled, Placed, Somewhere, Whole, Holds, Good
  <2> QED
    BY <2>1, <2>2, <2>3, <2>4, <2>5
<1>4. CASE EndCopy
  <2>1. DirectoriesOK'
    BY <1>4, DirectoryIsEmpty, DirectoryPackages DEF EndCopy, DirectoriesOK, RemoveDatabase
  <2>2. RebuildTypeOK'
    BY <1>4 DEF EndCopy, RebuildTypeOK, Working, MoveOrNot, Stop, Go
  <2>3. LockWhileWorking' /\ MovedInPlace' /\ PackagesInstalled'
    BY <1>4 DEF EndCopy, LockWhileWorking, MovedInPlace, PackagesInstalled, Working, MoveOrNot,
       Stop, Go
  <2>4. Placed'
    BY <1>4 DEF EndCopy, RebuildTypeOK, PackagesInstalled, Placed, Whole, Holds, Good, MoveOrNot,
       Stop, Go
  <2>5. Somewhere'
    BY <1>4 DEF EndCopy, PackagesInstalled, Placed, Somewhere, Whole, Holds, Good
  <2> QED
    BY <2>1, <2>2, <2>3, <2>4, <2>5
<1>5. CASE RenameOld
  <2>1. DirectoriesOK'
    BY <1>5, DirectoryIsEmpty DEF RenameOld, DirectoriesOK
  <2>2. RebuildTypeOK'
    BY <1>5 DEF RenameOld, RebuildTypeOK, Working, Stop, Go
  <2>3. LockWhileWorking' /\ MovedInPlace' /\ PackagesInstalled'
    BY <1>5 DEF RenameOld, LockWhileWorking, MovedInPlace, PackagesInstalled, Working, Stop, Go
  <2>4. Placed'
    BY <1>5 DEF RenameOld, Placed, Whole, Stop, Go
  <2>5. Somewhere'
    BY <1>5 DEF RenameOld, PackagesInstalled, Placed, Somewhere, Whole, Holds, Good
  <2> QED
    BY <2>1, <2>2, <2>3, <2>4, <2>5
<1>6. CASE RenameNew
  <2>1. DirectoriesOK'
    BY <1>6, DirectoryIsEmpty DEF RenameNew, DirectoriesOK
  <2>2. RebuildTypeOK'
    BY <1>6 DEF RenameNew, RebuildTypeOK, Working, Go
  <2>3. LockWhileWorking' /\ MovedInPlace' /\ PackagesInstalled'
    BY <1>6 DEF RenameNew, LockWhileWorking, MovedInPlace, PackagesInstalled, Working, Go
  <2>4. Placed'
    BY <1>6 DEF RenameNew, Placed, Whole, Go
  <2>5. Somewhere'
    BY <1>6 DEF RenameNew, Somewhere, Holds
  <2> QED
    BY <2>1, <2>2, <2>3, <2>4, <2>5
<1>7. CASE Restore
  <2>1. DirectoriesOK'
    BY <1>7, DirectoryIsEmpty DEF Restore, DirectoriesOK
  <2>2. RebuildTypeOK'
    BY <1>7 DEF Restore, RebuildTypeOK, Stop
  <2>3. LockWhileWorking' /\ MovedInPlace' /\ PackagesInstalled'
    BY <1>7 DEF Restore, LockWhileWorking, MovedInPlace, PackagesInstalled, Working, Stop
  <2>4. Placed'
    BY <1>7 DEF Restore, Placed, Stop
  <2>5. Somewhere'
    BY <1>7 DEF Restore, Somewhere, Holds
  <2> QED
    BY <2>1, <2>2, <2>3, <2>4, <2>5
<1>8. CASE MoveKeys
  <2>0. (db.keys \/ old.keys) \in BOOLEAN
    OBVIOUS
  <2>1. DirectoriesOK'
    BY <1>8, <2>0, DirectoryKeys DEF MoveKeys, DirectoriesOK
  <2>2. RebuildTypeOK'
    BY <1>8 DEF MoveKeys, RebuildTypeOK, Working, Stop, Go
  <2>3. LockWhileWorking' /\ MovedInPlace' /\ PackagesInstalled'
    BY <1>8 DEF MoveKeys, LockWhileWorking, MovedInPlace, PackagesInstalled, Working, Stop, Go
  <2>4. Placed'
    <3>1. CASE Go("remove") /\ db' = [db EXCEPT !.keys = @ \/ old.keys]
      <4>1. db'.there = db.there /\ db'.pkgs = db.pkgs /\ db'.keys = (db.keys \/ old.keys)
        BY <3>1
      <4> QED
        BY <1>8, <3>1, <4>1 DEF MoveKeys, Go, Placed, Whole, Holds, Good
    <3>2. CASE Stop(1)
      BY <3>2 DEF Stop, Placed
    <3> QED
      BY <1>8, <3>1, <3>2 DEF MoveKeys
  <2>5. Somewhere'
    BY <1>8, DirectoryIsEmpty, DirectoryPackages, DirectoryKeys DEF MoveKeys, DirectoriesOK,
       RebuildTypeOK, LockWhileWorking, MovedInPlace, PackagesInstalled, Placed, Somewhere,
       Working, Whole, Holds, Good, Stop, Go
  <2> QED
    BY <2>1, <2>2, <2>3, <2>4, <2>5
<1>9. CASE RemoveOld
  <2>1. DirectoriesOK'
    BY <1>9, DirectoryIsEmpty, DirectoryPackages DEF RemoveOld, DirectoriesOK, RemoveDatabase
  <2>2. RebuildTypeOK'
    BY <1>9 DEF RemoveOld, RebuildTypeOK, Stop
  <2>3. LockWhileWorking' /\ MovedInPlace' /\ PackagesInstalled'
    BY <1>9 DEF RemoveOld, LockWhileWorking, MovedInPlace, PackagesInstalled, Working, Stop
  <2>4. Placed'
    BY <1>9 DEF RemoveOld, MovedInPlace, Placed, Working, Whole, Stop
  <2>5. Somewhere'
    BY <1>9 DEF RemoveOld, PackagesInstalled, Placed, Somewhere, Whole, Holds, Good
  <2> QED
    BY <2>1, <2>2, <2>3, <2>4, <2>5
<1>10. CASE Crash
  <2>1. DirectoriesOK'
    BY <1>10 DEF Crash, DirectoriesOK
  <2>2. RebuildTypeOK'
    BY <1>10 DEF Crash, RebuildTypeOK
  <2>3. LockWhileWorking' /\ MovedInPlace' /\ PackagesInstalled'
    BY <1>10 DEF Crash, LockWhileWorking, MovedInPlace, PackagesInstalled, Working
  <2>4. Placed'
    BY <1>10 DEF Crash, Placed
  <2>5. Somewhere'
    BY <1>10 DEF Crash, Somewhere
  <2> QED
    BY <2>1, <2>2, <2>3, <2>4, <2>5
<1>11. CASE Reader
  <2>1. DirectoriesOK'
    BY <1>11, DirectoryIsEmpty DEF Reader, DirectoriesOK
  <2>2. RebuildTypeOK'
    BY <1>11 DEF Reader, RebuildTypeOK
  <2>3. LockWhileWorking' /\ MovedInPlace' /\ PackagesInstalled'
    BY <1>11 DEF Reader, LockWhileWorking, MovedInPlace, PackagesInstalled
  <2>4. Placed'
    BY <1>11 DEF Reader, Placed, Whole, Holds
  <2>5. Somewhere'
    BY <1>11 DEF Reader, Somewhere, Holds
  <2> QED
    BY <2>1, <2>2, <2>3, <2>4, <2>5
<1>12. CASE Install
  <2>0. db.pkgs \cup {Fresh} \in SUBSET Headers
    BY DEF DirectoriesOK, Directories, Headers
  <2>1. DirectoriesOK'
    BY <1>12, <2>0, DirectoryPackages DEF Install, DirectoriesOK
  <2>2. RebuildTypeOK'
    BY <1>12 DEF Install, RebuildTypeOK, Headers
  <2>3. LockWhileWorking' /\ MovedInPlace' /\ PackagesInstalled'
    BY <1>12 DEF Install, LockWhileWorking, MovedInPlace, PackagesInstalled
  <2>4. Placed'
    BY <1>12 DEF Install, LockWhileWorking, Placed, Working, Whole, Holds, Good
  <2>5. Somewhere'
    BY <1>12 DEF Install, Somewhere, Holds
  <2> QED
    BY <2>1, <2>2, <2>3, <2>4, <2>5
<1>13. CASE UNCHANGED vars
  BY <1>13 DEF vars, DirectoriesOK, RebuildTypeOK, LockWhileWorking, MovedInPlace,
     PackagesInstalled, Placed, Somewhere, Whole
<1> QED
  BY <1>1, <1>2, <1>3, <1>4, <1>5, <1>6, <1>7, <1>8, <1>9, <1>10, <1>11, <1>12, <1>13 DEF Next

(* Whatever fails in rpmdbRebuild(), wherever it is killed and whatever    *)
(* other commands do meanwhile, no package is lost, and success means that *)
(* the database in place has all that is installed, and the public keys.   *)
THEOREM RebuildLosesNothing == Spec => []RebuildKeepsPackages
<1>1. RebuildInv => RebuildKeepsPackages
  BY DEF RebuildInv, RebuildKeepsPackages, Placed, Somewhere, Whole
<1> QED
  BY InitialDatabase, StepKeepsInvariant, <1>1, PTL DEF Spec
===============================================================================
