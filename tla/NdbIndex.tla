------------------------------ MODULE NdbIndex ------------------------------
(***************************************************************************)
(* The secondary indexes of the ndb backend and how processes share them:  *)
(* lib/backend/ndb/glue.cc and its locks (rpmpkg.c, rpmxdb.c), the opening  *)
(* of an index blob (rpmidx.c), and the functions of lib/rpmdb.cc that      *)
(* build, update and query the indexes.                                    *)
(*                                                                         *)
(* Packages.db has a generation that grows with every change.  Index.db    *)
(* repeats the generation it was last brought in line with.  A process      *)
(* compares the two when it opens Index.db, and only then.  One flock() on  *)
(* Packages.db protects both files.                                         *)
(*                                                                         *)
(* A process works off a list of steps.  A step that needs a lock for       *)
(* itself only is atomic; locks held across steps are steps of their own.   *)
(***************************************************************************)
EXTENDS Naturals, FiniteSets, Sequences, SequencesExt

CONSTANTS
    Procs,      \* processes
    TagOrder,   \* dbiTags: the index tags in the order rpmdbOpenAll() opens them
    QueryTags,  \* the indexes that are queried
    Keys,       \* what packages are indexed by
    MaxNum,     \* bound: package numbers
    MaxOps,     \* bound: updates started
    MaxFaults   \* bound: processes that die and index updates that fail

Tags == ToSet(TagOrder)
Nums == 1..MaxNum
Ids == 1..Len(TagOrder)

ASSUME NdbAssumption ==
    /\ QueryTags \subseteq Tags
    /\ Cardinality(Tags) = Len(TagOrder)
    /\ "none" \notin Keys \cup Tags

VARIABLES
    pkgs,       \* Packages.db: the key of every package, "none" if there is none
    nextidx,    \* its nextpkgidx
    gen,        \* its generation
    index,      \* Index.db: exists, usergen and the blobs in its slots
    flock,      \* flock[p]: what the kernel has given p
    locked,     \* locked[p]: the counts locked_excl and locked_shared
    todo,       \* todo[p]: the steps p still has to do
    env,        \* env[p]: whether p may write, what it has opened: the xdb, and an
                \* id per index
    faults, ops,    \* what has been used of the bounds
    blame       \* history: what can damage an index without anybody noticing

disk == <<pkgs, nextidx, gen, index>>
history == <<faults, ops, blame>>
vars == <<disk, flock, locked, todo, env, history>>

NoBlob == [tag |-> "none", entries |-> {}]
Closed == [ro |-> FALSE, xdb |-> FALSE, warned |-> FALSE, building |-> FALSE,
           created |-> {}, id |-> [t \in Tags |-> 0]]
Unlocked == [ex |-> 0, sh |-> 0]

\* What an index has to say about the packages
Entries(t) == {<<t, pkgs[n], n>> : n \in {m \in Nums : pkgs[m] # "none"}}
BlobOf(t) == {i \in Ids : index.blob[i].tag = t}
InUse(p) == \E q \in Procs \ {p} : env[q].xdb
Free(p, excl) ==
    \A q \in Procs \ {p} : flock[q] = "none" \/ (~excl /\ flock[q] = "sh")

----------------------------------------------------------------------------
(* Steps of a process *)

At(p, s) == todo[p] # <<>> /\ Head(todo[p])[1] = s
Arg(p) == Head(todo[p])
Then(p, steps) == todo' = [todo EXCEPT ![p] = steps \o Tail(@)]
Done(p) == Then(p, <<>>)
SharedFree(p) == locked[p].ex > 0 \/ locked[p].sh > 0 \/ Free(p, FALSE)
ExclFree(p) == locked[p].ex > 0 \/ Free(p, TRUE)
WantsExcl(p) == \/ At(p, "lock") /\ Arg(p)[2] = "ex"
                \/ At(p, "xcreate") \/ At(p, "delall") \/ At(p, "idxinit")
\* What rpmpkgUnlock() leaves of the locks that are counted
Kept(l) == IF l.ex > 0 THEN "ex" ELSE IF l.sh > 0 THEN "sh" ELSE "none"

\* rpmpkgLock(): the first lock of a kind goes to the kernel.
Lock(p) ==
    /\ At(p, "lock")
    /\ LET excl == Arg(p)[2] = "ex"
           nested == locked[p].ex > 0 \/ (~excl /\ locked[p].sh > 0)
       IN /\ nested \/ Free(p, excl)
          /\ flock' = IF nested THEN flock ELSE [flock EXCEPT ![p] = Arg(p)[2]]
          /\ locked' = [locked EXCEPT ![p][Arg(p)[2]] = @ + 1]
    /\ Done(p)
    /\ UNCHANGED <<disk, env, history>>

\* flock(2) on a shared lock: it is given up before the exclusive one is
\* waited for.
LockConvert(p) ==
    /\ WantsExcl(p) /\ locked[p].ex = 0
    /\ flock[p] = "sh" /\ ~Free(p, TRUE)
    /\ flock' = [flock EXCEPT ![p] = "none"]
    /\ UNCHANGED <<disk, locked, todo, env, history>>

\* rpmpkgUnlock(), with the switch from exclusive to shared.
Unlock(p) ==
    /\ At(p, "unlock")
    /\ locked' = [locked EXCEPT ![p][Arg(p)[2]] = @ - 1]
    /\ flock' = [flock EXCEPT ![p] = Kept(locked'[p])]
    /\ Done(p)
    /\ UNCHANGED <<disk, env, history>>

\* An index that cannot be opened: doOpen() stops, openDatabase() closes what is open.
OpenFails(p) ==
    /\ todo' = [todo EXCEPT ![p] = <<>>]
    /\ env' = [env EXCEPT ![p] = Closed]

\* What ndb_Open() does once Index.db is open
OpenSteps(t) == <<<<"lookup", t>>, <<"idxopen", t>>>>

\* indexOpen(), and ndb_Open() up to Index.db: one that is there is checked, a
\* missing one is created by those who may.
Open(p) ==
    /\ At(p, "open")
    /\ LET t == Arg(p)[2]
       IN CASE env[p].id[t] # 0 -> Done(p) /\ env' = env
            [] env[p].id[t] = 0 /\ env[p].xdb -> Then(p, OpenSteps(t)) /\ env' = env
            [] env[p].id[t] = 0 /\ ~env[p].xdb /\ index.exists ->
                 Then(p, <<<<"check">>>> \o OpenSteps(t)) /\ env' = [env EXCEPT ![p].xdb = TRUE]
            [] env[p].id[t] = 0 /\ ~env[p].xdb /\ ~index.exists ->
                 IF env[p].ro THEN OpenFails(p)
                 ELSE Then(p, <<<<"xcreate">>>> \o OpenSteps(t)) /\ env' = env
    /\ UNCHANGED <<disk, flock, locked, history>>

\* rpmxdbOpen(O_CREAT) and rpmxdbInit().  Somebody else may have been faster: the
\* file is used like a new one, without a check.
CreateXdb(p) ==
    /\ At(p, "xcreate") /\ ExclFree(p)
    /\ flock' = [flock EXCEPT ![p] = Kept(locked[p])]
    /\ index' = [index EXCEPT !.exists = TRUE]
    /\ env' = [env EXCEPT ![p].xdb = TRUE]
    /\ blame' = IF index.exists THEN blame \cup {"create"} ELSE blame
    /\ Done(p)
    /\ UNCHANGED <<pkgs, nextidx, gen, locked, faults, ops>>

\* ndb_CheckIndexSync() under its shared lock
CheckIndexSync(p) ==
    /\ At(p, "check") /\ SharedFree(p)
    /\ LET stale == gen # index.usergen
       IN /\ IF stale /\ ~env[p].ro
             THEN Then(p, <<<<"delall">>>>)
             ELSE Done(p)
          /\ env' = [env EXCEPT ![p].warned = stale /\ env[p].ro]
    /\ UNCHANGED <<disk, flock, locked, history>>

\* rpmxdbDelAllBlobs(): the user generation stays.
DelAllBlobs(p) ==
    /\ At(p, "delall") /\ ExclFree(p)
    /\ flock' = [flock EXCEPT ![p] = Kept(locked[p])]
    /\ index' = [index EXCEPT !.blob = [i \in Ids |-> NoBlob]]
    /\ blame' = IF InUse(p) \/ index.usergen = gen THEN blame \cup {"rebuild"} ELSE blame
    /\ Done(p)
    /\ UNCHANGED <<pkgs, nextidx, gen, locked, env, faults, ops>>

\* rpmxdbLookupBlob() in ndb_Open(): an index that is not there will be built, or
\* cannot be opened by those who may not write.
LookupBlob(p) ==
    /\ At(p, "lookup") /\ SharedFree(p)
    /\ LET t == Arg(p)[2]
           missing == BlobOf(t) = {}
       IN IF missing /\ env[p].ro
          THEN OpenFails(p)
          ELSE /\ env' = [env EXCEPT ![p].created = IF missing THEN @ \cup {t} ELSE @]
               /\ Done(p)
    /\ UNCHANGED <<disk, flock, locked, history>>

\* rpmidxOpenXdb(); a missing index is created while the shared lock is held.
OpenIdx(p) ==
    /\ At(p, "idxopen") /\ SharedFree(p)
    /\ LET t == Arg(p)[2]
       IN CASE BlobOf(t) # {} ->
                 /\ env' = [env EXCEPT ![p].id[t] = CHOOSE i \in BlobOf(t) : TRUE]
                 /\ Then(p, IF t \in env[p].created THEN <<<<"opened", t>>>> ELSE <<>>)
                 /\ UNCHANGED <<flock, locked>>
            [] BlobOf(t) = {} /\ ~env[p].ro ->
                 /\ locked' = [locked EXCEPT ![p].sh = @ + 1]
                 /\ flock' = [flock EXCEPT ![p] = Kept(locked'[p])]
                 /\ Then(p, <<<<"idxinit", t>>, <<"unlock", "sh">>, <<"opened", t>>>>)
                 /\ env' = env
            [] BlobOf(t) = {} /\ env[p].ro ->
                 OpenFails(p) /\ UNCHANGED <<flock, locked>>
    /\ UNCHANGED <<disk, history>>

\* rpmidxInit(): an empty index in the first free slot, unless somebody else
\* was faster
InitIdx(p) ==
    /\ At(p, "idxinit") /\ ExclFree(p)
    /\ flock' = [flock EXCEPT ![p] = Kept(locked[p])]
    /\ LET t == Arg(p)[2]
           there == BlobOf(t)
           free == {i \in Ids : index.blob[i] = NoBlob}
           i == IF there # {} THEN CHOOSE j \in there : TRUE
                ELSE CHOOSE j \in free : \A k \in free : j <= k
       IN /\ index' = IF there # {} THEN index
                      ELSE [index EXCEPT !.blob[i].tag = t]
          /\ env' = [env EXCEPT ![p].id[t] = i]
          /\ blame' = IF there = {} /\ InUse(p) THEN blame \cup {"rebuild"} ELSE blame
    /\ Done(p)
    /\ UNCHANGED <<pkgs, nextidx, gen, locked, faults, ops>>

\* The rest of indexOpen(): the first index that was created makes
\* buildIndexes() open all others and fill those that were created too.
Opened(p) ==
    /\ At(p, "opened")
    /\ LET t == Arg(p)[2]
           build == [i \in 1..Len(TagOrder) |-> <<"open", TagOrder[i]>>]
                    \o <<<<"lock", "ex">>, <<"build">>, <<"sync">>, <<"unlock", "ex">>>>
       IN IF t \in env[p].created /\ env[p].id[t] # 0 /\ ~env[p].building
          THEN Then(p, build) /\ env' = [env EXCEPT ![p].building = TRUE]
          ELSE Done(p) /\ env' = env
    /\ UNCHANGED <<disk, flock, locked, history>>

----------------------------------------------------------------------------
(* Reading and changing entries.  The handle of an index knows its blob by   *)
(* the number of the slot.                                                   *)

BlobAt(p, t) == index.blob[env[p].id[t]]
Usable(p, t) == env[p].id[t] # 0 /\ BlobAt(p, t) # NoBlob

\* The blob after an entry is put, or deleted
WithEntry(p, t, n, k) ==
    IF Usable(p, t)
    THEN [index EXCEPT !.blob[env[p].id[t]].entries = @ \cup {<<t, k, n>>}]
    ELSE index
WithoutEntry(p, t, n, k) ==
    IF Usable(p, t)
    THEN [index EXCEPT !.blob[env[p].id[t]].entries = @ \ {<<t, k, n>>}]
    ELSE index

\* buildIndexes() puts the packages in the indexes that were created.
Build(p) ==
    /\ At(p, "build")
    /\ LET fill == {t \in env[p].created : Usable(p, t)}
           at(i) == {t \in fill : env[p].id[t] = i}
       IN index' = [index EXCEPT !.blob = [i \in Ids |->
                     [@[i] EXCEPT !.entries = @ \cup UNION {Entries(t) : t \in at(i)}]]]
    /\ Done(p)
    /\ UNCHANGED <<pkgs, nextidx, gen, flock, locked, env, history>>

\* indexSync().  After it no index is left that was created and has to be filled.
IndexSync(p) ==
    /\ At(p, "sync")
    /\ index' = IF env[p].xdb THEN [index EXCEPT !.usergen = gen] ELSE index
    /\ env' = [env EXCEPT ![p].building = FALSE, ![p].created = {}]
    /\ Done(p)
    /\ UNCHANGED <<pkgs, nextidx, gen, flock, locked, history>>


\* ndb_pkgdbPut() in rpmdbAdd(): the package gets a number, and the indexes, all of
\* them open, are updated one by one.
PkgPut(p) ==
    /\ At(p, "pput")
    /\ pkgs' = [pkgs EXCEPT ![nextidx] = Arg(p)[2]]
    /\ nextidx' = nextidx + 1
    /\ gen' = gen + 1
    /\ Then(p, [i \in DOMAIN TagOrder |-> <<"iput", TagOrder[i], nextidx, Arg(p)[2]>>])
    /\ UNCHANGED <<index, flock, locked, env, history>>

\* ndb_pkgdbPut() fails after it took a number: the indexes are not updated.
PkgPutFails(p) ==
    /\ At(p, "pput") /\ faults < MaxFaults
    /\ nextidx' = nextidx + 1
    /\ faults' = faults + 1
    /\ Done(p)
    /\ UNCHANGED <<pkgs, gen, index, flock, locked, env, ops, blame>>

\* ndb_pkgdbDel() in rpmdbRemove(), of a package whose header was read before
\* the lock was taken
PkgDel(p) ==
    /\ At(p, "pdel")
    /\ LET n == Arg(p)[2]
           k == Arg(p)[3]
       IN /\ pkgs' = [pkgs EXCEPT ![n] = "none"]
          /\ gen' = IF pkgs[n] = "none" THEN gen ELSE gen + 1
          /\ Then(p, [i \in DOMAIN TagOrder |-> <<"idel", TagOrder[i], n, k>>])
    /\ UNCHANGED <<nextidx, index, flock, locked, env, history>>

\* ndb_idxdbPut() and ndb_idxdbDel()
IdxUpdate(p) ==
    /\ At(p, "iput") \/ At(p, "idel")
    /\ LET t == Arg(p)[2]
           n == Arg(p)[3]
           k == Arg(p)[4]
       IN index' = IF At(p, "iput") THEN WithEntry(p, t, n, k) ELSE WithoutEntry(p, t, n, k)
    /\ Done(p)
    /\ UNCHANGED <<pkgs, nextidx, gen, flock, locked, env, history>>

\* They fail; rpmdbAdd() and rpmdbRemove() go on to INDEXSYNC all the same.
IdxUpdateFails(p) ==
    /\ At(p, "iput") \/ At(p, "idel")
    /\ faults < MaxFaults
    /\ faults' = faults + 1
    /\ blame' = blame \cup {"update"}
    /\ Done(p)
    /\ UNCHANGED <<disk, flock, locked, env, ops>>

\* ndb_idxdbGet(): what a query would be told now
Answer(p, t, k) ==
    LET Of(entries) == {e \in entries : e[1] = t /\ e[2] = k}
    IN CASE ~Usable(p, t) -> "error"
         [] Usable(p, t) /\ env[p].warned -> "warned"
         [] Usable(p, t) /\ ~env[p].warned ->
              IF Of(BlobAt(p, t).entries) = Of(Entries(t)) THEN "exact" ELSE "wrong"

IdxGet(p) ==
    /\ At(p, "query") /\ SharedFree(p)
    /\ Done(p)
    /\ UNCHANGED <<disk, flock, locked, env, history>>

----------------------------------------------------------------------------
(* Operations.  rpmdbOpen() opens Packages.db and all indexes before any    *)
(* of them.                                                                  *)

Idle(p) == todo[p] = <<>>
OpenAll == [i \in DOMAIN TagOrder |-> <<"open", TagOrder[i]>>]

\* openDatabase() and doOpen(), by a process that may write the files or may not
OpenDb(p, ro) ==
    /\ Idle(p) /\ env[p] = Closed
    /\ env' = [env EXCEPT ![p].ro = ro]
    /\ todo' = [todo EXCEPT ![p] = OpenAll]
    /\ UNCHANGED <<disk, flock, locked, history>>

Start(p, steps) ==
    /\ Idle(p) /\ env[p] # Closed
    /\ todo' = [todo EXCEPT ![p] = steps]
    /\ UNCHANGED <<disk, flock, locked, env, faults, blame>>
StartUpdate(p, steps) ==
    /\ ~env[p].ro /\ ops < MaxOps
    /\ ops' = ops + 1
    /\ Start(p, <<<<"lock", "ex">>>> \o steps \o <<<<"sync">>, <<"unlock", "ex">>>>)

RoomToAdd ==
    nextidx + Cardinality({q \in Procs : \E i \in DOMAIN todo[q] : todo[q][i][1] = "pput"}) <= MaxNum

\* rpmdbAdd()
RpmdbAdd(p, k) == RoomToAdd /\ StartUpdate(p, <<<<"pput", k>>>>)

\* rpmdbRemove()
RpmdbRemove(p, n) == pkgs[n] # "none" /\ StartUpdate(p, <<<<"pdel", n, pkgs[n]>>>>)

\* A query of rpmtsCheck(), inside DB_CTRL_LOCK_RO.  Other queries come at any time;
\* they change nothing, see Asking.
CheckQuery(p, t, k) ==
    /\ Start(p, <<<<"lock", "sh">>, <<"query", t, k>>, <<"unlock", "sh">>>>)
    /\ ops' = ops

\* rpmdbClose()
CloseDb(p) ==
    /\ Idle(p) /\ env[p] # Closed
    /\ env' = [env EXCEPT ![p] = Closed]
    /\ UNCHANGED <<disk, flock, locked, todo, history>>

\* The process dies; the kernel closes its files.
Die(p) ==
    /\ ~Idle(p) /\ faults < MaxFaults
    /\ faults' = faults + 1
    /\ todo' = [todo EXCEPT ![p] = <<>>]
    /\ flock' = [flock EXCEPT ![p] = "none"]
    /\ locked' = [locked EXCEPT ![p] = Unlocked]
    /\ env' = [env EXCEPT ![p] = Closed]
    /\ blame' = IF locked[p].ex > 0 /\ InUse(p) THEN blame \cup {"death"} ELSE blame
    /\ UNCHANGED <<disk, ops>>

Step(p) ==
    \/ Lock(p) \/ LockConvert(p) \/ Unlock(p)
    \/ Open(p) \/ CreateXdb(p) \/ CheckIndexSync(p) \/ DelAllBlobs(p)
    \/ LookupBlob(p) \/ OpenIdx(p) \/ InitIdx(p) \/ Opened(p) \/ Build(p) \/ IndexSync(p)
    \/ PkgPut(p) \/ PkgPutFails(p) \/ PkgDel(p) \/ IdxUpdate(p) \/ IdxUpdateFails(p)
    \/ IdxGet(p)

Next ==
    \E p \in Procs :
        \/ Step(p)
        \/ CloseDb(p) \/ Die(p)
        \/ \E ro \in BOOLEAN : OpenDb(p, ro)
        \/ \E k \in Keys : RpmdbAdd(p, k)
        \/ \E n \in Nums : RpmdbRemove(p, n)
        \/ \E t \in QueryTags, k \in Keys : CheckQuery(p, t, k)

\* A database with one package, whose Index.db is there and current or was
\* never made
Init ==
    /\ \E k \in Keys : pkgs = [n \in Nums |-> IF n = 1 THEN k ELSE "none"]
    /\ nextidx = 2 /\ gen = 2
    /\ index \in {[exists |-> FALSE, usergen |-> 0, blob |-> [i \in Ids |-> NoBlob]],
                  [exists |-> TRUE, usergen |-> gen,
                   blob |-> [i \in Ids |-> [tag |-> TagOrder[i], entries |-> Entries(TagOrder[i])]]]}
    /\ flock = [p \in Procs |-> "none"]
    /\ locked = [p \in Procs |-> Unlocked]
    /\ todo = [p \in Procs |-> <<>>]
    /\ env = [p \in Procs |-> Closed]
    /\ faults = 0 /\ ops = 0 /\ blame = {}

Spec == Init /\ [][Next]_vars
----------------------------------------------------------------------------
TypeOK ==
    /\ pkgs \in [Nums -> Keys \cup {"none"}] /\ nextidx \in 1..(MaxNum + 1) /\ gen \in Nat
    /\ index.exists \in BOOLEAN /\ index.usergen \in 0..gen
    /\ \A i \in Ids : index.blob[i].tag \in Tags \cup {"none"}
    /\ flock \in [Procs -> {"none", "sh", "ex"}]
    /\ locked \in [Procs -> [ex : Nat, sh : Nat]]
    /\ \A p \in Procs : Idle(p) => locked[p] = Unlocked /\ flock[p] = "none"
    /\ blame \subseteq {"create", "rebuild", "update", "death"}

\* When nobody is at work on the database and the generations agree, which is all
\* that ndb_CheckIndexSync() looks at, every index is complete, whatever processes
\* died in between: unless two processes created Index.db at the same time, an index
\* was created or deleted while somebody else had Index.db open, one that had become
\* current since the check was deleted, a process died with the exclusive lock while
\* somebody else had Index.db open, or an index update failed.
SyncedIsComplete ==
    /\ blame = {}
    /\ \A p \in Procs : locked[p].ex = 0 /\ ~env[p].building
    /\ index.usergen = gen
    => \A i \in Ids : index.blob[i] # NoBlob =>
          index.blob[i].entries = Entries(index.blob[i].tag)

\* A query may come from a process that has the database open, or is under way.
Asking(p, t, k) == IF Idle(p) THEN env[p] # Closed ELSE Arg(p) = <<"query", t, k>>

\* With the same exceptions a query finds the packages that are there at that
\* moment, no more and no less, however it interleaves with updates, and is never
\* refused; one by a process that may not write and was warned of an outdated index
\* when it opened it may find less.
QueryExact ==
    \A p \in Procs, t \in QueryTags, k \in Keys :
        Asking(p, t, k) /\ SharedFree(p) /\ blame = {} =>
            Answer(p, t, k) \notin {"wrong", "error"}

\* Nobody waits forever for the lock, not even two processes that hold it shared and
\* both want it exclusively: as long as one has something left to do, one can go on.
NobodyStuck == (\E p \in Procs : ~Idle(p)) => \E p \in Procs : ENABLED Step(p)

=============================================================================
