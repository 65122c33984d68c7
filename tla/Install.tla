--------------------------------- MODULE Install ---------------------------------
(***************************************************************************)
(* The operations of the rpm command on packages, lib/rpminstall.cc:       *)
(* rpmInstall(), rpmErase() and rpmRestore(), from the arguments to the    *)
(* exit status; and the iterator over package files of queries,            *)
(* lib/rpmgi.cc, which takes the same arguments.                           *)
(*                                                                         *)
(* An argument is a file by its name, as it is or in a URL.  What a file   *)
(* is, and what is listed in a manifest, are constants.  The transaction   *)
(* itself is that of module Transaction and how elements get into it that  *)
(* of Depends; here elements may fail.                                     *)
(***************************************************************************)
EXTENDS Integers, Sequences, FiniteSets, SequencesExt, FiniteSetsExt

CONSTANTS
    Commands,   \* [mode, args, opts]
    Is,         \* what is in the file of a name: "binary", "source", "manifest", "junk", "corrupt", "missing"
    Lists,      \* the arguments in a manifest
    Globs,      \* the names that a name with wildcards stands for
    Newer,      \* packages of which an older version is installed
    Fixed,      \* packages that do not have exactly one prefix to be relocated
    Labels,     \* the installed packages that a name stands for
    MaxLevels   \* MANIFEST_RECURSIONS (the code: 1000)

VARIABLES
    cmd,        \* the command
    pc,         \* where it is
    queue,      \* arguments that are to be looked at
    files,      \* files of the user, and temporary ones
    cleanup,    \* files to be removed in the end
    rpms, srpms,  \* file names of binary and source packages
    elems,      \* elements of the transaction, by their keys
    left,       \* elements that the transaction has not run yet
    done,       \* history: what was installed, erased or restored
    numFailed,
    mishap,     \* history: something failed that need not fail
    vsflags     \* whose verification flags the transaction set has

vars == <<cmd, pc, queue, files, cleanup, rpms, srpms, elems, left, done, numFailed, mishap, vsflags>>

Opt(o) == o \in cmd.opts
Installs == {"install", "upgrade", "freshen", "reinstall"}
User(name) == [tmp |-> FALSE, name |-> name]
Temp(name) == [tmp |-> TRUE, name |-> name]

\* rpmGlobPath() with RPMGLOB_NOCHECK: a URL, or a name without wildcards, stands for itself
Glob(arg) == IF arg.url # "no" \/ arg.name \notin DOMAIN Globs THEN <<arg>> ELSE Globs[arg.name]

Init ==
    /\ cmd \in Commands
    /\ pc = "args" /\ queue = <<>> /\ cleanup = <<>> /\ rpms = <<>> /\ srpms = <<>>
    /\ files = {User(n) : n \in {m \in DOMAIN Is : Is[m] # "missing"}}
    /\ elems = <<>> /\ left = {} /\ done = {} /\ numFailed = 0 /\ mishap = FALSE /\ vsflags = "caller"

Fail(n) == numFailed' = numFailed + n

-----------------------------------------------------------------------------
(* rpmInstall() *)

\* globArgs(); with --noglob, rpmNoGlob() wants a file of that very name
GlobArgs ==
    LET found == IF Opt("noglob") THEN SelectSeq(cmd.args, LAMBDA a : a.url = "no" /\ User(a.name) \in files)
                 ELSE FlattenSeq([i \in DOMAIN cmd.args |-> Glob(cmd.args[i])])
    IN /\ pc = "args" /\ cmd.mode \in Installs
       /\ vsflags' = "command" /\ queue' = found /\ pc' = "read"
       /\ Fail(IF Opt("noglob") THEN Len(cmd.args) - Len(found) ELSE 0)
       /\ UNCHANGED <<cmd, files, cleanup, rpms, srpms, elems, left, done, mishap>>

\* the file of an argument: downloaded, or the path of it
FileOf(arg) == IF arg.url = "http" THEN Temp(arg.name) ELSE User(arg.name)

\* getFile(), and the note about its result
GetFile(arg, got) ==
    /\ arg.url # "http" => got
    /\ files' = IF arg.url = "http" THEN files \cup {FileOf(arg)} ELSE files
    /\ cleanup' = IF arg.url # "no" THEN Append(cleanup, FileOf(arg)) ELSE cleanup

\* rpmtsAddInstallElement(), rpmtsAddReinstallElement(): a package that is there is not added again
AddElement(file) ==
    elems' = IF \E e \in ToSet(elems) : e.name = file.name THEN elems
             ELSE Append(elems, file)

\* checkFreshenStatus(): --freshen is for packages that are installed in an older version
PassedOver(file) == cmd.mode = "freshen" /\ file.name \notin Newer

\* a binary package, from the test of its prefixes to the result of adding it
AddPackage(file) ==
    \/ Opt("prefix") /\ file.name \in Fixed /\ Fail(1) /\ pc' = "exit" /\ UNCHANGED <<rpms, elems, mishap>>
    \/ /\ ~(Opt("prefix") /\ file.name \in Fixed)
       /\ \/ PassedOver(file) /\ UNCHANGED <<pc, rpms, elems, numFailed, mishap>>
          \/ /\ ~PassedOver(file)
             /\ rpms' = Append(rpms, file)
             /\ \/ AddElement(file) /\ UNCHANGED <<pc, numFailed, mishap>>
                \/ Fail(1) /\ pc' = "exit" /\ mishap' = TRUE /\ UNCHANGED elems

\* what tryReadHeader() and tryReadManifest() make of it; with --nomanifest a manifest is a bad package
Contents(arg, got) ==
    IF ~got THEN "lost"
    ELSE IF Is[arg.name] = "manifest" /\ Opt("nomanifest") THEN "corrupt"
    ELSE Is[arg.name]

\* one round of the loop over the queue
ReadArg ==
    /\ pc = "read" /\ queue # <<>>
    /\ \E got \in BOOLEAN :
        LET arg == Head(queue)
            is == Contents(arg, got)
        IN /\ GetFile(arg, got)
           /\ queue' = Tail(queue) \o (IF is = "manifest" THEN Lists[arg.name] ELSE <<>>)
           /\ srpms' = IF is = "source" /\ cmd.mode # "freshen" THEN Append(srpms, FileOf(arg)) ELSE srpms
           /\ CASE is = "binary" -> AddPackage(FileOf(arg))
                [] is \in {"source", "manifest"} -> UNCHANGED <<pc, rpms, elems, numFailed, mishap>>
                [] OTHER -> Fail(1) /\ mishap' = (mishap \/ ~got) /\ UNCHANGED <<pc, rpms, elems>>
    /\ UNCHANGED <<cmd, left, done, vsflags>>

AllRead ==
    /\ pc = "read" /\ queue = <<>>
    /\ pc' = IF numFailed > 0 THEN "exit" ELSE IF rpms # <<>> THEN "transaction" ELSE "sources"
    /\ UNCHANGED <<cmd, queue, files, cleanup, rpms, srpms, elems, left, done, numFailed, mishap, vsflags>>

-----------------------------------------------------------------------------
(* rpmcliTransaction() *)

\* how the callers count packages, and where they go from here
NumPackages == IF cmd.mode \in Installs THEN Len(rpms) ELSE Len(elems)
After == IF cmd.mode \in Installs THEN "sources" ELSE "exit"

\* rpmtsCheck(), rpmtsOrder() or the preparations of rpmtsRun() fail, or find problems
Refused ==
    /\ pc = "transaction"
    /\ Fail(NumPackages) /\ pc' = After /\ mishap' = TRUE
    /\ UNCHANGED <<cmd, queue, files, cleanup, rpms, srpms, elems, left, done, vsflags>>

RunStarts ==
    /\ pc = "transaction"
    /\ left' = (IF Opt("test") THEN {} ELSE ToSet(elems)) /\ pc' = "run"
    /\ UNCHANGED <<cmd, queue, files, cleanup, rpms, srpms, elems, done, numFailed, mishap, vsflags>>

\* an element is run: to be installed, its file is opened by the key, rpmShowProgress().
RunElement ==
    /\ pc = "run"
    /\ \E e \in left :
        /\ left' = left \ {e}
        /\ \/ (cmd.mode \in Installs => e \in files) /\ done' = done \cup {e.name} /\ UNCHANGED mishap
           \/ mishap' = TRUE /\ UNCHANGED done
    /\ UNCHANGED <<cmd, pc, queue, files, cleanup, rpms, srpms, elems, numFailed, vsflags>>

\* rpmtsRun() returns -1 if an element failed
RunEnds ==
    /\ pc = "run" /\ left = {}
    /\ Fail(IF mishap THEN NumPackages ELSE 0) /\ pc' = After
    /\ UNCHANGED <<cmd, queue, files, cleanup, rpms, srpms, elems, left, done, mishap, vsflags>>

\* source packages, rpmInstallSource()
InstallSource ==
    /\ pc = "sources" /\ srpms # <<>>
    /\ srpms' = Tail(srpms) /\ elems' = <<>>
    /\ \/ Opt("test") /\ UNCHANGED <<done, numFailed, mishap>>
       \/ ~Opt("test") /\ Head(srpms) \in files /\ done' = done \cup {Head(srpms).name} /\ UNCHANGED <<numFailed, mishap>>
       \/ ~Opt("test") /\ Fail(1) /\ mishap' = TRUE /\ UNCHANGED done
    /\ UNCHANGED <<cmd, pc, queue, files, cleanup, rpms, left, vsflags>>
SourcesDone ==
    /\ pc = "sources" /\ srpms = <<>> /\ pc' = "exit"
    /\ UNCHANGED <<cmd, queue, files, cleanup, rpms, srpms, elems, left, done, numFailed, mishap, vsflags>>

\* the common exit
Exit ==
    /\ pc = "exit"
    /\ files' = files \ ToSet(cleanup) /\ elems' = <<>> /\ vsflags' = "caller" /\ pc' = "done"
    /\ UNCHANGED <<cmd, queue, cleanup, rpms, srpms, left, done, numFailed, mishap>>
-----------------------------------------------------------------------------
(* rpmErase() and rpmRestore() *)

\* an argument of rpmErase() that stands for no package, or for several without --allmatches, is a failure
EraseArg ==
    LET found == Labels[Head(queue).name]
    IN /\ pc = "labels" /\ queue # <<>> /\ cmd.mode = "erase"
       /\ queue' = Tail(queue)
       /\ IF found = {} \/ (Cardinality(found) > 1 /\ ~Opt("allmatches")) THEN Fail(1) /\ UNCHANGED elems
          ELSE /\ elems' = elems \o SetToSeq({User(n) : n \in found} \ ToSet(elems))
               /\ UNCHANGED numFailed
       /\ UNCHANGED <<cmd, pc, files, cleanup, rpms, srpms, left, done, mishap, vsflags>>

\* handleRestorePackage() through rpmcliArgIter(): a package that is named twice is restored twice
RestoreArg ==
    LET found == Labels[Head(queue).name]
    IN /\ pc = "labels" /\ queue # <<>> /\ cmd.mode = "restore"
       /\ queue' = Tail(queue)
       /\ IF found = {} THEN Fail(1) /\ UNCHANGED <<elems, mishap>>
          ELSE \/ elems' = elems \o SetToSeq({User(n) : n \in found}) /\ UNCHANGED <<numFailed, mishap>>
               \/ Fail(1) /\ mishap' = TRUE /\ UNCHANGED elems
       /\ UNCHANGED <<cmd, pc, files, cleanup, rpms, srpms, left, done, vsflags>>

LabelsStart ==
    /\ pc = "args" /\ cmd.mode \in {"erase", "restore"}
    /\ vsflags' = "command" /\ queue' = cmd.args /\ pc' = "labels"
    /\ UNCHANGED <<cmd, files, cleanup, rpms, srpms, elems, left, done, numFailed, mishap>>
LabelsRead ==
    /\ pc = "labels" /\ queue = <<>>
    /\ pc' = IF numFailed > 0 THEN "exit" ELSE "transaction"
    /\ UNCHANGED <<cmd, queue, files, cleanup, rpms, srpms, elems, left, done, numFailed, mishap, vsflags>>

Next ==
    \/ GlobArgs \/ ReadArg \/ AllRead \/ LabelsStart \/ EraseArg \/ RestoreArg \/ LabelsRead
    \/ Refused \/ RunStarts \/ RunElement \/ RunEnds \/ InstallSource \/ SourcesDone \/ Exit

Spec == Init /\ [][Next]_vars

-----------------------------------------------------------------------------
(* rpmgi: the arguments of queries.  The iterator is [argv, i, levels,     *)
(* errors, out], levels being recLvls up to curLvl, out the packages that  *)
(* rpmgiNext() has returned.                                               *)

GiNew(args, noglob) ==
    [argv |-> IF noglob THEN args ELSE FlattenSeq([j \in DOMAIN args |-> Glob(args[j])]), i |-> 1, levels |-> <<1>>,
     errors |-> 0, out |-> <<>>]
\* arguments from here to the end, the present one included
GiRest(gi) == Len(gi.argv) - gi.i + 1
\* levels of manifests that are over
RECURSIVE GiPop(_)
GiPop(gi) == IF Last(gi.levels) > GiRest(gi) THEN GiPop([gi EXCEPT !.levels = Front(@)]) ELSE gi

\* rpmgiNext(), rpmgiLoadReadHeader(): until the arguments are used up
RECURSIVE GiRun(_, _)
GiRun(gi, nomanifest) ==
    IF gi.i > Len(gi.argv) THEN gi
    ELSE LET g == GiPop(gi)
             name == g.argv[g.i].name
             Error == [g EXCEPT !.errors = @ + 1, !.i = @ + 1]
             below == [g EXCEPT !.levels = Append(@, GiRest(g))]
         IN CASE Is[name] \in {"binary", "source"} -> GiRun([g EXCEPT !.out = Append(@, name), !.i = @ + 1], nomanifest)
              [] Is[name] = "missing" \/ (nomanifest /\ Is[name] \in {"manifest", "junk", "corrupt"})
                   \/ (Len(g.levels) = MaxLevels /\ Is[name] \in {"manifest", "junk", "corrupt"}) -> GiRun(Error, nomanifest)
              [] ~nomanifest /\ Len(g.levels) < MaxLevels /\ Is[name] \in {"junk", "corrupt"} ->
                   GiRun([below EXCEPT !.errors = @ + 1, !.i = @ + 1], nomanifest)
              [] ~nomanifest /\ Len(g.levels) < MaxLevels /\ Is[name] = "manifest" ->
                   GiRun([below EXCEPT !.argv = SubSeq(@, 1, g.i - 1) \o Lists[name] \o SubSeq(@, g.i + 1, Len(@))], nomanifest)

-----------------------------------------------------------------------------
(* What the arguments stand for: names in order, manifests replaced by     *)
(* what they list, to a depth.                                             *)
RECURSIVE Expand(_, _, _)
Expand(args, manifests, depth) ==
    LET One(a) == IF manifests /\ Is[a.name] = "manifest" /\ depth > 0 THEN Expand(Lists[a.name], manifests, depth - 1) ELSE <<a.name>>
    IN FlattenSeq([i \in DOMAIN args |-> One(args[i])])
APackage == {"binary", "source"}
Globbed == IF Opt("noglob") THEN cmd.args ELSE FlattenSeq([i \in DOMAIN cmd.args |-> Glob(cmd.args[i])])
Wanted == Expand(Globbed, ~Opt("nomanifest"), MaxLevels)

(* A query sees the packages that the arguments stand for, in order, and   *)
(* counts an error for each of the other files: manifests in manifests     *)
(* lose none and end with their own lists, up to the limit on their depth  *)
(* (rpmgiNext(), rpmReadPackageManifest()).                                *)
QueriesAgree ==
    \A nomanifest \in BOOLEAN :
        LET gi == GiRun(GiNew(cmd.args, FALSE), nomanifest)
            all == Expand(GiNew(cmd.args, FALSE).argv, ~nomanifest, MaxLevels - 1)
            Good(n) == Is[n] \in APackage
        IN gi.out = SelectSeq(all, Good) /\ gi.errors = Len(all) - Len(gi.out)

(* The exit status is true: it is zero if and only if every argument was a *)
(* package or a list of packages and nothing went wrong, and then all of   *)
(* them are installed, but for those that --freshen passes over and unless *)
(* it is a test; in all other cases nothing is installed or erased unless  *)
(* the transaction failed itself (rpmInstall(), rpmErase(), rpmRestore()). *)
StatusTrue ==
    LET Passed(n) == cmd.mode = "freshen" /\ (Is[n] = "source" \/ n \notin Newer)
        readable ==
            IF cmd.mode \in Installs
            THEN /\ \A n \in ToSet(Wanted) : Is[n] \in APackage /\ ~(Opt("prefix") /\ Is[n] = "binary" /\ n \in Fixed)
                 /\ Opt("noglob") => \A a \in ToSet(cmd.args) : a.url = "no"
            ELSE \A a \in ToSet(cmd.args) :
                    Labels[a.name] # {} /\ (cmd.mode = "restore" \/ Opt("allmatches") \/ Cardinality(Labels[a.name]) = 1)
        wanted == IF cmd.mode \in Installs THEN {n \in ToSet(Wanted) : ~Passed(n)} ELSE UNION {Labels[a.name] : a \in ToSet(cmd.args)}
    IN /\ pc = "done" => (numFailed = 0 <=> readable /\ ~mishap)
       /\ pc = "done" /\ numFailed = 0 => done = IF Opt("test") THEN {} ELSE wanted
       /\ done # {} => readable /\ done \subseteq wanted

(* The transaction set is left empty and with the flags it had, and no     *)
(* downloaded file stays (rpmInstall(), rpmErase()).                       *)
SetLeftClean == pc = "done" => elems = <<>> /\ vsflags = "caller" /\ ~\E f \in files : f.tmp

(* "We may have temporary files even if retrieve failed": what is removed  *)
(* in the end is temporary (rpmInstall()).                                 *)
OnlyTemporaryRemoved == \A n \in DOMAIN Is : Is[n] # "missing" => User(n) \in files
=============================================================================
