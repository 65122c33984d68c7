------------------------------ MODULE MCFiles ------------------------------
(***************************************************************************)
(* What happens to files: how paths are relocated and recognised, the fate *)
(* that a transaction decides on for each file, the unpacking of one       *)
(* package, and the file that the database has its records in.  A          *)
(* behaviour is one of these, named by part; the variables of the others   *)
(* stay as they are.                                                       *)
(***************************************************************************)
EXTENDS Fsm, FiniteSets, TLC

VARIABLES part,
    sys, db, world, repl, prev, recs, probs, dsi, failed, used, test, pos,
    hdr, slots, blk, size, ragged, req, applied, mem, todo, cont, ops, faults, refused,
    paths   \* the disk and the transaction whose fingerprints are taken, or the package and its relocations

ofFate == <<sys, db, world, repl, prev, recs, probs, dsi, failed, used, test, pos>>
ofFsm == <<pkg, fx, fp, sub, stage, setmeta, firstlink, disk, rc, pre, post, stuck>>
ofPkg == <<hdr, slots, blk, size, ragged, req, applied, mem, todo, cont, ops, faults, refused>>
mcVars == <<part, pc, act, ofFate, ofFsm, ofPkg, paths>>

----------------------------------------------------------------------------
\* Packages to be unpacked: pairs of unrelated files of every kind, and hard link
\* sets of three names
Unpacked(t, a, s, o) == [type |-> t, action |-> a, set |-> s, old |-> o]

\* Dispositions as transaction.cc decides on them: there is something to back up
\* when it says so, and a file to be touched may have vanished since.
Singles(s) ==
    {Unpacked(t, "CREATE", s, o) : t \in {"reg", "special"}, o \in {"none", "old"}}
    \cup {Unpacked("dir", a, s, o) : a \in {"CREATE"}, o \in {"none", "old", "dir"}}
    \cup {Unpacked("dir", "BACKUP", s, "old")}
    \cup {Unpacked("reg", a, s, "old") : a \in {"SAVE", "BACKUP", "ALTNAME"}}
    \cup {Unpacked("reg", a, s, o) : a \in {"TOUCH", "SKIP"}, o \in {"none", "old"}}

MCPairs == {<<f, g>> : f \in Singles("a"), g \in Singles("b")}

LinkActions == {"CREATE", "SAVE", "ALTNAME", "SKIP", "TOUCH"}
MCLinks ==
    {<<Unpacked("reg", x, "a", "old"), Unpacked("reg", y, "a", "old"),
       Unpacked("reg", z, "a", "old"), f>> :
       x \in LinkActions, y \in LinkActions, z \in LinkActions,
       f \in {Unpacked("reg", "CREATE", "b", "none"), Unpacked("reg", "SKIP", "b", "old")}}

MCPackages == MCPairs \cup MCLinks

----------------------------------------------------------------------------
\* Transactions to decide on the fate of files.  Packages 1 and 2 are installed, or
\* one of them is; 3 and 4 are to be installed; 3 is an upgrade of 1, 4 of 2 or a
\* new package.
Absent == [what |-> "none", dig |-> "none"]
FateDirOf == [d |-> "/", f |-> "d", g |-> "/"]
FateDirLinks == {"todir"}
FateSize == [none |-> 0, dir |-> 0, link |-> 0, todir |-> 0, a |-> 1, b |-> 2, user |-> 1]

FateFile(path, what, dig, flags) ==
    [path |-> path, what |-> what, dig |-> dig, meta |-> "m", flags |-> flags,
     color |-> {}, policy |-> "none"]
Reg(path, dig, flags) == FateFile(path, "REG", dig, flags)
FateDir(path) == FateFile(path, "XDIR", "dir", {})

Add(p) == [type |-> "added", pkg |-> p, dep |-> 0, pretrans |-> FALSE]
Del(p, dep) == [type |-> "removed", pkg |-> p, dep |-> dep, pretrans |-> FALSE]

\* A system from its packages' files, the states of the installed ones, the
\* elements and the disk; the rest is given where it matters.
System(files, states, order, d) ==
    [files |-> files, db |-> states, order |-> order, disk |-> d,
     excluded |-> [k \in DOMAIN order |->
                      [i \in DOMAIN files[order[k].pkg] |-> "UNKNOWN"]],
     color |-> {}, prefcolor |-> {}, opts |-> {}, edits |-> {}, dirs |-> <<"/", "d">>,
     avail |-> 100, faults |-> FALSE]

OnDisk(what, dig) == [what |-> what, dig |-> dig]
NoFiles == [p \in DOMAIN FateDirOf |-> Absent]

\* One path with every disposition a %config file can meet
ConfigKinds == {Reg("g", "a", {}), Reg("g", "a", {"CONFIG"}), Reg("g", "b", {"CONFIG"}),
                Reg("g", "b", {"CONFIG", "NOREPLACE"}), Reg("g", "b", {}),
                Reg("g", "b", {"CONFIG", "GHOST"}), Reg("g", "b", {"CONFIG", "MISSINGOK"})}
OldKinds == {k \in ConfigKinds : k.dig = "a"} \cup {Reg("g", "a", {"CONFIG", "GHOST"})}

Orders == {<<Add(3), Del(1, 1)>>, <<Add(3), Add(4), Del(1, 1), Del(2, 2)>>,
           <<Add(4), Add(3), Del(1, 2)>>, <<Del(2, 0), Add(3), Del(1, 2)>>,
           <<Del(1, 0), Del(2, 0)>>, <<Add(3), Add(4)>>}

ConfigSystems ==
    {[System(<<<<o1>>, <<o2>>, <<n3>>, <<n4>>>>,
             (1 :> <<"NORMAL">>) @@ (2 :> <<"NORMAL">>), order,
             [NoFiles EXCEPT !.g = d])
        EXCEPT !.faults = TRUE] :
        o1 \in OldKinds, o2 \in {Reg("g", "a", {"CONFIG"}), Reg("f", "a", {})},
        n3 \in ConfigKinds, n4 \in {Reg("g", "a", {"CONFIG"}), Reg("g", "b", {}), Reg("f", "a", {}),
               Reg("g", "b", {"CONFIG", "NOREPLACE"})},
        order \in Orders,
        d \in {Absent, OnDisk("REG", "a"), OnDisk("REG", "user")}}

\* One path that is no %config file: forced conflicts, colors, file states
PlainKinds == {[Reg("g", dig, {}) EXCEPT !.color = c] :
                  dig \in {"a", "b"}, c \in {{}, {"32"}, {"64"}}}

PlainSystems ==
    {[System(<<<<o1>>, <<o2>>, <<n3>>, <<n4>>>>, (1 :> <<s1>>) @@ (2 :> <<"NORMAL">>),
             order, [NoFiles EXCEPT !.g = OnDisk("REG", o2.dig)])
        EXCEPT !.opts = opts, !.color = {"32", "64"}, !.prefcolor = {"64"}] :
        o1 \in {k \in PlainKinds : k.dig = "a" /\ k.color # {}} \cup {Reg("f", "a", {})},
        s1 \in {"NORMAL", "REPLACED", "NOTINSTALLED"},
        o2 \in PlainKinds, n3 \in PlainKinds,
        n4 \in {k \in PlainKinds : k.dig = "b" /\ k.color # {}},
        order \in {<<Add(3), Del(1, 1)>>, <<Add(3), Add(4), Del(1, 1)>>,
                   <<Del(2, 0), Add(3), Del(1, 2)>>, <<Del(2, 0), Del(1, 0)>>},
        opts \in {{}, {"REPLACEOLD", "MINWRITES"}}}

\* A file of two packages is replaced, or restored; a file is edited between the
\* test and the real run
MoreSystems ==
    {[System(<<<<Reg("g", "a", {})>>, <<Reg("f", "a", {}), Reg("g", "a", {})>>,
               <<Reg("f", x, {}), Reg("g", y, flags)>>>>,
             (1 :> <<"NORMAL">>) @@ (2 :> <<"NORMAL", "NORMAL">>), order,
             [NoFiles EXCEPT !.g = OnDisk("REG", "a"), !.f = OnDisk("REG", "a"),
                             !.d = OnDisk("XDIR", "dir")])
        EXCEPT !.opts = {"REPLACEOLD"}, !.faults = TRUE, !.edits = e] :
        x \in {"a", "b"}, y \in {"a", "b"}, flags \in {{}, {"CONFIG"}},
        e \in {{}, {"g"}},
        order \in {<<Add(3)>>, <<Add(3), Del(2, 1)>>,
                   <<[Del(1, 0) EXCEPT !.type = "restored"], Add(3)>>}}

\* A directory and a file in it, excluded or not
DirSystems ==
    {[System(<<<<FateDir("d"), old>>, <<FateDir("d")>>, <<FateDir("d"), new>>>>,
             (1 :> <<"NORMAL", "NORMAL">>) @@ (2 :> <<"NORMAL">>), order,
             [NoFiles EXCEPT !.d = OnDisk("XDIR", "dir"), !.f = OnDisk("REG", "a")])
        EXCEPT !.excluded = [k \in DOMAIN order |->
                                [i \in 1..Len(@[k]) |->
                                    IF excl /\ order[k].pkg = 3 /\ i = 2
                                    THEN "SKIPNSTATE" ELSE "UNKNOWN"]]] :
        old \in {[Reg("f", "a", {}) EXCEPT !.policy = x] : x \in {"none", "netshared"}},
        new \in {[Reg("f", dig, fl) EXCEPT !.policy = x] :
                    dig \in {"a", "b"}, fl \in {{}, {"LICENSE"}},
                    x \in {"none", "netshared", "excluded"}},
        excl \in BOOLEAN,
        order \in {<<Add(3), Del(1, 1)>>, <<Add(3), Del(1, 1), Del(2, 0)>>,
                   <<Del(1, 0), Del(2, 0)>>}}

\* A path that changes its type
TypeSystems ==
    {[System(<<<<[old EXCEPT !.flags = fl]>>, <<Reg("f", "a", {})>>, <<new>>>>,
             (1 :> <<"NORMAL">>) @@ (2 :> <<"NORMAL">>),
             <<[Add(3) EXCEPT !.pretrans = early], Del(1, 1)>>, [NoFiles EXCEPT !.g = d])
        EXCEPT !.edits = e] :
        old \in {Reg("g", "a", {}), FateDir("g"), FateFile("g", "LINK", "todir", {})},
        new \in {Reg("g", "b", {}), FateDir("g"), FateFile("g", "LINK", "link", {})},
        fl \in {{}, {"CONFIG"}}, early \in BOOLEAN, e \in {{}, {"g"}},
        d \in {Absent, OnDisk("REG", "a"), OnDisk("XDIR", "dir"),
               OnDisk("LINK", "todir"), OnDisk("LINK", "link")}}

\* Little room
SpaceSystems ==
    {[System(<<<<Reg("g", o, {}), Reg("f", "a", {})>>, <<Reg("f", "a", {})>>,
               <<Reg("g", n, {}), Reg("f", m, {})>>, <<Reg("d", "b", {})>>>>,
             (1 :> <<"NORMAL", "NORMAL">>) @@ (2 :> <<"NORMAL">>), order,
             [NoFiles EXCEPT !.g = OnDisk("REG", o), !.f = OnDisk("REG", "a")])
        EXCEPT !.avail = room, !.opts = opts] :
        o \in {"a", "b"}, n \in {"a", "b"}, m \in {"a", "b"}, room \in 0..6,
        opts \in {{"REPLACEOLD"}, {"REPLACEOLD", "MINWRITES"}},
        order \in {<<Add(3), Del(1, 1), Add(4)>>, <<Add(4), Add(3), Del(1, 2)>>,
                   <<Del(1, 0), Add(4)>>, <<Add(3), Add(4), Del(1, 1), Del(2, 0)>>}}

Systems == ConfigSystems \cup PlainSystems \cup MoreSystems \cup DirSystems
             \cup TypeSystems \cup SpaceSystems

Ff == INSTANCE FileFate WITH
        DirOf <- FateDirOf, DirLinks <- FateDirLinks, Size <- FateSize, disk <- world

----------------------------------------------------------------------------
\* The package file: two packages, pages of two blocks, a small and a large blob
PkgVals == {"small", "large"}
PkgBlobBlks == [v \in PkgVals |-> IF v = "small" THEN 2 ELSE 3]
Pf == INSTANCE PkgFile WITH
        Pkgs <- {1, 2}, Vals <- PkgVals, NoVal <- "none", BlobBlks <- PkgBlobBlks, PageBlks <- 2, SlotStart <- 1,
        SizeModulus <- 1000, MaxPages <- 2, MaxBlks <- 16, MaxOps <- 4, MaxFaults <- 2,
        MaxEvents <- 5
ASSUME Pf!PkgFileAssumption

----------------------------------------------------------------------------
\* Transactions to take fingerprints of: on each of five disks, with links or
\* without, two elements that have a file and a link each, one of which may be
\* removed or have its link skipped
ADir == [abs |-> TRUE, to |-> <<"dir">>]
NotALink == [abs |-> FALSE, to |-> <<>>]
LinkTo(abs, path) == [abs |-> abs, to |-> path]
Disks == {
    <<>> :> ADir,
    <<>> :> ADir @@ <<"b">> :> ADir,
    <<>> :> ADir @@ <<"b">> :> ADir @@ <<"a">> :> LinkTo(FALSE, <<"b">>),
    <<>> :> ADir @@ <<"b">> :> ADir @@ <<"b", "b">> :> ADir @@ <<"a">> :> LinkTo(TRUE, <<"b", "b">>),
    <<>> :> ADir @@ <<"a">> :> ADir @@ <<"a", "b">> :> LinkTo(FALSE, <<"..">>) }

Link(dir, base, to) == [dir |-> dir, base |-> base, link |-> to, skip |-> FALSE]
FileIn(dir) == [dir |-> dir, base |-> "f", link |-> NotALink, skip |-> FALSE]
Targets == {LinkTo(FALSE, <<"b">>), LinkTo(FALSE, <<"a", "b">>), LinkTo(FALSE, <<"..", "b">>),
            LinkTo(FALSE, <<"..">>), LinkTo(TRUE, <<"b">>), LinkTo(TRUE, <<"a", "b">>)}
FirstLinks ==
    {Link(dir, base, to) : dir \in {<<>>, <<"a">>, <<"b">>}, base \in {"a", "b"}, to \in Targets}
SecondLinks ==
    {Link(dir, base, to) : dir \in {<<>>, <<"b">>}, base \in {"a", "b"},
                           to \in {LinkTo(FALSE, <<"b">>), LinkTo(TRUE, <<"a", "b">>)}}
FilesIn == {FileIn(dir) : dir \in [1..2 -> {"a", "b"}]}

TwoElements(f, l, m, g, how) ==
    <<[removed |-> FALSE, files |-> <<f, l>>],
      [removed |-> how = "removed", files |-> <<[m EXCEPT !.skip = how = "skipped"], g>>]>>
Transactions ==
    {TwoElements(f, l, m, g, "installed") :
       f \in FilesIn, g \in {FileIn(<<"a", "b">>), FileIn(<<"b", "b">>)}, l \in FirstLinks, m \in SecondLinks}
      \cup {TwoElements(FileIn(<<"a", "b">>), l, m, g, how) :
              g \in FilesIn, l \in FirstLinks, m \in SecondLinks, how \in {"removed", "skipped"}}

Fi == INSTANCE Fprint WITH MaxLinks <- 4

\* Packages to be relocated, one with a directory and files below it, one with two
\* directories; and up to two relocations of every kind
RelocPaths == UNION {[1..n -> 1..2] : n \in 0..2}
OneReloc ==
    {<<>>} \cup {<<[old |-> o, new |-> n]>> :
                    o \in RelocPaths, n \in (RelocPaths \ {<<>>}) \cup {<<1, 1, 1>>, <<0>>}}
Relocs == {a \o b : a \in OneReloc, b \in OneReloc}
FileAt(di, base) == [di |-> di, base |-> base]
RelocPackages == {
    [dirs |-> <<<<>>, <<1>>, <<1, 1>>>>,
     files |-> <<FileAt(1, 1), FileAt(2, 1), FileAt(3, 1), FileAt(3, 2)>>,
     prefixes |-> <<<<1>>, <<1, 1>>>>],
    [dirs |-> <<<<1>>, <<2>>>>,
     files |-> <<FileAt(1, 1), FileAt(1, 2), FileAt(2, 1)>>,
     prefixes |-> <<<<1>>>>] }

Re == INSTANCE Relocation

----------------------------------------------------------------------------
NoPaths == paths = <<>>
NoFate ==
    /\ sys = "" /\ db = "" /\ world = "" /\ repl = "" /\ prev = "" /\ recs = "" /\ probs = ""
    /\ dsi = "" /\ failed = "" /\ used = "" /\ test = "" /\ pos = ""
NoFsm ==
    /\ pkg = <<>> /\ fx = 0 /\ fp = 0 /\ sub = "" /\ stage = "" /\ setmeta = "" /\ firstlink = 0
    /\ dest = "" /\ tmp = "" /\ alt = "" /\ bak = "" /\ data = "" /\ meta = "" /\ rc = 0 /\ pre = ""
    /\ post = "" /\ stuck = FALSE

MCInit ==
    \/ part = "fate" /\ Ff!Init /\ NoFsm /\ Pf!Init /\ NoPaths
    \/ part = "fsm" /\ Init /\ NoFate /\ Pf!Init /\ NoPaths
    \/ part = "pkgfile" /\ Pf!Init /\ NoFate /\ NoFsm /\ NoPaths /\ pc = "" /\ act = ""
    \/ part = "fprint" /\ paths \in Disks \X Transactions /\ NoFate /\ NoFsm /\ Pf!Init /\ pc = "" /\ act = ""
    \/ part = "reloc" /\ paths \in RelocPackages \X Relocs /\ NoFate /\ NoFsm /\ Pf!Init /\ pc = "" /\ act = ""

MCNext ==
    \/ part = "fate" /\ Ff!Next /\ UNCHANGED <<part, ofFsm, ofPkg, paths>>
    \/ part = "fsm" /\ Next /\ UNCHANGED <<part, ofFate, ofPkg, paths>>
    \/ part = "pkgfile" /\ Pf!Next /\ UNCHANGED <<part, pc, act, ofFate, ofFsm, paths>>
    \/ part \in {"fprint", "reloc"} /\ UNCHANGED mcVars

MCSpec == MCInit /\ [][MCNext]_mcVars

----------------------------------------------------------------------------
\* A transaction without failures takes no file away from a package that is
\* installed when it is over, and leaves the record true: if the disk was as the
\* database said it is so again, files of other packages that were overwritten
\* being marked (checkInstalledFiles(), handleOverlappedFiles(),
\* markReplacedFiles()).  Which paths are one file, through links on the disk and
\* in the transaction, the fingerprints tell (fpCachePopulate()); and where a
\* file is, the closest relocation (rpmRelocateFileList()).
OwnedFilesStay ==
    /\ part = "fate" => Ff!OwnedFilesStay /\ Ff!RecordStaysTrue
    /\ part = "fprint" => Fi!FingerprintsAgree(paths[1], paths[2])
    /\ part = "reloc" => Re!RelocationsAgree(paths[1], paths[2])

\* Whatever fails, a configuration file the user has written survives under its
\* own name or as .rpmsave or .rpmorig (rpmfilesDecideFate(),
\* rpmfilesConfigConflict()).
UserConfigKept == part = "fate" => Ff!UserConfigKept

\* A transaction without failures leaves no unmodified file behind that only
\* removed packages had; and when no problem is reported it fits on the disk at
\* any time (rpmtsUpdateDSI()), but for the cases the module names.
LeftoversGone == part = "fate" => Ff!LeftoversGone /\ Ff!SpaceSuffices

\* Every slot of the package file points to a whole blob of its own, whatever
\* write is interrupted, and a file that an interrupted request left is taken
\* into use again unless its last blob was cut off inside of a block, a size that
\* rpmpkgReadSlots() refuses from then on (rpmpkgPutInternal(), rpmpkgValidateZero()).
FileSound == part = "pkgfile" => Pf!FileSound

\* After an interrupted request rpmpkgSalvage() finds every package that a slot
\* points to, the generations telling old blobs from new ones.
SalvageAfterCrash == Pf!SalvageAfterCrash

\* rpmpkgPut() and rpmpkgDel() take effect at once or not at all, crashes
\* included, as PkgStore has it.
StoreSpec == Pf!StoreSpec
=============================================================================
