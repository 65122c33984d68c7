------------------------------- MODULE Relocation -------------------------------
(***************************************************************************)
(* Relocation of the files of a package, lib/relocation.cc: --relocate,    *)
(* --prefix and --excludepath.                                             *)
(*                                                                         *)
(* A path is the sequence of its names below the root, names being numbers *)
(* in the order of strcmp().  A relocation is [old, new], new being        *)
(* Excluded for a path that is not installed.  A package is [dirs, files,  *)
(* prefixes]: files [di, base] have their directory by its index.          *)
(***************************************************************************)
EXTENDS Integers, Sequences, FiniteSets, SequencesExt, FiniteSetsExt

Excluded == <<0>>

\* strcmp() of paths: a path is before what is below it
Less(p, q) ==
    \E n \in 0..Len(p) :
        /\ n <= Len(q) /\ SubSeq(p, 1, n) = SubSeq(q, 1, n)
        /\ IF n = Len(p) THEN n < Len(q) ELSE n < Len(q) /\ p[n + 1] < q[n + 1]
\* sortRelocs(): a bubble sort that keeps the order of equal ones
SortRelocs(relocs) ==
    LET Insert(s, r) ==
            LET n == Cardinality({i \in DOMAIN s : ~Less(r.old, s[i].old)}) IN SubSeq(s, 1, n) \o <<r>> \o SubSeq(s, n + 1, Len(s))
    IN FoldLeft(Insert, <<>>, relocs)
\* rpmRelocationBuild(): which ones are not among the prefixes of the package, by their place before they are sorted
BadRelocs(pkg, raw) == {i \in DOMAIN raw : raw[i].new # Excluded /\ raw[i].old \notin ToSet(pkg.prefixes)}

\* addPrefixes(): what scriptlets see as RPM_INSTALL_PREFIX
InstPrefixes(pkg, relocs) ==
    LET Actual(p) ==
            LET mine == {j \in DOMAIN relocs : relocs[j].old = p}
            IN IF mine = {} THEN <<p>> ELSE IF relocs[Min(mine)].new = Excluded THEN <<>> ELSE <<relocs[Min(mine)].new>>
    IN FlattenSeq([i \in DOMAIN pkg.prefixes |-> Actual(pkg.prefixes[i])])

Below(path, old) == SubSeq(path, Len(old) + 1, Len(path))
\* the last relocation that is for a path, 0 if none is
Match(relocs, path) == Max({0} \cup {j \in DOMAIN relocs : IsPrefix(relocs[j].old, path)})
PathOf(s, i) == Append(s.dirs[s.files[i].di], s.files[i].base)

\* rpmRelocateFileList(), first loop, for one file: excluded, or moved by itself if the relocation is for all of its
\* path.  The root is special: a path in it gets a directory "" of its own.
RelocateFile(relocs, s, i) ==
    LET path == PathOf(s, i)
        r == relocs[Match(relocs, path)]
        dir == Front(r.new)
        known == {j \in DOMAIN s.dirs : s.dirs[j] = dir /\ dir # <<>>}
    IN IF Match(relocs, path) = 0 THEN s
       ELSE IF r.new = Excluded THEN [s EXCEPT !.skip = @ \cup {i}]
       ELSE IF r.old # path THEN s
       ELSE IF known # {} THEN [s EXCEPT !.files[i] = [di |-> Min(known), base |-> Last(r.new)]]
       ELSE [s EXCEPT !.dirs = Append(@, dir), !.files[i] = [di |-> Len(s.dirs) + 1, base |-> Last(r.new)]]
\* second loop, for one directory: all relocations that are for it, from the last to the first
RelocateDir(relocs, dir) ==
    FoldRight(LAMBDA r, d : IF IsPrefix(r.old, d) /\ r.new # Excluded THEN r.new \o Below(d, r.old) ELSE d, relocs, dir)
RelocateFileList(pkg, relocs) ==
    LET s == FoldRight(LAMBDA i, t : RelocateFile(relocs, t, i), [i \in DOMAIN pkg.files |-> i],
                       [dirs |-> pkg.dirs, files |-> pkg.files, skip |-> {}])
    IN [s EXCEPT !.dirs = [i \in DOMAIN @ |-> IF i <= Len(pkg.dirs) THEN RelocateDir(relocs, @[i]) ELSE @[i]]]

-----------------------------------------------------------------------------
\* No path is moved to where another relocation applies, or into a directory of the package that is moved as well:
\* it would be moved on
Independent(pkg, relocs) ==
    \A j, k \in DOMAIN relocs :
        relocs[j].new # Excluded =>
            /\ j # k => ~IsPrefix(relocs[k].old, relocs[j].new)
            /\ ~(/\ Front(relocs[j].new) \in ToSet(pkg.dirs) \ {<<>>}
                 /\ IsPrefix(relocs[k].old, Front(relocs[j].new)))

(* Every file is where the closest relocation that is for its path puts    *)
(* it, and is left out if that one excludes it: whether the path is moved  *)
(* as that of a file or with its directory, and whatever other files and   *)
(* directories the package has (rpmRelocateFileList()).  If no path is     *)
(* given twice and none is bad, every file that is moved is below a prefix *)
(* that scriptlets are told of (addPrefixes()).                            *)
RelocationsAgree(pkg, raw) ==
    LET relocs == SortRelocs(raw)
        s == RelocateFileList(pkg, relocs)
        For(path) == {r \in ToSet(raw) : IsPrefix(r.old, path)}
        Closest(path) == {r \in For(path) : \A q \in For(path) : Len(q.old) <= Len(r.old)}
        Sound == IsInjective([i \in DOMAIN raw |-> raw[i].old]) /\ BadRelocs(pkg, raw) = {}
    IN Independent(pkg, relocs) =>
        \A i \in DOMAIN pkg.files :
            LET path == PathOf(pkg, i)
                new == PathOf(s, i)
            IN /\ IF Closest(path) = {} THEN i \notin s.skip /\ new = path
                  ELSE \E r \in Closest(path) :
                         IF r.new = Excluded THEN i \in s.skip
                         ELSE i \notin s.skip /\ new = r.new \o Below(path, r.old)
               /\ Sound /\ new # path => \E p \in ToSet(InstPrefixes(pkg, relocs)) : IsPrefix(p, new)
=============================================================================
