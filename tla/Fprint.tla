--------------------------------- MODULE Fprint ---------------------------------
(***************************************************************************)
(* Fingerprints of paths, lib/fprint.cc: what tells rpm that two paths are *)
(* the same file, when directories on the disk are symbolic links and when *)
(* the transaction is going to install links that are not there yet.       *)
(*                                                                         *)
(* A path is the sequence of its names below the root.  The disk maps the  *)
(* paths of directories to Dir and those of links to their targets.  An    *)
(* element of a transaction is [removed, files], a file of it [dir, base,  *)
(* link, skip] with the target of the link it is, or NoLink.               *)
(***************************************************************************)
EXTENDS Integers, Sequences, FiniteSets, SequencesExt, FiniteSetsExt

CONSTANT MaxLinks      \* links fpLookupSubdir() follows at most (the code: 51)

Dir == [abs |-> TRUE, to |-> <<"dir">>]
NoLink == [abs |-> FALSE, to |-> <<>>]

-----------------------------------------------------------------------------
(* The disk: paths as the kernel resolves them.  fs is a disk; a directory *)
(* of the path that is missing counts as one, if missing says so.          *)

RECURSIVE Walk(_, _, _, _, _)
Walk(fs, at, rest, left, missing) ==
    IF rest = <<>> THEN at
    ELSE LET next == Append(at, Head(rest))
         IN CASE Head(rest) = ".." -> Walk(fs, IF at = <<>> THEN at ELSE Front(at), Tail(rest), left, missing)
              [] Head(rest) # ".." /\ next \notin DOMAIN fs -> IF missing THEN Walk(fs, next, Tail(rest), left, missing) ELSE <<"no">>
              [] Head(rest) # ".." /\ next \in DOMAIN fs ->
                   IF fs[next] = Dir THEN Walk(fs, next, Tail(rest), left, missing)
                   ELSE IF left = 0 THEN <<"no">>
                   ELSE Walk(fs, IF fs[next].abs THEN <<>> ELSE at, fs[next].to \o Tail(rest), left - 1, missing)
\* stat() of a directory: its inode is its path without links, <<"no">> if there is none
Stat(disk, path) == Walk(disk, <<>>, path, 3, FALSE)

-----------------------------------------------------------------------------
(* Fingerprints *)

\* rpmCleanPath() in canonDir(): by the names alone; ".." in front of all names stays
CleanPath(path) ==
    LET Parent(p) == IF p = <<>> THEN p ELSE Front(p)
        Name(s, n) ==
            IF n # ".." THEN [begin |-> FALSE, t |-> Append(s.t, n)]
            ELSE [s EXCEPT !.t = IF s.begin THEN Append(@, n) ELSE Parent(@)]
    IN FoldLeft(Name, [begin |-> TRUE, t |-> <<>>], path).t

\* doLookupId(): the longest part of the path that exists, and the rest of it
DoLookup(disk, dir, base) ==
    LET At(cdn, n) ==
            [dirId |-> SubSeq(cdn, 1, n), ino |-> Stat(disk, SubSeq(cdn, 1, n)), sub |-> SubSeq(cdn, n + 1, Len(cdn)), base |-> base]
        Longest(cdn) == At(cdn, Max({i \in 0..Len(cdn) : Stat(disk, SubSeq(cdn, 1, i)) # <<"no">>}))
    IN Longest(CleanPath(dir))
\* FP_EQUAL()
FpEqual(a, b) == a.ino = b.ino /\ a.sub = b.sub /\ a.base = b.base

\* fpLookupList(): files in the directory of the one before have its fingerprint but for the base name
FpLookupList(disk, files) ==
    [i \in DOMAIN files |-> DoLookup(disk, files[i].dir, files[i].base)]

\* fpLookupSubdir(): links of the transaction, in the order they were found, in the part of the path that does not
\* exist; the first one is followed, and then the path it leads to looked at
Followed(disk, fp, n, link) ==
    DoLookup(disk, (IF link.abs THEN <<>> ELSE fp.dirId \o SubSeq(fp.sub, 1, n - 1)) \o link.to \o SubSeq(fp.sub, n + 1, Len(fp.sub)),
             fp.base)
FollowFirst(disk, links, fp, hits) ==
    LET n == Min({h[1] : h \in hits}) IN Followed(disk, fp, n, links[Min({h[2] : h \in {g \in hits : g[1] = n}})].to)
RECURSIVE LookupSubdir(_, _, _, _)
LookupSubdir(disk, links, fp, count) ==
    LET At(n) == [fp EXCEPT !.sub = SubSeq(fp.sub, 1, n - 1), !.base = fp.sub[n]]
        Search(hits) ==
            IF hits = {} THEN fp
            ELSE IF count = MaxLinks THEN FollowFirst(disk, links, fp, hits)
            ELSE LookupSubdir(disk, links, FollowFirst(disk, links, fp, hits), count + 1)
    IN Search({h \in (DOMAIN fp.sub) \X (DOMAIN links) : FpEqual(links[h[2]].fp, At(h[1]))})

\* fpCachePopulate(), first loop: the links of packages that are installed
Skipping(f) == f.skip
LinksOf(disk, elem) ==
    LET which == SelectSeq(elem.files, LAMBDA f : ~Skipping(f) /\ f.link # NoLink)
        fps == FpLookupList(disk, which)
    IN IF elem.removed THEN <<>> ELSE [i \in DOMAIN which |-> [fp |-> fps[i], to |-> which[i].link]]
Symlinks(disk, elems) == FlattenSeq([e \in DOMAIN elems |-> LinksOf(disk, elems[e])])

\* fpCachePopulate(), second loop: the table of fingerprints.  A file whose fingerprint is that of the file before it
\* but for the base name is not looked at again.
AddFile(disk, elems, links, e, s, i, own) ==
    LET same == s.last # <<>> /\ s.last[1].dirId = own.dirId /\ s.last[1].sub = own.sub
        Add(fp) == [table |-> s.table \cup {[fp |-> fp, e |-> e, i |-> i]}, last |-> <<fp>>]
    IN IF Skipping(elems[e].files[i]) THEN s
       ELSE Add(IF links = <<>> \/ same THEN own ELSE LookupSubdir(disk, links, own, 1))
Populate(disk, elems, links) ==
    LET AddFiles(table, e, fps) ==
            FoldLeft(LAMBDA s, i : AddFile(disk, elems, links, e, s, i, fps[i]), [table |-> table, last |-> <<>>],
                     [i \in DOMAIN fps |-> i]).table
        AddElem(table, e) == AddFiles(table, e, FpLookupList(disk, elems[e].files))
    IN FoldLeft(AddElem, {}, [e \in DOMAIN elems |-> e])
\* fpCacheGetByFp()
GetByFp(table, fp) == {<<r.e, r.i>> : r \in {q \in table : FpEqual(q.fp, fp)}}

-----------------------------------------------------------------------------
(* What fingerprints are for *)

\* where a file is when the transaction is over: missing directories are made, and links are where they belong
PlaceOf(fp) == fp.ino \o Append(fp.sub, fp.base)
Future(disk, links) ==
    LET first(p) == Min({i \in DOMAIN links : PlaceOf(links[i].fp) = p})
        new == {PlaceOf(l.fp) : l \in ToSet(links)}
    IN [p \in DOMAIN disk \cup new |-> IF p \in new THEN links[first(p)].to ELSE disk[p]]
Place(fs, f) == Append(Walk(fs, <<>>, f.dir, MaxLinks, TRUE), f.base)

\* No link of the transaction comes in the place of something, as the disk is looked at before the transaction; none
\* is below another one, as the table of links is searched by fingerprints that LookupSubdir() changes meanwhile;
\* and none has ".." in a directory that has other names, as CleanPath() goes by the name.
Plain(disk, links) ==
    \A i \in DOMAIN links :
        /\ PlaceOf(links[i].fp) \notin DOMAIN disk
        /\ FpEqual(LookupSubdir(disk, links, links[i].fp, 1), links[i].fp)
        /\ ".." \in ToSet(links[i].to.to) => links[i].fp.dirId = links[i].fp.ino

(* Two files of a transaction have the same fingerprint if and only if     *)
(* they are in the same place when it is over: whichever links the paths   *)
(* run through, on the disk or in the transaction, whichever element comes *)
(* first (fpCachePopulate(), fpLookupSubdir()).                            *)
SamePlace(elems, fs, table) ==
    LET File(r) == elems[r.e].files[r.i]
    IN \A r \in table :
        Place(fs, File(r))[1] # "no" =>
            GetByFp(table, r.fp) = {<<q.e, q.i>> : q \in {t \in table : Place(fs, File(t)) = Place(fs, File(r))}}
AgreeWith(disk, elems, links) ==
    Plain(disk, links) => SamePlace(elems, Future(disk, links), Populate(disk, elems, links))
FingerprintsAgree(disk, elems) == AgreeWith(disk, elems, Symlinks(disk, elems))
=============================================================================
