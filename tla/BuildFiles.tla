----------------------------- MODULE BuildFiles -----------------------------
(***************************************************************************)
(* The %files lists of a build (build/files.cc): each line of a package's *)
(* list is parsed into a file entry, its paths are looked up in the build  *)
(* root and recorded, the records are merged into the header, build-id     *)
(* links and debuginfo packages are derived from them, and what no package *)
(* took is reported.                                                       *)
(*                                                                         *)
(* A path is the sequence of its components below the build root.  A line  *)
(* is the record of its parenthesised directives, each with its arguments  *)
(* (<<"unclosed">> when a parenthesis is missing), and the sequence of its *)
(* words.  A glob is a path that ends in "*".  readdir's order is that of  *)
(* Enum, and strcmp's order of the records too: only what is equal and     *)
(* what comes first matters.                                               *)
(***************************************************************************)
EXTENDS Integers, SequencesExt, FiniteSetsExt

CONSTANTS Inputs,     \* build roots, packages, macros, and the lines and the
                      \* length of a %files section: [root, pkgs, opts]
          DocSources, \* the files of the build directory %doc may name
          PubKeys     \* the names of files that hold an armored public key

VARIABLES root,    \* the build root: path -> node
          opts,    \* the macros that control the file lists
          pkgs,    \* spec->packages
          at,      \* the package being processed
          n,       \* lines of its list that have been read
          f,       \* struct FileList_s of that package
          maindbg, \* the main debuginfo package's name while it is pending
          deplink, \* the package debuginfo packages must require
          checked, \* check_fileList
          src,     \* the source package's files
          stage    \* how far the build is

vars == <<root, opts, pkgs, at, n, f, maindbg, deplink, checked, src, stage>>

VerifyAll == {"filedigest", "size", "link", "user", "group", "mtime", "mode", "rdev", "caps"}
DebugLib == <<"usr", "lib", "debug">>
BuildId == <<"usr", "lib", ".build-id">>
DebugId == DebugLib \o <<".build-id">>
DebugDwz == DebugLib \o <<".dwz">>
DebugSrc == <<"usr", "src", "debug">>
DocDir == <<"doc">>

NoAttr == [fmode |-> "", dmode |-> "", user |-> "", group |-> ""]
NoEntry == [flags |-> {}, specd |-> {}, verify |-> {}, ar |-> NoAttr, langs |-> {}, caps |-> "",
            dev |-> "", isDir |-> 0]

(* resetPackageFilesDefaults assumes %defattr(-,root,root).                *)
Defaults(e) == [e EXCEPT !.ar = [NoAttr EXCEPT !.user = "root", !.group = "root"], !.verify = VerifyAll]

NewList == [files |-> <<>>, def |-> Defaults(NoEntry), cur |-> NoEntry, docs |-> {}, failed |-> FALSE,
            caps |-> FALSE, large |-> FALSE, sdoc |-> <<>>, slic |-> <<>>]

Enum(S) == FoldSet(LAMBDA x, seq : Append(seq, x), <<>>, S)
Is(p, prefix) == IsStrictPrefix(prefix, p)
Exists(p) == p \in DOMAIN root
Children(p) == {q \in DOMAIN root : Len(q) = Len(p) + 1 /\ Is(q, p)}
Renamed(p, name) == Append(Front(p), name)

-----------------------------------------------------------------------------
(* One line of a %files list.  Every directive is looked for in a fixed    *)
(* order wherever it stands; the first malformed one ends the line.        *)

Arg(args, i) == IF i <= Len(args) THEN args[i] ELSE ""
Given(a) == IF a = "-" THEN "" ELSE a
Unclosed(args) == args = <<"unclosed">>
Good(e) == [ok |-> TRUE, e |-> e]
Bad(e) == [ok |-> FALSE, e |-> e]

ParseForVerify(e, args) ==
  LET named == ToSet(args) \ {"not"}
      negated == Len(SelectSeq(args, LAMBDA a : a = "not")) % 2 = 1
  IN IF Unclosed(args) \/ ~(named \subseteq VerifyAll) THEN Bad(e)
     ELSE Good([e EXCEPT !.verify = IF negated THEN VerifyAll \ named ELSE named,
                         !.specd = @ \cup {"VERIFY"}])

(* The mode must scan as octal; its range is tested on the record's mode,  *)
(* which is still zero, so that any octal number passes.                   *)
ParseForAttr(e, args, def) ==
  IF Unclosed(args) \/ Len(args) < 3 \/ Len(args) > (IF def THEN 4 ELSE 3) \/ "nonoctal" \in {args[1], Arg(args, 4)}
  THEN Bad(e)
  ELSE Good([e EXCEPT !.ar = [fmode |-> Given(args[1]), user |-> Given(args[2]), group |-> Given(args[3]),
                              dmode |-> Given(Arg(args, 4))],
                      !.specd = @ \cup {"UID", "GID", "FILEMODE", "DIRMODE"}])

ParseForDev(e, args) == IF Len(args) # 3 \/ args[1] \notin {"b", "c"} THEN Bad(e) ELSE Good([e EXCEPT !.dev = args[1]])

ParseForConfig(e, args) ==
  LET c == [e EXCEPT !.flags = @ \cup {"config"}]
  IN IF ToSet(args) \subseteq {"missingok", "noreplace"} THEN Good([c EXCEPT !.flags = @ \cup ToSet(args)]) ELSE Bad(c)

ParseForLang(e, args) ==
  IF Unclosed(args) \/ args = <<>> \/ "short" \in ToSet(args) THEN Bad(e) ELSE Good([e EXCEPT !.langs = @ \cup ToSet(args)])

ParseForCaps(e, args) == IF Unclosed(args) \/ Arg(args, 1) = "invalid" THEN Bad(e) ELSE Good([e EXCEPT !.caps = Arg(args, 1)])

Directives == <<"verify", "defverify", "attr", "defattr", "dev", "config", "lang", "caps">>

ParseDirective(r, d, args) ==
  LET OnCur(p) == [ok |-> p.ok, fl |-> [r.fl EXCEPT !.cur = p.e]]
      OnDef(p) == [ok |-> p.ok, fl |-> [r.fl EXCEPT !.def = p.e]]
  IN CASE d = "verify" -> OnCur(ParseForVerify(r.fl.cur, args))
       [] d = "defverify" -> OnDef(ParseForVerify(r.fl.def, args))
       [] d = "attr" -> OnCur(ParseForAttr(r.fl.cur, args, FALSE))
       [] d = "defattr" -> OnDef(ParseForAttr(r.fl.def, args, TRUE))
       [] d = "dev" -> OnCur(ParseForDev(r.fl.cur, args))
       [] d = "config" -> OnCur(ParseForConfig(r.fl.cur, args))
       [] d = "lang" -> OnCur(ParseForLang(r.fl.cur, args))
       [] d = "caps" -> OnCur(ParseForCaps(r.fl.cur, args))

(* A word is a virtual attribute, a path or an unterminated quote.  What a *)
(* relative path is taken for depends on the attributes before it.         *)
ParseForSimple(e, words) ==
  LET Step(r, w) ==
        IF r.stop THEN r
        ELSE CASE w.k = "quote" -> [r EXCEPT !.stop = TRUE, !.ok = FALSE]
               [] w.k = "flag" -> [r EXCEPT !.e.flags = @ \cup {w.v}]
               [] w.k = "path" /\ ~w.rel -> [r EXCEPT !.names = Append(@, w)]
               [] w.k = "path" /\ w.rel ->
                    IF r.e.flags \cap {"pubkey", "doc", "license"} = {} THEN [r EXCEPT !.ok = FALSE]
                    ELSE [r EXCEPT !.names = Append(@, w),
                                   !.e.flags = @ \cup (IF @ \cap {"doc", "license"} # {} THEN {"specialdir"} ELSE {})]
  IN FoldLeft(Step, [ok |-> TRUE, stop |-> FALSE, e |-> e, names |-> <<>>], words)

(* A new line starts from nothing: what %defattr and %defverify set        *)
(* explicitly counts as a default from here on.                            *)
AsDefault == [VERIFY |-> "DEFVERIFY", UID |-> "DEFUID", GID |-> "DEFGID", FILEMODE |-> "DEFFILEMODE", DIRMODE |-> "DEFDIRMODE"]
FreshCur(fl) == [fl EXCEPT !.cur = [NoEntry EXCEPT !.specd = {AsDefault[s] : s \in fl.def.specd}, !.verify = fl.def.verify]]

ParseLine(fl, l) ==
  LET Step(r, d) == IF r.ok /\ d \in DOMAIN l.dirs THEN ParseDirective(r, d, l.dirs[d]) ELSE r
      Both(parsed, simple) ==
        IF ~parsed.ok THEN [ok |-> FALSE, fl |-> parsed.fl, names |-> <<>>]
        ELSE [ok |-> simple.ok, fl |-> [parsed.fl EXCEPT !.cur = simple.e], names |-> simple.names]
      Words(parsed) == Both(parsed, ParseForSimple(parsed.fl.cur, l.words))
  IN Words(FoldLeft(Step, [ok |-> TRUE, fl |-> FreshCur(fl)], Directives))

-----------------------------------------------------------------------------
(* Recording a file.  A result is the list and the return code.            *)

Ok(fl) == [fl |-> fl, ok |-> TRUE]
NotOk(fl) == [fl |-> fl, ok |-> FALSE]
Failed(fl) == [fl EXCEPT !.failed = TRUE]

Node(kind) == [kind |-> kind, mode |-> "", ino |-> 0, nlink |-> 1, size |-> 0, x |-> FALSE, elf |-> <<>>, to |-> <<>>, readable |-> TRUE]

(* fakeStat: a %dev, or a %ghost that does not exist.                      *)
FakeStat(c) == IF c.dev # "" THEN [Node("dev") EXCEPT !.mode = c.ar.fmode]
               ELSE [Node(IF c.isDir # 0 THEN "dir" ELSE "reg") EXCEPT !.mode = c.ar.fmode]

First(a, b) == IF a # "" THEN a ELSE b

FileMode(fl, st) ==
  IF st.kind = "lnk" THEN st.mode
  ELSE First(fl.cur.ar.fmode, First(IF st.kind = "dir" THEN fl.def.ar.dmode ELSE fl.def.ar.fmode, st.mode))

Record(fl, p, st) ==
  LET c == fl.cur
      rec == [cpio |-> p, disk |-> p, kind |-> st.kind, mode |-> FileMode(fl, st), ino |-> st.ino, nlink |-> st.nlink,
              size |-> IF st.kind = "dir" THEN 0 ELSE st.size,
              uname |-> First(c.ar.user, First(fl.def.ar.user, "root")), gname |-> First(c.ar.group, First(fl.def.ar.group, "root")),
              langs |-> c.langs, caps |-> c.caps, flags |-> c.flags, specd |-> c.specd, verify |-> c.verify]
  IN [fl EXCEPT !.files = Append(@, rec),
                !.large = @ \/ ("exclude" \notin c.flags /\ st.kind = "reg" /\ st.size >= opts.huge)]

ValidFilename(p) == "ctrl" \notin ToSet(p)

(* fts in preorder, children of an unreadable directory replaced by its    *)
(* FTS_DNR.                                                                *)
RECURSIVE Walk(_)
Walk(p) ==
  <<[p |-> p, err |-> FALSE]>> \o
  (IF root[p].kind # "dir" THEN <<>>
   ELSE IF ~root[p].readable THEN <<[p |-> p, err |-> TRUE]>>
   ELSE LET cs == Enum(Children(p)) IN FlattenSeq([i \in DOMAIN cs |-> Walk(cs[i])]))

(* recurseDir returns the failure, but only addFile's own failures mark    *)
(* the list as failed.                                                     *)
RecurseDir(fl, p) ==
  LET Step(r, e) == IF ~r.ok THEN r
                    ELSE IF e.err THEN NotOk(r.fl)
                    ELSE IF ValidFilename(e.p) THEN Ok(Record(r.fl, e.p, root[e.p])) ELSE NotOk(Failed(r.fl))
  IN FoldLeft(Step, Ok(fl), Walk(p))

AddFile(fl, p) ==
  LET c == fl.cur
      fake == c.dev # "" \/ ~Exists(p)
      st == IF fake THEN FakeStat(c) ELSE root[p]
      list == IF fake /\ c.dev = "" /\ c.isDir # 0 THEN [fl EXCEPT !.cur.isDir = 1] ELSE fl
      ignored == "exclude" \in c.flags \/ ("doc" \in c.flags /\ ~opts.strictDoc)
  IN IF ~ValidFilename(p) THEN NotOk(Failed(fl))
     ELSE IF ~Exists(p) /\ c.dev = "" /\ "ghost" \notin c.flags THEN (IF ignored THEN Ok(fl) ELSE NotOk(Failed(fl)))
     ELSE IF c.isDir # 0 /\ st.kind # "dir" THEN NotOk(Failed(fl))
     ELSE IF list.cur.isDir # 1 /\ st.kind = "dir" THEN RecurseDir(list, p)
     ELSE Ok(Record(list, p, st))

Glob(p) ==
  IF Last(p) # "*" \/ Children(Front(p)) = {} THEN <<p>> ELSE Enum(Children(Front(p)))

(* Of several matches of a glob only the last one's code is returned.      *)
ProcessBinaryFile(fl, w, doGlob) ==
  LET list == IF w.slash /\ fl.cur.isDir = 0 THEN [fl EXCEPT !.cur.isDir = -1] ELSE fl
      paths == IF doGlob /\ fl.cur.dev = "" THEN Glob(w.v) ELSE <<w.v>>
      Step(r, p) == AddFile(r.fl, p)
      Result(added) == IF added.ok THEN added.fl ELSE Failed(added.fl)
  IN IF w.rel THEN Failed(list) ELSE Result(FoldLeft(Step, Ok(list), paths))

ProcessMetadataFile(fl, w) ==
  IF Last(w.v) \notin PubKeys THEN Failed(fl)
  ELSE IF w.rel THEN fl
  ELSE LET Result(added) == IF added.ok THEN added.fl ELSE Failed(added.fl) IN Result(AddFile(fl, w.v))

SpecialFile(fl, w) == [v |-> w.v, cur |-> fl.cur, def |-> fl.def]

(* One path of a line of the spec file's list.                             *)
SpecPath(fl, w, first) ==
  LET plain == fl.cur.flags \ {"specialdir"}
      list == IF "dir" \in fl.cur.flags THEN [fl EXCEPT !.cur.isDir = 1] ELSE fl
  IN IF "specialdir" \in fl.cur.flags
     THEN IF plain \notin {{"doc"}, {"license"}} \/ ~w.rel THEN Failed(fl)
          ELSE IF plain = {"doc"} THEN [fl EXCEPT !.sdoc = Append(@, SpecialFile(fl, w))]
          ELSE [fl EXCEPT !.slic = Append(@, SpecialFile(fl, w))]
     ELSE IF ~first THEN Failed(fl)
     ELSE IF "docdir" \in fl.cur.flags THEN [fl EXCEPT !.docs = @ \cup {w.v}]
     ELSE IF "pubkey" \in fl.cur.flags THEN ProcessMetadataFile(fl, w)
     ELSE ProcessBinaryFile(list, w, TRUE)

(* One path of a generated list (build-id links): no globs, nothing        *)
(* special, and addFile's code is dropped.                                 *)
GeneratedPath(fl, w) ==
  IF fl.cur.flags \cap {"specialdir", "docdir", "pubkey"} # {} THEN Failed(fl)
  ELSE AddFile(IF "dir" \in fl.cur.flags THEN [fl EXCEPT !.cur.isDir = 1] ELSE fl, w.v).fl

AddLine(fl, l, fromSpec) ==
  LET Path(r, w, first) == IF fromSpec THEN SpecPath(r, w, first) ELSE GeneratedPath(r, w)
      Done(r) == [r EXCEPT !.caps = @ \/ r.cur.caps # ""]
      Paths(r) == FoldLeft(LAMBDA t, i : Path(t, r.names[i], i = 1), r.fl, [i \in DOMAIN r.names |-> i])
      Parsed(r) == IF r.ok THEN Done(Paths(r)) ELSE Failed(r.fl)
  IN Parsed(ParseLine(fl, l))

-----------------------------------------------------------------------------
(* %doc and %license files are copied into the build root before they are  *)
(* recorded, each with the attributes of its own line.                     *)

AbsWord(p) == [k |-> "path", v |-> p, rel |-> FALSE, slash |-> FALSE]
Copied(sd) == {v \in {sd[i].v : i \in DOMAIN sd} : Last(v) \in DocSources}

ProcessSpecialDir(fl, sd) ==
  LET Step(r, s) == ProcessBinaryFile([r EXCEPT !.cur = s.cur, !.def = s.def], AbsWord(DocDir \o s.v), FALSE)
  IN ProcessBinaryFile([FoldLeft(Step, fl, sd) EXCEPT !.def = sd[1].def, !.cur = [sd[1].cur EXCEPT !.isDir = 1]],
                       AbsWord(DocDir), TRUE)

SpecialRoot(sd) == IF sd = <<>> THEN root
                   ELSE [p \in {DocDir} |-> Node("dir")] @@ [p \in {DocDir \o v : v \in Copied(sd)} |-> Node("reg")] @@ root

-----------------------------------------------------------------------------
(* Build-id links (generateBuildIDs).  An ELF file's id is split into the  *)
(* name of a directory and the name of the link in it; <<"none">> is an    *)
(* ELF file without one.  Links are made in the build root and listed.     *)

Flag(v) == [k |-> "flag", v |-> v]
PathLine(flags, p) == [dirs |-> <<>>, words |-> Append([i \in DOMAIN flags |-> Flag(flags[i])], AbsWord(p))]
MkAttr == [dirs |-> [defattr |-> <<"644", "root", "root", "755">>], words |-> <<>>]
DebugPath(p) == DebugLib \o Renamed(p, Last(p) \o opts.unique \o ".debug")

ElfRecord(r) == /\ Exists(r.disk) /\ root[r.disk].kind = "reg"
                /\ Is(r.cpio, DebugLib) \/ root[r.disk].x
                /\ root[r.disk].elf # <<>>

HasId(r) == Len(root[r.disk].elf) = 2
Identified(files) ==
  SelectSeq(files, LAMBDA r : ElfRecord(r) /\ HasId(r) /\ (Is(r.cpio, DebugLib) \/ opts.links # "alldebug"))

(* addNewIDSymlink: an existing link to another file sends it on to the    *)
(* next number.                                                            *)
IdName(name, nr, dbg) == name \o (IF nr = 0 THEN "" ELSE "." \o ToString(nr)) \o (IF dbg THEN ".debug" ELSE "")
Taken(rt, p, target) == p \in DOMAIN rt /\ ~(rt[p].kind = "lnk" /\ rt[p].to = target)
LinkNumber(rt, dir, name, dbg, target) ==
  CHOOSE k \in 0..Cardinality(DOMAIN rt) : /\ ~Taken(rt, Append(dir, IdName(name, k, dbg)), target)
                                           /\ \A j \in 0..(k - 1) : Taken(rt, Append(dir, IdName(name, j, dbg)), target)

AddNewIDSymlink(acc, target, dir, name, dbg, nr) ==
  LET link == Append(dir, IdName(name, nr, dbg))
  IN [acc EXCEPT !.root = IF link \in DOMAIN @ THEN @ ELSE [p \in {link} |-> [Node("lnk") EXCEPT !.to = target]] @@ @,
                 !.lines = Append(@, PathLine(<<"artifact">>, link))]

AddDir(acc, dir, once) ==
  IF once /\ dir \in DOMAIN acc.root THEN acc
  ELSE [acc EXCEPT !.root = @ @@ [p \in {dir} |-> Node("dir")], !.lines = Append(@, PathLine(<<"dir", "artifact">>, dir))]

Undebugged(p) == {q \in DOMAIN root : DebugPath(q) = p}

LinkId(acc, r) ==
  LET dbg == Is(r.cpio, DebugLib)
      id == root[r.disk].elf
      dir == Append(IF dbg THEN DebugId ELSE BuildId, id[1])
      ToMain(linked, main) ==
        AddNewIDSymlink(linked, main, dir, id[2], FALSE, LinkNumber(linked.root, dir, id[2], FALSE, main))
      Second(linked, nr) ==
        IF dbg /\ opts.links = "compat"
        THEN AddNewIDSymlink(linked, Append(Append(BuildId, id[1]), IdName(id[2], nr, FALSE)), dir, id[2], FALSE, nr)
        ELSE IF dbg /\ opts.links = "alldebug" /\ Undebugged(r.cpio) # {}
        THEN ToMain(linked, CHOOSE q \in Undebugged(r.cpio) : TRUE)
        ELSE linked
      Link(made, nr) == Second(AddNewIDSymlink(made, r.cpio, dir, id[2], dbg, nr), nr)
      Number(made) == Link(made, LinkNumber(made.root, dir, id[2], dbg, r.cpio))
  IN Number(AddDir(acc, dir, TRUE))

GenerateBuildIDs(files) ==
  LET ids == Identified(files)
      fail == opts.missingIds /\ \E i \in DOMAIN files : ElfRecord(files[i]) /\ ~HasId(files[i])
      none == [root |-> root, lines |-> <<>>, ok |-> ~fail]
      needs(d) == \E i \in DOMAIN ids : Is(ids[i].cpio, DebugLib) = d
      start == [none EXCEPT !.lines = <<MkAttr>>]
      main == IF needs(FALSE) THEN AddDir(start, BuildId, FALSE) ELSE start
      both == IF needs(TRUE) THEN AddDir(main, DebugId, FALSE) ELSE main
  IN IF opts.links = "none" \/ fail \/ ids = <<>> THEN [none EXCEPT !.ok = @ \/ opts.links = "none"]
     ELSE FoldLeft(LinkId, both, ids)

-----------------------------------------------------------------------------
(* genCpioListAndHeader: the records are sorted, those with one path       *)
(* merged, the excluded ones set aside, the rest put into the header.      *)

Linkable(r) == r.kind \in {"reg", "lnk"}
IsHardLink(a, b) == Linkable(a) /\ Linkable(b) /\ a.nlink > 1 /\ a.nlink = b.nlink /\ a.ino = b.ino
PartialHardlinks(files) == \E i, j \in DOMAIN files : i < j /\ IsHardLink(files[i], files[j])

Stripped(strip, r) ==
  IF r.cpio # <<>> /\ Last(r.cpio) \in DOMAIN strip THEN [r EXCEPT !.cpio = Renamed(@, strip[Last(r.cpio)])] ELSE r

(* An explicit attribute outranks a default, and a default none.           *)
Rank(r, s) == (IF s \in r.specd THEN 2 ELSE 0) + (IF AsDefault[s] \in r.specd THEN 1 ELSE 0)
ModeOf(r) == IF r.kind = "dir" THEN "DIRMODE" ELSE "FILEMODE"
Keep(a, b, s, old, new) == IF Rank(b, s) < Rank(a, s) THEN old ELSE new

Merge(a, b) ==
  [b EXCEPT !.flags = @ \cup a.flags,
            !.mode = Keep(a, b, ModeOf(a), a.mode, @),
            !.uname = Keep(a, b, "UID", a.uname, @),
            !.gname = Keep(a, b, "GID", a.gname, @),
            !.verify = Keep(a, b, "VERIFY", a.verify, @)]

(* std::sort leaves the order of the records of one path open: as listed,  *)
(* or the other way round.                                                 *)
Places(files, p) == {i \in DOMAIN files : files[i].cpio = p}
Paths(files) == {files[i].cpio : i \in DOMAIN files}
Records(files, p, rev) ==
  LET listed == SelectSeq(files, LAMBDA r : r.cpio = p) IN IF rev THEN Reverse(listed) ELSE listed

(* The header entry of a path, made of its last record.  Its inode number  *)
(* is the position of the first record it is a hard link of, or else that  *)
(* of the path's first record.  one, which is not in the header, says that *)
(* the records of the path were all of one file.                           *)
Entry(recs, last) ==
  LET r == recs[last]
      own == {j \in 1..last : recs[j].cpio = r.cpio}
      links == {j \in 1..(last - 1) : IsHardLink(r, recs[j])}
      docs == IF r.kind = "dir" THEN {"config", "doc", "license"} ELSE {}
  IN [r EXCEPT !.flags = @ \ (docs \cup {"dir", "docdir", "exclude", "specialdir"}),
               !.verify = IF "ghost" \in r.flags THEN @ \ {"filedigest", "size", "link", "mtime"} ELSE @]
     @@ [inode |-> IF r.nlink > 1 /\ links # {} THEN Min(links) ELSE Min(own),
         one |-> \A j \in own : recs[j].disk = r.disk /\ recs[j].kind = r.kind,
         counted |-> Linkable(r) /\ (r.nlink = 1 \/ links = {})]

(* What goes into the header: recs are the merged records in order, ends   *)
(* the position of the last one of each path.                              *)
MergedRecords(named, paths, rev) ==
  LET MergeInto(acc, r) == Append(acc, IF acc = <<>> THEN r ELSE Merge(Last(acc), r))
  IN FlattenSeq([k \in DOMAIN paths |-> FoldLeft(MergeInto, <<>>, Records(named, paths[k], rev))])
PathEnds(named, paths) ==
  [k \in DOMAIN paths |-> FoldLeft(LAMBDA t, j : t + Cardinality(Places(named, paths[j])), 0, [j \in 1..k |-> j])]
HeaderOf(recs, ends) ==
  LET Entries(kept) == [k \in DOMAIN kept |-> Entry(recs, kept[k])]
  IN Entries(SelectSeq(ends, LAMBDA e : "exclude" \notin recs[e].flags))

GenCpioListAndHeader(files, strip, rev) ==
  LET Dupe(recs) == \E i \in DOMAIN recs : i > 1 /\ recs[i].cpio = recs[i - 1].cpio /\ "exclude" \notin recs[i].flags
      Rooted(e) == e.kind = "lnk" /\ Exists(e.disk) /\ "buildroot" \in ToSet(root[e.disk].to)
      Result(named, recs, ends, header) ==
        [files |-> header,
         excluded |-> {recs[ends[k]].cpio : k \in {j \in DOMAIN ends : "exclude" \in recs[ends[j]].flags}},
         size |-> FoldLeft(LAMBDA t, e : t + (IF e.counted THEN e.size ELSE 0), 0, header),
         failed |-> (Dupe(recs) /\ opts.dupesFail) \/ \E k \in DOMAIN header : Rooted(header[k]),
         renamed |-> {[new |-> named[i].cpio, old |-> files[i].cpio] : i \in {j \in DOMAIN files : named[j].cpio # files[j].cpio}}]
      Listing(named, recs, ends) == Result(named, recs, ends, HeaderOf(recs, ends))
      Sorted(named, paths) == Listing(named, MergedRecords(named, paths, rev), PathEnds(named, paths))
      Named(named) == Sorted(named, Enum(Paths(named)))
  IN Named([i \in DOMAIN files |-> Stripped(strip, files[i])])

Features(fl, partial) ==
  (IF opts.format >= 6 \/ fl.large THEN {"LargeFiles"} ELSE {}) \cup (IF fl.caps THEN {"FileCaps"} ELSE {})
    \cup (IF opts.format < 6 THEN {"FileDigests", "PayloadFilesHavePrefix", "CompressedFileNames"}
                                  \cup (IF partial THEN {"PartialHardlinkSets"} ELSE {}) ELSE {})

-----------------------------------------------------------------------------
(* Debuginfo packages.                                                     *)

Index(name) == {i \in DOMAIN pkgs : pkgs[i].name = name}
DebugPackage(name) == {i \in Index(name) : pkgs[i].has}
AddDep(ps, from, tag, to) == [i \in DOMAIN ps |-> IF ps[i].name = from THEN [ps[i] EXCEPT ![tag] = @ \cup {to}] ELSE ps[i]]
Listed(p, lines) == [p EXCEPT !.list = lines, !.has = TRUE]
Dirs(p) == {q \in Prefixes(p) : Len(q) > Len(DebugLib) /\ Len(q) < Len(p)}

(* filterDebuginfoPackage: the debug files of a package's files go to its  *)
(* own debuginfo package, those of the main package to the main one.       *)
DebugFiles(pkg) ==
  LET Name(p) == LET old == {r \in pkg.renamed : r.new = p} IN IF old = {} THEN p ELSE (CHOOSE r \in old : TRUE).old
  IN SelectSeq([k \in DOMAIN pkg.files |-> DebugPath(Name(pkg.files[k].cpio))], LAMBDA p : Exists(p))

DebugList(pkg) ==
  LET found == DebugFiles(pkg)
      hidden == Enum({DebugPath(p) : p \in pkg.excluded} \cap DOMAIN root)
      dirs == Enum(UNION {Dirs(found[k]) : k \in DOMAIN found})
  IN (IF found = <<>> THEN <<>> ELSE <<MkAttr, PathLine(<<"dir">>, DebugLib)>>)
     \o [k \in DOMAIN found |-> PathLine(<<>>, found[k])]
     \o [k \in DOMAIN hidden |-> PathLine(<<"exclude">>, hidden[k])]
     \o [k \in DOMAIN dirs |-> PathLine(<<"dir">>, dirs[k])]

NewPackage(name, arch) ==
  [name |-> name, arch |-> arch, has |-> FALSE, spec |-> FALSE, list |-> <<>>, strip |-> <<>>, files |-> <<>>, excluded |-> {},
   renamed |-> {}, size |-> 0, feats |-> {}, reqs |-> {}, recs |-> {}]

CloneDebuginfoPackage(ps, pkg, dbg) ==
  IF \E i \in DOMAIN ps : ps[i].name = pkg.name \o "-debuginfo" THEN ps
  ELSE Append(ps, NewPackage(pkg.name \o "-debuginfo", ps[dbg].arch))

FilterDebuginfoPackage(ps, i, source) ==
  LET pkg == ps[i]
      dbg == CHOOSE j \in DOMAIN ps : ps[j].name = maindbg
      lines == DebugList(pkg)
      own == pkg.name \o "-debuginfo"
      cloned == CloneDebuginfoPackage(ps, pkg, dbg)
  IN IF pkg.arch = "noarch" \/ lines = <<>> THEN ps
     ELSE IF i = 1 THEN [ps EXCEPT ![dbg] = Listed(@, lines)]
     ELSE AddDep([j \in DOMAIN cloned |-> IF cloned[j].name = own THEN Listed(cloned[j], lines) ELSE cloned[j]],
                 own, "recs", IF source # "" THEN source ELSE maindbg)

(* addDebugDwz and addDebugSrc, for the one package that gets the extras.  *)
AddExtras(pkg) ==
  LET dwz == Exists(DebugDwz) /\ root[DebugDwz].kind = "dir"
      head == IF pkg.has THEN pkg.list ELSE <<MkAttr>>
      withDwz == IF ~dwz THEN pkg
                 ELSE Listed(pkg, head \o (IF pkg.has THEN <<>> ELSE <<PathLine(<<"dir", "artifact">>, DebugLib)>>)
                                       \o <<PathLine(<<"artifact">>, DebugDwz)>>)
      srcs == IF opts.debugsource \/ ~Exists(DebugSrc) THEN <<>> ELSE Enum(Children(DebugSrc))
  IN IF srcs = <<>> THEN withDwz
     ELSE Listed(withDwz, (IF withDwz.has THEN withDwz.list ELSE <<MkAttr>>) \o [k \in DOMAIN srcs |-> PathLine(<<>>, srcs[k])])

-----------------------------------------------------------------------------
Main == pkgs[1].name
DebugSource == IF opts.debug /\ DebugPackage(Main \o "-debugsource") # {} THEN Main \o "-debugsource" ELSE ""

Init ==
  /\ \E in \in Inputs : root = in.root /\ pkgs = in.pkgs /\ opts = in.opts
  /\ at = 0 /\ n = 0 /\ f = NewList
  /\ maindbg = "" /\ deplink = "" /\ checked = {} /\ src = <<>>
  /\ stage = "begin"

(* processSourceFiles: the spec file, the sources, and as ghosts those the *)
(* spec file does not ship, under their base names.                        *)
SourceRecord(i) ==
  LET s == opts.sources[i]
  IN [Record(NewList, s.path, Node("reg")).files[1] EXCEPT
        !.cpio = <<Last(s.path)>>, !.verify = VerifyAll,
        !.flags = (IF i = 1 THEN {"specfile"} ELSE {}) \cup (IF s.no THEN {"ghost"} ELSE {})]

ProcessSourceFiles ==
  /\ stage = "begin"
  /\ LET bad == \E i \in DOMAIN opts.sources : ~opts.sources[i].exists
     IN \E g \in {GenCpioListAndHeader([i \in DOMAIN opts.sources |-> SourceRecord(i)], <<>>, rev) : rev \in BOOLEAN} :
          /\ src' = IF bad THEN src ELSE g.files
          /\ stage' = IF bad \/ g.failed THEN "failed" ELSE "binaries"
  /\ UNCHANGED <<root, opts, pkgs, at, n, f, maindbg, deplink, checked>>

(* processBinaryFiles before its loop: the main debuginfo package is moved *)
(* to the back and its file list dropped.                                  *)
FindDebuginfo ==
  /\ stage = "binaries"
  /\ LET dbgs == IF opts.debug THEN DebugPackage(Main \o "-debuginfo") ELSE {}
         i == CHOOSE j \in dbgs : TRUE
         dropped == [pkgs[i] EXCEPT !.has = FALSE, !.spec = FALSE, !.list = <<>>]
     IN IF opts.subpackages /\ dbgs # {}
        THEN /\ pkgs' = Append(RemoveAt(pkgs, i), dropped)
             /\ maindbg' = pkgs[i].name
        ELSE /\ pkgs' = IF dbgs # {} /\ ~opts.subpackages /\ DebugSource # "" THEN AddDep(pkgs, pkgs[i].name, "recs", DebugSource) ELSE pkgs
             /\ UNCHANGED maindbg
  /\ stage' = "next"
  /\ UNCHANGED <<root, opts, at, n, f, deplink, checked, src>>

(* The loop moves on to a package; when that is the main debuginfo package *)
(* all normal packages have been processed.                                *)
NextPackage ==
  /\ stage = "next" /\ at < Len(pkgs)
  /\ LET i == at + 1
         isDbg == maindbg # "" /\ pkgs[i].name = maindbg
         extra == IF ~pkgs[i].has /\ i + 1 = Len(pkgs) THEN i + 1 ELSE i
         filled == AddExtras(pkgs[extra])
         filledPkgs == [pkgs EXCEPT ![extra] = filled]
         linked == IF DebugSource # "" THEN AddDep(filledPkgs, filled.name, "recs", DebugSource) ELSE filledPkgs
         now == IF isDbg THEN linked ELSE pkgs
     IN /\ pkgs' = now
        /\ maindbg' = IF isDbg THEN "" ELSE maindbg
        /\ deplink' = IF isDbg /\ filled # pkgs[extra] THEN filled.name ELSE deplink
        /\ at' = i /\ n' = 0 /\ f' = NewList
        /\ stage' = IF now[i].has THEN "lines" ELSE "next"
  /\ UNCHANGED <<root, opts, checked, src>>

(* A line of the list: the spec file's, or one that was generated.         *)
ReadLine(l) ==
  /\ stage = "lines"
  /\ IF pkgs[at].spec THEN n < opts.maxLines /\ l \in opts.lines ELSE n < Len(pkgs[at].list) /\ l = pkgs[at].list[n + 1]
  /\ n' = n + 1
  /\ f' = AddLine(f, l, TRUE)
  /\ UNCHANGED <<root, opts, pkgs, at, maindbg, deplink, checked, src, stage>>

(* The script that copies the special files runs for each kind.            *)
CopySpecials ==
  /\ stage = "lines" /\ (IF pkgs[at].spec THEN n > 0 ELSE n = Len(pkgs[at].list))
  /\ root' = IF opts.install THEN SpecialRoot(f.sdoc \o f.slic) ELSE root
  /\ stage' = "special"
  /\ UNCHANGED <<opts, pkgs, at, n, f, maindbg, deplink, checked, src>>

Specials(fl) ==
  LET Kind(list, sd) == IF sd = <<>> THEN list ELSE ProcessSpecialDir(list, sd)
  IN Kind(Kind(fl, fl.sdoc), fl.slic)

AddSpecials ==
  /\ stage = "special"
  /\ f' = Specials(f)
  /\ stage' = IF f'.failed THEN "failed" ELSE "ids"
  /\ UNCHANGED <<root, opts, pkgs, at, n, maindbg, deplink, checked, src>>

(* Build-ids, with the links that were made as a second, generated list.   *)
MakeLinks ==
  /\ stage = "ids"
  /\ IF ~(opts.debug /\ pkgs[at].arch # "noarch") THEN stage' = "pack" /\ UNCHANGED <<root, pkgs>>
     ELSE \E g \in {GenerateBuildIDs(f.files)} :
            /\ root' = g.root
            /\ pkgs' = [pkgs EXCEPT ![at].list = g.lines]
            /\ stage' = IF g.ok THEN "links" ELSE "failed"
  /\ n' = 0
  /\ UNCHANGED <<opts, at, f, maindbg, deplink, checked, src>>

AddLink ==
  /\ stage = "links" /\ n < Len(pkgs[at].list)
  /\ f' = AddLine(IF n = 0 THEN [f EXCEPT !.def = Defaults(@)] ELSE f, pkgs[at].list[n + 1], FALSE)
  /\ n' = n + 1
  /\ UNCHANGED <<root, opts, pkgs, at, maindbg, deplink, checked, src, stage>>

EndLinks ==
  /\ stage = "links" /\ n = Len(pkgs[at].list)
  /\ stage' = IF f.failed THEN "failed" ELSE "pack"
  /\ UNCHANGED <<root, opts, pkgs, at, n, f, maindbg, deplink, checked, src>>

(* The header; then the package's debug files, or its dependency on the    *)
(* package with the extras.                                                *)
GenerateHeader ==
  /\ stage = "pack"
  /\ \E g \in {GenCpioListAndHeader(f.files, pkgs[at].strip, rev) : rev \in BOOLEAN} :
       LET done == [pkgs EXCEPT ![at].files = g.files, ![at].excluded = g.excluded, ![at].renamed = g.renamed, ![at].size = g.size,
                                ![at].feats = Features(f, PartialHardlinks(f.files))]
       IN /\ pkgs' = IF g.failed THEN done
                     ELSE IF maindbg # "" THEN FilterDebuginfoPackage(done, at, DebugSource)
                     ELSE IF deplink # "" /\ pkgs[at].name # deplink THEN AddDep(done, pkgs[at].name, "reqs", deplink)
                     ELSE done
          /\ stage' = IF g.failed THEN "failed" ELSE "next"
  /\ checked' = checked \cup {f.files[i].disk : i \in {j \in DOMAIN f.files : Linkable(f.files[j])}}
  /\ UNCHANGED <<root, opts, at, n, f, maindbg, deplink, src>>

\* Mutant: only regular files are looked for.
UnpackagedRegular == {p \in DOMAIN root : root[p].kind = "reg"} \ checked

(* checkFiles: what the build root holds and no list named.                *)
Unpackaged == {p \in DOMAIN root : Linkable(root[p])} \ checked

CheckFiles ==
  /\ stage = "next" /\ at = Len(pkgs)
  /\ stage' = IF opts.check /\ opts.unpackagedFail /\ Unpackaged # {} THEN "failed" ELSE "done"
  /\ UNCHANGED <<root, opts, pkgs, at, n, f, maindbg, deplink, checked, src>>

Next == \/ ProcessSourceFiles \/ FindDebuginfo \/ NextPackage
        \/ \E l \in opts.lines \cup (IF at > 0 THEN ToSet(pkgs[at].list) ELSE {}) : ReadLine(l)
        \/ CopySpecials \/ AddSpecials \/ MakeLinks \/ AddLink \/ EndLinks \/ GenerateHeader \/ CheckFiles

Spec == Init /\ [][Next]_vars

-----------------------------------------------------------------------------
Header(i) == pkgs[i].files
Renamings(i) == {r.new : r \in pkgs[i].renamed}
Built(i) == at > i \/ (at = i /\ stage \in {"next", "done"})

(* With unpackaged files and duplicates treated as errors, a build that    *)
(* succeeds has every regular file and link of the build root in some      *)
(* package's header or set aside by some package's %exclude: what addFile, *)
(* the merging of records and the split of the debuginfo package leave out *)
(* is reported by the check of the build root.                             *)
NothingForgotten ==
  stage = "done" /\ opts.check /\ opts.unpackagedFail /\ opts.dupesFail =>
    \A p \in DOMAIN root : Linkable(root[p]) =>
      \E i \in DOMAIN pkgs : \/ \E k \in DOMAIN Header(i) : Header(i)[k].disk = p
                             \/ p \in pkgs[i].excluded
                             \/ \E r \in pkgs[i].renamed : r.old = p /\ r.new \in pkgs[i].excluded

(* In a package's header two files have the same inode number exactly when *)
(* they are hard links of one another in the build root, whatever was      *)
(* listed twice or excluded: the numbers made from list positions keep the *)
(* sets of links, which the payload and the installation rely on.  Paths   *)
(* that stand for two files, one of which %removepathpostfixes renamed or  *)
(* %dev made up, do not count: their number is the one of the first file,  *)
(* and all else is the second file's.  They are reported as listed twice,  *)
(* by default with a warning.                                              *)
InodesTellLinks ==
  \A i \in DOMAIN pkgs : Built(i) =>
    \A k, m \in DOMAIN Header(i) : k # m /\ Header(i)[k].one /\ Header(i)[m].one =>
      (Header(i)[k].inode = Header(i)[m].inode <=> IsHardLink(Header(i)[k], Header(i)[m]))

(* Every identified ELF file a package ships has a build-id link in the    *)
(* same package that leads to it, also when another file of this or of an  *)
(* earlier package has the same build-id.  The links are made before       *)
(* %removepathpostfixes renames the files, and those of a renamed file     *)
(* lead to the name it had.                                                *)
BuildIdsLinked ==
  \A i \in DOMAIN pkgs :
    Built(i) /\ opts.debug /\ opts.links \in {"separate", "compat"} /\ pkgs[i].arch # "noarch" =>
      \A k \in DOMAIN Header(i) :
        LET r == Header(i)[k] IN
        ElfRecord(r) /\ HasId(r) =>
          \E m \in DOMAIN Header(i) : /\ Header(i)[m].kind = "lnk"
                                      /\ Is(Header(i)[m].cpio, IF Is(r.cpio, DebugLib) THEN DebugId ELSE BuildId)
                                      /\ root[Header(i)[m].disk].to = IF r.cpio \in Renamings(i) THEN r.disk ELSE r.cpio

(* When the main debuginfo package is split, the debug file of a program   *)
(* that was packaged ends up in the debuginfo package of every package of  *)
(* an architecture that has the program, also under a name that            *)
(* %removepathpostfixes gave it, and in no other package.  A path that     *)
(* stands for two programs brings the debug file of one of them only.      *)
Ships(i, p) == \E k \in DOMAIN Header(i) : Header(i)[k].disk = p
DebugFollowsProgram ==
  stage = "done" /\ opts.debug /\ opts.subpackages /\ Index(Main \o "-debuginfo") # {} =>
    \A p \in DOMAIN root :
      LET d == DebugPath(p)
          programs == {i \in DOMAIN pkgs : Ships(i, p) /\ pkgs[i].arch # "noarch"}
          alone == \A i \in programs : \A k \in DOMAIN Header(i) : Header(i)[k].disk = p => Header(i)[k].one
      IN Exists(d) /\ ~Is(p, DebugLib) /\ programs # {} /\ alone =>
           {pkgs[j].name : j \in {k \in DOMAIN pkgs : Ships(k, d)}} = {pkgs[i].name \o "-debuginfo" : i \in programs}
=============================================================================
