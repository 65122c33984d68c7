------------------------------ MODULE Payload ------------------------------
(***************************************************************************)
(* The payload of a package: rpmPackageFilesArchive() (build/pack.cc)      *)
(* writes the files as a cpio archive, the iterators of lib/rpmfi.cc read  *)
(* them back for installation and conversion, both through lib/cpio.cc.    *)
(*                                                                         *)
(* An archive is a function from offsets to what was written there with    *)
(* one call; file content is written in units of one byte.  A reader that  *)
(* is out of step gets rubbish.  The disk may be full while the archive is *)
(* written, a file may have become shorter or unreadable, and the archive  *)
(* may be cut off before it is read.                                       *)
(***************************************************************************)
EXTENDS Integers, FiniteSets, FiniteSetsExt, SequencesExt

CONSTANTS
    Packages,   \* [stripped, files]; files of [type, size, ghost, ino]
    FileMax,    \* CPIO_FILESIZE_MAX
    Room        \* numbers of bytes that the disk may take

Magic == 6
PhysHdr == 104
StrippedHdr == 8
TrailerName == 11

VARIABLES
    pkg, room,
    pc,         \* "write", "copy", "close", "kept", "read", "over", "entry", "done"
    itype,      \* how it is read: "ARCHIVE", "CONTENT_FIRST" or "OMIT_HARDLINKS"
    arc,        \* the archive
    avail,      \* its size, or where it was cut off
    cpio,       \* [off, end]: offset and fileend
    i,          \* fi->i, 0 for none
    found,      \* fi->found
    rc,
    tell,       \* the size of the archive as recorded in the package
    hardlink,   \* of rpm2archive: the file that links refer to
    got         \* history: [f, kind, to] of the files in the order they came

vars == <<pkg, room, pc, itype, arc, avail, cpio, i, found, rc, tell, hardlink, got>>

Init ==
    /\ pkg \in Packages /\ room \in Room
    /\ pc = "write" /\ itype \in {"ARCHIVE", "CONTENT_FIRST", "OMIT_HARDLINKS"}
    /\ arc = <<>> /\ avail = 0 /\ cpio = [off |-> 0, end |-> 0]
    /\ i = 0 /\ found = {} /\ rc = "ok" /\ tell = 0 /\ hardlink = 0 /\ got = <<>>

----------------------------------------------------------------------------
Fx == DOMAIN pkg.files
File(f) == pkg.files[f]
Reg(f) == File(f).type = "reg"
Content(f) == [k \in 1..File(f).size |-> [t |-> "data", of |-> IF File(f).ino = 0 THEN f ELSE -File(f).ino, k |-> k, len |-> 1]]

\* rpmfilesBuildNLink(), rpmfilesFLinks()
FLinks(f) ==
    IF Reg(f) /\ ~File(f).ghost /\ File(f).ino > 0
    THEN SelectSeq([g \in Fx |-> g],
                   LAMBDA g : Reg(g) /\ ~File(g).ghost /\ File(g).ino = File(f).ino)
    ELSE <<f>>
FNlink(f) == IF f = 0 THEN 0 ELSE Len(FLinks(f))

\* rpmfilesStat(), rpmfiStat(): "In archives, hardlinked files are empty except for
\* the last one"
StatSize(f) == IF File(f).type = "dir" \/ Last(FLinks(f)) # f THEN 0 ELSE File(f).size

----------------------------------------------------------------------------
\* A writer is a record of the archive, the offset, the file's end and the result.
Writer == [arc |-> arc, off |-> cpio.off, end |-> cpio.end, rc |-> "ok"]

\* Fwrite() of one piece, which is only counted as far as there is room
Fwrite(w, piece) ==
    IF w.rc # "ok" THEN w
    ELSE IF w.off + piece.len <= room
         THEN [w EXCEPT !.arc = [o \in DOMAIN @ \cup {w.off} |-> IF o = w.off THEN piece ELSE @[o]],
                        !.off = @ + piece.len]
         ELSE [w EXCEPT !.off = room, !.rc = "WRITE_FAILED"]

PadOf(off) == (4 - (off % 4)) % 4

\* rpmcpioWritePad(): unlike the other writers, does not count a part of a pad
WritePad(w) ==
    LET p == Fwrite(w, [t |-> "pad", len |-> PadOf(w.off)])
    IN IF PadOf(w.off) = 0 THEN w ELSE IF p.rc = "ok" THEN p ELSE [p EXCEPT !.off = w.off]

MagicPiece(k) == [t |-> "magic", k |-> k, len |-> Magic]
NewcPiece(size, name) == [t |-> "hdr", size |-> size, name |-> name, len |-> PhysHdr]
FxPiece(f) == [t |-> "fx", f |-> f, len |-> StrippedHdr]
NameLen(f) == f + 2
NamePiece(f) == [t |-> "name", f |-> f, len |-> IF f = 0 THEN TrailerName ELSE NameLen(f)]

\* rpmcpioHeaderWrite(); the trailer is an entry of its own
NewcWrite(w, f, size) ==
    WritePad(Fwrite(Fwrite(Fwrite(WritePad(w), MagicPiece("newc")),
                           NewcPiece(size, NamePiece(f).len)), NamePiece(f)))
HeaderWrite(w, f, size) ==
    IF w.end # w.off THEN [w EXCEPT !.rc = "WRITE_FAILED"]
    ELSE IF size >= FileMax THEN [w EXCEPT !.rc = "FILE_SIZE"]
    ELSE LET n == NewcWrite(w, f, size) IN [n EXCEPT !.end = n.off + size]

\* rpmcpioStrippedHeaderWrite()
StrippedHeaderWrite(w, f, size) ==
    IF w.end # w.off THEN [w EXCEPT !.rc = "WRITE_FAILED"]
    ELSE LET n == WritePad(Fwrite(Fwrite(WritePad(w), MagicPiece("stripped")), FxPiece(f)))
         IN [n EXCEPT !.end = n.off + size]

\* rpmfiArchiveWriteHeader()
WriteHeader(w, f) ==
    IF w.rc # "ok" THEN w
    ELSE IF pkg.stripped THEN StrippedHeaderWrite(w, f, StatSize(f))
    ELSE HeaderWrite(w, f, StatSize(f))

\* rpmcpioWrite(): not beyond the end of the file
CpioWrite(w, data) == FoldLeft(Fwrite, w, SubSeq(data, 1, Min({Len(data), w.end - w.off})))

\* rpmcpioTrailerWrite()
TrailerWrite(w) ==
    IF w.end # w.off THEN [w EXCEPT !.rc = "WRITE_FAILED"] ELSE NewcWrite(w, 0, 0)

----------------------------------------------------------------------------
\* iterWriteArchiveNextFile(): files with one link come first, then one set of links
\* after the other
FirstOf(S) == IF S = {} THEN 0 ELSE Min(S)
NextToWrite ==
    LET there == {f \in Fx : ~File(f).ghost}
        single == FirstOf({f \in there : f > i /\ FNlink(f) < 2})
    IN IF FNlink(i) > 1
       THEN FirstOf({f \in there : f > i /\ FNlink(f) > 1 /\ FLinks(f)[1] = f})
       ELSE IF single # 0 THEN single ELSE FirstOf({f \in there : FNlink(f) > 1})

\* What is left of a writer; rpmfiFree() closes an archive once more if it failed
Wrote(w) ==
    /\ arc' = w.arc /\ cpio' = [off |-> w.off, end |-> w.end]
    /\ UNCHANGED <<pkg, room, itype, avail, found, hardlink, got>>
GivenUp(w) ==
    /\ Wrote([TrailerWrite([w EXCEPT !.rc = "ok"]) EXCEPT !.rc = w.rc])
    /\ rc' = w.rc /\ pc' = "done" /\ tell' = 0

\* A round of iterWriteArchiveNext(): special files, directories, links and empty files
\* need no more than a header
WriteNext ==
    /\ pc = "write" /\ NextToWrite # 0
    /\ i' = NextToWrite
    /\ \E w \in {FoldLeft(WriteHeader, Writer, FLinks(NextToWrite))} :
         \E l \in {IF File(i').type = "link" THEN CpioWrite(w, Content(i')) ELSE w} :
            IF l.rc # "ok" THEN GivenUp(l)
            ELSE /\ Wrote(l) /\ UNCHANGED <<rc, tell>>
                 /\ pc' = IF Reg(i') /\ File(i').size > 0 THEN "copy" ELSE "write"

\* rpmfiArchiveWriteFile() of a file that has n bytes (by now)
WriteFile(n) ==
    LET w == CpioWrite(Writer, SubSeq(Content(i), 1, n))
    IN IF w.rc = "ok" /\ n # File(i).size THEN [w EXCEPT !.rc = "READ_FAILED"] ELSE w

\* rpmPackageFilesArchive(): the content of a file, which may not be readable any more
CopyFile ==
    /\ pc = "copy"
    /\ UNCHANGED i
    /\ \E w \in {WriteFile(n) : n \in 0..File(i).size} \cup {[Writer EXCEPT !.rc = "OPEN_FAILED"]} :
          IF w.rc = "ok"
          THEN Wrote(w) /\ pc' = "write" /\ UNCHANGED <<rc, tell>>
          ELSE GivenUp(w)

Close ==
    /\ pc = "write" /\ NextToWrite = 0
    /\ i' = 0
    /\ \E w \in {TrailerWrite(Writer)} :
          IF w.rc # "ok" THEN Wrote(w) /\ rc' = w.rc /\ pc' = "done" /\ tell' = 0
          ELSE Wrote(w) /\ pc' = "kept" /\ tell' = w.off /\ UNCHANGED rc

\* The package is stored and read, or part of it
Ends == {0} \cup {o + arc[o].len : o \in DOMAIN arc}
Keep ==
    /\ pc = "kept"
    /\ \E n \in Ends \cup {e - 1 : e \in Ends \ {0}} : avail' = n
    /\ cpio' = [off |-> 0, end |-> 0]
    /\ pc' = "read"
    /\ UNCHANGED <<pkg, room, itype, arc, i, found, rc, tell, hardlink, got>>

----------------------------------------------------------------------------
\* A reader is a record of the offset, the file's end, the result, the file the header
\* is for, and the files found.
Reader == [off |-> cpio.off, end |-> cpio.end, rc |-> "ok", f |-> 0, found |-> found]

Rubbish == [t |-> "rubbish", len |-> 0]
At(o, n) == IF o \in DOMAIN arc /\ arc[o].len = n THEN arc[o] ELSE Rubbish

\* Fread() of n bytes, with the error when there are fewer
Fread(r, n, err) ==
    IF r.rc # "ok" THEN r
    ELSE IF r.off + n <= avail THEN [r EXCEPT !.off = @ + n]
    ELSE [r EXCEPT !.off = Max({avail, @}), !.rc = err]
Expect(r, ok, err) == IF r.rc = "ok" /\ ~ok THEN [r EXCEPT !.rc = err] ELSE r
ReadPad(r) == Fread(r, PadOf(r.off), "READ_FAILED")

\* rpmcpioHeaderRead(), in its order; a plain archive has the name of the file, which
\* rpmfilesFindOFN() looks up, and a stripped one its number
StrippedRead(m, fx) ==
    LET x == ReadPad(Expect(Fread(m, StrippedHdr, "BAD_HEADER"), fx.t = "fx", "BAD_HEADER"))
    IN IF x.rc # "ok" THEN x ELSE [x EXCEPT !.f = fx.f]
NameRead(h, hdr, name) ==
    LET x == ReadPad(Expect(Fread(h, hdr.name, "BAD_HEADER"), name.t = "name", "BAD_HEADER"))
    IN IF x.rc # "ok" THEN x
       ELSE [x EXCEPT !.f = name.f, !.end = x.off + hdr.size,
                      !.rc = IF name.f = 0 THEN "ITER_END" ELSE "ok"]
NewcRead(m, hdr) ==
    LET h == Expect(Fread(m, PhysHdr, "BAD_HEADER"), hdr.t = "hdr", "BAD_HEADER")
    IN IF h.rc # "ok" THEN h ELSE NameRead(h, hdr, At(h.off, hdr.name))
MagicRead(s, magic) ==
    LET m == Expect(Fread(s, Magic, "BAD_MAGIC"), magic.t = "magic", "BAD_MAGIC")
    IN IF m.rc # "ok" THEN m
       ELSE IF magic.k = "stripped" THEN StrippedRead(m, At(m.off, StrippedHdr))
       ELSE NewcRead(m, At(m.off, PhysHdr))
HeaderRead(r) ==
    LET AtEntry(s) == MagicRead(s, At(s.off, Magic))
    IN AtEntry(ReadPad(Fread(r, r.end - r.off, "READ_FAILED")))

\* iterReadArchiveNext(): a link's target is read over, and the end of the file is set
\* to what the package says of it
ArchiveNext(r) ==
    LET Sized(l, f) ==
            [l EXCEPT !.end = l.off + (IF Reg(f) /\ Last(FLinks(f)) = f THEN File(f).size ELSE 0),
                      !.found = @ \cup {f}]
        Found(h) ==
            IF h.rc = "ITER_END"
            THEN IF \E f \in Fx : f \notin found /\ ~File(f).ghost
                 THEN [h EXCEPT !.rc = "MISSING_FILE"] ELSE h
            ELSE IF h.rc # "ok" THEN h
            ELSE Sized(IF File(h.f).type = "link"
                       THEN Fread(h, File(h.f).size, "READ_FAILED") ELSE h, h.f)
    IN Found(HeaderRead(r))

HasContent(f) ==
    Reg(f) /\ f = IF itype = "CONTENT_FIRST" THEN FLinks(f)[1] ELSE Last(FLinks(f))

\* One call of iterReadArchiveNext() by the iterator of the type
Read(r) ==
    /\ cpio' = [off |-> r.off, end |-> r.end] /\ found' = r.found
    /\ UNCHANGED <<pkg, room, itype, arc, avail, tell, hardlink, got>>
ReadNext ==
    /\ \/ pc = "read" /\ (itype = "CONTENT_FIRST" /\ FNlink(i) > 1 => Last(FLinks(i)) = i)
       \/ pc = "over"
    /\ \E r \in {ArchiveNext(Reader)} :
         /\ Read(r)
         /\ IF r.rc # "ok" THEN pc' = "done" /\ rc' = r.rc /\ UNCHANGED i
            ELSE LET links == FLinks(r.f)
                     skip == CASE itype = "ARCHIVE" -> FALSE
                               [] itype = "OMIT_HARDLINKS" -> Last(links) # r.f
                               [] OTHER -> Len(links) > 1 /\ (pc = "read" \/ Last(links) # r.f)
                 IN /\ pc' = IF skip THEN "over" ELSE "entry"
                    /\ i' = IF skip THEN i
                            ELSE IF itype = "CONTENT_FIRST" THEN links[1] ELSE r.f
                    /\ UNCHANGED rc

\* iterReadArchiveNextContentFirst() in a set of links that was read over
NextLink ==
    /\ pc = "read" /\ itype = "CONTENT_FIRST" /\ FNlink(i) > 1 /\ Last(FLinks(i)) # i
    /\ i' = FLinks(i)[SelectInSeq(FLinks(i), LAMBDA f : f = i) + 1]
    /\ pc' = "entry"
    /\ UNCHANGED <<pkg, room, itype, arc, avail, cpio, found, rc, tell, hardlink, got>>

\* rpmfiArchiveRead() of the content of file i
ReadContent ==
    LET n == Min({File(i).size, cpio.end - cpio.off})
        r == Fread(Reader, n, "READ_FAILED")
    IN IF n # File(i).size THEN [r EXCEPT !.rc = "READ_FAILED"]
       ELSE Expect(r, [k \in 1..n |-> At(cpio.off + k - 1, 1)] = Content(i), "DIGEST_MISMATCH")

Came(kind, to) == got' = Append(got, [f |-> i, kind |-> kind, to |-> to])
EntryRead(r) ==
    /\ cpio' = [cpio EXCEPT !.off = r.off]
    /\ rc' = r.rc /\ pc' = IF r.rc = "ok" THEN "read" ELSE "done"

\* Who installs or signs a package: rpmfiArchiveReadToFilePsm(), or no more of the file
\* than its name
Entry ==
    /\ pc = "entry" /\ itype # "CONTENT_FIRST"
    /\ UNCHANGED <<pkg, room, itype, arc, avail, i, found, tell, hardlink>>
    /\ \/ HasContent(i) /\ EntryRead(ReadContent) /\ Came("content", 0)
       \/ EntryRead(Reader) /\ Came(IF HasContent(i) THEN "skipped" ELSE "name", 0)

\* rpm2archive: the first of a set of hard links is what the others are linked to.  A
\* file that is too large for the new archive is left out.
ConvertEntry ==
    /\ pc = "entry" /\ itype = "CONTENT_FIRST"
    /\ UNCHANGED <<pkg, room, itype, arc, avail, i, found, tell>>
    /\ hardlink' = IF FNlink(i) > 1 /\ HasContent(i) THEN i ELSE hardlink
    /\ \/ HasContent(i) /\ EntryRead(ReadContent) /\ Came("content", 0)
       \/ HasContent(i) /\ EntryRead(Reader) /\ Came("skipped", 0)
       \/ ~HasContent(i) /\ EntryRead(Reader) /\ Came("name", IF FNlink(i) > 1 THEN hardlink' ELSE 0)

Next == WriteNext \/ CopyFile \/ Close \/ Keep \/ ReadNext \/ NextLink \/ Entry \/ ConvertEntry

Spec == Init /\ [][Next]_vars

----------------------------------------------------------------------------
\* Writing an archive fails only on a full disk, a file of CPIO_FILESIZE_MAX in a plain
\* archive or a file that changed, and the recorded size of the archive is its size.  A
\* reader comes to the end of it exactly when nothing is cut off; it was then given every
\* file that is not a %ghost once, and of each set of hard links one with the content: the
\* first in rpm2archive, which links the others to it, and else the last (rpmfi.cc, cpio.cc).
PayloadReadBack ==
    /\ rc = "WRITE_FAILED" => room - cpio.off \in {0} \cup 0 .. (PadOf(cpio.off) - 1)
    /\ tell # 0 => tell = Max(Ends)
    /\ pc = "done" /\ tell # 0 => (rc = "ITER_END" <=> avail = Max(Ends))
    /\ pc = "entry" /\ HasContent(i) => cpio.end - cpio.off = File(i).size
    /\ pc = "done" /\ rc = "ITER_END" =>
          LET wanted == {f \in Fx : ~File(f).ghost /\ (itype = "OMIT_HARDLINKS" => Last(FLinks(f)) = f)}
              carrier(f) == IF itype = "CONTENT_FIRST" THEN FLinks(f)[1] ELSE Last(FLinks(f))
          IN /\ Len(got) = Cardinality(wanted) /\ {g.f : g \in Range(got)} = wanted
             /\ \A g \in Range(got) :
                   /\ Reg(g.f) /\ carrier(g.f) = g.f <=> g.kind # "name"
                   /\ itype = "CONTENT_FIRST" /\ carrier(g.f) # g.f => g.to = carrier(g.f)
             /\ \A m, n \in DOMAIN got :
                    m < n /\ FLinks(got[m].f) = FLinks(got[n].f) => got[m].f < got[n].f
=============================================================================
