-------------------------------- MODULE Header --------------------------------
(***************************************************************************)
(* Headers, lib/header.cc: the tags in memory, the blob they are exported  *)
(* to and imported from, and the immutable region in it that digests and   *)
(* signatures are made over.  A header is built, sealed and written to a   *)
(* package; read back, changed by an installation and written to the       *)
(* database; read from there again and changed in place.                   *)
(*                                                                         *)
(* Memory is counted in words of four bytes: an index entry has four of    *)
(* them, a 32-bit integer one and a 64-bit integer two, aligned to two.    *)
(* A string is a sequence of nonzero words with a zero after it.           *)
(***************************************************************************)
EXTENDS Integers, Sequences, FiniteSets, SequencesExt, FiniteSetsExt, Functions, TLC

CONSTANTS
    TagType,        \* tag -> its type, for the tags that are put
    Installed,      \* the tags that an installation adds
    Translated,     \* the tags with translations
    Values(_),      \* the values put in tags of a type
    Strings,        \* the strings they are translated with
    Locales,        \* the locales translated to, as sequences of their parts
    MaxOps          \* bound on the operations on a header

VARIABLES
    h,              \* the header
    phase,          \* where it is in its life
    want,           \* what was put in it: tag -> sequence of values
    said,           \* what was said of a tag in a locale: <<tag, locale>> -> string
    sealed,         \* the blob that was written to the package
    res,            \* what the last operation returned
    ops

vars == <<h, phase, want, said, sealed, res, ops>>

INT32 == 4
INT64 == 5
STR == 6
BIN == 7
STRARRAY == 8
I18N == 9
HEADERIMAGE == 61
HEADERIMMUTABLE == 63
I18NTABLE == 100
OLDFILENAMES == 1027
BASENAMES == 1117
EntrySize == 4
IsString(type) == type \in {STR, STRARRAY, I18N}

-----------------------------------------------------------------------------
(* Data of a tag *)

TypeSize(type) == IF type = INT64 THEN 2 ELSE 1
AlignDiff(type, n) == IF type = INT64 /\ n % 2 = 1 THEN 1 ELSE 0
Zeros(n) == [k \in 1..n |-> 0]

\* strtaglen(): to the end of the count-th string; 0 if there are not that many
StrTagLen(data, from, count) ==
    LET ends == SelectSeq([k \in 1..(Len(data) - from) |-> from + k], LAMBDA p : data[p] = 0)
    IN IF count \in DOMAIN ends THEN ends[count] - from ELSE 0
\* dataLength(); 0: it does not fit
DataLength(type, data, from, count) ==
    LET n == IF type = STR /\ count # 1 THEN 0
             ELSE IF IsString(type) THEN StrTagLen(data, from, count) ELSE TypeSize(type) * count
    IN IF from + n > Len(data) THEN 0 ELSE n

Encode(type, vals) ==
    IF IsString(type) THEN FlattenSeq([k \in DOMAIN vals |-> vals[k] \o <<0>>])
    ELSE IF type = INT64 THEN FlattenSeq([k \in DOMAIN vals |-> <<vals[k], vals[k] + 1>>])
    ELSE vals
Decode(type, count, data) ==
    IF IsString(type) THEN [k \in 1..count |-> SubSeq(data, (IF k = 1 THEN 0 ELSE StrTagLen(data, 0, k - 1)) + 1, StrTagLen(data, 0, k) - 1)]
    ELSE IF type = INT64 THEN [k \in 1..count |-> data[2 * k - 1]]
    ELSE SubSeq(data, 1, count)

\* between host and network order: its own inverse
Swab(type, words) ==
    CASE type = INT64 -> [k \in DOMAIN words |-> -words[IF k % 2 = 1 THEN k + 1 ELSE k - 1]]
      [] type = INT32 -> [k \in DOMAIN words |-> -words[k]]
      [] OTHER -> words
Replace(data, from, words) == SubSeq(data, 1, from) \o words \o SubSeq(data, from + Len(words) + 1, Len(data))

-----------------------------------------------------------------------------
(* The tags in memory.  A negative offset: in the region (the same as the  *)
(* region's own) or after it (one more); none: added since.                *)

IsRegion(e) == e.tag \in HEADERIMAGE..(I18NTABLE - 1)
InRegion(e) == e.off < 0
Entry(tag, type, count, data) == [tag |-> tag, type |-> type, off |-> 0, cnt |-> count, data |-> data, addr |-> 0, rdlen |-> 0, len |-> Len(data)]
ByTag(index) == SortSeq(index, LAMBDA a, b : a.tag < b.tag)
At(index, tag) == SelectInSeq(index, LAMBDA e : e.tag = tag)
Is(hdr, tag) == At(hdr.index, tag) # 0
Find(hdr, tag) == hdr.index[At(hdr.index, tag)]
Empty == [index |-> <<>>, blob |-> [pe |-> <<>>, data |-> <<>>], legacy |-> FALSE, ok |-> TRUE]

Del(index, tag) == SelectSeq(index, LAMBDA e : e.tag # tag)
AddEntry(hdr, tag, type, vals) ==
    [hdr EXCEPT !.index = ByTag(Append(@, Entry(tag, type, Len(vals), Encode(type, vals))))]
\* what is in a region is copied before it is changed
AppendEntry(hdr, tag, vals) ==
    LET k == At(hdr.index, tag) IN [hdr EXCEPT !.index[k].data = @ \o Encode(TagType[tag], vals), !.index[k].cnt = @ + Len(vals), !.index[k].off = 0,
                                               !.index[k].len = @ + Len(Encode(TagType[tag], vals))]
Mod(hdr, tag, vals) ==
    LET k == At(hdr.index, tag) IN [hdr EXCEPT !.index[k] = Entry(tag, @.type, Len(vals), Encode(@.type, vals))]

-----------------------------------------------------------------------------
(* regionSwab(): the entries of a blob, each with its length; data in the  *)
(* other byte order.  The lengths may be taken from the next offset.       *)

Length(pes, k, data, fast) ==
    IF fast /\ k < Len(pes) /\ IsString(pes[k].type) THEN pes[k + 1].off - pes[k].off
    ELSE DataLength(pes[k].type, data, pes[k].off, pes[k].cnt)
RegionSwab(pes, data, dl, fast) ==
    LET Step(acc, e, n) ==
            [ok |-> acc.ok /\ n > 0,
             data |-> Replace(acc.data, e.off, Swab(e.type, SubSeq(data, e.off + 1, e.off + n))),
             lens |-> Append(acc.lens, n),
             dl |-> acc.dl + AlignDiff(e.type, acc.dl) + n]
    IN FoldLeft(LAMBDA acc, k : Step(acc, pes[k], Length(pes, k, data, fast)),
                [ok |-> TRUE, data |-> data, lens |-> <<>>, dl |-> dl], [k \in DOMAIN pes |-> k])

Flat(pes) == FlattenSeq([k \in DOMAIN pes |-> <<pes[k].tag, pes[k].type, pes[k].off, pes[k].cnt>>])
Unflat(words) == [k \in 1..(Len(words) \div EntrySize) |->
                    [tag |-> words[4 * k - 3], type |-> words[4 * k - 2], off |-> words[4 * k - 1], cnt |-> words[4 * k]]]

-----------------------------------------------------------------------------
(* doExport() *)

ByAddress(s) == SortSeq(s, LAMBDA a, b : a.addr < b.addr)
Aligned(entries, dl) == FoldLeft(LAMBDA n, e : n + AlignDiff(e.type, n) + e.len, dl, entries)

Trailer(r) == <<r.tag, BIN, r.off - EntrySize, EntrySize>>
\* a header that had no region: one is made of all it had when it was read
LegacyRegion(hdr, r) ==
    [pe |-> <<[tag |-> r.tag, type |-> BIN, off |-> r.rdlen, cnt |-> EntrySize]>> \o hdr.blob.pe,
     data |-> SubSeq(hdr.blob.data, 1, r.rdlen) \o Trailer(r), want |-> r.rdlen + EntrySize]
\* the region and what was read after it go in as they are
OldRegion(hdr, r, dribbles) ==
    LET ril == (-r.off) \div EntrySize + Len(dribbles)
        drlen == Aligned(dribbles, r.rdlen + EntrySize) - r.rdlen - EntrySize
        src == Flat(hdr.blob.pe) \o hdr.blob.data
    IN [pe |-> <<[tag |-> r.tag, type |-> BIN, cnt |-> EntrySize, off |-> IF hdr.blob.pe[1].off # 0 THEN r.rdlen ELSE 0]>>
               \o Unflat(SubSeq(src, EntrySize + 1, EntrySize * ril)),
        data |-> SubSeq(src, EntrySize * ril + 1, EntrySize * ril + r.rdlen + EntrySize + drlen),
        want |-> r.rdlen + EntrySize + drlen]

\* then the tags added since, in the order of their numbers
AddDrip(b, e) ==
    LET pad == AlignDiff(e.type, Len(b.data))
    IN [b EXCEPT !.pe = Append(@, [tag |-> e.tag, type |-> e.type, off |-> Len(b.data) + pad, cnt |-> e.cnt]),
                 !.data = @ \o Zeros(pad) \o Swab(e.type, e.data)]

NoBlob == [ok |-> FALSE, pe |-> <<>>, data |-> <<>>]
Export(hdr) ==
    LET Dripped(index, region, swabbed) ==
            IF ~swabbed.ok \/ swabbed.dl # region.want THEN NoBlob
            ELSE FoldLeft(AddDrip, [ok |-> TRUE, pe |-> region.pe, data |-> swabbed.data],
                          SelectSeq(index, LAMBDA e : e.off = 0 /\ e.len > 0))
        WithRegion(index, region) == Dripped(index, region, RegionSwab(region.pe, region.data, 0, FALSE))
        Sorted(index) ==
            WithRegion(index,
                IF index = <<>> \/ ~IsRegion(index[1]) THEN [pe |-> <<>>, data |-> <<>>, want |-> 0]
                ELSE IF hdr.legacy THEN LegacyRegion(hdr, index[1])
                ELSE OldRegion(hdr, index[1], ByAddress(SelectSeq(index, LAMBDA e : e.off = index[1].off + 1))))
    IN Sorted(ByTag(hdr.index))

\* headerSizeof(), in words and without the magic
Sizeof(hdr) ==
    FoldLeft(LAMBDA n, e : IF IsRegion(e) THEN n + e.len + (IF hdr.legacy THEN EntrySize + e.cnt ELSE 0)
                           ELSE IF InRegion(e) THEN n ELSE n + AlignDiff(e.type, n) + EntrySize + e.len,
             2, ByTag(hdr.index))
BlobSize(blob) == 2 + EntrySize * Len(blob.pe) + Len(blob.data)

-----------------------------------------------------------------------------
(* hdrblobInit(), hdrblobImport() *)

\* hdrblobVerifyRegion(): the region tag, its trailer, and that both tell the same; none: no region
Region(blob) ==
    LET e == blob.pe[1]
        t == SubSeq(blob.data, e.off + 1, e.off + EntrySize)
        ril == (-t[3]) \div EntrySize
    IN IF blob.pe = <<>> THEN [ok |-> FALSE, tag |-> 0, ril |-> 0, rdl |-> 0]
       ELSE IF ~IsRegion(e) THEN [ok |-> TRUE, tag |-> 0, ril |-> 0, rdl |-> 0]
       ELSE IF e.type # BIN \/ e.cnt # EntrySize \/ e.off + EntrySize > Len(blob.data) \/ e.off < 0
            THEN [ok |-> FALSE, tag |-> 0, ril |-> 0, rdl |-> 0]
       ELSE [ok |-> t[1] = e.tag /\ t[2] = BIN /\ t[4] = EntrySize /\ (-t[3]) % EntrySize = 0 /\ ril \in 0..Len(blob.pe),
             tag |-> e.tag, ril |-> ril, rdl |-> e.off + EntrySize]

\* hdrblobVerifyInfo(): in order, apart, aligned, of the right type, and not in the trailer
EntryOk(blob, rgn, k, end) ==
    LET e == blob.pe[k]
        len == DataLength(e.type, blob.data, e.off, e.cnt)
    IN /\ end <= e.off /\ e.tag >= I18NTABLE /\ e.cnt >= 1 /\ e.off <= Len(blob.data)
       /\ e.type \in {INT32, INT64, STR, BIN, STRARRAY, I18N} /\ AlignDiff(e.type, e.off) = 0
       /\ (e.tag \in DOMAIN TagType /\ rgn.tag # 0 => e.type = TagType[e.tag])
       /\ len > 0
       /\ rgn.tag # 0 => ~(e.off + len > rgn.rdl - EntrySize /\ e.off < rgn.rdl)
VerifyInfo(blob, rgn) ==
    LET first == IF rgn.tag = 0 THEN 1 ELSE 2
        End(k) == IF k = first THEN 0 ELSE blob.pe[k - 1].off + DataLength(blob.pe[k - 1].type, blob.data, blob.pe[k - 1].off, blob.pe[k - 1].cnt)
    IN \A k \in first..Len(blob.pe) : EntryOk(blob, rgn, k, End(k))

Load(pes, sw, off, blob) ==
    [k \in DOMAIN pes |-> [tag |-> pes[k].tag, type |-> pes[k].type, off |-> off, cnt |-> pes[k].cnt, addr |-> pes[k].off, rdlen |-> 0,
                           data |-> SubSeq(blob.data, pes[k].off + 1, pes[k].off + sw.lens[k]), len |-> sw.lens[k]]]
ReplacedNone(index, dribbles) == index
\* what is after the region replaces what is in it, and file names in their new form the old one
Replaced(index, dribbles) ==
    SelectSeq(index, LAMBDA e : ~\E k \in DOMAIN dribbles :
                                    \/ dribbles[k].tag = e.tag
                                    \/ dribbles[k].tag = BASENAMES /\ e.tag = OLDFILENAMES)

BadHeader == [Empty EXCEPT !.ok = FALSE]
\* the header of a blob in host order; rid is the offset that stands for its region
Loaded(blob, host, inside, sw, after, sw2, rid, legacy) ==
    LET entry == [tag |-> IF legacy THEN HEADERIMAGE ELSE blob.pe[1].tag, type |-> BIN, off |-> rid, cnt |-> EntrySize, addr |-> 0,
                  rdlen |-> sw.dl, data |-> <<>>, len |-> EntrySize * Len(blob.pe) + Len(blob.data)]
        Index(dribbles) == ByTag(<<entry>> \o Replaced(Load(inside, sw, rid, host), dribbles) \o dribbles)
    IN IF ~sw.ok \/ ~sw2.ok \/ sw2.dl + (IF legacy THEN 0 ELSE EntrySize) # Len(blob.data) THEN BadHeader
       ELSE [index |-> Index(Load(after, sw2, rid + 1, host)), blob |-> host, legacy |-> legacy, ok |-> TRUE]
Import(blob, fast) ==
    LET Both(inside, sw, after, sw2, rid, legacy) ==
            Loaded(blob, [pe |-> blob.pe, data |-> sw2.data], inside, sw, after, sw2, rid, legacy)
        After(inside, sw, after, rid, legacy) ==
            Both(inside, sw, after, RegionSwab(after, sw.data, sw.dl, fast), rid, legacy)
        Inside(inside, after, rid, legacy) ==
            After(inside, RegionSwab(inside, blob.data, 0, fast), after, rid, legacy)
        Split(ril) == Inside(SubSeq(blob.pe, 2, ril), SubSeq(blob.pe, ril + 1, Len(blob.pe)), -EntrySize * ril, FALSE)
        Verified(rgn) ==
            IF ~blob.ok \/ ~rgn.ok \/ ~VerifyInfo(blob, rgn) THEN BadHeader
            ELSE IF rgn.tag = 0 THEN Inside(blob.pe, <<>>, -EntrySize * Len(blob.pe), TRUE)
            ELSE Split(IF blob.pe[1].off # 0 THEN rgn.ril ELSE Len(blob.pe))
    IN Verified(Region(blob))

\* headerReload(): with the region named
Reload(hdr, tag) ==
    LET Named(n) == IF n.ok THEN [n EXCEPT !.index[1].tag = tag] ELSE n IN Named(Import(Export(hdr), FALSE))

\* copyTdEntry() of the region: its entries and data, as they were read
Image(hdr) ==
    LET r == hdr.index[1]
        pes == SubSeq(hdr.blob.pe, 1, (-r.off) \div EntrySize)
        sw == RegionSwab(pes, SubSeq(hdr.blob.data, 1, r.rdlen + EntrySize), 0, FALSE)
    IN [pe |-> pes, data |-> sw.data]

Get(hdr, tag) == Decode(Find(hdr, tag).type, Find(hdr, tag).cnt, Find(hdr, tag).data)

-----------------------------------------------------------------------------
(* Translations *)

C == <<1>>
Table(hdr) == IF Is(hdr, I18NTABLE) THEN Get(hdr, I18NTABLE) ELSE <<>>
\* headerAddI18NString(): the table of locales is made or extended, then the string set at the
\* place of its locale, with empty ones before it where there were none.  To replace a string the
\* code walks over as many strings as there are locales, beyond the end of a tag that has fewer;
\* what it finds there is copied after the new value and never looked at
AddI18NString(hdr, tag, string, lang) ==
    LET Set(full, new) ==
            IF ~Is(full, tag) THEN [hdr |-> AddEntry(full, tag, I18N, new), rc |-> 1]
            ELSE [hdr |-> [full EXCEPT !.index[At(full.index, tag)] = Entry(tag, I18N, Len(new), Encode(I18N, new))], rc |-> 0]
        String(full, langNum, old) ==
            Set(full, [k \in 1..Max({langNum, Len(old)}) |->
                         IF k = langNum THEN string ELSE IF k \in DOMAIN old THEN old[k] ELSE <<>>])
        Full(full) == String(full, SelectInSeq(Table(full), LAMBDA l : l = lang), IF Is(full, tag) THEN Get(full, tag) ELSE <<>>)
        Extended(made, table) ==
            IF \E k \in DOMAIN table : table[k] = lang THEN made
            ELSE [made EXCEPT !.index[At(made.index, I18NTABLE)] =
                    Entry(I18NTABLE, STRARRAY, Len(table) + 1, Encode(STRARRAY, Append(table, lang)))]
        Made(made) == Full(Extended(made, Table(made)))
    IN Made(IF Is(hdr, I18NTABLE) THEN hdr ELSE AddEntry(hdr, I18NTABLE, STRARRAY, IF lang = C THEN <<C>> ELSE <<C, lang>>))

\* headerMatchLocale(): 1 good, 2 weak.  A locale is a language and then, each if it is there, a
\* country, a codeset and a dialect, told apart by their numbers
Country == 10..19
Codeset == 20..29
Dialect == 30..39
Cut(l, kind) == LET k == SelectInSeq(l, LAMBDA p : p \in kind) IN IF k = 0 THEN <<>> ELSE SubSeq(l, 1, k - 1)
Begins(td, cut) == cut # <<>> /\ IsPrefix(cut, td)
MatchLocale(td, l) ==
    IF td = l \/ Begins(td, Cut(l, Dialect)) \/ Begins(td, Cut(l, Codeset)) THEN 1
    ELSE IF Begins(td, Cut(l, Country)) THEN 2 ELSE 0
\* copyI18NEntry(): the first good match, else the last weak one, else the first string
Localized(hdr, tag, l) ==
    LET Chosen(strings, good, weak) ==
            IF good # <<>> THEN strings[good[1]] ELSE IF weak # <<>> THEN strings[Last(weak)] ELSE strings[1]
        Of(strings, table) ==
            LET Matching(m) == SelectSeq([k \in 1..Min({Len(strings), Len(table)}) |-> k], LAMBDA k : MatchLocale(table[k], l) = m)
            IN Chosen(strings, Matching(1), Matching(2))
    IN Of(Get(hdr, tag), Table(hdr))

-----------------------------------------------------------------------------

Init ==
    /\ h = Empty /\ phase = "build" /\ want = <<>> /\ said = <<>>
    /\ sealed = NoBlob /\ res = 1 /\ ops = 0

Count == ops < MaxOps /\ ops' = ops + 1
Puttable == IF phase = "build" THEN DOMAIN TagType \ (Installed \cup Translated) ELSE Installed

Put(tag, vals) ==
    /\ Count /\ phase \in {"build", "package"} /\ tag \in Puttable /\ ~Is(h, tag)
    /\ h' = AddEntry(h, tag, TagType[tag], vals) /\ want' = want @@ (tag :> vals) /\ res' = 1
    /\ UNCHANGED <<phase, said, sealed>>
\* HEADERPUT_APPEND
PutMore(tag, vals) ==
    /\ Count /\ phase \in {"build", "package"} /\ Is(h, tag) /\ tag \in Puttable /\ TagType[tag] \notin {STR, I18N}
    /\ h' = AppendEntry(h, tag, vals) /\ want' = [want EXCEPT ![tag] = @ \o vals] /\ res' = 1
    /\ UNCHANGED <<phase, said, sealed>>
Delete(tag) ==
    /\ Count /\ phase = "build" /\ Is(h, tag) /\ tag \in DOMAIN want
    /\ h' = [h EXCEPT !.index = Del(@, tag)] /\ want' = Restrict(want, DOMAIN want \ {tag}) /\ res' = 0
    /\ UNCHANGED <<phase, said, sealed>>
Translate(tag, string, lang) ==
    /\ Count /\ phase = "build"
    /\ \E r \in {AddI18NString(h, tag, string, lang)} : h' = r.hdr /\ res' = r.rc
    /\ said' = (<<tag, lang>> :> string) @@ said
    /\ UNCHANGED <<phase, want, sealed>>
\* the tags of a package that a relocation changes
Change(tag, vals) ==
    /\ Count /\ phase = "package" /\ tag \in DOMAIN TagType \ (Installed \cup Translated) /\ Is(h, tag)
    /\ h' = Mod(h, tag, vals) /\ want' = [want EXCEPT ![tag] = vals] /\ res' = 1
    /\ UNCHANGED <<phase, said, sealed>>
\* a state of a file, changed in the memory of the header
SetInPlace(tag, v) ==
    /\ Count /\ phase = "db" /\ tag \in Installed /\ Is(h, tag) /\ TagType[tag] = BIN
    /\ LET k == At(h.index, tag)
       IN h' = [h EXCEPT !.index[k].data[1] = v, !.blob.data = Replace(@, h.index[k].addr, <<v>>)]
    /\ want' = [want EXCEPT ![tag][1] = v] /\ res' = 1
    /\ UNCHANGED <<phase, said, sealed>>

\* writeHdr(): sealed, written, and read by whoever has the package
WritePackage ==
    /\ phase = "build" /\ h.index # <<>> /\ phase' = "package"
    /\ \E blob \in {Export(Reload(h, HEADERIMMUTABLE))} : sealed' = blob /\ h' = Import(blob, FALSE)
    /\ UNCHANGED <<want, said, res, ops>>
\* rpmdbAdd(), rpmdbNextIterator(): written to the database and read from it
WriteDb ==
    /\ phase \in {"package", "db"} /\ h.ok /\ h' = Import(Export(h), TRUE) /\ phase' = "db"
    /\ UNCHANGED <<want, said, sealed, res, ops>>

Next ==
    \/ \E tag \in DOMAIN TagType \ Translated : \E vals \in Values(TagType[tag]) : Put(tag, vals) \/ PutMore(tag, vals) \/ Change(tag, vals)
    \/ \E tag \in DOMAIN TagType : Delete(tag)
    \/ \E tag \in Translated, string \in Strings, lang \in Locales : Translate(tag, string, lang)
    \/ \E tag \in Installed, v \in {5, 6} : SetInPlace(tag, v)
    \/ WritePackage \/ WriteDb
Spec == Init /\ [][Next]_vars

-----------------------------------------------------------------------------

(* What was put in a header is what it holds, through every write to a     *)
(* package or to the database and every read: none of them fails, a value  *)
(* changed since the package was read takes the place of the one in the    *)
(* region, and nothing else comes back (doExport, hdrblobImport); a string *)
(* is found under its own locale, whatever was translated after it.        *)
HeaderKeepsValues ==
    /\ h.ok
    /\ \A tag \in DOMAIN TagType \ Translated :
         Is(h, tag) = (tag \in DOMAIN want) /\ (Is(h, tag) => Get(h, tag) = want[tag])
    /\ \A p \in DOMAIN said : Localized(h, p[1], p[2]) = said[p]

(* The region that the digests and signatures of a package are made over   *)
(* is, word for word, what the package had, whatever an installation adds  *)
(* or changes and however often the header goes through the database.      *)
RegionImmutable ==
    phase # "build" => Image(h) = [pe |-> sealed.pe, data |-> sealed.data]

(* headerSizeof() is the size of the exported blob, though it goes by the  *)
(* tags in their order and never looks at the region.                      *)
SizeofExact == Sizeof(h) = BlobSize(Export(h))
===============================================================================
