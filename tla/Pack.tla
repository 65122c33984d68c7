-------------------------------- MODULE Pack ---------------------------------
(***************************************************************************)
(* writeRPM() of build/pack.cc: a package is written in the opposite order *)
(* of its layout.  Placeholders for the signature header and the main      *)
(* header go first, then the payload; the payload is read back for its     *)
(* digests, the main header is written again with them, header and payload *)
(* are read back for the digests of the signature header, and that is      *)
(* written last.  Any step can fail, and the file is removed then.         *)
(*                                                                         *)
(* The file is a sequence of cells.  A header is an intro cell that says   *)
(* how long it is, then one cell per 32-bit value and string and two per   *)
(* 64-bit value.  A compressed cell holds the cell of the archive it is    *)
(* made of.  A digest is the sequence of the cells it was fed.             *)
(***************************************************************************)
EXTENDS Integers, Sequences, FiniteSets, SequencesExt

CONSTANTS
    Files,          \* numbers of files a package may have
    Big,            \* cells from which a size needs 64 bits
    Reserved        \* cells of the signature header that are kept free

VARIABLES
    format, nfiles,
    pc,
    hdr,            \* pkg->header: tag -> values, of the tags writeRPM() adds
    file,           \* the cells on disk
    there,          \* the file exists
    dig,            \* digests of the descriptor: name -> cells fed so far
    alt,            \* what went into the compressor
    payloadStart, payloadEnd, hdrStart,
    rc

vars == <<format, nfiles, pc, hdr, file, there, dig, alt, payloadStart, payloadEnd, hdrStart, rc>>

Null == <<>>                                    \* nullDigest(), and a size of 0
V6 == format >= 6

\* the payload digests and sizes the main header has, in the order of their tags
HdrTags == IF V6 THEN <<"sha256", "sha256alt", "sha512", "sha512alt", "sha3", "sha3alt", "size", "sizealt">>
           ELSE <<"sha256", "sha256alt">>
PayloadDigests == {"sha256", "sha512", "sha3"}
Wide(tag) == tag \in {"size", "sizealt", "longsize", "longarchive"}

ValueCells(tag, v) == [i \in 1..(IF Wide(tag) THEN 2 ELSE 1) |-> [tag |-> tag, v |-> v]]
EntryCells(tag, values) == FlattenSeq([i \in DOMAIN values |-> ValueCells(tag, values[i])])
HeaderCells(tags, h) ==
    LET body == FlattenSeq([i \in DOMAIN tags |-> EntryCells(tags[i], h[tags[i]])])
    IN <<[tag |-> "intro", v |-> <<Len(body) + 1>>]>> \o body

WriteAt(pos, cells) ==
    [i \in 1..(IF pos + Len(cells) > Len(file) THEN pos + Len(cells) ELSE Len(file)) |->
        IF i > pos /\ i <= pos + Len(cells) THEN cells[i - pos] ELSE file[i]]

\* the next k cells of archive a, compressed
Compressed(a, k) ==
    [i \in 1..k |-> [tag |-> "z", v |-> a[Len(file) - payloadStart + i]]]

-----------------------------------------------------------------------------

Init ==
    /\ format \in {4, 6} /\ nfiles \in Files
    /\ pc = "begin" /\ hdr = <<>> /\ file = <<>> /\ there \in BOOLEAN
    /\ dig = <<>> /\ alt = <<>> /\ payloadStart = 0 /\ payloadEnd = 0 /\ hdrStart = 0
    /\ rc = "none"

\* any failure ends at exit:, where a file of that name is removed, ours or not
Fail(at) ==
    /\ pc = at
    /\ rc' = "fail" /\ pc' = "exit" /\ there' = FALSE
    /\ UNCHANGED <<format, nfiles, hdr, file, dig, alt, payloadStart, payloadEnd, hdrStart>>

\* dummies of the right size; checkForEncoding(); Fopen() and the lead
Begin ==
    /\ pc = "begin"
    /\ hdr' = [t \in ToSet(HdrTags) |-> <<Null>>]
    /\ file' = <<[tag |-> "lead", v |-> <<>>]>> /\ there' = TRUE
    /\ pc' = "sig0"
    /\ UNCHANGED <<format, nfiles, dig, alt, payloadStart, payloadEnd, hdrStart, rc>>

SpaceSame(large) == Reserved
\* 64-bit sizes take what they need more from the reserved space
Space(large) == IF large THEN Reserved - 2 ELSE Reserved

\* rpmGenerateSignature()
SigCells(sha, md5, size, asize) ==
    LET large == ~V6 /\ (size >= Big \/ asize >= Big)
        tags == IF V6 THEN <<"sha3hdr", "sha256hdr", "reserved">>
                ELSE <<"sha256hdr", "sha1hdr">> \o (IF large THEN <<"longsize", "longarchive">> ELSE <<"ssize", "asize">>)
                     \o <<"md5", "reserved">>
        Value(t) == CASE t \in {"sha3hdr", "sha256hdr", "sha1hdr"} -> <<sha>>
                      [] t = "md5" -> <<md5>>
                      [] t \in {"longsize", "ssize"} -> <<<<size>>>>
                      [] t \in {"longarchive", "asize"} -> <<<<asize>>>>
                      [] OTHER -> [i \in 1..Space(large) |-> <<>>]
    IN HeaderCells(tags, [t \in ToSet(tags) |-> Value(t)])

PlaceholderSig ==
    /\ pc = "sig0"
    /\ file' = file \o SigCells(Null, Null, 0, 0)
    /\ hdrStart' = Len(file')
    /\ pc' = "hdr0"
    /\ UNCHANGED <<format, nfiles, hdr, there, dig, alt, payloadStart, payloadEnd, rc>>

PlaceholderHdr ==
    /\ pc = "hdr0"
    /\ file' = file \o HeaderCells(HdrTags, hdr)
    /\ payloadStart' = Len(file')
    /\ pc' = "payload"
    /\ UNCHANGED <<format, nfiles, hdr, there, dig, alt, payloadEnd, hdrStart, rc>>

\* rpmPackageFilesArchive(): a file goes into the compressor, which writes what it has
\* when it likes and the rest when it is closed
ArchiveFile ==
    /\ pc = "payload" /\ Len(alt) < nfiles
    /\ alt' = Append(alt, [tag |-> "file", v |-> <<Len(alt) + 1>>])
    /\ \E k \in 0..(Len(alt') - (Len(file) - payloadStart)) : file' = file \o Compressed(alt', k)
    /\ UNCHANGED <<format, nfiles, pc, hdr, there, dig, payloadStart, payloadEnd, hdrStart, rc>>

\* the trailer, the uncompressed digests, and Fclose() of the compressor, whose result
\* nobody looks at: what it still held is written, or not all of it
CloseArchive ==
    /\ pc = "payload" /\ Len(alt) = nfiles
    /\ alt' = Append(alt, [tag |-> "trailer", v |-> <<>>])
    /\ \E k \in 0..(Len(alt') - (Len(file) - payloadStart)) : file' = file \o Compressed(alt', k)
    /\ payloadEnd' = Len(file')
    /\ pc' = "rehash"
    /\ UNCHANGED <<format, nfiles, hdr, there, dig, payloadStart, hdrStart, rc>>

\* fdConsume() of the payload, and the digests into the main header in place of the dummies
PayloadDigest ==
    /\ pc = "rehash"
    /\ LET payload == SubSeq(file, payloadStart + 1, payloadEnd)
           fed == [d \in PayloadDigests |-> payload]
           Value(t) == CASE t \in PayloadDigests -> fed[t]
                         [] t = "size" -> <<payloadEnd - payloadStart>>
                         [] t = "sizealt" -> <<Len(alt)>>
                         [] OTHER -> alt
       IN hdr' = [t \in DOMAIN hdr |-> <<Value(t)>>]
    /\ pc' = "hdr1"
    /\ UNCHANGED <<format, nfiles, file, there, dig, alt, payloadStart, payloadEnd, hdrStart, rc>>

FinalHdr ==
    /\ pc = "hdr1"
    /\ file' = WriteAt(hdrStart, HeaderCells(HdrTags, hdr))
    /\ pc' = "digest"
    /\ UNCHANGED <<format, nfiles, hdr, there, dig, alt, payloadStart, payloadEnd, hdrStart, rc>>

\* header digests end with the header; MD5, of v4, goes on over the payload
HeaderDigest ==
    /\ pc = "digest"
    /\ dig' = [d \in {"sha256hdr"} \cup (IF V6 THEN {} ELSE {"md5"}) |-> SubSeq(file, hdrStart + 1, payloadStart)]
    /\ pc' = "md5"
    /\ UNCHANGED <<format, nfiles, hdr, file, there, alt, payloadStart, payloadEnd, hdrStart, rc>>

RestDigest ==
    /\ pc = "md5"
    /\ LET rest == SubSeq(file, payloadStart + 1, payloadEnd)
       IN dig' = [d \in DOMAIN dig |-> IF d = "md5" THEN dig[d] \o rest ELSE dig[d]]
    /\ pc' = "sig1"
    /\ UNCHANGED <<format, nfiles, hdr, file, there, alt, payloadStart, payloadEnd, hdrStart, rc>>

FinalSig ==
    /\ pc = "sig1"
    /\ file' = WriteAt(1, SigCells(dig["sha256hdr"], IF V6 THEN Null ELSE dig["md5"],
                                   payloadEnd - hdrStart, Len(alt)))
    /\ rc' = "ok" /\ pc' = "exit"
    /\ UNCHANGED <<format, nfiles, hdr, there, dig, alt, payloadStart, payloadEnd, hdrStart>>

Steps == {"begin", "sig0", "hdr0", "payload", "rehash", "hdr1", "digest", "md5", "sig1"}

Next ==
    \/ Begin \/ PlaceholderSig \/ PlaceholderHdr \/ ArchiveFile \/ CloseArchive \/ PayloadDigest
    \/ FinalHdr \/ HeaderDigest \/ RestDigest \/ FinalSig
    \/ \E s \in Steps : Fail(s)
Spec == Init /\ [][Next]_vars

-----------------------------------------------------------------------------
(* a reader of the file, who knows nothing but what is in it *)

Written == pc = "exit" /\ rc = "ok"
ReadHeader(pos) ==
    IF pos <= Len(file) /\ file[pos].tag = "intro" THEN SubSeq(file, pos, pos + file[pos].v[1] - 1) ELSE <<>>
ReadSig == ReadHeader(2)
ReadHdr == ReadHeader(2 + Len(ReadSig))
ReadPayload == SubSeq(file, 2 + Len(ReadSig) + Len(ReadHdr), Len(file))
ReadArchive == [i \in DOMAIN ReadPayload |-> ReadPayload[i].v]
Says(h, tag, v) == \A i \in DOMAIN h : h[i].tag = tag => h[i].v = v

(* Whoever reads a package that was reported as written finds two headers  *)
(* and a payload, and every digest and size of a header, of the payload as *)
(* it is stored and of both is that of what is in the file, although each  *)
(* was computed from placeholders' offsets and written over them; and a    *)
(* package that was not is not there.  The digests and sizes of the        *)
(* uncompressed payload are those of what went into the compressor.  That  *)
(* is what comes out of the file, or, when closing the compressor failed,  *)
(* which is not reported, more than that: such a package is told by them   *)
(* and by nothing else.                                                    *)
PackageDescribesItself ==
    /\ Written =>
         /\ ReadSig # <<>> /\ ReadHdr # <<>>
         /\ \A t \in PayloadDigests : Says(ReadHdr, t, ReadPayload)
         /\ Says(ReadHdr, "size", <<Len(ReadPayload)>>)
         /\ Says(ReadSig, "sha256hdr", ReadHdr)
         /\ Says(ReadSig, "md5", ReadHdr \o ReadPayload)
         /\ \A t \in {"ssize", "longsize"} : Says(ReadSig, t, <<Len(ReadHdr) + Len(ReadPayload)>>)
         /\ LET archive == ReadHdr[CHOOSE i \in DOMAIN ReadHdr : ReadHdr[i].tag = "sha256alt"].v
            IN /\ IsPrefix(ReadArchive, archive)
               /\ archive = ReadArchive <=> ReadArchive # <<>> /\ Last(ReadArchive).tag = "trailer"
               /\ \A t \in {"sha512alt", "sha3alt"} : Says(ReadHdr, t, archive)
               /\ Says(ReadHdr, "sizealt", <<Len(archive)>>)
               /\ \A t \in {"asize", "longarchive"} : Says(ReadSig, t, <<Len(archive)>>)
    /\ pc = "exit" /\ rc # "ok" => ~there
=============================================================================
