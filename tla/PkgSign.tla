-------------------------------- MODULE PkgSign --------------------------------
(***************************************************************************)
(* Signing packages, sign/rpmgensig.cc, and verifying their digests and    *)
(* signatures, lib/rpmvs.cc with rpmpkgRead() of lib/rpmchecksig.cc.  A    *)
(* package file is a lead, a signature header, a header and a payload;     *)
(* rpmsign replaces the signature header, in place where the space it      *)
(* keeps in reserve allows, and otherwise by a copy of the file.           *)
(*                                                                         *)
(* A digest or a signature is what it was made over: it verifies if that   *)
(* is still what the file has.  A digest that was made over the            *)
(* uncompressed payload never matches the one in the file.                 *)
(***************************************************************************)
EXTENDS Integers, Sequences, FiniteSets, SequencesExt, FiniteSetsExt, TLC

CONSTANTS
    Keys,           \* key -> [algo, ver, len]: its algorithm, the version and length of its signatures
    Packages,       \* the packages as they are built
    SignFlags,      \* the sets of flags signed with
    VSFlags,        \* the sets of checks that are disabled
    MaxOps          \* bound on the signings, and on those with damage before them

VARIABLES
    rpm,            \* the file
    tmp,            \* the file that is to replace it
    pc, op,         \* rpmSign() and what it was called for
    new,            \* the signature header it has made
    res,            \* what it returned
    unsaid,         \* whether it failed to make a signature and went on
    lost,           \* the rename failed after the file was removed
    ops, damaged

vars == <<rpm, tmp, pc, op, new, res, unsaid, lost, ops, damaged>>

H == "HEADER"
P == "PAYLOAD"
DIGEST == "DIGEST"
SIGNATURE == "SIGNATURE"

-----------------------------------------------------------------------------
(* rpmvfyitems: what can be checked.  "sigh": it is in the signature       *)
(* header; "num": its number there                                         *)

Item(tag, num, type, disabler, range) == [tag |-> tag, num |-> num, type |-> type, disabler |-> disabler, range |-> range, sigh |-> num > 0]
Items == <<
    Item("OPENPGP", 278, SIGNATURE, "NOOPENPGP", {H}),
    Item("PGP", 1002, SIGNATURE, "NORSA", {H, P}),
    Item("MD5", 1004, DIGEST, "NOMD5", {H, P}),
    Item("GPG", 1005, SIGNATURE, "NODSA", {H, P}),
    Item("DSA", 267, SIGNATURE, "NODSAHEADER", {H}),
    Item("RSA", 268, SIGNATURE, "NORSAHEADER", {H}),
    Item("SHA1", 269, DIGEST, "NOSHA1HEADER", {H}),
    Item("SHA256", 273, DIGEST, "NOSHA256HEADER", {H}),
    Item("SHA3_256", 279, DIGEST, "NOSHA3_256HEADER", {H}),
    Item("PAYLOADSHA256", 0, DIGEST, "NOSHA256PAYLOAD", {P}),
    Item("PAYLOADSHA256ALT", 0, DIGEST, "NOSHA256PAYLOAD", {P}),
    Item("PAYLOADSHA512", 0, DIGEST, "NOSHA512PAYLOAD", {P}),
    Item("PAYLOADSHA512ALT", 0, DIGEST, "NOSHA512PAYLOAD", {P}),
    Item("PAYLOADSHA3_256", 0, DIGEST, "NOSHA3_256PAYLOAD", {P}),
    Item("PAYLOADSHA3_256ALT", 0, DIGEST, "NOSHA3_256PAYLOAD", {P}) >>

Tags(f, item) == IF item.sigh THEN f.sig ELSE f.tags
Has(tags, tag) == tag \in DOMAIN tags
\* what a digest or signature of a range is made over
Over(f, range) == [p \in range |-> IF p = H THEN f.hdr ELSE f.pay]

Disabled(item, flags) == item.disabler \in flags \/ ("NEEDPAYLOAD" \in flags /\ P \in item.range)

\* rpmvsAppend(), rpmsinfoInit(): one for each value of the tag; one that is not found, if there is none
Found(item, k, v) == [item |-> item, ix |-> k, v |-> v, rc |-> IF v.form THEN "OK" ELSE "FAIL"]
NotFound(item) == [item |-> item, ix |-> 0, v |-> [form |-> FALSE], rc |-> "NOTFOUND"]
AppendTag(vs, f, item) ==
    IF Disabled(item, vs.flags) THEN vs
    ELSE IF ~Has(Tags(f, item), item.tag) THEN [vs EXCEPT !.sigs = Append(@, NotFound(item))]
    ELSE LET values == Tags(f, item)[item.tag]
             v6 == item.tag = "OPENPGP" /\ \E k \in DOMAIN values : values[k].form
         IN [sigs |-> vs.sigs \o [k \in DOMAIN values |-> Found(item, k, values[k])],
             flags |-> IF v6 THEN vs.flags \cup {"NODSAHEADER", "NORSAHEADER", "NODSA", "NORSA"} ELSE vs.flags]

\* rpmvsInit(), then the tags of the header as rpmpkgRead() fishes for them
Legacy(f) == Has(f.sig, "RESERVED") /\ Has(f.sig, "SHA3_256")
Checks(f, flags) ==
    FoldLeft(LAMBDA vs, item : IF Legacy(f) /\ item.num >= 1000 THEN vs ELSE AppendTag(vs, f, item),
             [sigs |-> <<>>, flags |-> flags], Items)

\* rpmvsRange(): whether rpmpkgRead() reads the payload as well
PayloadRead(vs) == \E k \in DOMAIN vs.sigs : ~Disabled(vs.sigs[k].item, vs.flags) /\ P \in vs.sigs[k].item.range

\* verifyDigest(), verifySignature(): with the keys of a keyring
VerifyOne(f, s, keyring) ==
    IF s.item.type = SIGNATURE /\ s.v.key \notin keyring THEN "NOKEY"
    ELSE IF s.v.over = Over(f, s.item.range) THEN "OK" ELSE "FAIL"

\* sinfoCmp(): by range, and signatures before digests
Sorted(sigs) ==
    LET Group(range, type) == SelectSeq(sigs, LAMBDA s : s.item.range = range /\ s.item.type = type)
        Ranged(range) == Group(range, SIGNATURE) \o Group(range, DIGEST)
    IN Ranged({H}) \o Ranged({P}) \o Ranged({H, P})

\* the first loop of rpmvsVerify(): what is found to be right, of each type.  A digest of a signed
\* header is as good as a signature
Verified(f, sigs, types, keyring, read) ==
    FoldLeft(LAMBDA acc, s :
        IF s.item.type \notin types \/ s.rc # "OK" \/ (P \in s.item.range /\ ~read) THEN [acc EXCEPT !.sigs = Append(@, s)]
        ELSE LET rc == VerifyOne(f, s, keyring)
                 strength == IF ~s.item.sigh /\ H \in acc.ok[SIGNATURE] THEN SIGNATURE ELSE s.item.type
             IN [sigs |-> Append(acc.sigs, [s EXCEPT !.rc = rc]),
                 ok |-> [t \in {DIGEST, SIGNATURE} |-> acc.ok[t] \cup IF rc = "OK" /\ t \in {s.item.type, strength} THEN s.item.range ELSE {}]],
      [sigs |-> <<>>, ok |-> [t \in {DIGEST, SIGNATURE} |-> {}]], sigs)

\* getAlt(): another with the same disabler
Alt(sigs, k) == SelectInSeq(sigs, LAMBDA s : s.item.disabler = sigs[k].item.disabler /\ <<s.item.tag, s.ix>> # <<sigs[k].item.tag, sigs[k].ix>>)
Forgiven(sigs, k) ==
    sigs[k].item.type = DIGEST /\ sigs[k].rc = "FAIL" /\ Alt(sigs, k) # 0 /\ sigs[Alt(sigs, k)].rc = "OK"
\* vfyCb() of a transaction: a missing key is no failure where no signature is required
Installable(rc, level, installing) == IF installing /\ rc = "NOKEY" /\ SIGNATURE \notin level THEN "OK" ELSE rc

CoveredAny(ok, range, type) == ok[type] # {}
Covered(ok, range, type) == ok[type] = range

\* rpmpkgRead() and the first loop of rpmvsVerify()
Results(f, flags, types, keyring) ==
    LET Of(vs) == Verified(f, Sorted(vs.sigs), types, keyring, PayloadRead(vs)) IN Of(Checks(f, flags))
\* the second: the types that failed.  Whatever is signed has to be signed as a whole
Failed(v, level, types, installing) ==
    LET range == UNION ({v.sigs[k].item.range : k \in {n \in DOMAIN v.sigs : v.sigs[n].item.type \in types}}
                        \cup (IF level # {} THEN {{H, P}} ELSE {}))
        all == level \cup (IF v.ok[SIGNATURE] # {} THEN {SIGNATURE} ELSE {})
        bad == {k \in DOMAIN v.sigs : /\ Installable(v.sigs[k].rc, level, installing) \in {"FAIL", "NOKEY"}
                                      /\ ~Forgiven(v.sigs, k)}
    IN {v.sigs[k].item.type : k \in bad} \cup {t \in all : ~Covered(v.ok, range, t)}
Both == {DIGEST, SIGNATURE}
\* rpmReadPackageFile(), headerCheck(): the worst of the results, the payload being left alone.  A
\* header is handed out unless that is FAIL
ReadRC(f, flags, keyring) ==
    LET Worst(rcs) == IF "FAIL" \in rcs THEN "FAIL" ELSE IF "NOKEY" \in rcs THEN "NOKEY" ELSE "OK"
        Of(sigs) == Worst({sigs[k].rc : k \in {n \in DOMAIN sigs : ~Forgiven(sigs, n)}})
    IN Of(Results(f, flags \cup {"NEEDPAYLOAD"}, Both, keyring).sigs)
Verify(f, level, keyring) == Failed(Results(f, {}, Both, keyring), level, Both, FALSE)

-----------------------------------------------------------------------------
(* The signature header and its size                                       *)

Numbers == [tag \in {Items[k].tag : k \in {n \in DOMAIN Items : Items[n].sigh}} |->
              LET k == SelectInSeq(Items, LAMBDA i : i.tag = tag) IN Items[k].num]
           @@ ("SIZE" :> 1000) @@ ("PAYLOADSIZE" :> 1007) @@ ("RESERVEDSPACE" :> 1008) @@ ("RESERVED" :> 999)
ByNumber(tags) ==
    SortSeq(FoldSet(LAMBDA t, s : Append(s, t), <<>>, tags), LAMBDA a, b : Numbers[a] < Numbers[b])
AlignDiff(tag, n) == IF tag \in {"SIZE", "PAYLOADSIZE"} THEN (4 - (n % 4)) % 4 ELSE 0
Length(values) == FoldLeft(LAMBDA n, v : n + v.len, 0, values)
\* headerSizeof(): magic and counts; with a region, its entry and its trailer
Sizeof(sig) == FoldLeft(LAMBDA n, tag : n + AlignDiff(tag, n) + 16 + Length(sig[tag]), 16, ByNumber(DOMAIN sig))
Region == 32
Pad(n) == n + ((8 - (n % 8)) % 8)
\* the header of a file is where the reader of the signature header gets to
Readable(f) == ~f.torn /\ f.start = Pad(Sizeof(f.sig) + Region)

-----------------------------------------------------------------------------
(* rpmSign() *)

NoFile == [there |-> FALSE, torn |-> FALSE, fmt |-> 0, sig |-> <<>>, tags |-> <<>>, hdr |-> "", pay |-> "", start |-> 0]
NoOp == [deleting |-> FALSE, flags |-> {}, key |-> ""]

Init ==
    /\ rpm \in Packages /\ tmp = NoFile /\ pc = "idle" /\ op = NoOp /\ new = <<>> /\ res = 0
    /\ unsaid = FALSE /\ lost = FALSE /\ ops = 0 /\ damaged = FALSE

Del(sig, tags) == [t \in DOMAIN sig \ tags |-> sig[t]]
SigTags == {"GPG", "PGP", "DSA", "RSA", "OPENPGP"}
MakeSignature(key, f, range) == [key |-> key, over |-> Over(f, range), form |-> TRUE, len |-> Keys[key].len]

\* putSignature(): "added" 0, "identical" 1, "legacy" 2, "error" -1
HaveSignature(sig, tag, s) == Has(sig, tag) /\ \E k \in DOMAIN sig[tag] : sig[tag][k].key = s.key
PutMulti(sig, s) ==
    IF HaveSignature(sig, "OPENPGP", s) THEN [rc |-> 1, sig |-> sig]
    ELSE [rc |-> 0, sig |-> ("OPENPGP" :> Append(IF Has(sig, "OPENPGP") THEN sig["OPENPGP"] ELSE <<>>, s)) @@ sig]
PutLegacy(sig, s, ishdr, flags) ==
    LET tag == CASE Keys[s.key].algo = "RSA" -> IF ishdr THEN "RSA" ELSE "PGP"
                 [] Keys[s.key].algo = "DSA" -> IF ishdr THEN "DSA" ELSE "GPG"
                 [] OTHER -> ""
        v6 == "RPMV6" \in flags
        have == IF ishdr THEN Has(sig, "RSA") \/ Has(sig, "DSA") ELSE Has(sig, "PGP") \/ Has(sig, "GPG")
    IN IF tag = "" \/ Keys[s.key].ver > 4 THEN [rc |-> IF v6 THEN 0 ELSE -1, sig |-> sig]
       ELSE IF HaveSignature(sig, tag, s) THEN [rc |-> IF v6 THEN 0 ELSE 1, sig |-> sig]
       ELSE IF have THEN [rc |-> IF v6 THEN 0 ELSE 2, sig |-> sig]
       ELSE [rc |-> 0, sig |-> (tag :> <<s>>) @@ sig]

\* addSignature(); made: how often the signing command succeeds.  A v3 signature that cannot be
\* made leaves the result of the v4 one
AddSignature(sig, f, key, flags, made) ==
    LET s4 == MakeSignature(key, f, {H})
        V3(r4) == IF r4.rc # 0 \/ ~{"RPMV4", "RPMV3"} \subseteq flags THEN r4
                  ELSE IF made = 1 THEN [rc |-> 0, sig |-> r4.sig]
                  ELSE PutLegacy(r4.sig, MakeSignature(key, f, {H, P}), FALSE, flags)
        V4(r6) == IF r6.rc # 0 THEN r6
                  ELSE V3(IF "RPMV4" \in flags THEN PutLegacy(r6.sig, s4, TRUE, flags) ELSE r6)
    IN IF made = 0 THEN [rc |-> -1, sig |-> sig]
       ELSE V4(IF "RPMV6" \in flags THEN PutMulti(sig, s4) ELSE [rc |-> 0, sig |-> sig])

\* the flags that the format of the package adds
Flags(f, flags) ==
    IF f.fmt >= 6 THEN (flags \cup {"RPMV6"}) \ {"RPMV3"}
    ELSE flags \cup {"RPMV4"} \cup (IF Has(f.tags, "PAYLOADSHA256") \/ Has(f.tags, "PAYLOADSHA256ALT") THEN {} ELSE {"RPMV3"})

OrigSizeWhole(f) == Sizeof(f.sig) + Region
\* headerSizeof() of the header as it was read, without what the region takes
OrigSize(f) == OrigSizeWhole(f) - 32

\* the space in reserve is adjusted; where it is, the signature header keeps its size
ReserveTag(f) == IF f.fmt >= 6 THEN "RESERVED" ELSE "RESERVEDSPACE"
Adjust(f, sig) ==
    LET By(t, diff) ==
            IF Has(sig, t) /\ (diff > 0 \/ (diff < 0 /\ -diff < Length(sig[t])))
            THEN [ins |-> TRUE, sig |-> [sig EXCEPT ![t] = <<[len |-> Length(@) + diff, form |-> TRUE]>>]]
            ELSE [ins |-> FALSE, sig |-> sig]
    IN By(ReserveTag(f), OrigSize(f) - Sizeof(sig))

End(rc) == pc' = "done" /\ res' = rc
\* checkPkg(): every digest of the whole package has to be right
Intact(f) == f.there /\ Readable(f) /\ Failed(Results(f, {}, {DIGEST}, {}), {DIGEST}, {DIGEST}, FALSE) = {}

Continue(sig) ==
    \E a \in {Adjust(rpm, sig)} : new' = a.sig /\ pc' = IF a.ins THEN "insert" ELSE "mktemp"

Sign(key, flags, resign, made) ==
    /\ pc = "idle" /\ ops < MaxOps /\ ops' = ops + 1
    /\ op' = [deleting |-> FALSE, flags |-> Flags(rpm, flags), key |-> key]
    /\ \E intact \in {Intact(rpm)},
          r \in {AddSignature(IF resign THEN Del(rpm.sig, SigTags) ELSE rpm.sig, rpm, key, Flags(rpm, flags), made)} :
          /\ IF ~intact THEN End(-1) /\ new' = <<>>
             ELSE IF r.rc # 0 THEN End(IF r.rc = 1 THEN 0 ELSE -1) /\ new' = <<>>
             ELSE Continue(r.sig) /\ UNCHANGED res
          /\ unsaid' = (unsaid \/ (intact /\ r.rc = 0 /\ made = 1 /\ {"RPMV4", "RPMV3"} \subseteq Flags(rpm, flags)))
    /\ UNCHANGED <<rpm, tmp, lost, damaged>>

DelSign ==
    /\ pc = "idle" /\ ops < MaxOps /\ ops' = ops + 1
    /\ op' = [NoOp EXCEPT !.deleting = TRUE] /\ UNCHANGED unsaid
    /\ IF Intact(rpm) THEN Continue(Del(rpm.sig, SigTags)) /\ UNCHANGED res
       ELSE End(-1) /\ new' = <<>>
    /\ UNCHANGED <<rpm, tmp, lost, damaged>>

\* rpmWriteSignature() over the old one; it may stop on the way
InsertBegin == pc = "insert" /\ pc' = "inserting" /\ rpm' = [rpm EXCEPT !.torn = TRUE] /\ UNCHANGED <<tmp, op, new, res, unsaid, lost, ops, damaged>>
InsertEnd ==
    /\ pc = "inserting" /\ UNCHANGED <<tmp, op, new, unsaid, lost, ops, damaged>>
    /\ \/ rpm' = [rpm EXCEPT !.torn = FALSE, !.sig = new] /\ End(0)
       \/ UNCHANGED rpm /\ End(-1)

\* a copy with the new signature header; what has been copied goes when it fails
MkTemp == pc = "mktemp" /\ pc' = "copy" /\ tmp' = [NoFile EXCEPT !.there = TRUE, !.torn = TRUE] /\ UNCHANGED <<rpm, op, new, res, unsaid, lost, ops, damaged>>
CopyFile ==
    /\ pc = "copy" /\ UNCHANGED <<rpm, op, new, unsaid, lost, ops, damaged>>
    /\ \/ tmp' = [rpm EXCEPT !.sig = new, !.start = Pad(Sizeof(new) + Region)] /\ pc' = "unlink" /\ UNCHANGED res
       \/ tmp' = NoFile /\ End(-1)
Unlink ==
    /\ pc = "unlink" /\ UNCHANGED <<op, new, unsaid, lost, ops, damaged>>
    /\ \/ rpm' = NoFile /\ pc' = "rename" /\ UNCHANGED <<tmp, res>>
       \/ tmp' = NoFile /\ End(-1) /\ UNCHANGED rpm
Rename ==
    /\ pc = "rename" /\ UNCHANGED <<op, new, unsaid, ops, damaged>>
    /\ \/ rpm' = tmp /\ tmp' = NoFile /\ (End(0) \/ End(-1)) /\ UNCHANGED lost
       \/ tmp' = NoFile /\ End(-1) /\ lost' = TRUE /\ UNCHANGED rpm

\* the next signing makes a copy under another name
Return ==
    /\ pc = "done" /\ pc' = "idle" /\ op' = NoOp /\ new' = <<>> /\ res' = 0 /\ tmp' = IF rpm.there THEN NoFile ELSE tmp
    /\ UNCHANGED <<rpm, unsaid, lost, ops, damaged>>
Killed ==
    /\ pc \notin {"idle", "done"} /\ pc' = "done" /\ res' = -1
    /\ UNCHANGED <<rpm, tmp, op, new, unsaid, lost, ops, damaged>>

\* the file is damaged: in the header, in the payload or in a value of the signature header
Damage ==
    /\ pc = "idle" /\ rpm.there /\ ~rpm.torn /\ ~damaged /\ damaged' = TRUE
    /\ \/ rpm' = [rpm EXCEPT !.hdr = "damaged"]
       \/ rpm' = [rpm EXCEPT !.pay = "damaged"]
       \/ \E t \in DOMAIN rpm.sig \cap {Items[k].tag : k \in DOMAIN Items} :
            \/ rpm' = [rpm EXCEPT !.sig[t][1].form = FALSE]
            \/ rpm' = [rpm EXCEPT !.sig[t][1].over = [p \in DOMAIN @ |-> "?"]]
    /\ UNCHANGED <<tmp, pc, op, new, res, unsaid, lost, ops>>

Next ==
    \/ \E key \in DOMAIN Keys, flags \in SignFlags, resign \in BOOLEAN, made \in 0..2 : Sign(key, flags, resign, made)
    \/ DelSign \/ InsertBegin \/ InsertEnd \/ MkTemp \/ CopyFile \/ Unlink \/ Rename \/ Return \/ Killed \/ Damage
Spec == Init /\ [][Next]_vars

-----------------------------------------------------------------------------

Levels == SUBSET {DIGEST, SIGNATURE}
Built == \E f \in Packages : f.hdr = rpm.hdr /\ f.pay = rpm.pay
Signers(f) == {k \in DOMAIN Keys : \E t \in SigTags \cap DOMAIN f.sig : \E n \in DOMAIN f.sig[t] : f.sig[t][n].key = k}
\* the keys whose signatures cover the header and, themselves or by a digest in it, the payload
Vouches(f, key) ==
    LET Good(t, range) == Has(f.sig, t) /\ \E n \in DOMAIN f.sig[t] : LET s == f.sig[t][n] IN s.form /\ s.key = key /\ s.over = Over(f, range)
    IN \/ Good("PGP", {H, P}) \/ Good("GPG", {H, P})
       \/ /\ Good("OPENPGP", {H}) \/ Good("RSA", {H}) \/ Good("DSA", {H})
          /\ DOMAIN f.tags # {}

HeaderDigests == SelectSeq(Items, LAMBDA i : i.type = DIGEST /\ i.range = {H})

(* A package that passes verification at a level above none is the one     *)
(* that was built, in its header and its payload, whichever checks were    *)
(* disabled and whatever keys there are; and where a signature is required *)
(* there is a key of the keyring whose signature vouches for all of it     *)
(* (rpmvsVerify: what is verified has to cover the range).  A header that  *)
(* is handed out by a read that leaves the payload alone is the one built, *)
(* if there is a digest of it that is not disabled.                        *)
VerifiedIsWhole ==
    pc = "idle" /\ rpm.there /\ Readable(rpm) =>
    \A flags \in VSFlags, keyring \in SUBSET DOMAIN Keys :
    /\ \A v \in {Results(rpm, flags, Both, keyring)} :
       \A level \in Levels \ {{}}, installing \in BOOLEAN :
          Failed(v, level, Both, installing) = {} =>
            Built /\ (SIGNATURE \in level => \E key \in keyring : Vouches(rpm, key))
    /\ ReadRC(rpm, flags, keyring) # "FAIL"
       /\ (\E k \in DOMAIN HeaderDigests : Has(rpm.sig, HeaderDigests[k].tag) /\ HeaderDigests[k].disabler \notin flags)
          => \E f \in Packages : f.hdr = rpm.hdr

(* rpmsign that succeeds leaves a package that verifies: its digests, and  *)
(* after a signature was added every level, by whoever has the keys.  Two  *)
(* cases are apart: a v3 signature that failed to be made, and a package   *)
(* without a payload digest that has a v6 signature, for which the v3 one  *)
(* is not looked at (rpmvsAppend).                                         *)
SignedVerifies ==
    pc = "done" /\ res = 0 /\ ~damaged /\ ~unsaid /\ (Has(rpm.sig, "OPENPGP") => DOMAIN rpm.tags # {}) =>
        \A level \in IF op.deleting THEN {{}, {DIGEST}} ELSE Levels :
            Verify(rpm, level, Signers(rpm)) = {}

(* Wherever rpmsign is killed and whichever of its calls fails but one,    *)
(* the header and the payload are still there and where a reader looks for *)
(* them: in the file, whose signature header was replaced by one of the    *)
(* same size or is half written, or in its copy.  The one call is the      *)
(* rename() of the copy after the unlink() of the file: when it fails the  *)
(* copy is removed as well, the package is gone, and all that is left is   *)
(* that every call from then on reports an error.                          *)
SigningKeepsPackage ==
    IF lost THEN ~rpm.there /\ ~tmp.there /\ (pc = "done" => res = -1)
    ELSE \/ rpm.there /\ (damaged \/ Built) /\ (rpm.torn \/ Readable(rpm))
         \/ ~rpm.there /\ tmp.there /\ Readable(tmp) /\ (damaged \/ \E f \in Packages : f.hdr = tmp.hdr /\ f.pay = tmp.pay)

(* "0 on success, -1 on error" (rpmSign): a signing that returns 0 leaves  *)
(* a package that verifies with the keys that signed it.                   *)
SigningReported ==
    pc = "done" /\ res = 0 /\ ~damaged /\ ~op.deleting /\ op.key # "" =>
        Verify(rpm, {}, Signers(rpm)) = {}

===============================================================================
