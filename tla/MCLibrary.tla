----------------------------- MODULE MCLibrary -----------------------------
(***************************************************************************)
(* Components of librpm that work by themselves, with small instances of   *)
(* each: the package database and its rebuilding, headers, signing, the    *)
(* key store and file triggers.  A behaviour is one of these, named by     *)
(* part; the variables of the others stay as they are.                     *)
(***************************************************************************)
EXTENDS PkgSign

VARIABLES part,
    todo, db, failed, installed, rc,    \* several of them have these, and some of PkgSign's
    disk, mem, saves, checked, it, sfi, out, iofail,
    old, nocleanup, cut, lock,
    h, phase, want, said, sealed,
    kind, store, ring, known, broken,
    order, pos, stage, removed, trigs2run, start, ran

ofRpmdb == <<disk, mem, saves, checked, it, sfi, out, iofail>>
ofRebuild == <<old, nocleanup, cut, lock>>
ofHeader == <<h, phase, want, said, sealed>>
ofPkgSign == <<rpm, tmp, unsaid, lost, damaged>>
ofKeystore == <<kind, store, ring, known, broken>>
ofFileTriggers == <<order, pos, stage, removed, trigs2run, start, ran>>
mcVars == <<part, pc, op, ops, res, todo, new, db, failed, installed, rc, ofRpmdb, ofRebuild,
            ofHeader, ofPkgSign, ofKeystore, ofFileTriggers>>

----------------------------------------------------------------------------
\* The database: four packages with common files, dependencies and triggers, of
\* which b does not verify and k has public keys; queries by every kind of index
\* with selectors; four operations
AHeader ==
    [name |-> "a", epoch |-> -1, version |-> "1", release |-> "1", arch |-> "x", group |-> "",
     requires |-> <<>>, triggers |-> <<>>, filetriggers |-> <<>>, files |-> <<>>,
     valid |-> TRUE, good |-> TRUE, pubkeys |-> FALSE]
FileOf(base, dir) == [base |-> base, dir |-> dir]
Requires(name, transient, rich) == [name |-> name, transient |-> transient, rich |-> rich]
DbHeaders ==
    [a1 |-> [AHeader EXCEPT
                !.files = <<FileOf("f", "/b"), FileOf("f", "/c")>>,
                !.requires = <<Requires("b", TRUE, <<>>), Requires("(c or d)", FALSE, <<"c", "d">>)>>],
     a2 |-> [AHeader EXCEPT
                !.version = "2", !.epoch = 1, !.group = "g", !.triggers = <<"t", "t">>,
                !.files = <<FileOf("f", "/b"), FileOf("g", "/b")>>],
     b  |-> [AHeader EXCEPT
                !.name = "b", !.good = FALSE, !.files = <<FileOf("g", "/b"), FileOf("f", "/b")>>,
                !.filetriggers = <<[name |-> "/b", index |-> 1], [name |-> "/c", index |-> 0]>>],
     k  |-> [AHeader EXCEPT
                !.name = "a-1", !.arch = "", !.pubkeys = TRUE, !.requires = <<Requires("c", FALSE, <<>>)>>,
                !.files = <<FileOf("f", "/b"), FileOf("f", "/c")>>]]
LabelWord(t) == [text |-> t, epoch |-> -1, version |-> t]
Query ==
    [tag |-> "NAME", key |-> "a", dir |-> "", label |-> [words |-> <<>>, arch |-> ""], more |-> <<>>,
     prune |-> {}, uniq |-> FALSE, re |-> {}, chk |-> TRUE]
Match(tag, pattern, notmatch) == [tag |-> tag, pattern |-> pattern, notmatch |-> notmatch]
By(tag, key) == [Query EXCEPT !.tag = tag, !.key = key]
DbQueries ==
    {Query,
     [Query EXCEPT !.re = {Match("VERSION", "1", FALSE), Match("VERSION", "2", FALSE), Match("EPOCH", "0", FALSE)}],
     [By("BASENAMES", "f") EXCEPT !.re = {Match("ARCH", "x", FALSE)}, !.chk = FALSE],
     [By("BASENAMES", "") EXCEPT !.re = {Match("VERSION", "1", TRUE)}],
     [By("BASENAMES", "f") EXCEPT !.more = <<"g">>, !.uniq = TRUE],
     [By("BASENAMES", "f") EXCEPT !.more = <<"g">>],
     [By("REQUIRENAME", "c") EXCEPT !.prune = {1}],
     [By("FILE", "f") EXCEPT !.dir = "/b"], [By("INSTFILE", "f") EXCEPT !.dir = "/b"],
     By("PACKAGES", ""),
     [By("LABEL", "a") EXCEPT !.label = [words |-> <<LabelWord("a"), LabelWord("1")>>, arch |-> "x"]],
     [By("LABEL", "a") EXCEPT
        !.label = [words |-> <<LabelWord("a"), [text |-> "1:2", epoch |-> 1, version |-> "2"], LabelWord("1")>>,
                   arch |-> ""]]}
Shared(off, num) == [off |-> off, num |-> num, state |-> "replaced"]
DbReplacements ==
    {<<Shared(1, 0), Shared(2, 0), Shared(2, 1)>>, <<Shared(2, 0), Shared(1, 0), Shared(3, 0)>>}
Rd == INSTANCE Rpmdb WITH HeaderOf <- DbHeaders, Queries <- DbQueries, Replacements <- DbReplacements, MaxOps <- 4

\* Its rebuilding: three packages of which one is damaged; one is installed in the
\* meantime
Rb == INSTANCE RpmdbRebuild WITH Packages <- {"a", "b", "c"}, Damaged <- {"b"}, Fresh <- "d"

\* Headers: seven tags of all kinds of types (4 is INT32, 5 INT64, 7 BIN, 8 STRING_ARRAY
\* and 9 I18NSTRING), four operations
HdTypes == 200 :> 4 @@ 205 :> 5 @@ 210 :> 8 @@ 220 :> 5 @@ 230 :> 9 @@ 240 :> 9 @@ 250 :> 7
HdValues(t) == CASE t = 4 -> {<<11>>, <<12>>} [] t = 5 -> {<<21>>} [] t = 8 -> {<<<<31>>, <<32, 33>>>>}
                 [] t = 7 -> {<<41, 42, 43>>}
Hd == INSTANCE Header WITH TagType <- HdTypes, Installed <- {205, 250}, Translated <- {230, 240},
        Values <- HdValues, Strings <- {<<7>>, <<8, 8>>}, Locales <- {<<1>>, <<2>>, <<2, 10>>}, MaxOps <- 4

\* Signing: an RSA key and a post-quantum one; packages as rpm 3, 4 and 6 build
\* them; two operations
SigKeys == "r" :> [algo |-> "RSA", ver |-> 4, len |-> 13] @@ "x" :> [algo |-> "PQC", ver |-> 6, len |-> 21]
Dig(range, len, pay) ==
    <<[over |-> [p \in range |-> IF p = H THEN "h" ELSE pay], form |-> TRUE, len |-> len]>>
Space(n) == <<[len |-> n, form |-> TRUE]>>
Old(n) == "SHA1" :> Dig({H}, 5, "p") @@ "MD5" :> Dig({H, P}, 3, "p") @@ "SIZE" :> Space(4) @@
          "PAYLOADSIZE" :> Space(4) @@ "RESERVEDSPACE" :> Space(n)
V4(n) == "SHA256" :> Dig({H}, 6, "p") @@ Old(n)
V6(n) == "SHA3_256" :> Dig({H}, 6, "p") @@ "SHA256" :> Dig({H}, 6, "p") @@ "RESERVED" :> Space(n)
Pays == "PAYLOADSHA256" :> Dig({P}, 0, "p") @@ "PAYLOADSHA256ALT" :> Dig({P}, 0, "uncompressed")
Pays6 == Pays @@ "PAYLOADSHA512" :> Dig({P}, 0, "p") @@ "PAYLOADSHA512ALT" :> Dig({P}, 0, "uncompressed")
SignedFile(fmt, sig, tags) ==
    [there |-> TRUE, torn |-> FALSE, fmt |-> fmt, sig |-> sig, tags |-> tags, hdr |-> "h", pay |-> "p",
     start |-> Pad(Sizeof(sig) + Region)]
SigPackages == {SignedFile(4, Old(60), <<>>), SignedFile(4, V4(30), Pays), SignedFile(6, V6(60), Pays6)}
SigFlags == {{}, {"RPMV6"}, {"RPMV4"}, {"RPMV3"}}
SigDisabled == {{}, {"NOSHA256HEADER", "NOSHA1HEADER", "NOSHA3_256HEADER", "NOMD5"},
                {"NOSHA256PAYLOAD", "NOSHA512PAYLOAD", "NOMD5", "NORSA"}}

\* The key store: two keys of two packets; three operations
Ks == INSTANCE Keystore WITH Prints <- {"a", "b"}, Packets <- {1}, Tests <- BOOLEAN, MaxOps <- 3

\* File triggers: three packages that are upgraded or erased, with triggers of
\* every kind
TrigFile(dir, path, skip) == [dir |-> dir, path |-> path, skip |-> skip]
Trigger(tm, sense, prefixes, prio) == [tm |-> tm, sense |-> sense, prefixes |-> prefixes, prio |-> prio]
Triggering(name, files, triggers) == [name |-> name, files |-> files, triggers |-> triggers]
EveryTrigger ==
    <<Trigger("file", "in", {"/a"}, 20000), Trigger("file", "in", {"/b", "/a/g"}, 5),
      Trigger("file", "un", {"/a"}, 5), Trigger("file", "un", {"/b"}, 20000),
      Trigger("file", "postun", {"/a", "/b"}, 10000), Trigger("trans", "in", {"/a"}, 7),
      Trigger("trans", "un", {"/a", "/b"}, 7), Trigger("trans", "postun", {"/a"}, 7)>>
TrigPackages ==
    [t1 |-> Triggering("t", {TrigFile("/a", "/a/t", FALSE)}, EveryTrigger),
     t2 |-> Triggering("t", {TrigFile("/a", "/a/t", FALSE)}, EveryTrigger),
     x1 |-> Triggering("x", {TrigFile("/a", "/a/f", FALSE), TrigFile("/b", "/b/f", FALSE)}, <<>>),
     x2 |-> Triggering("x", {TrigFile("/a", "/a/f", TRUE), TrigFile("/a", "/a/g", FALSE)}, <<>>),
     u1 |-> Triggering("u", {TrigFile("/b", "/b/u", FALSE)},
                <<Trigger("trans", "in", {"/a"}, 9), Trigger("trans", "postun", {"/b"}, 9),
                  Trigger("file", "in", {"/a"}, 30000)>>),
     u2 |-> Triggering("u", {TrigFile("/b", "/b/u", FALSE)},
                <<Trigger("trans", "in", {"/b"}, 9), Trigger("file", "in", {"/b"}, 30000)>>)]
Ft == INSTANCE FileTriggers WITH
        Packages <- TrigPackages, Olds <- <<"t1", "x1", "u1">>, News <- {"t2", "x2", "u2"}

----------------------------------------------------------------------------
NoRpmdb == disk = "" /\ mem = "" /\ saves = "" /\ checked = "" /\ it = "" /\ sfi = "" /\ out = "" /\ iofail = ""
NoRebuild == old = "" /\ nocleanup = "" /\ cut = "" /\ lock = ""
NoHeader == h = "" /\ phase = "" /\ want = "" /\ said = "" /\ sealed = ""
NoPkgSign == rpm = "" /\ tmp = "" /\ unsaid = "" /\ lost = "" /\ damaged = ""
NoKeystore == kind = "" /\ store = "" /\ ring = "" /\ known = "" /\ broken = ""
NoFileTriggers ==
    order = "" /\ pos = "" /\ stage = "" /\ removed = "" /\ trigs2run = "" /\ start = "" /\ ran = ""

MCInit ==
    \/ /\ part = "rpmdb" /\ Rd!Init
       /\ pc = "" /\ res = "" /\ todo = "" /\ new = "" /\ db = "" /\ failed = "" /\ installed = "" /\ rc = ""
       /\ NoRebuild /\ NoHeader /\ NoPkgSign /\ NoKeystore /\ NoFileTriggers
    \/ /\ part = "rebuild" /\ Rb!Init
       /\ op = "" /\ ops = 0 /\ res = ""
       /\ NoRpmdb /\ NoHeader /\ NoPkgSign /\ NoKeystore /\ NoFileTriggers
    \/ /\ part = "header" /\ Hd!Init
       /\ pc = "" /\ op = "" /\ todo = "" /\ new = "" /\ db = "" /\ failed = "" /\ installed = "" /\ rc = ""
       /\ NoRpmdb /\ NoRebuild /\ NoPkgSign /\ NoKeystore /\ NoFileTriggers
    \/ /\ part = "sign" /\ Init
       /\ todo = "" /\ db = "" /\ failed = "" /\ installed = "" /\ rc = ""
       /\ NoRpmdb /\ NoRebuild /\ NoHeader /\ NoKeystore /\ NoFileTriggers
    \/ /\ part = "keystore" /\ Ks!Init
       /\ new = "" /\ db = "" /\ failed = "" /\ installed = "" /\ rc = ""
       /\ NoRpmdb /\ NoRebuild /\ NoHeader /\ NoPkgSign /\ NoFileTriggers
    \/ /\ part = "triggers" /\ Ft!Init
       /\ pc = "" /\ op = "" /\ ops = 0 /\ res = "" /\ todo = "" /\ new = "" /\ rc = ""
       /\ NoRpmdb /\ NoRebuild /\ NoHeader /\ NoPkgSign /\ NoKeystore

MCNext ==
    \/ /\ part = "rpmdb" /\ Rd!Next
       /\ UNCHANGED <<part, pc, res, todo, new, db, failed, installed, rc, ofRebuild, ofHeader,
                      ofPkgSign, ofKeystore, ofFileTriggers>>
    \/ /\ part = "rebuild" /\ Rb!Next
       /\ UNCHANGED <<part, op, ops, res, ofRpmdb, ofHeader, ofPkgSign, ofKeystore, ofFileTriggers>>
    \/ /\ part = "header" /\ Hd!Next
       /\ UNCHANGED <<part, pc, op, todo, new, db, failed, installed, rc, ofRpmdb, ofRebuild,
                      ofPkgSign, ofKeystore, ofFileTriggers>>
    \/ /\ part = "sign" /\ Next
       /\ UNCHANGED <<part, todo, db, failed, installed, rc, ofRpmdb, ofRebuild, ofHeader,
                      ofKeystore, ofFileTriggers>>
    \/ /\ part = "keystore" /\ Ks!Next
       /\ UNCHANGED <<part, new, db, failed, installed, rc, ofRpmdb, ofRebuild, ofHeader,
                      ofPkgSign, ofFileTriggers>>
    \/ /\ part = "triggers" /\ Ft!Next
       /\ UNCHANGED <<part, pc, op, ops, res, todo, new, rc, ofRpmdb, ofRebuild, ofHeader,
                      ofPkgSign, ofKeystore>>

MCSpec == MCInit /\ [][MCNext]_mcVars
\* signing alone
SignSpec == part = "sign" /\ MCInit /\ [][MCNext]_mcVars

----------------------------------------------------------------------------
\* The indexes hold the keys of the packages that are stored and of no other,
\* wherever an addition or removal is killed (rpmdbAdd(), rpmdbRemove()); and an
\* iteration returns every header that is good and passes the selectors, and no
\* other (rpmdbNextIterator()).
DatabaseConsistent == part = "rpmdb" => Rd!IndexFollowsPackages /\ Rd!IterationExact

\* A record never becomes another package's: the header an iterator writes back
\* goes to the record it was read from, though the iterator has moved on when it
\* writes (miFreeHeader()).
RecordKeepsPackage == [][part = "rpmdb" => Rd!KeepsPackage]_mcVars

\* Whatever fails in a rebuild, wherever it is killed and whatever other commands
\* do meanwhile, no package is lost; and success means that the database has all
\* that is installed, and the public keys (rpmdbRebuild()).
RebuildKeepsPackages == part = "rebuild" => Rb!RebuildKeepsPackages

\* A header holds what was put in, through every write to a package or to the
\* database and every read (doExport(), hdrblobImport()); its region, which
\* digests and signatures are made over, stays word for word what the package
\* had; and headerSizeof() is the size of what is written.
HeaderKeepsValues == part = "header" => Hd!HeaderKeepsValues /\ Hd!RegionImmutable /\ Hd!SizeofExact

\* A package that passes verification is the one that was built, in header and
\* payload, whichever checks were disabled (rpmvsVerify()); rpmsign that succeeds
\* leaves a package that verifies, but for two cases its module names; and wherever
\* it is killed or fails header and payload are still to be found, unless the
\* rename() after the unlink() of the package fails, which loses them and is
\* reported (rpmSign()).
SigningSound == part = "sign" => VerifiedIsWhole /\ SignedVerifies /\ SigningKeepsPackage

\* A key that was imported and not erased since is in the store, whole, while it
\* is imported again and wherever that fails or is killed (write_key_to_disk(),
\* import_key()).
KeysKept == part = "keystore" => Ks!KeysKept

\* Every package that a transaction installed has been shown, file by file, to
\* every installed %filetriggerin exactly once, and the files of every package it
\* removed to the triggers for removals; a transaction file trigger runs once,
\* however many packages set it off (rpmtriggers.cc).
FileTriggersSee ==
    part = "triggers" => Ft!InstalledFilesSeen /\ Ft!RemovedFilesSeen /\ Ft!TransTriggersOnce
=============================================================================
