------------------------------- MODULE Keystore -------------------------------
(***************************************************************************)
(* The public keys of a system: the store they are kept in, lib/keystore.cc*)
(* (files of the fs or the openpgp store, or headers in the database), the *)
(* keyring they are loaded into, rpmio/rpmkeyring.cc, and the operations   *)
(* of lib/rpmts.cc that rpmkeys runs.  The lock of the keyring keeps the   *)
(* processes apart, so there is one at a time, and it can be killed at any *)
(* step.                                                                   *)
(*                                                                         *)
(* A certificate has a fingerprint and packets; merging two of them takes  *)
(* the packets of both (external: the OpenPGP library).                    *)
(***************************************************************************)
EXTENDS Integers, Sequences, FiniteSets, SequencesExt, FiniteSetsExt, Functions, TLC

CONSTANTS
    Prints,         \* fingerprints
    Tests,          \* whether a test was asked for, BOOLEAN or {FALSE}
    Packets,        \* what a certificate can have besides its primary key
    MaxOps          \* bound on the operations

VARIABLES
    kind,           \* the configured store: "fs", "openpgp", "rpmdb"
    store,          \* its records
    ring,           \* the keyring of the running process: fingerprint -> packets
    pc, op, todo,   \* the operation, its certificate, the keys a rebuild has still to import
    res,            \* what the last operation returned
    known,          \* fingerprint -> what its record may have: the packets of its last import, or of one killed since
    broken,         \* a rebuild was killed or failed to import a key
    ops

Kinds == {"fs", "openpgp", "rpmdb"}
vars == <<kind, store, ring, pc, op, todo, res, known, broken, ops>>

\* A record: a file named by the fingerprint ("full") or as it used to be by the key id ("short"), one that
\* is being written ("new"), or a header, of the store "in".  "n": the number of the header
Record(fp, name, n, pkts, whole) == [in |-> kind, fp |-> fp, name |-> name, n |-> n, pkts |-> pkts, whole |-> whole]
File(fp, name) == {r \in store : r.in = kind /\ r.fp = fp /\ r.name = name}
NextInstance == 1 + Max({0} \cup {r.n : r \in store})

-----------------------------------------------------------------------------
(* The keyring *)

Merge(old, new) == old \cup new
\* rpmKeyringModify(): a certificate that adds nothing to the old one takes its place
ModifyAdd(keys, fp, pkts) ==
    LET merged == IF fp \in DOMAIN keys THEN Merge(keys[fp], pkts) ELSE pkts
    IN (fp :> IF fp \in DOMAIN keys /\ merged # keys[fp] THEN merged ELSE pkts) @@ keys

\* load_keys(): in the order of the names or the numbers; what cannot be read is passed over.  The openpgp
\* store also loads the files that are being written
Loadable(r) == r.in = kind /\ r.whole /\ (r.name = "new" => kind = "openpgp")
LoadAll(records) == FoldLeft(LAMBDA keys, r : ModifyAdd(keys, r.fp, r.pkts), <<>>, records)
LoadOrders == {o \in SetToSeqs({r \in store : Loadable(r)}) : kind = "rpmdb" => \A i, j \in DOMAIN o : i < j => o[i].n < o[j].n}

-----------------------------------------------------------------------------
(* The steps of an operation *)

Operation(what, fp, pkts, test) == [what |-> what, fp |-> fp, pkts |-> pkts, test |-> test]
Begin(what) ==
    /\ pc = "idle" /\ ops < MaxOps /\ ops' = ops + 1 /\ op' = what
    /\ \E o \in LoadOrders : ring' = LoadAll(o)
Finish(rc) == pc' = "idle" /\ res' = rc

\* rpmtxnImportPubkey(): the keyring first, then the store, with the certificate as it was given, in a test too
Import(fp, pkts, test) ==
    /\ pc = "idle" /\ ops < MaxOps /\ ops' = ops + 1 /\ op' = Operation("import", fp, pkts, test)
    /\ \E o \in LoadOrders : ring' = ModifyAdd(LoadAll(o), fp, pkts)
    /\ pc' = "write" /\ todo' = {} /\ UNCHANGED <<kind, store, res, known, broken>>

Replacing == op.what = "import"

\* Mutant: the file is overwritten.
TargetInPlace(fp) == "full"
\* write_key_to_disk(): what replaces a file is written next to it
Target(fp) == IF Replacing THEN "new" ELSE "full"

\* a header is added; or a file is opened, which takes that it does not exist, and written
Write ==
    /\ pc = "write" /\ UNCHANGED <<kind, ring, op, todo, res, known, broken, ops>>
    /\ \/ /\ kind = "rpmdb" /\ pc' = "old"
          /\ store' = store \cup {Record(op.fp, "full", NextInstance, op.pkts, TRUE)}
       \/ /\ kind # "rpmdb" /\ pc' = "writing" /\ (~Replacing => File(op.fp, "full") = {})
          /\ store' = (store \ File(op.fp, Target(op.fp))) \cup {Record(op.fp, Target(op.fp), 0, op.pkts, FALSE)}
\* rpmdbAdd(), or the opening of the file, fails
WriteFails ==
    /\ pc = "write" /\ UNCHANGED <<kind, store, ring, op, known, ops>>
    /\ IF Replacing THEN Finish("FAIL") /\ UNCHANGED <<todo, broken>>
       ELSE pc' = "rebuild" /\ todo' = todo \ {op.fp} /\ broken' = TRUE /\ UNCHANGED res
WriteEnd ==
    /\ pc = "writing" /\ UNCHANGED <<kind, ring, op, todo, res, known, broken, ops>>
    /\ store' = {IF r \in File(op.fp, Target(op.fp)) THEN [r EXCEPT !.whole = TRUE] ELSE r : r \in store}
    /\ pc' = IF Replacing THEN "rename" ELSE "next"
\* a short write, or a rename that fails; what was written next to the file is removed
WritingFails ==
    /\ pc \in {"writing", "rename"} /\ UNCHANGED <<kind, ring, op, known, ops>>
    /\ IF Replacing THEN store' = store \ File(op.fp, "new") /\ Finish("FAIL") /\ UNCHANGED <<todo, broken>>
       ELSE UNCHANGED <<store, res>> /\ pc' = "rebuild" /\ todo' = todo \ {op.fp} /\ broken' = TRUE
Rename ==
    /\ pc = "rename" /\ UNCHANGED <<kind, ring, op, todo, res, known, broken, ops>>
    /\ store' = (store \ (File(op.fp, "new") \cup File(op.fp, "full")))
                 \cup {Record(op.fp, "full", 0, op.pkts, r.whole) : r \in File(op.fp, "new")}
    /\ pc' = IF kind = "fs" THEN "old" ELSE "imported"

\* keystore_fs::delete_key(): all files of the id, keystore_rpmdb::delete_key(): one header of it, but not
\* the one just made; keystore_openpgp_cert_d::delete_key(): the file of the fingerprint
DeleteFiles(fp, name, new) == File(fp, name) \ new
DeleteHeader(fp, name, new) ==
    LET some == File(fp, name) \ new IN {r \in some : \A q \in some : r.n <= q.n}
DeleteCert(fp) == File(fp, "full")
DeleteId(fp, name, new) == IF kind = "fs" THEN DeleteFiles(fp, name, new) ELSE DeleteHeader(fp, name, new)
\* delete_key_compat(): if there is nothing of the fingerprint, what there is of the key id
Deleted(fp, new) ==
    IF DeleteId(fp, "full", new) # {} THEN DeleteId(fp, "full", new) ELSE DeleteId(fp, "short", new)
JustMade == {r \in File(op.fp, "full") : \A q \in File(op.fp, "full") : q.n <= r.n}
\* that removing the old record fails goes unnoticed
DeleteOld ==
    /\ pc = "old" /\ UNCHANGED <<kind, ring, op, todo, res, known, broken, ops>>
    /\ store' \in IF Replacing THEN {store, store \ Deleted(op.fp, JustMade)} ELSE {store}
    /\ pc' = IF Replacing THEN "imported" ELSE "next"
Imported ==
    /\ pc = "imported" /\ Finish("OK") /\ known' = (op.fp :> {op.pkts}) @@ known
    /\ UNCHANGED <<kind, store, ring, op, todo, broken, ops>>

\* rpmtxnDeletePubkey() of a key in the keyring, which stays as it was; it succeeds whatever happens to the store
Delete(fp, test) ==
    /\ Begin(Operation("delete", fp, {}, test)) /\ fp \in DOMAIN ring' /\ Finish("OK")
    /\ IF test THEN UNCHANGED <<store, known>>
       ELSE /\ \/ store' = store \ (IF kind = "openpgp" THEN DeleteCert(fp) ELSE Deleted(fp, {}))
               \/ UNCHANGED store
            /\ known' = Restrict(known, DOMAIN known \ {fp})
    /\ UNCHANGED <<kind, todo, broken>>

\* rpmtxnRebuildKeystore(): the keys are loaded, the store is removed, and they are imported again, whatever
\* becomes of each.  "from": they come from a store of another kind, which is removed as well
Rebuild(to) ==
    /\ Begin(Operation("rebuild", "", {}, FALSE)) /\ pc' = "delete_store" /\ todo' = DOMAIN ring' /\ kind' = to
    /\ UNCHANGED <<store, res, known, broken>>
\* delete_store(), a record at a time; that it stops early goes unnoticed
DeleteStore ==
    /\ pc = "delete_store" /\ \E r \in store : store' = store \ {r}
    /\ UNCHANGED <<kind, ring, pc, op, todo, res, known, broken, ops>>
DeleteStoreEnd ==
    /\ pc = "delete_store" /\ pc' = "rebuild" /\ UNCHANGED <<kind, store, ring, op, todo, res, known, broken, ops>>
RebuildOne ==
    /\ pc = "rebuild" /\ UNCHANGED <<kind, store, ring, res, broken, ops>>
    /\ \E fp \in todo : op' = [op EXCEPT !.fp = fp, !.pkts = ring[fp]] /\ pc' = "write" /\ UNCHANGED <<todo, known>>
RebuildNext ==
    /\ pc = "next" /\ pc' = "rebuild" /\ todo' = todo \ {op.fp}
    /\ UNCHANGED <<kind, store, ring, op, res, known, broken, ops>>
RebuildEnd ==
    /\ pc = "rebuild" /\ todo = {} /\ Finish("OK")
    /\ known' = [fp \in DOMAIN known |-> IF fp \in DOMAIN ring THEN {ring[fp]} ELSE known[fp]]
    /\ UNCHANGED <<kind, store, ring, op, todo, broken, ops>>

\* what was being imported may have got there or not
Killed ==
    /\ pc # "idle" /\ Finish("FAIL") /\ broken' = (broken \/ op.what = "rebuild")
    /\ known' = IF Replacing /\ op.fp \in DOMAIN known THEN [known EXCEPT ![op.fp] = @ \cup {op.pkts}] ELSE known
    /\ UNCHANGED <<kind, store, ring, op, todo, ops>>

\* a store of an older version has files named by the key id, or labels of it in the database
Init ==
    /\ kind \in Kinds
    /\ \E fp \in Prints : store = IF kind = "openpgp" THEN {} ELSE {Record(fp, "short", IF kind = "rpmdb" THEN 1 ELSE 0, {}, TRUE)}
    /\ ring = <<>> /\ pc = "idle" /\ op = Operation("", "", {}, FALSE) /\ todo = {} /\ res = "OK"
    /\ known = [fp \in {r.fp : r \in store} |-> {{}}] /\ broken = FALSE /\ ops = 0

Next ==
    \/ \E fp \in Prints, pkts \in SUBSET Packets, test \in Tests : Import(fp, pkts, test)
    \/ \E fp \in Prints, test \in Tests : Delete(fp, test)
    \/ Write \/ WriteFails \/ WriteEnd \/ WritingFails \/ Rename \/ DeleteOld \/ Imported
    \/ (\E to \in Kinds : Rebuild(to)) \/ DeleteStore \/ DeleteStoreEnd
    \/ RebuildOne \/ RebuildNext \/ RebuildEnd \/ Killed
Spec == Init /\ [][Next]_vars

-----------------------------------------------------------------------------

(* A key that was imported and not erased since is in the store, whole,    *)
(* with the packets of its last import: while it is imported again, when   *)
(* that fails or is killed at any step; after a rebuild that imported      *)
(* every key, with the packets it was loaded with (write_key_to_disk,      *)
(* import_key: the old record goes after the new one is there).            *)
KeysKept ==
    ~broken /\ ~(op.what = "rebuild" /\ pc # "idle") =>
        \A fp \in DOMAIN known : \E r \in store :
            /\ r.fp = fp /\ Loadable(r)
            /\ \E pkts \in known[fp] \cup (IF Replacing /\ pc # "idle" /\ op.fp = fp THEN {op.pkts} ELSE {}) :
                  pkts \subseteq r.pkts
===============================================================================
