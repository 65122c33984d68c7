----------------------------- MODULE MCNdbIndex -----------------------------
(***************************************************************************)
(* The ndb index database: what it says of the packages, how its file is   *)
(* laid out, and the hash table in a blob of it.  A behaviour is one of    *)
(* these, named by part; the variables of the others stay as they are.     *)
(***************************************************************************)
EXTENDS NdbIndex, TLC

\* Two processes, two indexes of which one is queried
CONSTANTS p1, p2

MCProcs == {p1, p2}
MCTagOrder == <<"Name", "Basenames">>
Symmetry == Permutations(MCProcs)

VARIABLES part, file, mem, blob, before, victim, crashed, calls, table, header, entries

ofXdb == <<file, mem, blob, before, victim, crashed, calls>>
ofIdx == <<table, header, entries>>
mcVars == <<vars, part, ofXdb, ofIdx>>

\* Two processes, four blobs in slot pages of three
Xd == INSTANCE Xdb WITH
        Procs <- {"p", "q"}, First <- "p", TagOrder <- <<"a", "b", "c", "d">>, SPP <- 3,
        MaxCnt <- 2, Gap <- 3, MaxOps <- 2, MaxKill <- 1, Wrap <- 65536,
        disk <- file, ops <- calls

\* Two processes, three keys of which one is empty ("e"), two share their first slot, and one has a hash of ones; an
\* entry of each encoding, and two that differ in the overflow word only
MCHash == [a |-> 63, b |-> 15, e |-> 60]
MCKeyLen == [a |-> 2, b |-> 1, e |-> 0]
MCData == [a |-> {<<9, 3>>, <<10, 3>>}, b |-> {<<5, 1>>}, e |-> {<<1, 0>>}]
Ix == INSTANCE Idx WITH
        Procs <- {"p", "q"}, Hash <- MCHash, KeyLen <- MCKeyLen, Data <- MCData, Word <- 64, MinSlots <- 1, Stride <- 1,
        Chunk <- 2, Headroom <- 1, MinLimit <- 8, MaxExcess <- 4, Low <- 4, High <- 8,
        file <- table, copy <- header

NoIdx == table = "" /\ header = "" /\ entries = {}
NoXdb ==
    /\ file = "" /\ mem = "" /\ blob = "" /\ before = "" /\ victim = "" /\ crashed = "" /\ calls = 0

MCInit ==
    /\ Init
    /\ \/ part = "index" /\ NoXdb /\ NoIdx
       \/ part = "xdb" /\ ~index.exists /\ Xd!Init /\ NoIdx
       \/ part = "idx" /\ ~index.exists /\ NoXdb /\ Ix!Init

\* Of an index that something has damaged nothing is claimed: what was begun goes on,
\* nothing else is begun.
NothingNew == blame # {} => UNCHANGED <<ops, faults>>

MCNext ==
    \/ part = "index" /\ Next /\ NothingNew /\ UNCHANGED <<part, ofXdb, ofIdx>>
    \/ part = "xdb" /\ Xd!Next /\ UNCHANGED <<part, vars, ofIdx>>
    \/ part = "idx" /\ Ix!Next /\ UNCHANGED <<part, vars, ofXdb>>

MCSpec == MCInit /\ [][MCNext]_mcVars

----------------------------------------------------------------------------
\* Whatever blobs are created, grown, shrunk, moved, renamed and deleted, by
\* whichever of two processes, each one has the content that was written to it,
\* and a process that is killed leaves every blob as it was before or as its
\* operation makes it, but for the one it deletes (rpmxdb.c: moveblobto(),
\* rpmxdbResizeBlob(), addslotpage()).  The hash table in a blob has, for every
\* process that has read its header, the entries that were put and not deleted,
\* however often it was rebuilt (rpmidx.c).
BlobsIntact ==
    /\ part = "xdb" => Xd!BlobsIntact /\ Xd!KilledHarmless
    /\ part = "idx" => Ix!TableServes
=============================================================================
