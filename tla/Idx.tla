---------------------------------- MODULE Idx ----------------------------------
(***************************************************************************)
(* The hash table of one index, lib/backend/ndb/rpmidx.c: slots that hold  *)
(* the offset of a key and an encoded entry, and the space of the keys.    *)
(* Processes that have it mapped keep a copy of its header, which they     *)
(* read again when the generation in the file is another one.              *)
(*                                                                         *)
(* An operation runs under the exclusive lock of Packages.db (NdbIndex),   *)
(* so it is one step.  NdbIndex takes an index for the set of its entries; *)
(* this module shows that it may.                                          *)
(*                                                                         *)
(* A word has Word values instead of 2^32, and the limits of the code are  *)
(* constants, so that a table of a few entries meets all of them.  The     *)
(* generation of the file is counted from the last operation.              *)
(***************************************************************************)
EXTENDS Integers, Sequences, FiniteSets, SequencesExt, FiniteSetsExt

CONSTANTS
    Procs,
    Hash,       \* key -> murmurhash(), 0..Word - 1
    KeyLen,     \* key -> its length
    Data,       \* key -> the <<pkgidx, datidx>> that are stored with it
    Word,       \* values of a word (the code: 2^32), a power of two
    MinSlots,   \* 256
    Stride,     \* 7, the first step of a search: i * 7 + i(i-1)/2 does not come back to a slot for n - 6 steps, more
                \* than half of the table as n >= 1024; the tables here are smaller, and need 1
    Chunk,      \* IDXDB_KEY_CHUNKSIZE, 4096, by which the space of the keys grows
    Headroom,   \* 8192
    MinLimit,   \* 0x10000, bytes of keys that the first mask can address
    MaxExcess,  \* 4096
    Low, High   \* 0x100000 and 0x1000000: package numbers with a short encoding

VARIABLES
    file,       \* the blob: header, slots and keys
    copy,       \* copy[p]: the header as p has read it
    entries     \* history: <<key, pkgidx, datidx>> put and not deleted

vars == <<file, copy, entries>>

AllKeys == DOMAIN Hash
Quarter == Word \div 4     \* 0x40000000
Dummy == Word - 1          \* (unsigned int)-1
Zero == <<"", 0>>          \* a byte of the keys that is not in use
Empty == [x |-> 0, data |-> 0, ovl |-> 0]
HeaderOf(t) == [gen |-> t.gen, nslots |-> t.nslots, used |-> t.used, dummies |-> t.dummies,
                limit |-> t.limit, keyend |-> t.keyend, excess |-> t.excess]

-----------------------------------------------------------------------------
(* Keys and data *)

\* keylsize() and the key: an empty key needs the long form, as its first byte may not be 0
Size(k) == KeyLen[k] + (IF KeyLen[k] = 0 THEN 3 ELSE 1)
\* encodekeyl() and the bytes of a key, of which the first is not 0
Encoded(k) == [i \in 1..Size(k) |-> <<k, i>>]
\* equalkey()
EqualKey(t, h, off, k) ==
    off + KeyLen[k] + 1 <= h.keyend /\ \A i \in 1..Size(k) : off + i - 1 < t.size /\ t.keys[off + i - 1] = <<k, i>>
WriteKey(keys, off, bytes) == [i \in DOMAIN keys |-> IF i - off \in 0..Len(bytes) - 1 THEN bytes[i - off + 1] ELSE keys[i]]

\* encodedata(): a word, and an overflow word that is seldom needed
EncodeData(pkg, dat) ==
    IF pkg < Low /\ dat < Quarter \div Low THEN <<pkg + dat * Low, 0>>
    ELSE IF pkg < High /\ dat < Quarter \div High THEN <<Quarter + pkg + dat * High, 0>>
    ELSE <<2 * Quarter + dat, pkg>>
\* decodedata()
DecodeData(data, ovl) ==
    IF data >= 2 * Quarter THEN <<ovl, data - 2 * Quarter>>
    ELSE IF data >= Quarter THEN <<(data - Quarter) % High, (data - Quarter) \div High>>
    ELSE <<data % Low, data \div Low>>

\* (h + hh++) & hmask, hh from Stride: the i-th slot that is looked at, from 0
Probe(keyh, n, i) == (keyh + i * Stride + (i * (i - 1)) \div 2) % n
\* how many slots are looked at before one that is empty
Tries(slots, keyh, n) == Min({i \in 0..n - 1 : slots[Probe(keyh, n, i)].x = 0})
Path(slots, keyh, n) == [i \in 1..Tries(slots, keyh, n) |-> Probe(keyh, n, i - 1)]
EmptySlot(slots, keyh, n) == Probe(keyh, n, Tries(slots, keyh, n))
\* keyh & xmask: what a slot keeps of the hash, above the offset
Tag(keyh, limit) == keyh - (keyh % limit)
\* the word of the first slot on the path that has the key, 0 if there is none
KeyOff(t, h, k) ==
    LET path == Path(t.slots, Hash[k], h.nslots)
        same == {i \in DOMAIN path : LET x == t.slots[path[i]].x
                                     IN x # Dummy /\ Tag(x, h.limit) = Tag(Hash[k], h.limit) /\ EqualKey(t, h, x % h.limit, k)}
    IN IF same = {} THEN 0 ELSE t.slots[path[Min(same)]].x
\* the slots of a key, in the order they are found
SlotsOf(t, h, k) ==
    LET off == KeyOff(t, h, k) IN SelectSeq(Path(t.slots, Hash[k], h.nslots), LAMBDA s : off # 0 /\ t.slots[s].x = off)

-----------------------------------------------------------------------------
(* Rebuilding *)

\* copyentry(): into the first empty slot
CopyEntry(slots, keyh, n, entry) == [slots EXCEPT ![EmptySlot(slots, keyh, n)] = entry]
\* copykeyentries(): all entries of a key move together
CopyKeyEntries(t, h, new, k, oldx, newx) ==
    LET mine == SelectSeq(Path(t.slots, Hash[k], h.nslots), LAMBDA s : t.slots[s].x = oldx)
    IN [new EXCEPT !.slots = FoldLeft(LAMBDA to, s : CopyEntry(to, Hash[k], new.nslots, [t.slots[s] EXCEPT !.x = newx]), @, mine),
                   !.used = @ + Len(mine), !.done = @ \cup ToSet(mine)]

RECURSIVE Doubled(_, _)
Doubled(n, least) == IF n < least /\ n < Word THEN Doubled(2 * n, least) ELSE n
RECURSIVE HighestBit(_)
HighestBit(n) == IF n < 2 THEN n ELSE 2 * HighestBit(n \div 2)

\* rpmidxRebuildInternal(): the live slots are counted and copied key by key
Rebuilt(t, h) ==
    LET live == {s \in 0..h.nslots - 1 : t.slots[s].x \notin {0, Dummy}}
        n == 4 * HighestBit(Max({MinSlots, Cardinality(live)}))
        size == Max({h.keyend, Chunk})
        limit == Doubled(MinLimit, size + Headroom)
        blank == [gen |-> h.gen + 1, nslots |-> n, used |-> 0, dummies |-> 0, limit |-> limit, keyend |-> 1, excess |-> 0,
                  size |-> size, slots |-> [s \in 0..n - 1 |-> Empty], keys |-> [i \in 0..size - 1 |-> Zero], done |-> {}]
        Copy(new, s) ==
            IF t.slots[s].x \in {0, Dummy} \/ s \in new.done THEN new
            ELSE LET off == t.slots[s].x % h.limit
                     k == t.keys[off][1]
                 IN CopyKeyEntries(t, h, [new EXCEPT !.keys = WriteKey(@, new.keyend, Encoded(k)), !.keyend = @ + Size(k)],
                                   k, off + Tag(Hash[k], h.limit), new.keyend + Tag(Hash[k], limit))
        full == FoldLeft(Copy, blank, [i \in 1..h.nslots |-> i - 1])
        shrunk == Min({size, full.keyend + Chunk})
    IN [f \in DOMAIN full \ {"done"} |-> IF f = "size" THEN shrunk
                                         ELSE IF f = "keys" THEN [i \in 0..shrunk - 1 |-> full.keys[i]] ELSE full[f]]
\* rpmidxCheck()
NeedsRebuild(h) ==
    \/ h.used > h.nslots \div 2
    \/ h.excess > MaxExcess /\ h.excess * 4 > h.keyend
    \/ h.keyend >= h.limit - 1

-----------------------------------------------------------------------------
(* Operations *)

\* What an operation leaves: the file and the header of its process.  A slot or a key is written to the file only; a
\* number of the header is written to both.
State(t, h) == [t |-> t, h |-> h]
WithHeader(t, h) == [t EXCEPT !.gen = h.gen, !.used = h.used, !.dummies = h.dummies, !.keyend = h.keyend, !.excess = h.excess]
BumpGeneration(s) == State([s.t EXCEPT !.gen = s.h.gen + 1], [s.h EXCEPT !.gen = @ + 1])

\* addnewkey() and addkeypage()
Grown(t, need) ==
    LET more == IF need <= 0 THEN 0 ELSE Chunk * ((need + Chunk - 1) \div Chunk)
    IN [t EXCEPT !.size = @ + more, !.keys = [i \in 0..t.size + more - 1 |-> IF i < t.size THEN t.keys[i] ELSE Zero]]
NeedsRoom(t, h, k) == KeyOff(t, h, k) = 0 /\ t.size - h.keyend < Size(k)
AddNewKey(t, h, k) ==
    LET g == Grown(t, h.keyend + Size(k) - t.size)
    IN State([g EXCEPT !.keys = WriteKey(@, h.keyend, Encoded(k)), !.keyend = h.keyend + Size(k)], [h EXCEPT !.keyend = @ + Size(k)])

\* rpmidxPutInternal(), once the table was rebuilt if need be
PutEntry(t, h, k, e) ==
    LET off == KeyOff(t, h, k)
        path == Path(t.slots, Hash[k], h.nslots)
        dummies == SelectSeq(path, LAMBDA s : t.slots[s].x = Dummy)
        reuse == dummies # <<>>
        at == IF reuse THEN Last(dummies) ELSE EmptySlot(t.slots, Hash[k], h.nslots)
        s == IF off = 0 THEN AddNewKey(t, h, k) ELSE State(t, h)
        x == IF off = 0 THEN h.keyend + Tag(Hash[k], h.limit) ELSE off
        h2 == IF reuse THEN [s.h EXCEPT !.dummies = Max({@ - 1, 0})] ELSE [s.h EXCEPT !.used = @ + 1]
        entry == [x |-> x, data |-> e[1], ovl |-> IF e[2] # 0 THEN e[2] ELSE t.slots[at].ovl]
    IN IF \E q \in ToSet(SlotsOf(t, h, k)) : t.slots[q].data = e[1] /\ (e[2] = 0 \/ t.slots[q].ovl = e[2])
       THEN State(t, h)    \* already in the database
       ELSE BumpGeneration(State([WithHeader(s.t, h2) EXCEPT !.slots[at] = entry], h2))

\* rpmidxDelInternal(): a key without other users is wiped out
DelEntry(t, h, k, e) ==
    LET off == KeyOff(t, h, k)
        mine == SlotsOf(t, h, k)
        match == {q \in ToSet(mine) : t.slots[q].data = e[1] /\ (e[2] = 0 \/ t.slots[q].ovl = e[2])}
        unused == off # 0 /\ match = ToSet(mine)
        h2 == [h EXCEPT !.dummies = @ + Cardinality(match), !.excess = IF unused THEN @ + Size(k) ELSE @]
        t2 == [WithHeader(t, h2) EXCEPT
                 !.slots = [q \in DOMAIN @ |-> IF q \notin match THEN @[q]
                              ELSE [x |-> Dummy, data |-> Dummy, ovl |-> IF e[2] # 0 THEN 0 ELSE @[q].ovl]],
                 !.keys = IF unused THEN WriteKey(@, off % h.limit, [i \in 1..Size(k) |-> Zero]) ELSE @]
    IN IF off = 0 THEN State(t, h) ELSE BumpGeneration(State(t2, h2))

\* rpmidxPut() and rpmidxDel() end.  rpmidxReadHeader(): what another process has read counts for it until the
\* generation changes; it reads the header when it needs it next, so it may as well do so now.
Settle(p, s) ==
    LET t == [s.t EXCEPT !.gen = 0]
    IN /\ file' = t
       /\ copy' = [q \in Procs |-> IF q = p THEN [s.h EXCEPT !.gen = 0]
                                   ELSE IF s.t.gen # file.gen THEN HeaderOf(t) ELSE copy[q]]

\* The table as the operation of p finds it, rebuilt if it has to be
Checked(p) ==
    LET h == copy[p]
    IN IF ~NeedsRebuild(h) THEN State(file, h) ELSE LET t == Rebuilt(file, h) IN State(t, HeaderOf(t))

Put(p, k, d) ==
    \E c \in {Checked(p)} : \E s \in {PutEntry(c.t, c.h, k, EncodeData(d[1], d[2]))} :
        Settle(p, s) /\ entries' = entries \cup {<<k>> \o d}
Del(p, k, d) ==
    \E c \in {Checked(p)} : \E s \in {DelEntry(c.t, c.h, k, EncodeData(d[1], d[2]))} :
        Settle(p, s) /\ entries' = entries \ {<<k>> \o d}
\* rpmxdb.c cannot make room: for the new table, or for all of a new key
Fails(p, k) ==
    /\ \/ NeedsRebuild(copy[p]) /\ Settle(p, State(file, copy[p]))
       \/ \E c \in {Checked(p)}, n \in {0, 1} :
            NeedsRoom(Grown(c.t, n), c.h, k) /\ Settle(p, State(Grown(c.t, n), c.h))
    /\ UNCHANGED entries

\* rpmidxInit(): the table of an index that does not exist yet is that of an empty one
None == [gen |-> -1, nslots |-> 0, used |-> 0, dummies |-> 0, limit |-> 1, keyend |-> 0, excess |-> 0, size |-> 0,
         slots |-> <<>>, keys |-> <<>>]
Init ==
    /\ file = Rebuilt(None, HeaderOf(None)) /\ entries = {}
    /\ copy = [p \in Procs |-> HeaderOf(file)]

Next ==
    \/ \E p \in Procs, k \in AllKeys : \E d \in Data[k] : Put(p, k, d) \/ Del(p, k, d)
    \/ \E p \in Procs, k \in AllKeys : Fails(p, k)
Spec == Init /\ [][Next]_vars

-----------------------------------------------------------------------------
(* What a process reads *)

\* rpmidxGetInternal()
Get(t, h, k) == LET mine == SlotsOf(t, h, k) IN [i \in DOMAIN mine |-> DecodeData(t.slots[mine[i]].data, t.slots[mine[i]].ovl)]
\* rpmidxListInternal(): keys from the first byte to the last one, bytes that are 0 skipped
RECURSIVE ListFrom(_, _, _)
ListFrom(t, h, off) ==
    IF off >= h.keyend THEN <<>>
    ELSE IF t.keys[off] = Zero THEN ListFrom(t, h, off + 1)
    ELSE <<t.keys[off][1]>> \o ListFrom(t, h, off + Size(t.keys[off][1]))
\* rpmidxReadHeader(): "make sure data is sane"
Sane(t) == t.nslots >= MinSlots /\ t.used <= t.nslots /\ t.dummies <= t.nslots

(* Whatever was put and deleted, by whichever process, and however often   *)
(* the table was rebuilt: a search ends at an empty slot, a process that   *)
(* looks up a key with the header it has gets every entry of that key      *)
(* once and no other, and the list of keys has those with entries once     *)
(* each (rpmidxGetInternal, rpmidxListInternal).                           *)
TableServes ==
    /\ Sane(file)
    /\ \E s \in DOMAIN file.slots : file.slots[s].x = 0
    /\ \A p \in Procs :
         LET h == copy[p]
             list == ListFrom(file, h, 1)
         IN /\ \A k \in AllKeys :
                 LET got == Get(file, h, k)
                 IN IsInjective(got) /\ {<<k>> \o d : d \in ToSet(got)} = {e \in entries : e[1] = k}
            /\ IsInjective(list) /\ ToSet(list) = {e[1] : e \in entries}
=============================================================================
