------------------------------ MODULE DataFlash ------------------------------
(***************************************************************************)
(* The log of received packets that RF12demo.ino keeps in a dataflash      *)
(* chip: a ring of pages, written one after the other from a buffer in RAM *)
(* and erased a block ahead, found again after a reset by the sequence     *)
(* numbers in the pages, and replayed from a marker.  Entries are numbers  *)
(* in the order in which packets came in.                                  *)
(***************************************************************************)
EXTENDS Integers, Sequences, FiniteSets, FiniteSetsExt, Functions

CONSTANTS
    DF_BLOCK_SIZE,  \* pages erased at the same time
    DF_LOG_BEGIN,   \* first page of the log
    DF_LOG_LIMIT,   \* first page behind it
    PAGE_SIZE,      \* what fits into a page,
    Sizes,          \* ... and the sizes of the entries, their offset included
    MAX_OFFSET,     \* seconds after which a page is saved though not full
    EMPTY,          \* the sequence number that an erased page shows
    EraseBlocks,    \* pages that the command 'e' is used with
    LossBeforeErase, \* power is also lost between df_write and df_erase
    MaxEntries,     \* bound of the packets
    MaxSeq,         \* ... and of the sequence numbers
    MaxNow          \* the last second before now() overflows

ASSUME FlashAssumption ==
    /\ DF_BLOCK_SIZE \in Nat \ {0, 1} /\ DF_LOG_BEGIN \in Nat \ {0}
    /\ DF_LOG_LIMIT \in Nat /\ DF_LOG_BEGIN + DF_BLOCK_SIZE < DF_LOG_LIMIT
    /\ DF_LOG_BEGIN % DF_BLOCK_SIZE = 0 /\ DF_LOG_LIMIT % DF_BLOCK_SIZE = 0
    /\ PAGE_SIZE \in Nat \ {0} /\ Sizes \subseteq 1 .. PAGE_SIZE
    /\ MAX_OFFSET \in Nat \ {0}
    /\ EMPTY \in Nat /\ MaxSeq \in 0 .. EMPTY - 1
    /\ LossBeforeErase \in BOOLEAN
    /\ EraseBlocks \subseteq 0 .. DF_LOG_LIMIT - 1
    /\ MaxEntries \in Nat /\ MaxNow \in Nat

Page == 0 .. DF_LOG_LIMIT - 1
Log == DF_LOG_BEGIN .. DF_LOG_LIMIT - 1

VARIABLES
    flash,          \* each page: sequence number, time stamp, entries, CRC good
    dfBuf,          \* the buffer: sequence number, time stamp, entries
    dfFill,         \* how much of it is used
    dfLastPage,     \* the page last written
    now,            \* seconds since the reset, until that overflows
    pc,             \* "idle", or "erase" between df_write and df_erase
    next,           \* history: the next entry's number
    gone,           \* history: the entries given up by erasing and resetting
    wrapped         \* history: the clock has overflowed

vars == <<flash, dfBuf, dfFill, dfLastPage, now, pc, next, gone, wrapped>>

Erased == [seqnum |-> EMPTY, timestamp |-> 0, data |-> <<>>, ok |-> FALSE]
Filled(p) == flash[p].seqnum # EMPTY
EntriesOf(p) == {flash[p].data[k] : k \in DOMAIN flash[p].data}
Buffered == {dfBuf.data[k] : k \in DOMAIN dfBuf.data}

-----------------------------------------------------------------------------
(* Saving and appending.                                                   *)

df_wrap(page) == IF page < DF_LOG_LIMIT THEN page ELSE DF_LOG_BEGIN

\* Programming only clears bits: a page that is not erased is spoilt.
Program(page, content) ==
    flash' = [flash EXCEPT ![page] =
                IF @ = Erased THEN content ELSE [content EXCEPT !.ok = FALSE, !.data = <<>>]]

Saved == df_wrap(dfLastPage + 1)

\* Mutant: the sequence number stays the same when the log wraps.
SeqNotBumped == dfBuf.seqnum

\* bump to next seqnum when wrapping
SavedSeq == dfBuf.seqnum + (IF Saved = DF_LOG_BEGIN THEN 1 ELSE 0)

\* df_saveBuf() up to the erase, and the buffer after it
Save ==
    /\ dfLastPage' = Saved
    /\ Program(Saved, [seqnum |-> SavedSeq, timestamp |-> dfBuf.timestamp,
                       data |-> dfBuf.data, ok |-> TRUE])
    /\ pc' = IF Saved % DF_BLOCK_SIZE = 0 THEN "erase" ELSE "idle"

\* Mutant: one more than fits.
FullLate(size) == dfFill + size > PAGE_SIZE + 1

\* The entry does not fit, or its offset in seconds does not fit into a byte.
Full(size) ==
    \/ dfFill > 0 /\ now - dfBuf.timestamp >= MAX_OFFSET
    \/ dfFill + size > PAGE_SIZE

\* df_append(): into the buffer, after a save if it is full or old
df_append(size) ==
    /\ pc = "idle" /\ next <= MaxEntries /\ SavedSeq <= MaxSeq
    /\ LET full == Full(size)
           fresh == full \/ dfFill = 0
       IN /\ IF full THEN Save ELSE UNCHANGED <<flash, dfLastPage, pc>>
          /\ dfBuf' = [seqnum |-> IF full THEN SavedSeq ELSE dfBuf.seqnum,
                       timestamp |-> IF fresh THEN now ELSE dfBuf.timestamp,
                       data |-> IF full THEN <<next>> ELSE Append(dfBuf.data, next)]
          /\ dfFill' = size + IF full THEN 0 ELSE dfFill
    /\ next' = next + 1
    /\ UNCHANGED <<now, gone, wrapped>>

BlockOf(page) == {p \in Page : p \div DF_BLOCK_SIZE = page \div DF_BLOCK_SIZE}

\* df_erase()
EraseBlock(page) ==
    /\ flash' = [p \in Page |-> IF p \in BlockOf(page) THEN Erased ELSE flash[p]]
    /\ gone' = gone \cup UNION {EntriesOf(p) : p \in BlockOf(page)}

\* Mutant: the first block is not erased when the log is about to wrap.
EraseUnwrapped == dfLastPage + DF_BLOCK_SIZE

EraseAhead == df_wrap(dfLastPage + DF_BLOCK_SIZE)

\* erase next block if we just saved data into a fresh block
eraseNext ==
    /\ pc = "erase" /\ pc' = "idle"
    /\ EraseBlock(EraseAhead)
    /\ UNCHANGED <<dfBuf, dfFill, dfLastPage, now, next, wrapped>>

-----------------------------------------------------------------------------
(* Reset.                                                                  *)

\* Mutant: "careful with empty-filled-empty case" - the last page written.
LastSaveNaive ==
    LET filled == {p \in Log : Filled(p)}
    IN IF filled # {} THEN Max(filled) ELSE DF_LOG_LIMIT - 1

\* scanForLastSave(): the page before the first empty one that follows a page
\* written, else the last one written
LastSave ==
    LET stops == {p \in Log : ~Filled(p) /\ p - 1 \in Log /\ Filled(p - 1)}
        filled == {p \in Log : Filled(p)}
    IN IF stops # {} THEN Min(stops) - 1
       ELSE IF filled # {} THEN Max(filled) ELSE DF_LOG_LIMIT - 1

\* The sequence number that the log goes on with.
NextSeq == IF Filled(LastSave) THEN flash[LastSave].seqnum + 1 ELSE 0

\* df_initialize() with no entries in the buffer
PowerFail ==
    /\ \/ pc = "idle"
       \/ pc = "erase" /\ LossBeforeErase
    /\ NextSeq <= MaxSeq
    /\ dfBuf' = [seqnum |-> NextSeq, timestamp |-> 0, data |-> <<>>]
    /\ dfFill' = 0 /\ dfLastPage' = LastSave
    /\ now' = 0 /\ pc' = "idle"
    /\ gone' = gone \cup Buffered
    /\ UNCHANGED <<flash, next, wrapped>>

-----------------------------------------------------------------------------
(* The commands 'r', 'e' and 'w'.                                          *)

\* scanForMarker(): in the lowest sequence number from seqnum on, its first
\* page or the last one not younger than asof
scanForMarker(seqnum, asof) ==
    LET found == {p \in Log : Filled(p) /\ flash[p].seqnum >= seqnum}
        lowest == Min({flash[p].seqnum : p \in found})
        run == {p \in found : flash[p].seqnum = lowest}
    IN IF found = {} THEN 0
       ELSE Max({Min(run)} \cup {p \in run : flash[p].timestamp <= asof})

\* The pages df_replay() reads, in order, from a marker to dfLastPage.
ReplayPages(from) ==
    LET ahead == IF from <= dfLastPage THEN dfLastPage - from
                 ELSE (DF_LOG_LIMIT - from) + (dfLastPage - DF_LOG_BEGIN)
    IN [k \in 1 .. ahead |->
          IF from + k < DF_LOG_LIMIT THEN from + k
          ELSE DF_LOG_BEGIN + (from + k - DF_LOG_LIMIT)]

\* Mutant: the buffer counts as filled, with what was read last.
ReplayKeeps ==
    /\ pc = "idle" /\ dfBuf.seqnum < MaxSeq
    /\ dfBuf' = [dfBuf EXCEPT !.seqnum = @ + 1,
                             !.data = IF dfFill = 0 THEN <<>> ELSE flash[dfLastPage].data]
    /\ gone' = gone \cup Buffered
    /\ UNCHANGED <<flash, dfFill, dfLastPage, now, pc, next, wrapped>>

\* df_replay(): the pages end up in dfBuf, and what it held is dropped.
df_replay ==
    /\ pc = "idle" /\ dfBuf.seqnum < MaxSeq
    /\ dfBuf' = [dfBuf EXCEPT !.seqnum = @ + 1, !.data = <<>>] /\ dfFill' = 0
    /\ gone' = gone \cup Buffered
    /\ UNCHANGED <<flash, dfLastPage, now, pc, next, wrapped>>

eraseCommand ==
    /\ pc = "idle"
    /\ \E page \in EraseBlocks : EraseBlock(page)
    /\ UNCHANGED <<dfBuf, dfFill, dfLastPage, now, pc, next, wrapped>>

df_wipe ==
    /\ pc = "idle"
    /\ flash' = [p \in Page |-> Erased]
    /\ gone' = gone \cup UNION {EntriesOf(p) : p \in Page}
    /\ UNCHANGED <<dfBuf, dfFill, dfLastPage, now, pc, next, wrapped>>

-----------------------------------------------------------------------------
\* now(): "FIXME 49-day overflow", when millis() starts again at zero.  Time
\* that passes during an erase is as if it had passed before the save.
Tick ==
    /\ pc = "idle"
    /\ now' = IF now < MaxNow THEN now + 1 ELSE 0
    /\ wrapped' = (wrapped \/ now = MaxNow)
    /\ UNCHANGED <<flash, dfBuf, dfFill, dfLastPage, pc, next, gone>>

\* A chip that was wiped.
Init ==
    /\ flash = [p \in Page |-> Erased]
    /\ dfBuf = [seqnum |-> 0, timestamp |-> 0, data |-> <<>>]
    /\ dfFill = 0 /\ dfLastPage = DF_LOG_LIMIT - 1
    /\ now = 0 /\ pc = "idle" /\ next = 1 /\ gone = {} /\ wrapped = FALSE

Next ==
    \/ \E size \in Sizes : df_append(size)
    \/ eraseNext \/ PowerFail \/ df_replay \/ eraseCommand \/ df_wipe \/ Tick

Spec == Init /\ [][Next]_vars

-----------------------------------------------------------------------------
(* Properties.                                                             *)

\* The values each variable can hold.
TypeOK ==
    /\ flash \in [Page -> [seqnum : Nat, timestamp : Nat, data : Seq(Nat), ok : BOOLEAN]]
    /\ dfBuf \in [seqnum : 0 .. MaxSeq, timestamp : Nat, data : Seq(Nat)]
    /\ dfFill \in 0 .. PAGE_SIZE
    /\ dfLastPage \in Log /\ now \in 0 .. MaxNow
    /\ pc \in {"idle", "erase"} /\ next \in 1 .. MaxEntries + 1
    /\ gone \subseteq 1 .. MaxEntries /\ wrapped \in BOOLEAN

\* "erase next block if we just saved data into a fresh block": the page that
\* the next save programs is erased, after resets too.
PageAheadErased == pc = "idle" => flash[Saved] = Erased

\* Every entry is in the buffer, in exactly one good page of the log, or was
\* given up; saving, wrapping and resetting lose and repeat none.
EntriesAccounted ==
    \A e \in 1 .. next - 1 :
        Cardinality({p \in Log : flash[p].ok /\ e \in EntriesOf(p)})
          + (IF e \in Buffered THEN 1 ELSE 0) + (IF e \in gone THEN 1 ELSE 0) = 1

\* "look for last page before an empty page": a reset at any moment finds the
\* page that was written last, unless the log was wiped.
ScanFindsLast == (\E p \in Log : Filled(p)) => LastSave = dfLastPage

\* Every entry of page p came in before those of page q.
Precedes(p, q) == \A d \in EntriesOf(p), e \in EntriesOf(q) : d < e

\* A page that the marker covers: it is not newer than the sequence number and
\* the time asked for.
Covered(p, seqnum, asof) ==
    \/ flash[p].seqnum < seqnum
    \/ flash[p].seqnum = seqnum /\ flash[p].timestamp <= asof

\* From any marker df_replay() reports entries in the order in which they came
\* in, also across the end of the log, after a reset and after an earlier replay,
\* and the pages it leaves out are older than the one it starts behind.  While
\* the log still holds a page of the marker's sequence number that the marker
\* covers, and until the clock overflows, it reports exactly the pages that the
\* marker does not cover.  When those pages are gone, scanForMarker() applies the
\* time asked for to the next sequence number, or skips its first page, and pages
\* that were asked for are left out: nothing is claimed of them here.
ReplayInOrder ==
    pc = "idle" =>
      \A seqnum \in 0 .. MaxSeq, asof \in 0 .. MaxNow :
        LET from == scanForMarker(seqnum, asof)
            pages == ReplayPages(from)
        IN /\ \A j, k \in DOMAIN pages : j < k => Precedes(pages[j], pages[k])
           /\ from # 0 => \A p \in {p \in Log : Filled(p)} \ ({from} \cup Range(pages)) :
                              Precedes(p, from)
           /\ ~wrapped /\ (\E p \in Log : flash[p].seqnum = seqnum /\ Covered(p, seqnum, asof))
                => \A p \in Log : Filled(p) =>
                     (p \in Range(pages) <=> ~Covered(p, seqnum, asof))

=============================================================================
