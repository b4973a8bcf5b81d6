--------------------------- MODULE DataFlashProofs ---------------------------
(***************************************************************************)
(* The dataflash log for every block size, log size and page size: the     *)
(* page that is programmed next is erased, a reset finds the page that was *)
(* written last, no entry is lost or repeated, and a replay is in order.   *)
(***************************************************************************)
EXTENDS DataFlash, IntegerLemmas, FiniteSetTheorems

\* Power is not lost between a save and the erase that follows it, and the
\* command 'e' is not used inside the log.
Undisturbed == ~LossBeforeErase /\ EraseBlocks \subseteq 0 .. DF_LOG_BEGIN - 1

-----------------------------------------------------------------------------
(* The inductive invariants.                                               *)

\* Entries are numbered as they come in.
Numbered ==
    /\ \A p \in Page : EntriesOf(p) \subseteq 1 .. next - 1
    /\ Buffered \subseteq 1 .. next - 1 /\ gone \subseteq 1 .. next - 1

\* The block that follows the one of a page in the ring.
NextBlock(page) ==
    IF page \div DF_BLOCK_SIZE + 1 < DF_LOG_LIMIT \div DF_BLOCK_SIZE
      THEN page \div DF_BLOCK_SIZE + 1 ELSE DF_LOG_BEGIN \div DF_BLOCK_SIZE

\* A page without a sequence number is erased.
Blank == \A p \in Page : ~Filled(p) => flash[p] = Erased

\* The rest of the block being written is erased, and the block behind it too,
\* unless that is what happens next.
AheadErased ==
    /\ \A p \in Log : p > dfLastPage /\ p \div DF_BLOCK_SIZE = dfLastPage \div DF_BLOCK_SIZE
                        => flash[p] = Erased
    /\ pc = "idle" => \A p \in Log : p \div DF_BLOCK_SIZE = NextBlock(dfLastPage)
                                       => flash[p] = Erased
    /\ pc = "erase" => dfLastPage % DF_BLOCK_SIZE = 0

\* The pages written follow each other in the ring and end at dfLastPage.
Contiguous ==
    /\ \A p \in Log : Filled(p) /\ p # dfLastPage => Filled(df_wrap(p + 1))
    /\ (\E p \in Log : Filled(p)) => Filled(dfLastPage)

\* An entry is in one place: a page of the log, the buffer, or given up.
OnePlace ==
    /\ \A p \in Page : ~flash[p].ok \/ p \notin Log => EntriesOf(p) = {}
    /\ \A p, q \in Page : p # q => EntriesOf(p) \cap EntriesOf(q) = {}
    /\ \A p \in Page : EntriesOf(p) \cap (Buffered \cup gone) = {}
    /\ Buffered \cap gone = {}
    /\ \A e \in 1 .. next - 1 :
         e \in Buffered \/ e \in gone \/ \E p \in Log : e \in EntriesOf(p)

-----------------------------------------------------------------------------
(* Pages and blocks.                                                       *)

\* The sizes of the log and of its blocks.
LEMMA Sizing ==
    /\ DF_BLOCK_SIZE \in Nat /\ DF_BLOCK_SIZE > 1
    /\ DF_LOG_BEGIN \in Nat /\ DF_LOG_BEGIN > 0
    /\ DF_LOG_LIMIT \in Nat /\ DF_LOG_BEGIN + DF_BLOCK_SIZE < DF_LOG_LIMIT
    /\ \A p \in Log : p \in Nat /\ p >= DF_LOG_BEGIN /\ p < DF_LOG_LIMIT /\ p \in Page
    /\ \A p \in Page : p \in Nat /\ p < DF_LOG_LIMIT
    /\ EMPTY \in Nat /\ MaxSeq \in Nat /\ MaxSeq < EMPTY
  BY FlashAssumption DEF Log, Page

\* The log consists of whole blocks, at least two of them.
LEMMA LogBlocks ==
  /\ DF_LOG_BEGIN \div DF_BLOCK_SIZE \in Nat /\ DF_LOG_LIMIT \div DF_BLOCK_SIZE \in Nat
  /\ DF_LOG_BEGIN \div DF_BLOCK_SIZE + 1 < DF_LOG_LIMIT \div DF_BLOCK_SIZE
  /\ \A x \in Nat : /\ x \div DF_BLOCK_SIZE \in Nat
                    /\ x < DF_LOG_LIMIT <=> x \div DF_BLOCK_SIZE < DF_LOG_LIMIT \div DF_BLOCK_SIZE
                    /\ x < DF_LOG_BEGIN <=> x \div DF_BLOCK_SIZE < DF_LOG_BEGIN \div DF_BLOCK_SIZE
<1>1. /\ DF_BLOCK_SIZE \in Nat \ {0} /\ DF_LOG_LIMIT % DF_BLOCK_SIZE = 0
      /\ DF_LOG_BEGIN % DF_BLOCK_SIZE = 0
  BY FlashAssumption
<1>2. ASSUME NEW x \in Nat
      PROVE  /\ x \div DF_BLOCK_SIZE \in Nat
             /\ x < DF_LOG_LIMIT <=> x \div DF_BLOCK_SIZE < DF_LOG_LIMIT \div DF_BLOCK_SIZE
             /\ x < DF_LOG_BEGIN <=> x \div DF_BLOCK_SIZE < DF_LOG_BEGIN \div DF_BLOCK_SIZE
  BY <1>1, Sizing, DivMod, DivBelow
<1>3. DF_LOG_BEGIN \div DF_BLOCK_SIZE \in Nat /\ DF_LOG_LIMIT \div DF_BLOCK_SIZE \in Nat
  BY <1>2, Sizing
<1>4. (DF_LOG_BEGIN + DF_BLOCK_SIZE) \div DF_BLOCK_SIZE = DF_LOG_BEGIN \div DF_BLOCK_SIZE + 1
  <2> DEFINE q == DF_LOG_BEGIN \div DF_BLOCK_SIZE
  <2>1. q \in Nat /\ DF_LOG_BEGIN = DF_BLOCK_SIZE * q
    BY <1>1, <1>3, Sizing, DivBelow
  <2> HIDE DEF q
  <2>2. DF_LOG_BEGIN + DF_BLOCK_SIZE = DF_BLOCK_SIZE * (q + 1) + 0
    BY <2>1, Sizing
  <2>3. q + 1 \in Nat /\ 0 \in 0 .. DF_BLOCK_SIZE - 1 /\ DF_LOG_BEGIN + DF_BLOCK_SIZE \in Nat
    BY <2>1, Sizing
  <2>4. (DF_LOG_BEGIN + DF_BLOCK_SIZE) \div DF_BLOCK_SIZE = q + 1
    BY <1>1, <2>2, <2>3, DivUnique
  <2>5. QED
    BY <2>4 DEF q
<1>5. DF_LOG_BEGIN + DF_BLOCK_SIZE \in Nat
  BY Sizing
<1>6. DF_LOG_BEGIN \div DF_BLOCK_SIZE + 1 < DF_LOG_LIMIT \div DF_BLOCK_SIZE
  BY <1>2, <1>4, <1>5, Sizing
<1>7. QED
  BY <1>2, <1>3, <1>6

\* The page behind a page in the ring is in the same block or begins the next.
LEMMA PageBehind ==
  ASSUME NEW page \in Log
  PROVE  /\ df_wrap(page + 1) \in Log /\ df_wrap(page + 1) # page
         /\ df_wrap(page + 1) % DF_BLOCK_SIZE # 0 =>
              /\ df_wrap(page + 1) = page + 1
              /\ df_wrap(page + 1) \div DF_BLOCK_SIZE = page \div DF_BLOCK_SIZE
         /\ df_wrap(page + 1) % DF_BLOCK_SIZE = 0 => df_wrap(page + 1) \div DF_BLOCK_SIZE = NextBlock(page)
<1>1. /\ page \in Nat /\ page >= DF_LOG_BEGIN /\ page < DF_LOG_LIMIT
      /\ DF_BLOCK_SIZE \in Nat \ {0}
  BY Sizing
<1>2. /\ page \div DF_BLOCK_SIZE \in Nat
      /\ (page + 1) \div DF_BLOCK_SIZE
           = (page \div DF_BLOCK_SIZE) + IF (page + 1) % DF_BLOCK_SIZE = 0 THEN 1 ELSE 0
  BY <1>1, Sizing, DivNext, DivMod
<1>3. CASE page + 1 < DF_LOG_LIMIT
  <2>1. df_wrap(page + 1) = page + 1 /\ df_wrap(page + 1) \in Log
    BY <1>1, <1>3, Sizing DEF df_wrap, Log
  <2>2. (page + 1) \div DF_BLOCK_SIZE < DF_LOG_LIMIT \div DF_BLOCK_SIZE
    BY <1>1, <1>3, LogBlocks
  <2>3. QED
    BY <1>1, <1>2, <2>1, <2>2 DEF NextBlock
<1>4. CASE ~(page + 1 < DF_LOG_LIMIT)
  <2>1. df_wrap(page + 1) = DF_LOG_BEGIN /\ page + 1 = DF_LOG_LIMIT
    BY <1>1, <1>4, Sizing DEF df_wrap
  <2>2. DF_LOG_LIMIT % DF_BLOCK_SIZE = 0 /\ DF_LOG_BEGIN % DF_BLOCK_SIZE = 0
    BY FlashAssumption
  <2>3. page \div DF_BLOCK_SIZE + 1 = DF_LOG_LIMIT \div DF_BLOCK_SIZE
    BY <1>1, <1>2, <2>1, <2>2
  <2>4. NextBlock(page) = DF_LOG_BEGIN \div DF_BLOCK_SIZE
    BY <1>2, <2>3, LogBlocks DEF NextBlock
  <2>5. QED
    BY <1>1, <2>1, <2>2, <2>4, Sizing DEF Log
<1>5. QED
  BY <1>3, <1>4

\* So it is for the next page to write.
LEMMA SavedPage ==
  ASSUME dfLastPage \in Log
  PROVE  /\ Saved \in Log /\ Saved # dfLastPage
         /\ Saved % DF_BLOCK_SIZE # 0 =>
              /\ Saved = dfLastPage + 1
              /\ Saved \div DF_BLOCK_SIZE = dfLastPage \div DF_BLOCK_SIZE
         /\ Saved % DF_BLOCK_SIZE = 0 => Saved \div DF_BLOCK_SIZE = NextBlock(dfLastPage)
  BY PageBehind DEF Saved

\* The next block is one of the log's others.
LEMMA NextBlockOther ==
  ASSUME NEW x \in Log
  PROVE  NextBlock(x) \in Nat /\ NextBlock(x) # x \div DF_BLOCK_SIZE
<1>1. /\ x \div DF_BLOCK_SIZE \in Nat
      /\ x \div DF_BLOCK_SIZE < DF_LOG_LIMIT \div DF_BLOCK_SIZE
      /\ ~(x \div DF_BLOCK_SIZE < DF_LOG_BEGIN \div DF_BLOCK_SIZE)
  BY Sizing, LogBlocks
<1>2. QED
  BY <1>1, LogBlocks DEF NextBlock

\* Different blocks are followed by different blocks.
LEMMA NextBlockInjective ==
  ASSUME NEW x \in Log, NEW y \in Log, NextBlock(x) = NextBlock(y)
  PROVE  x \div DF_BLOCK_SIZE = y \div DF_BLOCK_SIZE
<1>1. /\ x \div DF_BLOCK_SIZE \in Nat /\ y \div DF_BLOCK_SIZE \in Nat
      /\ x \div DF_BLOCK_SIZE < DF_LOG_LIMIT \div DF_BLOCK_SIZE
      /\ y \div DF_BLOCK_SIZE < DF_LOG_LIMIT \div DF_BLOCK_SIZE
      /\ ~(x \div DF_BLOCK_SIZE < DF_LOG_BEGIN \div DF_BLOCK_SIZE)
      /\ ~(y \div DF_BLOCK_SIZE < DF_LOG_BEGIN \div DF_BLOCK_SIZE)
  BY Sizing, LogBlocks
<1>2. QED
  BY <1>1, LogBlocks DEF NextBlock

\* The block erased ahead of a save at the start of a block is the next one.
LEMMA EraseAheadBlock ==
  ASSUME dfLastPage \in Log, dfLastPage % DF_BLOCK_SIZE = 0
  PROVE  EraseAhead \in Log /\ EraseAhead \div DF_BLOCK_SIZE = NextBlock(dfLastPage)
<1> DEFINE q == dfLastPage \div DF_BLOCK_SIZE
<1>1. /\ dfLastPage \in Nat /\ dfLastPage >= DF_LOG_BEGIN /\ dfLastPage < DF_LOG_LIMIT
      /\ DF_BLOCK_SIZE \in Nat \ {0} /\ q \in Nat /\ dfLastPage = DF_BLOCK_SIZE * q
  BY Sizing, DivBelow, LogBlocks
<1> HIDE DEF q
<1>2. dfLastPage + DF_BLOCK_SIZE \in Nat /\ q + 1 \in Nat /\ 0 \in 0 .. DF_BLOCK_SIZE - 1
  BY <1>1
<1>3. dfLastPage + DF_BLOCK_SIZE = DF_BLOCK_SIZE * (q + 1) + 0
  BY <1>1
<1>4. (dfLastPage + DF_BLOCK_SIZE) \div DF_BLOCK_SIZE = q + 1
  BY <1>1, <1>2, <1>3, DivUnique, SMTT(30)
<1>5. dfLastPage + DF_BLOCK_SIZE < DF_LOG_LIMIT <=> q + 1 < DF_LOG_LIMIT \div DF_BLOCK_SIZE
  BY <1>2, <1>4, LogBlocks
<1>6. QED
  BY <1>1, <1>2, <1>4, <1>5, Sizing DEF EraseAhead, df_wrap, NextBlock, Log, q

-----------------------------------------------------------------------------
(* What the operations do to the pages.                                    *)

Content == [seqnum : Nat, timestamp : Nat, data : Seq(Nat), ok : BOOLEAN]

\* The pages of S are erased, and their entries given up.
Erases(S) ==
    /\ flash' = [p \in Page |-> IF p \in S THEN Erased ELSE flash[p]]
    /\ gone' = gone \cup UNION {EntriesOf(p) : p \in S}

\* An erased page holds no entries.
LEMMA ErasedContent ==
  /\ Erased \in Content /\ Erased.seqnum = EMPTY /\ Erased.data = <<>> /\ ~Erased.ok
  /\ {<<>>[k] : k \in DOMAIN <<>>} = {}
<1>1. Erased \in Content
  BY Sizing DEF Erased, Content
<1>2. Erased.seqnum = EMPTY /\ Erased.data = <<>> /\ ~Erased.ok
  BY DEF Erased
<1>3. DOMAIN <<>> = {}
  OBVIOUS
<1>4. QED
  BY <1>1, <1>2, <1>3

\* The entries of a page that is erased are none.
LEMMA NoEntries ==
  ASSUME NEW p
  PROVE  /\ flash[p].data = <<>> => EntriesOf(p) = {}
         /\ flash'[p].data = <<>> => EntriesOf(p)' = {}
         /\ flash'[p].data = flash[p].data => EntriesOf(p)' = EntriesOf(p)
  BY ErasedContent DEF EntriesOf

\* df_erase(), the command 'e' and df_wipe() erase whole blocks.
LEMMA EraseSteps ==
  /\ eraseNext => Erases(BlockOf(EraseAhead))
  /\ eraseCommand => \E page \in EraseBlocks : Erases(BlockOf(page))
  /\ df_wipe => Erases(Page)
  /\ \A page : BlockOf(page) \subseteq Page
<1>1. df_wipe => Erases(Page)
  BY DEF df_wipe, Erases
<1>2. QED
  BY <1>1 DEF eraseNext, eraseCommand, EraseBlock, Erases, BlockOf

\* Erasing leaves the other pages alone.
LEMMA EraseEffect ==
  ASSUME TypeOK, NEW S \in SUBSET Page, Erases(S)
  PROVE  /\ flash' \in [Page -> Content]
         /\ \A p \in Page : flash'[p] = IF p \in S THEN Erased ELSE flash[p]
         /\ \A p \in Page : EntriesOf(p)' = IF p \in S THEN {} ELSE EntriesOf(p)
         /\ \A e : e \in gone' <=> e \in gone \/ \E p \in S : e \in EntriesOf(p)
<1>1. flash \in [Page -> Content]
  BY DEF TypeOK, Content
<1>2. \A p \in Page : flash'[p] = IF p \in S THEN Erased ELSE flash[p]
  BY DEF Erases
<1>3. flash' \in [Page -> Content]
  <2>1. \A p \in Page : (IF p \in S THEN Erased ELSE flash[p]) \in Content
    BY <1>1, ErasedContent
  <2>2. QED
    BY <2>1 DEF Erases
<1>4. ASSUME NEW p \in Page
      PROVE  EntriesOf(p)' = IF p \in S THEN {} ELSE EntriesOf(p)
  <2>1. CASE p \in S
    BY <1>2, <2>1, NoEntries, ErasedContent
  <2>2. CASE p \notin S
    BY <1>2, <2>2, NoEntries
  <2>3. QED
    BY <2>1, <2>2
<1>5. \A e : e \in gone' <=> e \in gone \/ \E p \in S : e \in EntriesOf(p)
  BY DEF Erases
<1>6. QED
  BY <1>2, <1>3, <1>4, <1>5

\* A save programs one page with what the buffer holds, or spoils it.
LEMMA SaveEffect ==
  ASSUME TypeOK, Save
  PROVE  /\ flash' \in [Page -> Content]
         /\ \A p \in Page : p # Saved => flash'[p] = flash[p] /\ EntriesOf(p)' = EntriesOf(p)
         /\ \A p \in Page : p = Saved =>
              /\ flash'[p].seqnum = SavedSeq
              /\ flash[p] = Erased => flash'[p].ok /\ EntriesOf(p)' = Buffered
              /\ flash[p] # Erased => ~flash'[p].ok /\ EntriesOf(p)' = {}
<1> DEFINE c == [seqnum |-> SavedSeq, timestamp |-> dfBuf.timestamp, data |-> dfBuf.data, ok |-> TRUE]
           d == [c EXCEPT !.ok = FALSE, !.data = <<>>]
<1>1. flash \in [Page -> Content] /\ Saved \in Page
  BY Sizing, SavedPage DEF TypeOK, Content
<1>2. SavedSeq \in Nat /\ dfBuf.timestamp \in Nat /\ dfBuf.data \in Seq(Nat)
  <2>1. dfBuf.seqnum \in Nat /\ dfBuf.timestamp \in Nat /\ dfBuf.data \in Seq(Nat)
    BY Sizing DEF TypeOK
  <2>2. QED
    BY <2>1 DEF SavedSeq
<1>3. c \in Content /\ c.seqnum = SavedSeq /\ c.data = dfBuf.data /\ c.ok
  BY <1>2 DEF Content
<1>4. <<>> \in Seq(Nat)
  OBVIOUS
<1>5. d \in Content /\ d.seqnum = SavedSeq /\ d.data = <<>> /\ ~d.ok
  BY <1>2, <1>4 DEF Content
<1>6. flash' = [flash EXCEPT ![Saved] = IF flash[Saved] = Erased THEN c ELSE d]
  BY DEF Save, Program
<1> HIDE DEF c, d
<1>7. /\ flash' \in [Page -> Content]
      /\ \A p \in Page : p # Saved => flash'[p] = flash[p]
      /\ flash'[Saved] = IF flash[Saved] = Erased THEN c ELSE d
  BY <1>1, <1>3, <1>5, <1>6
<1>8. \A p \in Page : p # Saved => EntriesOf(p)' = EntriesOf(p)
  BY <1>7, NoEntries
<1>9. ASSUME NEW p \in Page, p = Saved
      PROVE  /\ flash'[p].seqnum = SavedSeq
             /\ flash[p] = Erased => flash'[p].ok /\ EntriesOf(p)' = Buffered
             /\ flash[p] # Erased => ~flash'[p].ok /\ EntriesOf(p)' = {}
  <2>1. CASE flash[p] = Erased
    <3>1. flash'[p] = c
      BY <1>7, <1>9, <2>1
    <3>2. EntriesOf(p)' = Buffered
      BY <1>3, <3>1 DEF EntriesOf, Buffered
    <3>3. QED
      BY <1>3, <2>1, <3>1, <3>2
  <2>2. CASE flash[p] # Erased
    <3>1. flash'[p] = d
      BY <1>7, <1>9, <2>2
    <3>2. EntriesOf(p)' = {}
      BY <1>5, <3>1, NoEntries
    <3>3. QED
      BY <1>5, <2>2, <3>1, <3>2
  <2>3. QED
    BY <2>1, <2>2
<1>10. QED
  BY <1>7, <1>8, <1>9

\* The entries of a sequence that one is appended to.
LEMMA AppendRange ==
  ASSUME NEW s \in Seq(Nat), NEW x \in Nat
  PROVE  /\ Append(s, x) \in Seq(Nat) /\ <<x>> \in Seq(Nat)
         /\ {Append(s, x)[k] : k \in DOMAIN Append(s, x)} = {s[k] : k \in DOMAIN s} \cup {x}
         /\ {<<x>>[k] : k \in DOMAIN <<x>>} = {x}
<1>1. Append(s, x) \in Seq(Nat) /\ <<x>> \in Seq(Nat)
  OBVIOUS
<1>2. DOMAIN Append(s, x) = 1 .. Len(s) + 1 /\ DOMAIN s = 1 .. Len(s) /\ Len(s) \in Nat
  OBVIOUS
<1>3. /\ \A k \in 1 .. Len(s) : Append(s, x)[k] = s[k]
      /\ Append(s, x)[Len(s) + 1] = x
  OBVIOUS
<1>4. {Append(s, x)[k] : k \in DOMAIN Append(s, x)} = {s[k] : k \in DOMAIN s} \cup {x}
  <2>1. \A k \in 1 .. Len(s) + 1 : k \in 1 .. Len(s) \/ k = Len(s) + 1
    BY <1>2
  <2>2. \A k \in 1 .. Len(s) : k \in 1 .. Len(s) + 1
    BY <1>2
  <2>3. Len(s) + 1 \in 1 .. Len(s) + 1
    BY <1>2
  <2>4. QED
    BY <1>2, <1>3, <2>1, <2>2, <2>3
<1>5. {<<x>>[k] : k \in DOMAIN <<x>>} = {x}
  OBVIOUS
<1>6. QED
  BY <1>1, <1>4, <1>5

\* df_append() puts the new entry into the buffer, behind what was there or
\* after that was saved.
LEMMA AppendEffect ==
  ASSUME TypeOK, NEW size \in Sizes, df_append(size)
  PROVE  /\ pc = "idle" /\ next \in 1 .. MaxEntries /\ next' = next + 1 /\ SavedSeq <= MaxSeq
         /\ UNCHANGED <<now, gone>>
         /\ dfBuf' \in [seqnum : 0 .. MaxSeq, timestamp : Nat, data : Seq(Nat)]
         /\ dfFill' \in 0 .. PAGE_SIZE
         /\ Full(size) => Save /\ Buffered' = {next}
         /\ ~Full(size) => UNCHANGED <<flash, dfLastPage, pc>> /\ Buffered' = Buffered \cup {next}
<1>1. /\ pc = "idle" /\ next <= MaxEntries /\ next' = next + 1 /\ SavedSeq <= MaxSeq
      /\ UNCHANGED <<now, gone>>
  BY DEF df_append
<1>2. next \in 1 .. MaxEntries /\ next \in Nat /\ now \in Nat /\ dfFill \in 0 .. PAGE_SIZE
  BY <1>1, FlashAssumption DEF TypeOK
<1>3. dfBuf.seqnum \in 0 .. MaxSeq /\ dfBuf.timestamp \in Nat /\ dfBuf.data \in Seq(Nat)
  BY DEF TypeOK
<1>4. SavedSeq \in 0 .. MaxSeq
  BY <1>1, <1>3, Sizing DEF SavedSeq
<1>5. size \in 1 .. PAGE_SIZE /\ PAGE_SIZE \in Nat
  BY FlashAssumption
<1>6. CASE Full(size)
  <2>1. Save /\ dfBuf' = [seqnum |-> SavedSeq, timestamp |-> now, data |-> <<next>>]
    BY <1>6 DEF df_append
  <2>2. dfFill' = size + 0
    BY <1>6 DEF df_append
  <2>3. Buffered' = {next}
    <3>1. dfBuf'.data = <<next>>
      BY <2>1
    <3>2. {<<next>>[k] : k \in DOMAIN <<next>>} = {next}
      BY <1>2, <1>3, AppendRange
    <3>3. QED
      BY <3>1, <3>2 DEF Buffered
  <2>4. dfBuf' \in [seqnum : 0 .. MaxSeq, timestamp : Nat, data : Seq(Nat)]
    BY <1>2, <1>3, <1>4, <2>1, AppendRange
  <2>5. QED
    BY <1>1, <1>2, <1>5, <1>6, <2>1, <2>2, <2>3, <2>4
<1>7. CASE ~Full(size)
  <2>1. /\ UNCHANGED <<flash, dfLastPage, pc>>
        /\ dfBuf' = [seqnum |-> dfBuf.seqnum,
                     timestamp |-> IF dfFill = 0 THEN now ELSE dfBuf.timestamp,
                     data |-> Append(dfBuf.data, next)]
    BY <1>7 DEF df_append
  <2>2. dfFill' = size + dfFill /\ ~(dfFill + size > PAGE_SIZE)
    BY <1>7 DEF df_append, Full
  <2>3. Buffered' = Buffered \cup {next}
    <3>1. dfBuf'.data = Append(dfBuf.data, next)
      BY <2>1
    <3>2. {Append(dfBuf.data, next)[k] : k \in DOMAIN Append(dfBuf.data, next)}
            = {dfBuf.data[k] : k \in DOMAIN dfBuf.data} \cup {next}
      BY <1>2, <1>3, AppendRange
    <3>3. QED
      BY <3>1, <3>2 DEF Buffered
  <2>4. dfBuf' \in [seqnum : 0 .. MaxSeq, timestamp : Nat, data : Seq(Nat)]
    BY <1>2, <1>3, <2>1, AppendRange
  <2>5. dfFill' \in 0 .. PAGE_SIZE
    BY <1>2, <1>5, <2>2
  <2>6. QED
    BY <1>1, <1>2, <1>7, <2>1, <2>3, <2>4, <2>5
<1>8. QED
  BY <1>6, <1>7

\* scanForLastSave() ends at a page of the log.
LEMMA LastSaveInLog ==
  ASSUME TypeOK
  PROVE  LastSave \in Log
<1> DEFINE stops == {p \in Log : ~Filled(p) /\ p - 1 \in Log /\ Filled(p - 1)}
           filled == {p \in Log : Filled(p)}
<1>1. stops \subseteq Nat /\ filled \subseteq 0 .. DF_LOG_LIMIT
  BY Sizing
<1>2. CASE stops # {}
  <2>1. Min(stops) \in stops
    BY <1>1, <1>2, MinNat
  <2>2. QED
    BY <1>2, <2>1 DEF LastSave
<1>3. CASE stops = {} /\ filled # {}
  <2>1. Max(filled) \in filled
    BY <1>1, <1>3, Sizing, MaxNat
  <2>2. QED
    BY <1>3, <2>1 DEF LastSave
<1>4. CASE stops = {} /\ filled = {}
  <2>1. LastSave = DF_LOG_LIMIT - 1
    BY <1>4 DEF LastSave
  <2>2. QED
    BY <2>1, Sizing DEF Log
<1>5. QED
  BY <1>2, <1>3, <1>4

\* A reset: the buffer's entries are given up.
LEMMA ResetEffect ==
  ASSUME TypeOK, PowerFail
  PROVE  /\ dfBuf' \in [seqnum : 0 .. MaxSeq, timestamp : Nat, data : Seq(Nat)]
         /\ dfFill' = 0 /\ dfLastPage' = LastSave /\ now' = 0 /\ pc' = "idle"
         /\ gone' = gone \cup Buffered /\ Buffered' = {} /\ UNCHANGED <<flash, next>>
<1>1. dfBuf' = [seqnum |-> NextSeq, timestamp |-> 0, data |-> <<>>] /\ NextSeq <= MaxSeq
  BY DEF PowerFail
<1>2. NextSeq \in Nat
  <2>1. LastSave \in Page
    BY LastSaveInLog, Sizing
  <2>2. flash[LastSave].seqnum \in Nat
    BY <2>1 DEF TypeOK
  <2>3. QED
    BY <2>2 DEF NextSeq
<1>3. <<>> \in Seq(Nat)
  OBVIOUS
<1>4. dfBuf' \in [seqnum : 0 .. MaxSeq, timestamp : Nat, data : Seq(Nat)]
  BY <1>1, <1>2, <1>3, Sizing
<1>5. Buffered' = {}
  <2>1. dfBuf'.data = <<>>
    BY <1>1
  <2>2. QED
    BY <2>1, ErasedContent DEF Buffered
<1>6. QED
  BY <1>4, <1>5 DEF PowerFail

\* df_replay() gives the buffer's entries up as well.
LEMMA ReplayEffect ==
  ASSUME TypeOK, df_replay
  PROVE  /\ dfBuf' \in [seqnum : 0 .. MaxSeq, timestamp : Nat, data : Seq(Nat)]
         /\ dfFill' = 0 /\ gone' = gone \cup Buffered /\ Buffered' = {}
         /\ UNCHANGED <<flash, dfLastPage, now, pc, next>>
<1>1. dfBuf' = [dfBuf EXCEPT !.seqnum = @ + 1, !.data = <<>>] /\ dfBuf.seqnum < MaxSeq
  BY DEF df_replay
<1>2. dfBuf \in [seqnum : 0 .. MaxSeq, timestamp : Nat, data : Seq(Nat)] /\ MaxSeq \in Nat
  BY Sizing DEF TypeOK
<1>3. <<>> \in Seq(Nat)
  OBVIOUS
<1>4. dfBuf' = [seqnum |-> dfBuf.seqnum + 1, timestamp |-> dfBuf.timestamp, data |-> <<>>]
  BY <1>1, <1>2
<1>5. dfBuf' \in [seqnum : 0 .. MaxSeq, timestamp : Nat, data : Seq(Nat)]
  <2>1. dfBuf.seqnum + 1 \in 0 .. MaxSeq /\ dfBuf.timestamp \in Nat
    BY <1>1, <1>2
  <2>2. QED
    BY <1>3, <1>4, <2>1
<1>6. Buffered' = {}
  <2>1. dfBuf'.data = <<>>
    BY <1>4
  <2>2. QED
    BY <2>1, ErasedContent DEF Buffered
<1>7. QED
  BY <1>5, <1>6 DEF df_replay

-----------------------------------------------------------------------------
(* Types.                                                                  *)

\* Entries stay numbered while each of them stays or is given up.
LEMMA TypeStep ==
  ASSUME TypeOK, Numbered, [Next]_vars
  PROVE  TypeOK' /\ Numbered'
<1>1. /\ flash \in [Page -> Content] /\ dfLastPage \in Log /\ next \in 1 .. MaxEntries + 1
      /\ now \in 0 .. MaxNow /\ MaxEntries \in Nat /\ MaxNow \in Nat
      /\ pc \in {"idle", "erase"} /\ dfFill \in 0 .. PAGE_SIZE /\ PAGE_SIZE \in Nat
      /\ wrapped \in BOOLEAN
  BY FlashAssumption DEF TypeOK, Content
<1>2. ASSUME NEW n \in 1 .. MaxEntries + 1 PROVE 1 .. n - 1 \subseteq 1 .. MaxEntries
  BY <1>1
<1>3. ASSUME NEW S \in SUBSET Page, Erases(S), UNCHANGED <<dfBuf, dfFill, dfLastPage, now, next, wrapped>>,
             pc' \in {"idle", "erase"}
      PROVE  TypeOK' /\ Numbered'
  <2>1. gone' \subseteq 1 .. next - 1
    <3>1. \A e : e \in gone' <=> e \in gone \/ \E p \in S : e \in EntriesOf(p)
      BY <1>3, EraseEffect
    <3>2. gone \subseteq 1 .. next - 1 /\ \A p \in S : EntriesOf(p) \subseteq 1 .. next - 1
      BY DEF Numbered
    <3>3. QED
      BY <3>1, <3>2
  <2>2. Buffered' = Buffered
    BY <1>3 DEF Buffered
  <2>3. Numbered'
    BY <1>3, <2>1, <2>2, EraseEffect DEF Numbered
  <2>4. TypeOK'
    BY <1>1, <1>2, <1>3, <2>1, EraseEffect DEF TypeOK, Content
  <2>5. QED
    BY <2>3, <2>4
<1>4. ASSUME NEW size \in Sizes, df_append(size)
      PROVE  TypeOK' /\ Numbered'
  <2>1. /\ next \in 1 .. MaxEntries /\ next' = next + 1 /\ UNCHANGED <<now, gone, wrapped>>
        /\ dfBuf' \in [seqnum : 0 .. MaxSeq, timestamp : Nat, data : Seq(Nat)]
        /\ dfFill' \in 0 .. PAGE_SIZE
    BY <1>4, AppendEffect DEF df_append
  <2>2. /\ next' \in 1 .. MaxEntries + 1
        /\ \A e : e \in 1 .. next - 1 \/ e = next => e \in 1 .. next' - 1
    BY <1>1, <2>1
  <2>3. CASE Full(size)
    <3>1. Save /\ Buffered' = {next}
      BY <1>4, <2>3, AppendEffect
    <3>2. flash' \in [Page -> Content] /\ dfLastPage' \in Log /\ pc' \in {"idle", "erase"}
      BY <1>1, <3>1, SaveEffect, SavedPage DEF Save
    <3>3. \A p \in Page : EntriesOf(p)' = EntriesOf(p) \/ EntriesOf(p)' = {} \/ EntriesOf(p)' = Buffered
      BY <3>1, SaveEffect
    <3>4. Numbered'
      BY <2>1, <2>2, <3>1, <3>3 DEF Numbered
    <3>5. QED
      BY <1>1, <1>2, <2>1, <2>2, <3>2, <3>4 DEF TypeOK, Numbered, Content
  <2>4. CASE ~Full(size)
    <3>1. UNCHANGED <<flash, dfLastPage, pc>> /\ Buffered' = Buffered \cup {next}
      BY <1>4, <2>4, AppendEffect
    <3>2. \A p \in Page : EntriesOf(p)' = EntriesOf(p)
      BY <3>1 DEF EntriesOf
    <3>3. Numbered'
      BY <2>1, <2>2, <3>1, <3>2 DEF Numbered
    <3>4. QED
      BY <1>1, <1>2, <2>1, <2>2, <3>1, <3>3 DEF TypeOK, Numbered, Content
  <2>5. QED
    BY <2>3, <2>4
<1>5. CASE eraseNext
  BY <1>3, <1>5, EraseSteps DEF eraseNext
<1>6. ASSUME PowerFail \/ df_replay
      PROVE  TypeOK' /\ Numbered'
  <2>1. /\ dfBuf' \in [seqnum : 0 .. MaxSeq, timestamp : Nat, data : Seq(Nat)]
        /\ dfFill' = 0 /\ gone' = gone \cup Buffered /\ Buffered' = {} /\ UNCHANGED <<flash, next>>
    BY <1>6, ResetEffect, ReplayEffect
  <2>2. /\ dfLastPage' \in Log /\ now' \in 0 .. MaxNow /\ pc' \in {"idle", "erase"}
        /\ wrapped' = wrapped
    BY <1>1, <1>6, ResetEffect, ReplayEffect, LastSaveInLog DEF PowerFail, df_replay
  <2>3. \A p \in Page : EntriesOf(p)' = EntriesOf(p)
    BY <2>1 DEF EntriesOf
  <2>4. Numbered'
    BY <2>1, <2>3 DEF Numbered
  <2>5. dfFill' \in 0 .. PAGE_SIZE
    BY <1>1, <2>1
  <2>6. QED
    BY <1>1, <1>2, <2>1, <2>2, <2>4, <2>5 DEF TypeOK, Numbered, Content
<1>7. CASE eraseCommand
  BY <1>1, <1>3, <1>7, EraseSteps DEF eraseCommand
<1>8. CASE df_wipe
  BY <1>1, <1>3, <1>8, EraseSteps DEF df_wipe
<1>9. ASSUME Tick \/ UNCHANGED vars
      PROVE  TypeOK' /\ Numbered'
  <2>1. UNCHANGED <<flash, dfBuf, dfFill, dfLastPage, pc, next, gone>>
    BY <1>9 DEF Tick, vars
  <2>2. now' \in 0 .. MaxNow /\ wrapped' \in BOOLEAN
    <3>1. CASE Tick
      <4>1. now' = IF now < MaxNow THEN now + 1 ELSE 0
        BY <3>1 DEF Tick
      <4>2. wrapped' \in BOOLEAN
        BY <3>1, Zenon DEF Tick
      <4>3. QED
        BY <1>1, <4>1, <4>2
    <3>2. CASE UNCHANGED vars
      BY <1>1, <3>2 DEF vars
    <3>3. QED
      BY <1>9, <3>1, <3>2
  <2>3. Buffered' = Buffered /\ \A p \in Page : EntriesOf(p)' = EntriesOf(p)
    BY <2>1 DEF Buffered, EntriesOf
  <2>4. QED
    BY <2>1, <2>2, <2>3 DEF TypeOK, Numbered
<1>10. QED
  BY <1>4, <1>5, <1>6, <1>7, <1>8, <1>9 DEF Next

\* The log starts with erased pages and an empty buffer.
LEMMA InitialState ==
  ASSUME Init
  PROVE  /\ TypeOK /\ Numbered /\ \A p \in Page : flash[p] = Erased /\ EntriesOf(p) = {}
         /\ Buffered = {} /\ gone = {} /\ next = 1 /\ pc = "idle"
<1>1. \A p \in Page : flash[p] = Erased /\ EntriesOf(p) = {}
  <2>1. \A p \in Page : flash[p] = Erased
    BY DEF Init
  <2>2. QED
    BY <2>1, NoEntries, ErasedContent
<1>2. Buffered = {}
  <2>1. dfBuf.data = <<>>
    BY DEF Init
  <2>2. QED
    BY <2>1, ErasedContent DEF Buffered
<1>3. TypeOK
  <2>1. flash \in [Page -> Content]
    BY ErasedContent DEF Init
  <2>2. 0 \in 0 .. MaxSeq /\ <<>> \in Seq(Nat) /\ 0 \in 0 .. PAGE_SIZE /\ 0 \in 0 .. MaxNow
        /\ 1 \in 1 .. MaxEntries + 1 /\ DF_LOG_LIMIT - 1 \in Log
    BY FlashAssumption, Sizing DEF Log
  <2>3. QED
    BY <2>1, <2>2 DEF Init, TypeOK, Content
<1>4. QED
  BY <1>1, <1>2, <1>3 DEF Init, Numbered

\* Every variable keeps its type, and every entry in a page, in the buffer or
\* given up is one that came in.
THEOREM TypeCorrect == Spec => []TypeOK
<1>1. Init => TypeOK /\ Numbered
  BY InitialState
<1>2. TypeOK /\ Numbered /\ [Next]_vars => (TypeOK /\ Numbered)'
  BY TypeStep
<1>3. QED
  BY <1>1, <1>2, PTL DEF Spec

-----------------------------------------------------------------------------
(* The ring of pages.                                                      *)

RingInv == Blank /\ AheadErased /\ Contiguous

\* Outside of an erase the page to write next is erased.
LEMMA AheadOfSave ==
  ASSUME TypeOK, RingInv, pc = "idle"
  PROVE  flash[Saved] = Erased
<1>1. dfLastPage \in Log /\ dfLastPage \in Nat
  BY Sizing DEF TypeOK
<1>2. CASE Saved % DF_BLOCK_SIZE = 0
  BY <1>1, <1>2, SavedPage DEF RingInv, AheadErased
<1>3. CASE Saved % DF_BLOCK_SIZE # 0
  <2>1. Saved \in Log /\ Saved > dfLastPage /\ Saved \div DF_BLOCK_SIZE = dfLastPage \div DF_BLOCK_SIZE
    BY <1>1, <1>3, SavedPage
  <2>2. QED
    BY <2>1 DEF RingInv, AheadErased
<1>4. QED
  BY <1>2, <1>3

\* A save moves the end of the ring on by a page.
LEMMA SaveRing ==
  ASSUME TypeOK, RingInv, pc = "idle", Save, SavedSeq <= MaxSeq
  PROVE  RingInv'
<1>1. dfLastPage \in Log /\ dfLastPage \in Nat /\ Saved \in Log /\ dfLastPage' = Saved
  BY Sizing, SavedPage DEF TypeOK, Save
<1>2. \A p \in Page : p # Saved => flash'[p] = flash[p] /\ (Filled(p)' <=> Filled(p))
  BY SaveEffect DEF Filled
<1>3. \A p \in Page : p = Saved => Filled(p)'
  <2>1. SavedSeq # EMPTY
    <3>1. SavedSeq \in Nat
      BY Sizing DEF TypeOK, SavedSeq
    <3>2. QED
      BY <3>1, Sizing
  <2>2. QED
    BY <2>1, SaveEffect DEF Filled
<1>4. Blank'
  BY <1>2, <1>3 DEF RingInv, Blank
<1>5. AheadErased'
  <2>1. ASSUME NEW p \in Log, p > Saved, p \div DF_BLOCK_SIZE = Saved \div DF_BLOCK_SIZE
        PROVE  flash'[p] = Erased
    <3>1. p # Saved /\ p \in Page /\ p \in Nat /\ Saved \in Nat
      BY <1>1, <2>1, Sizing
    <3>2. CASE Saved % DF_BLOCK_SIZE = 0
      BY <1>1, <1>2, <2>1, <3>1, <3>2, SavedPage DEF RingInv, AheadErased
    <3>3. CASE Saved % DF_BLOCK_SIZE # 0
      <4>1. p > dfLastPage /\ p \div DF_BLOCK_SIZE = dfLastPage \div DF_BLOCK_SIZE
        BY <1>1, <2>1, <3>1, <3>3, SavedPage
      <4>2. flash[p] = Erased
        BY <4>1 DEF RingInv, AheadErased
      <4>3. QED
        BY <1>2, <3>1, <4>2
    <3>4. QED
      BY <3>2, <3>3
  <2>2. ASSUME pc' = "idle", NEW p \in Log, NEW x \in Log, x = Saved,
               p \div DF_BLOCK_SIZE = NextBlock(x)
        PROVE  flash'[p] = Erased
    <3>1. Saved % DF_BLOCK_SIZE # 0
      BY <2>2 DEF Save
    <3>2. NextBlock(x) = NextBlock(dfLastPage)
      BY <1>1, <2>2, <3>1, SavedPage DEF NextBlock
    <3>3. p # Saved
      BY <2>2, NextBlockOther
    <3>4. flash[p] = Erased
      BY <2>2, <3>2 DEF RingInv, AheadErased
    <3>5. QED
      BY <1>2, <3>3, <3>4, Sizing
  <2>3. pc' = "erase" => Saved % DF_BLOCK_SIZE = 0
    BY DEF Save
  <2>4. QED
    BY <1>1, <2>1, <2>2, <2>3 DEF AheadErased
<1>6. Contiguous'
  <2>1. ASSUME NEW p \in Log, Filled(p)', p # Saved
        PROVE  \A q \in Log : q = df_wrap(p + 1) => Filled(q)'
    <3>1. Filled(p)
      BY <1>2, <2>1, Sizing
    <3>2. CASE p = dfLastPage
      BY <1>3, <3>2, Sizing DEF Saved
    <3>3. CASE p # dfLastPage
      BY <1>2, <1>3, <3>1, <3>3, Sizing DEF RingInv, Contiguous
    <3>4. QED
      BY <3>2, <3>3
  <2>2. \A p \in Log : df_wrap(p + 1) \in Log
    BY PageBehind
  <2>3. Filled(dfLastPage)'
    BY <1>1, <1>3, Sizing DEF Filled
  <2>4. QED
    BY <1>1, <2>1, <2>2, <2>3 DEF Contiguous, df_wrap
<1>7. QED
  BY <1>4, <1>5, <1>6 DEF RingInv

\* A reset finds the page written last: it is the only one written that an
\* erased page follows in the log, or the last page of the log.
LEMMA ScanRing ==
  ASSUME TypeOK, RingInv, NEW f \in Log, Filled(f)
  PROVE  LastSave = dfLastPage
<1> DEFINE stops == {p \in Log : ~Filled(p) /\ p - 1 \in Log /\ Filled(p - 1)}
           filled == {p \in Log : Filled(p)}
<1>1. dfLastPage \in Log /\ dfLastPage \in Nat /\ Filled(dfLastPage)
  BY Sizing DEF TypeOK, RingInv, Contiguous
<1>2. ASSUME NEW p \in stops PROVE p = dfLastPage + 1
  <2>1. p \in Log /\ p \in Nat /\ p - 1 \in Log /\ Filled(p - 1) /\ ~Filled(p)
    BY Sizing
  <2>2. df_wrap((p - 1) + 1) = p
    BY <2>1, Sizing DEF df_wrap
  <2>3. p - 1 = dfLastPage
    BY <2>1, <2>2 DEF RingInv, Contiguous
  <2>4. QED
    BY <1>1, <2>1, <2>3
<1>3. CASE dfLastPage + 1 \in Log
  <2>1. dfLastPage + 1 = Saved /\ dfLastPage + 1 < DF_LOG_LIMIT
    BY <1>3, Sizing DEF Saved, df_wrap
  <2>2. flash[dfLastPage + 1] = Erased
    <3>1. CASE pc = "idle"
      BY <2>1, <3>1, AheadOfSave
    <3>2. CASE pc = "erase"
      <4>1. dfLastPage % DF_BLOCK_SIZE = 0
        BY <3>2 DEF RingInv, AheadErased
      <4> DEFINE q == dfLastPage \div DF_BLOCK_SIZE
      <4>2. q \in Nat /\ dfLastPage = DF_BLOCK_SIZE * q /\ DF_BLOCK_SIZE \in Nat \ {0}
        BY <1>1, <4>1, Sizing, DivBelow, LogBlocks
      <4> HIDE DEF q
      <4>3. dfLastPage + 1 = DF_BLOCK_SIZE * q + 1 /\ 1 \in 0 .. DF_BLOCK_SIZE - 1
        BY <4>2, Sizing
      <4>4. (dfLastPage + 1) \div DF_BLOCK_SIZE = q
        BY <1>1, <4>2, <4>3, DivUnique
      <4>5. dfLastPage + 1 > dfLastPage
        BY <1>1
      <4>6. QED
        BY <1>3, <4>4, <4>5 DEF RingInv, AheadErased, q
    <3>3. QED
      BY <3>1, <3>2 DEF TypeOK
  <2>3. ~Filled(dfLastPage + 1)
    BY <2>2, ErasedContent DEF Filled
  <2>4. (dfLastPage + 1) - 1 = dfLastPage
    BY <1>1
  <2>5. dfLastPage + 1 \in stops
    BY <1>1, <1>3, <2>3, <2>4
  <2>6. stops \subseteq Nat
    BY Sizing
  <2>7. Min(stops) \in stops
    BY <2>5, <2>6, MinNat
  <2>8. Min(stops) = dfLastPage + 1
    BY <1>2, <2>7
  <2>9. LastSave = Min(stops) - 1
    BY <2>5 DEF LastSave
  <2>10. QED
    BY <1>1, <2>8, <2>9
<1>4. CASE dfLastPage + 1 \notin Log
  <2>1. dfLastPage = DF_LOG_LIMIT - 1
    BY <1>1, <1>4, Sizing DEF Log
  <2>2. stops = {}
    BY <1>2, <1>4
  <2>3. dfLastPage \in filled /\ filled \subseteq 0 .. DF_LOG_LIMIT
    <3>1. dfLastPage \in filled
      BY <1>1
    <3>2. filled \subseteq 0 .. DF_LOG_LIMIT
      BY Sizing
    <3>3. QED
      BY <3>1, <3>2
  <2>4. Max(filled) \in filled /\ \A p \in filled : Max(filled) >= p
    BY <2>3, Sizing, MaxNat
  <2>5. Max(filled) = dfLastPage
    BY <1>1, <2>1, <2>3, <2>4, Sizing
  <2>6. LastSave = Max(filled)
    BY <2>2, <2>3 DEF LastSave
  <2>7. QED
    BY <2>5, <2>6
<1>5. QED
  BY <1>3, <1>4

\* With no page of the log written the ring is empty wherever it ends.
LEMMA EmptyRing ==
  ASSUME \A p \in Page : flash'[p] = Erased \/ (p \notin Log /\ (~Filled(p)' => flash'[p] = Erased)),
         pc' = "idle"
  PROVE  RingInv'
<1>1. \A p \in Log : flash'[p] = Erased /\ ~Filled(p)'
  BY Sizing, ErasedContent DEF Filled
<1>2. QED
  BY <1>1 DEF RingInv, Blank, AheadErased, Contiguous

\* Erasing the next block leaves the ring's other end elsewhere.
LEMMA EraseRing ==
  ASSUME TypeOK, RingInv, eraseNext
  PROVE  RingInv'
<1>1. dfLastPage \in Log /\ dfLastPage \in Nat /\ dfLastPage' = dfLastPage
      /\ pc = "erase" /\ pc' = "idle" /\ dfLastPage % DF_BLOCK_SIZE = 0
  BY Sizing DEF TypeOK, eraseNext, RingInv, AheadErased
<1>2. EraseAhead \div DF_BLOCK_SIZE = NextBlock(dfLastPage)
  BY <1>1, EraseAheadBlock
<1>3. \A p \in Page :
        flash'[p] = IF p \div DF_BLOCK_SIZE = NextBlock(dfLastPage) THEN Erased ELSE flash[p]
  BY <1>2, EraseSteps, EraseEffect DEF BlockOf
<1>4. \A p \in Page : Filled(p)' <=> Filled(p) /\ p \div DF_BLOCK_SIZE # NextBlock(dfLastPage)
  BY <1>3, ErasedContent DEF Filled
<1>5. Blank'
  BY <1>3, <1>4 DEF RingInv, Blank
<1>6. AheadErased'
  <2>1. NextBlock(dfLastPage)' = NextBlock(dfLastPage)
    BY <1>1 DEF NextBlock
  <2>2. QED
    BY <1>1, <1>3, <2>1, Sizing DEF RingInv, AheadErased
<1>7. ASSUME NEW p \in Log, Filled(p)', p # dfLastPage
      PROVE  \A q \in Log : q = df_wrap(p + 1) => Filled(q)'
  <2>1. Filled(p) /\ p \div DF_BLOCK_SIZE # NextBlock(dfLastPage) /\ p \in Nat
    BY <1>4, <1>7, Sizing
  <2>2. Filled(df_wrap(p + 1))
    BY <1>7, <2>1 DEF RingInv, Contiguous
  <2>3. p \div DF_BLOCK_SIZE # dfLastPage \div DF_BLOCK_SIZE
    <3>1. SUFFICES ASSUME p \div DF_BLOCK_SIZE = dfLastPage \div DF_BLOCK_SIZE PROVE FALSE
      OBVIOUS
    <3>2. ~(p < dfLastPage)
      <4>1. DF_BLOCK_SIZE \in Nat \ {0} /\ p \div DF_BLOCK_SIZE \in Nat
        BY <2>1, Sizing, LogBlocks
      <4>2. p < dfLastPage <=> p \div DF_BLOCK_SIZE < dfLastPage \div DF_BLOCK_SIZE
        BY <1>1, <2>1, <4>1, DivBelow
      <4>3. QED
        BY <3>1, <4>1, <4>2
    <3>3. p > dfLastPage
      BY <1>1, <1>7, <2>1, <3>2
    <3>4. flash[p] = Erased
      BY <3>1, <3>3 DEF RingInv, AheadErased
    <3>5. QED
      BY <2>1, <3>4, ErasedContent DEF Filled
  <2>4. df_wrap(p + 1) \div DF_BLOCK_SIZE # NextBlock(dfLastPage)
    <3>1. CASE df_wrap(p + 1) % DF_BLOCK_SIZE = 0
      BY <1>1, <2>3, <3>1, PageBehind, NextBlockInjective
    <3>2. CASE df_wrap(p + 1) % DF_BLOCK_SIZE # 0
      BY <2>1, <3>2, PageBehind
    <3>3. QED
      BY <3>1, <3>2
  <2>5. QED
    BY <1>4, <2>2, <2>4, Sizing
<1>8. Contiguous'
  <2>1. \A p \in Log : df_wrap(p + 1) \in Log
    BY PageBehind
  <2>2. (\E p \in Log : Filled(p)') => Filled(dfLastPage)'
    <3>1. SUFFICES ASSUME NEW p \in Log, Filled(p)' PROVE Filled(dfLastPage)'
      OBVIOUS
    <3>2. Filled(dfLastPage)
      BY <1>4, <3>1, Sizing DEF RingInv, Contiguous
    <3>3. flash'[dfLastPage] = flash[dfLastPage]
      BY <1>1, <1>3, NextBlockOther, Sizing
    <3>4. QED
      BY <1>1, <3>2, <3>3 DEF Filled
  <2>3. QED
    BY <1>1, <1>7, <2>1, <2>2 DEF Contiguous, df_wrap
<1>9. QED
  BY <1>5, <1>6, <1>8 DEF RingInv

\* The ring survives every step that Undisturbed allows.
LEMMA RingStep ==
  ASSUME Undisturbed, TypeOK, RingInv, [Next]_vars
  PROVE  RingInv'
<1>1. ASSUME UNCHANGED <<flash, dfLastPage, pc>>
      PROVE  RingInv'
  BY <1>1 DEF RingInv, Blank, AheadErased, Contiguous, Filled, NextBlock, df_wrap
<1>2. ASSUME NEW size \in Sizes, df_append(size)
      PROVE  RingInv'
  BY <1>1, <1>2, AppendEffect, SaveRing
<1>3. CASE PowerFail
  <2>1. /\ pc = "idle" /\ pc' = "idle" /\ dfLastPage' = LastSave /\ flash' = flash
    BY <1>3, ResetEffect DEF PowerFail, Undisturbed
  <2>2. CASE \E f \in Log : Filled(f)
    BY <1>1, <2>1, <2>2, ScanRing
  <2>3. CASE ~\E f \in Log : Filled(f)
    <3>1. \A p \in Page : Filled(p)' <=> Filled(p)
      BY <2>1 DEF Filled
    <3>2. QED
      BY <2>1, <2>3, <3>1, EmptyRing DEF RingInv, Blank
  <2>4. QED
    BY <2>2, <2>3
<1>4. CASE eraseCommand
  <2>1. pc' = pc /\ dfLastPage' = dfLastPage /\ dfLastPage \in Log
    BY <1>4 DEF eraseCommand, TypeOK
  <2>2. PICK page \in EraseBlocks : Erases(BlockOf(page))
    BY <1>4, EraseSteps
  <2>3. page \in Nat /\ page < DF_LOG_BEGIN
    BY Sizing DEF Undisturbed
  <2>4. ASSUME NEW p \in Log PROVE p \notin BlockOf(page)
    <3>1. /\ page \div DF_BLOCK_SIZE \in Nat /\ p \div DF_BLOCK_SIZE \in Nat
          /\ page \div DF_BLOCK_SIZE < DF_LOG_BEGIN \div DF_BLOCK_SIZE
          /\ ~(p \div DF_BLOCK_SIZE < DF_LOG_BEGIN \div DF_BLOCK_SIZE)
      BY <2>3, Sizing, LogBlocks
    <3>2. QED
      BY <3>1 DEF BlockOf
  <2>5. \A p \in Page : flash'[p] = IF p \in BlockOf(page) THEN Erased ELSE flash[p]
    BY <2>2, EraseEffect, EraseSteps
  <2>6. Blank'
    BY <2>5, ErasedContent DEF RingInv, Blank, Filled
  <2>7. \A p \in Log : flash'[p] = flash[p] /\ (Filled(p)' <=> Filled(p))
    BY <2>4, <2>5, Sizing DEF Filled
  <2>8. AheadErased'
    BY <2>1, <2>7 DEF RingInv, AheadErased, NextBlock
  <2>9. Contiguous'
    <3>1. \A p \in Log : df_wrap(p + 1) \in Log
      BY PageBehind
    <3>2. \A p \in Log : Filled(p)' /\ p # dfLastPage => \A q \in Log : q = df_wrap(p + 1) => Filled(q)'
      BY <2>7 DEF RingInv, Contiguous
    <3>3. (\E p \in Log : Filled(p)') => \A q \in Log : q = dfLastPage => Filled(q)'
      BY <2>7 DEF RingInv, Contiguous
    <3>4. QED
      BY <2>1, <3>1, <3>2, <3>3 DEF Contiguous, df_wrap, Filled
  <2>10. QED
    BY <2>6, <2>8, <2>9 DEF RingInv
<1>5. CASE df_wipe
  <2>1. pc' = "idle" /\ \A p \in Page : flash'[p] = Erased
    BY <1>5 DEF df_wipe
  <2>2. QED
    BY <2>1, EmptyRing
<1>6. CASE df_replay \/ Tick \/ UNCHANGED vars
  BY <1>1, <1>6 DEF df_replay, Tick, vars
<1>7. QED
  BY <1>2, <1>3, <1>4, <1>5, <1>6, EraseRing DEF Next

\* The ring starts empty.
LEMMA RingInit ==
  ASSUME Init
  PROVE  RingInv
<1>1. \A p \in Page : flash[p] = Erased /\ ~Filled(p)
  BY InitialState, ErasedContent DEF Filled
<1>2. QED
  BY <1>1, InitialState, Sizing DEF RingInv, Blank, AheadErased, Contiguous

\* The pages written are a contiguous part of the ring that ends at dfLastPage,
\* with a block erased ahead of it, for ever.
LEMMA RingAlways == Undisturbed /\ Spec => [](TypeOK /\ Numbered /\ RingInv)
<1> SUFFICES ASSUME Undisturbed PROVE Spec => [](TypeOK /\ Numbered /\ RingInv)
  OBVIOUS
<1>1. Init => TypeOK /\ Numbered /\ RingInv
  BY InitialState, RingInit
<1>2. TypeOK /\ Numbered /\ RingInv /\ [Next]_vars => (TypeOK /\ Numbered /\ RingInv)'
  BY TypeStep, RingStep
<1>3. QED
  BY <1>1, <1>2, PTL DEF Spec

\* df_saveBuf() never programs a page that is not erased.
THEOREM PageAheadTheorem == Undisturbed /\ Spec => []PageAheadErased
<1>1. TypeOK /\ RingInv => PageAheadErased
  BY AheadOfSave DEF PageAheadErased
<1>2. QED
  BY <1>1, RingAlways, PTL

\* scanForLastSave() finds the page written last, whenever the reset comes.
THEOREM ScanTheorem == Undisturbed /\ Spec => []ScanFindsLast
<1>1. TypeOK /\ RingInv => ScanFindsLast
  BY ScanRing DEF ScanFindsLast
<1>2. QED
  BY <1>1, RingAlways, PTL

-----------------------------------------------------------------------------
(* Where the entries are.                                                  *)

\* Entries move from the buffer to one page and from there to what is given up.
LEMMA PlaceStep ==
  ASSUME TypeOK, Numbered, RingInv, OnePlace, [Next]_vars
  PROVE  OnePlace'
<1>1. /\ \A p \in Page : EntriesOf(p) \subseteq 1 .. next - 1
      /\ Buffered \subseteq 1 .. next - 1 /\ gone \subseteq 1 .. next - 1
      /\ next \in Nat /\ next \notin 1 .. next - 1
  BY DEF TypeOK, Numbered
<1>2. ASSUME NEW S \in SUBSET Page, Erases(S), UNCHANGED <<dfBuf, next>>
      PROVE  OnePlace'
  <2>1. Buffered' = Buffered
    BY <1>2 DEF Buffered
  <2>2. /\ \A p \in Page : flash'[p] = IF p \in S THEN Erased ELSE flash[p]
        /\ \A p \in Page : EntriesOf(p)' = IF p \in S THEN {} ELSE EntriesOf(p)
        /\ \A e : e \in gone' <=> e \in gone \/ \E p \in S : e \in EntriesOf(p)
    BY <1>2, EraseEffect
  <2>3. \A p \in Page : ~flash'[p].ok \/ p \notin Log => EntriesOf(p)' = {}
    BY <2>2 DEF OnePlace
  <2>4. \A p, q \in Page : p # q => EntriesOf(p)' \cap EntriesOf(q)' = {}
    BY <2>2 DEF OnePlace
  <2>5. \A p \in Page : EntriesOf(p)' \cap (Buffered \cup gone') = {}
    BY <2>2 DEF OnePlace
  <2>6. Buffered \cap gone' = {}
    BY <2>2 DEF OnePlace
  <2>7. \A e \in 1 .. next - 1 :
          e \in Buffered \/ e \in gone' \/ \E p \in Log : e \in EntriesOf(p)'
    BY <2>2, Sizing DEF OnePlace
  <2>8. QED
    BY <1>2, <2>1, <2>3, <2>4, <2>5, <2>6, <2>7 DEF OnePlace
<1>3. ASSUME NEW size \in Sizes, df_append(size)
      PROVE  OnePlace'
  <2>1. /\ gone' = gone /\ next' = next + 1 /\ pc = "idle"
        /\ \A e \in 1 .. next' - 1 : e \in 1 .. next - 1 \/ e = next
    BY <1>1, <1>3, AppendEffect
  <2>2. CASE Full(size)
    <3>1. Save /\ Buffered' = {next} /\ Saved \in Page /\ Saved \in Log /\ flash[Saved] = Erased
      BY <1>3, <2>1, <2>2, AppendEffect, AheadOfSave, SavedPage, Sizing DEF TypeOK
    <3>2. \A p \in Page : p # Saved => flash'[p].ok = flash[p].ok /\ EntriesOf(p)' = EntriesOf(p)
      BY <3>1, SaveEffect
    <3>3. \A p \in Page : p = Saved => flash'[p].ok /\ EntriesOf(p)' = Buffered /\ EntriesOf(p) = {}
      BY <3>1, SaveEffect, NoEntries, ErasedContent
    <3>4. \A p \in Page : ~flash'[p].ok \/ p \notin Log => EntriesOf(p)' = {}
      BY <3>1, <3>2, <3>3 DEF OnePlace
    <3>5. \A p, q \in Page : p # q => EntriesOf(p)' \cap EntriesOf(q)' = {}
      BY <3>2, <3>3 DEF OnePlace
    <3>6. \A p \in Page : EntriesOf(p)' \cap (Buffered' \cup gone') = {}
      <4>1. \A p \in Page : EntriesOf(p)' \cap gone = {}
        BY <3>2, <3>3 DEF OnePlace
      <4>2. \A p \in Page : next \notin EntriesOf(p)'
        BY <1>1, <3>2, <3>3
      <4>3. QED
        BY <2>1, <3>1, <4>1, <4>2
    <3>7. Buffered' \cap gone' = {}
      BY <1>1, <2>1, <3>1
    <3>8. ASSUME NEW e \in 1 .. next' - 1
          PROVE  e \in Buffered' \/ e \in gone' \/ \E p \in Log : e \in EntriesOf(p)'
      BY <2>1, <3>1, <3>2, <3>3, Sizing DEF OnePlace
    <3>9. QED
      BY <3>4, <3>5, <3>6, <3>7, <3>8 DEF OnePlace
  <2>3. CASE ~Full(size)
    <3>1. UNCHANGED flash /\ Buffered' = Buffered \cup {next}
      BY <1>3, <2>3, AppendEffect
    <3>2. \A p \in Page : EntriesOf(p)' = EntriesOf(p) /\ next \notin EntriesOf(p)
      BY <1>1, <3>1 DEF EntriesOf
    <3>3. \A e \in 1 .. next' - 1 :
            e \in Buffered' \/ e \in gone' \/ \E p \in Log : e \in EntriesOf(p)'
      BY <2>1, <3>1, <3>2, Sizing DEF OnePlace
    <3>4. QED
      BY <1>1, <2>1, <3>1, <3>2, <3>3 DEF OnePlace
  <2>4. QED
    BY <2>2, <2>3
<1>4. CASE PowerFail \/ df_replay
  <2>1. gone' = gone \cup Buffered /\ Buffered' = {} /\ UNCHANGED <<flash, next>>
    BY <1>4, ResetEffect, ReplayEffect
  <2>2. \A p \in Page : EntriesOf(p)' = EntriesOf(p)
    BY <2>1 DEF EntriesOf
  <2>3. \A e \in 1 .. next' - 1 :
          e \in Buffered' \/ e \in gone' \/ \E p \in Log : e \in EntriesOf(p)'
    BY <2>1, <2>2, Sizing DEF OnePlace
  <2>4. QED
    BY <2>1, <2>2, <2>3 DEF OnePlace
<1>5. CASE Tick \/ UNCHANGED vars
  <2>1. UNCHANGED <<flash, dfBuf, next, gone>>
    BY <1>5 DEF Tick, vars
  <2>2. Buffered' = Buffered /\ \A p \in Page : EntriesOf(p)' = EntriesOf(p)
    BY <2>1 DEF EntriesOf, Buffered
  <2>3. QED
    BY <2>1, <2>2, Sizing DEF OnePlace
<1>6. CASE eraseNext \/ eraseCommand \/ df_wipe
  <2>1. UNCHANGED <<dfBuf, next>>
    BY <1>6 DEF eraseNext, eraseCommand, df_wipe
  <2>2. \E S \in SUBSET Page : Erases(S)
    BY <1>6, EraseSteps
  <2>3. QED
    BY <1>2, <2>1, <2>2
<1>7. QED
  BY <1>3, <1>4, <1>5, <1>6 DEF Next

\* Then an entry is accounted for exactly once.
LEMMA OnePlaceCounts ==
  ASSUME TypeOK, OnePlace
  PROVE  EntriesAccounted
<1>1. ASSUME NEW e \in 1 .. next - 1
      PROVE  Cardinality({p \in Log : flash[p].ok /\ e \in EntriesOf(p)})
               + (IF e \in Buffered THEN 1 ELSE 0) + (IF e \in gone THEN 1 ELSE 0) = 1
  <2> DEFINE P == {p \in Log : flash[p].ok /\ e \in EntriesOf(p)}
  <2>1. CASE \E p \in Log : e \in EntriesOf(p)
    <3>1. PICK p \in Log : e \in EntriesOf(p)
      BY <2>1
    <3>2. e \notin Buffered /\ e \notin gone /\ flash[p].ok
      BY <3>1, Sizing DEF OnePlace, TypeOK
    <3>3. ASSUME NEW q \in P PROVE q = p
      BY <3>1, Sizing DEF OnePlace
    <3>4. P = {p}
      BY <3>1, <3>2, <3>3
    <3>5. Cardinality(P) = 1
      BY <3>4, FS_Singleton
    <3>6. QED
      BY <3>2, <3>5
  <2>2. CASE ~\E p \in Log : e \in EntriesOf(p)
    <3>1. P = {}
      BY <2>2
    <3>2. Cardinality(P) = 0
      BY <3>1, FS_EmptySet
    <3>3. (e \in Buffered /\ e \notin gone) \/ (e \notin Buffered /\ e \in gone)
      BY <2>2 DEF OnePlace
    <3>4. QED
      BY <3>2, <3>3
  <2>3. QED
    BY <2>1, <2>2
<1>2. QED
  BY <1>1 DEF EntriesAccounted

\* Every entry is in the buffer, in exactly one good page of the log, or was
\* given up by an erase, a reset or a replay.
THEOREM EntriesTheorem == Undisturbed /\ Spec => []EntriesAccounted
<1>1. Init => OnePlace
  <2>1. SUFFICES ASSUME Init PROVE OnePlace
    OBVIOUS
  <2>2. 1 .. next - 1 = {}
    BY <2>1, InitialState
  <2>3. QED
    BY <2>1, <2>2, InitialState DEF OnePlace
<1>2. TypeOK /\ Numbered /\ RingInv /\ OnePlace /\ [Next]_vars => OnePlace'
  BY PlaceStep
<1>3. TypeOK /\ OnePlace => EntriesAccounted
  BY OnePlaceCounts
<1>4. QED
  BY <1>1, <1>2, <1>3, RingAlways, PTL DEF Spec

-----------------------------------------------------------------------------
(* The order of the log.                                                   *)

\* Page p comes before page q in the ring, which begins behind dfLastPage.
Older(p, q) ==
    \/ p > dfLastPage /\ q <= dfLastPage
    \/ (p > dfLastPage <=> q > dfLastPage) /\ p < q

\* Page p was saved before what has page q, sequence number s and time t: its
\* own number is not higher, and under the same number its address is lower
\* and, until the clock overflows, its time not later, since the log takes a new
\* number when it wraps.
Before(p, q, s, t) ==
    /\ flash[p].seqnum <= s
    /\ flash[p].seqnum = s => p < q /\ (wrapped \/ flash[p].timestamp <= t)

\* The pages are in order, and the buffer comes behind all of them.
InOrder ==
    /\ \A p, q \in Log : Filled(p) /\ Filled(q) /\ Older(p, q) =>
         Precedes(p, q) /\ Before(p, q, flash[q].seqnum, flash[q].timestamp)
    /\ \A p \in Log : Filled(p) =>
         /\ \A d \in EntriesOf(p), e \in Buffered : d < e
         /\ Before(p, dfLastPage + 1, dfBuf.seqnum, dfBuf.timestamp)
    /\ wrapped \/ dfBuf.timestamp <= now

\* Numbers that the pages and the buffer hold.
LEMMA PageNumbers ==
  ASSUME TypeOK
  PROVE  /\ \A p \in Page : flash[p].seqnum \in Nat /\ flash[p].timestamp \in Nat
         /\ dfBuf.seqnum \in Nat /\ dfBuf.timestamp \in Nat
         /\ dfLastPage \in Log /\ dfLastPage \in Nat /\ now \in Nat
<1>1. flash \in [Page -> Content]
  BY DEF TypeOK, Content
<1>2. \A p \in Page : flash[p].seqnum \in Nat /\ flash[p].timestamp \in Nat
  BY <1>1 DEF Content
<1>3. QED
  BY <1>2, Sizing, FlashAssumption DEF TypeOK

\* Of two pages one is older.
LEMMA OlderTotal ==
  ASSUME TypeOK, NEW p \in Log, NEW q \in Log, p # q
  PROVE  Older(p, q) \/ Older(q, p)
  BY PageNumbers, Sizing DEF Older

\* Erasing pages keeps the order of the others.
LEMMA OrderErase ==
  ASSUME TypeOK, InOrder, NEW S \in SUBSET Page, Erases(S),
         UNCHANGED <<dfBuf, dfLastPage, now, wrapped>>
  PROVE  InOrder'
<1>1. ASSUME NEW p \in Page
      PROVE  /\ Filled(p)' => Filled(p) /\ flash'[p] = flash[p]
             /\ EntriesOf(p)' \subseteq EntriesOf(p)
  BY EraseEffect, ErasedContent DEF Filled
<1>2. Buffered' = Buffered
  BY DEF Buffered
<1>3. ASSUME NEW p \in Log, NEW q \in Log, Filled(p)', Filled(q)', Older(p, q)'
      PROVE  /\ Precedes(p, q)'
             /\ Before(p, q, flash[q].seqnum, flash[q].timestamp)'
  <2>1. Filled(p) /\ Filled(q) /\ flash'[p] = flash[p] /\ flash'[q] = flash[q]
    BY <1>1, <1>3, Sizing
  <2>2. Older(p, q)
    BY <1>3 DEF Older
  <2>3. Precedes(p, q) /\ Before(p, q, flash[q].seqnum, flash[q].timestamp)
    BY <2>1, <2>2 DEF InOrder
  <2>4. Precedes(p, q)'
    BY <1>1, <2>3, Sizing DEF Precedes
  <2>5. QED
    BY <2>1, <2>3, <2>4 DEF Before
<1>4. ASSUME NEW p \in Log, Filled(p)'
      PROVE  /\ \A d \in EntriesOf(p)', e \in Buffered' : d < e
             /\ Before(p, dfLastPage + 1, dfBuf.seqnum, dfBuf.timestamp)'
  <2>1. Filled(p) /\ flash'[p] = flash[p] /\ EntriesOf(p)' \subseteq EntriesOf(p)
    BY <1>1, <1>4, Sizing
  <2>2. /\ \A d \in EntriesOf(p), e \in Buffered : d < e
        /\ Before(p, dfLastPage + 1, dfBuf.seqnum, dfBuf.timestamp)
    BY <2>1 DEF InOrder
  <2>3. QED
    BY <1>2, <2>1, <2>2 DEF Before
<1>5. (wrapped \/ dfBuf.timestamp <= now)'
  BY DEF InOrder
<1>6. QED
  BY <1>3, <1>4, <1>5 DEF InOrder

\* A page that a save has written is the youngest, and the order of the others
\* stays the same.
LEMMA OlderSave ==
  ASSUME TypeOK, dfLastPage' = Saved, NEW p \in Log, NEW q \in Log
  PROVE  /\ p # Saved /\ q # Saved => (Older(p, q)' <=> Older(p, q))
         /\ p = Saved => ~Older(p, q)'
<1>1. /\ dfLastPage \in Nat /\ dfLastPage >= DF_LOG_BEGIN /\ dfLastPage < DF_LOG_LIMIT
      /\ p \in Nat /\ p >= DF_LOG_BEGIN /\ p < DF_LOG_LIMIT
      /\ q \in Nat /\ q >= DF_LOG_BEGIN /\ q < DF_LOG_LIMIT
      /\ DF_LOG_BEGIN \in Nat /\ DF_LOG_LIMIT \in Nat
  BY PageNumbers, Sizing
<1>2. CASE dfLastPage + 1 < DF_LOG_LIMIT
  <2>1. dfLastPage' = dfLastPage + 1 /\ Saved = dfLastPage + 1
    BY <1>2 DEF Saved, df_wrap
  <2>2. QED
    BY <1>1, <2>1 DEF Older
<1>3. CASE ~(dfLastPage + 1 < DF_LOG_LIMIT)
  <2>1. dfLastPage' = DF_LOG_BEGIN /\ Saved = DF_LOG_BEGIN /\ dfLastPage = DF_LOG_LIMIT - 1
    BY <1>1, <1>3 DEF Saved, df_wrap
  <2>2. QED
    BY <1>1, <2>1 DEF Older
<1>4. QED
  BY <1>2, <1>3

\* A save takes the next number exactly when it wraps, so what is older under
\* the same number has a lower address.
LEMMA BeforeSave ==
  ASSUME TypeOK, NEW p \in Log,
         Before(p, dfLastPage + 1, dfBuf.seqnum, dfBuf.timestamp)
  PROVE  Before(p, Saved, SavedSeq, dfBuf.timestamp)
<1>1. /\ dfLastPage \in Nat /\ dfLastPage >= DF_LOG_BEGIN /\ dfLastPage < DF_LOG_LIMIT
      /\ DF_LOG_BEGIN \in Nat /\ DF_LOG_LIMIT \in Nat
      /\ flash[p].seqnum \in Nat /\ dfBuf.seqnum \in Nat
  BY PageNumbers, Sizing
<1>2. CASE dfLastPage + 1 < DF_LOG_LIMIT
  <2>1. Saved = dfLastPage + 1 /\ SavedSeq = dfBuf.seqnum
    BY <1>1, <1>2 DEF Saved, SavedSeq, df_wrap
  <2>2. QED
    BY <2>1
<1>3. CASE ~(dfLastPage + 1 < DF_LOG_LIMIT)
  <2>1. SavedSeq = dfBuf.seqnum + 1
    BY <1>3 DEF Saved, SavedSeq, df_wrap
  <2>2. QED
    BY <1>1, <2>1 DEF Before
<1>4. QED
  BY <1>2, <1>3

\* df_append() keeps the order: what it saves comes behind all pages.
LEMMA OrderAppend ==
  ASSUME TypeOK, Numbered, RingInv, InOrder, NEW size \in Sizes, df_append(size)
  PROVE  InOrder'
<1>1. /\ \A p \in Page : flash[p].seqnum \in Nat /\ flash[p].timestamp \in Nat
      /\ dfBuf.seqnum \in Nat /\ dfBuf.timestamp \in Nat /\ now \in Nat /\ now' = now
      /\ pc = "idle" /\ next \in Nat /\ dfLastPage \in Log /\ dfLastPage \in Nat
      /\ wrapped' = wrapped /\ (wrapped \/ dfBuf.timestamp <= now)
  BY PageNumbers, AppendEffect DEF InOrder, TypeOK, df_append
<1>2. ASSUME NEW p \in Page, NEW d \in EntriesOf(p) PROVE d \in Nat /\ d < next
  BY <1>1 DEF Numbered
<1>3. ASSUME NEW p \in Log, Filled(p)
      PROVE  /\ \A d \in EntriesOf(p), e \in Buffered : d < e
             /\ Before(p, dfLastPage + 1, dfBuf.seqnum, dfBuf.timestamp)
  BY <1>3 DEF InOrder
<1>4. CASE Full(size)
  <2>1. /\ Save /\ Buffered' = {next} /\ Saved \in Log /\ Saved \in Page
        /\ flash[Saved] = Erased /\ dfLastPage' = Saved
    BY <1>1, <1>4, AppendEffect, AheadOfSave, SavedPage, Sizing DEF Save
  <2>2. dfBuf' = [seqnum |-> SavedSeq, timestamp |-> now, data |-> <<next>>]
    BY <1>4 DEF df_append
  <2>3. dfBuf'.seqnum = SavedSeq /\ dfBuf'.timestamp = now /\ SavedSeq \in Nat
    BY <1>1, <2>2 DEF SavedSeq
  <2>4. ASSUME NEW p \in Log, p # Saved
        PROVE  flash'[p] = flash[p] /\ EntriesOf(p)' = EntriesOf(p) /\ (Filled(p)' <=> Filled(p))
    BY <2>1, <2>4, SaveEffect, Sizing DEF Filled
  <2>5. ASSUME NEW p \in Log, p = Saved
        PROVE  /\ EntriesOf(p)' = Buffered
               /\ flash'[p].seqnum = SavedSeq /\ flash'[p].timestamp = dfBuf.timestamp
    <3>1. flash'[p] = [seqnum |-> SavedSeq, timestamp |-> dfBuf.timestamp,
                       data |-> dfBuf.data, ok |-> TRUE]
      BY <2>1, <2>5 DEF Save, Program, TypeOK
    <3>2. EntriesOf(p)' = Buffered
      BY <2>1, <2>5, SaveEffect, Sizing
    <3>3. QED
      BY <3>1, <3>2
  <2>6. ASSUME NEW p \in Log, Filled(p)
        PROVE  Before(p, Saved, SavedSeq, dfBuf.timestamp)
    BY <1>3, <2>6, BeforeSave
  <2>7. ASSUME NEW p \in Log, NEW q \in Log, Filled(p)', Filled(q)', Older(p, q)'
        PROVE  /\ Precedes(p, q)'
               /\ Before(p, q, flash[q].seqnum, flash[q].timestamp)'
    <3>1. p # Saved
      BY <2>1, <2>7, OlderSave
    <3>2. Filled(p) /\ flash'[p] = flash[p] /\ EntriesOf(p)' = EntriesOf(p)
      BY <2>4, <2>7, <3>1
    <3>3. CASE q = Saved
      <4>1. Before(p, q, SavedSeq, dfBuf.timestamp)
        BY <2>6, <3>2, <3>3
      <4>2. Before(p, q, flash[q].seqnum, flash[q].timestamp)'
        BY <1>1, <2>5, <3>2, <3>3, <4>1 DEF Before
      <4>3. EntriesOf(q)' = Buffered
        BY <2>5, <3>3
      <4>4. Precedes(p, q)'
        BY <1>3, <3>2, <4>3 DEF Precedes
      <4>5. QED
        BY <4>2, <4>4
    <3>4. CASE q # Saved
      <4>1. Filled(q) /\ flash'[q] = flash[q] /\ EntriesOf(q)' = EntriesOf(q) /\ Older(p, q)
        BY <2>1, <2>4, <2>7, <3>1, <3>4, OlderSave
      <4>2. Precedes(p, q) /\ Before(p, q, flash[q].seqnum, flash[q].timestamp)
        BY <3>2, <4>1 DEF InOrder
      <4>3. QED
        BY <1>1, <3>2, <4>1, <4>2 DEF Precedes, Before
    <3>5. QED
      BY <3>3, <3>4
  <2>8. ASSUME NEW p \in Log, Filled(p)'
        PROVE  /\ \A d \in EntriesOf(p)', e \in Buffered' : d < e
               /\ Before(p, dfLastPage + 1, dfBuf.seqnum, dfBuf.timestamp)'
    <3>1. Saved \in Nat /\ p \in Nat /\ p \in Page
      BY <2>1, Sizing
    <3>2. CASE p = Saved
      <4>1. \A d \in Buffered : d < next
        BY <1>1 DEF Numbered
      <4>2. \A d \in EntriesOf(p)', e \in Buffered' : d < e
        BY <2>1, <2>5, <3>2, <4>1
      <4>3. flash'[p].seqnum = SavedSeq /\ flash'[p].timestamp = dfBuf.timestamp
        BY <2>5, <3>2
      <4>4. dfLastPage' + 1 = Saved + 1 /\ p < Saved + 1
        BY <2>1, <3>1, <3>2
      <4>5. Before(p, dfLastPage + 1, dfBuf.seqnum, dfBuf.timestamp)'
        BY <1>1, <2>3, <4>3, <4>4 DEF Before
      <4>6. QED
        BY <4>2, <4>5
    <3>3. CASE p # Saved
      <4>1. Filled(p) /\ flash'[p] = flash[p] /\ EntriesOf(p)' = EntriesOf(p)
        BY <2>4, <2>8, <3>3
      <4>2. Before(p, Saved, SavedSeq, dfBuf.timestamp)
        BY <2>6, <4>1
      <4>3. Before(p, dfLastPage + 1, dfBuf.seqnum, dfBuf.timestamp)'
        BY <1>1, <2>1, <2>3, <3>1, <4>1, <4>2 DEF Before
      <4>4. QED
        BY <1>2, <2>1, <3>1, <4>1, <4>3
    <3>4. QED
      BY <3>2, <3>3
  <2>9. (wrapped \/ dfBuf.timestamp <= now)'
    BY <1>1, <2>3
  <2>10. QED
    BY <2>7, <2>8, <2>9, Zenon DEF InOrder
<1>5. CASE ~Full(size)
  <2>1. UNCHANGED <<flash, dfLastPage>> /\ Buffered' = Buffered \cup {next}
    BY <1>5, AppendEffect
  <2>2. /\ dfBuf'.seqnum = dfBuf.seqnum
        /\ dfBuf'.timestamp = IF dfFill = 0 THEN now ELSE dfBuf.timestamp
    BY <1>5 DEF df_append
  <2>3. /\ dfBuf'.timestamp \in Nat
        /\ wrapped \/ (dfBuf'.timestamp >= dfBuf.timestamp /\ dfBuf'.timestamp <= now)
    BY <1>1, <2>2
  <2>4. ASSUME NEW p \in Log
        PROVE  /\ flash'[p] = flash[p] /\ EntriesOf(p)' = EntriesOf(p)
               /\ Filled(p)' <=> Filled(p)
    BY <2>1 DEF EntriesOf, Filled
  <2>5. ASSUME NEW p \in Log, NEW q \in Log, Filled(p)', Filled(q)', Older(p, q)'
        PROVE  /\ Precedes(p, q)'
               /\ Before(p, q, flash[q].seqnum, flash[q].timestamp)'
    BY <1>1, <2>1, <2>4, <2>5 DEF InOrder, Older, Precedes, Before
  <2>6. ASSUME NEW p \in Log, Filled(p)'
        PROVE  /\ \A d \in EntriesOf(p)', e \in Buffered' : d < e
               /\ Before(p, dfLastPage + 1, dfBuf.seqnum, dfBuf.timestamp)'
    <3>1. Filled(p) /\ p \in Page
      BY <2>4, <2>6, Sizing
    <3>2. \A d \in EntriesOf(p)', e \in Buffered' : d < e
      BY <1>2, <1>3, <2>1, <2>4, <3>1
    <3>3. Before(p, dfLastPage + 1, dfBuf.seqnum, dfBuf.timestamp)
      BY <1>3, <3>1
    <3>4. /\ flash'[p] = flash[p] /\ dfLastPage' = dfLastPage
          /\ flash[p].seqnum \in Nat /\ flash[p].timestamp \in Nat
      BY <1>1, <2>1, <3>1
    <3>5. wrapped \/ (flash[p].timestamp <= dfBuf.timestamp => flash[p].timestamp <= dfBuf'.timestamp)
      BY <1>1, <2>3, <3>4
    <3>6. Before(p, dfLastPage + 1, dfBuf.seqnum, dfBuf.timestamp)'
      BY <1>1, <2>2, <3>3, <3>4, <3>5 DEF Before
    <3>7. QED
      BY <3>2, <3>6
  <2>7. (wrapped \/ dfBuf.timestamp <= now)'
    BY <1>1, <2>3
  <2>8. QED
    BY <2>5, <2>6, <2>7, Zenon DEF InOrder
<1>6. QED
  BY <1>4, <1>5

\* A reset and a replay take a sequence number higher than any in the log.
LEMMA OrderNewNumber ==
  ASSUME TypeOK, InOrder, UNCHANGED <<flash, dfLastPage>>, Buffered' = {},
         \A p \in Log : Filled(p) => flash[p].seqnum < dfBuf'.seqnum,
         dfBuf'.seqnum \in Nat, wrapped' = wrapped, (wrapped \/ dfBuf.timestamp <= now)'
  PROVE  InOrder'
<1>1. ASSUME NEW p \in Log
      PROVE  flash'[p] = flash[p] /\ EntriesOf(p)' = EntriesOf(p) /\ (Filled(p)' <=> Filled(p))
  BY DEF EntriesOf, Filled
<1>2. ASSUME NEW p \in Log, NEW q \in Log, Filled(p)', Filled(q)', Older(p, q)'
      PROVE  Precedes(p, q)' /\ Before(p, q, flash[q].seqnum, flash[q].timestamp)'
  BY <1>1, <1>2 DEF InOrder, Older, Precedes, Before
<1>3. ASSUME NEW p \in Log, Filled(p)'
      PROVE  /\ \A d \in EntriesOf(p)', e \in Buffered' : d < e
             /\ Before(p, dfLastPage + 1, dfBuf.seqnum, dfBuf.timestamp)'
  <2>1. flash'[p].seqnum \in Nat /\ flash'[p].seqnum < dfBuf'.seqnum
    BY <1>1, <1>3, PageNumbers, Sizing
  <2>2. Before(p, dfLastPage + 1, dfBuf.seqnum, dfBuf.timestamp)'
    BY <2>1 DEF Before
  <2>3. QED
    BY <2>2
<1>4. QED
  BY <1>2, <1>3, Zenon DEF InOrder

\* After a reset.
LEMMA OrderReset ==
  ASSUME TypeOK, RingInv, InOrder, PowerFail
  PROVE  InOrder'
<1>1. dfLastPage' = LastSave /\ now' = 0 /\ Buffered' = {} /\ UNCHANGED <<flash, wrapped>>
  BY ResetEffect DEF PowerFail
<1>2. dfBuf'.seqnum = NextSeq /\ dfBuf'.timestamp = 0 /\ dfBuf'.seqnum \in Nat
  BY ResetEffect DEF PowerFail
<1>3. CASE \E f \in Log : Filled(f)
  <2>1. LastSave = dfLastPage
    BY <1>3, ScanRing
  <2>2. Filled(dfLastPage) /\ dfLastPage \in Log /\ dfLastPage \in Page
    BY <1>3, PageNumbers, Sizing DEF RingInv, Contiguous
  <2>3. NextSeq = flash[dfLastPage].seqnum + 1 /\ flash[dfLastPage].seqnum \in Nat
    BY <2>1, <2>2, PageNumbers DEF NextSeq
  <2>4. ASSUME NEW p \in Log, Filled(p) PROVE flash[p].seqnum < dfBuf'.seqnum
    <3>1. flash[p].seqnum \in Nat
      BY PageNumbers, Sizing
    <3>2. CASE p = dfLastPage
      BY <1>2, <2>3, <3>2
    <3>3. CASE p # dfLastPage
      <4>1. Older(p, dfLastPage)
        BY <3>3, PageNumbers, Sizing DEF Older
      <4>2. flash[p].seqnum <= flash[dfLastPage].seqnum
        BY <2>2, <2>4, <4>1 DEF InOrder, Before
      <4>3. QED
        BY <1>2, <2>3, <3>1, <4>2
    <3>4. QED
      BY <3>2, <3>3
  <2>5. QED
    BY <1>1, <1>2, <2>1, <2>4, OrderNewNumber
<1>4. CASE ~\E f \in Log : Filled(f)
  <2>1. \A p \in Log : ~Filled(p)'
    BY <1>1, <1>4 DEF Filled
  <2>2. dfBuf'.timestamp <= now'
    BY <1>1, <1>2
  <2>3. QED
    BY <2>1, <2>2 DEF InOrder
<1>5. QED
  BY <1>3, <1>4

\* Every step keeps the order.
LEMMA OrderStep ==
  ASSUME TypeOK, Numbered, RingInv, InOrder, [Next]_vars
  PROVE  InOrder'
<1>1. CASE \E size \in Sizes : df_append(size)
  BY <1>1, OrderAppend
<1>2. CASE PowerFail
  BY <1>2, OrderReset
<1>3. CASE df_replay
  <2>1. Buffered' = {} /\ UNCHANGED <<flash, dfLastPage, now, wrapped>>
    BY <1>3, ReplayEffect DEF df_replay
  <2>2. dfBuf'.seqnum = dfBuf.seqnum + 1 /\ dfBuf'.timestamp = dfBuf.timestamp
    BY <1>3 DEF df_replay, TypeOK
  <2>3. ASSUME NEW p \in Log, Filled(p) PROVE flash[p].seqnum < dfBuf'.seqnum
    <3>1. flash[p].seqnum <= dfBuf.seqnum
      BY <2>3 DEF InOrder, Before
    <3>2. QED
      BY <2>2, <3>1, PageNumbers, Sizing
  <2>4. dfBuf'.seqnum \in Nat /\ (wrapped \/ dfBuf.timestamp <= now)'
    BY <2>1, <2>2, PageNumbers DEF InOrder
  <2>5. QED
    BY <2>1, <2>3, <2>4, OrderNewNumber
<1>4. CASE Tick \/ UNCHANGED vars
  <2>1. /\ UNCHANGED <<flash, dfBuf, dfLastPage>> /\ (wrapped => wrapped')
        /\ wrapped' \/ now' = now \/ now' = now + 1
    <3>1. now \in 0 .. MaxNow /\ MaxNow \in Nat
      BY FlashAssumption DEF TypeOK
    <3>2. CASE Tick
      <4>1. wrapped' = (wrapped \/ now = MaxNow)
        BY <3>2 DEF Tick
      <4>2. (wrapped => wrapped') /\ (now = MaxNow => wrapped')
        BY <4>1, Zenon
      <4>3. now = MaxNow \/ now' = now + 1
        BY <3>1, <3>2 DEF Tick
      <4>4. UNCHANGED <<flash, dfBuf, dfLastPage>>
        BY <3>2 DEF Tick
      <4>5. QED
        BY <4>2, <4>3, <4>4, Zenon
    <3>3. CASE UNCHANGED vars
      BY <3>3 DEF vars
    <3>4. QED
      BY <1>4, <3>2, <3>3
  <2>2. (wrapped \/ dfBuf.timestamp <= now)'
    BY <2>1, PageNumbers DEF InOrder
  <2>3. /\ Buffered' = Buffered
        /\ \A p \in Log : EntriesOf(p)' = EntriesOf(p) /\ (Filled(p)' <=> Filled(p))
    BY <2>1 DEF Filled, EntriesOf, Buffered
  <2>4. ASSUME NEW p \in Log, NEW q \in Log
        PROVE  /\ (Older(p, q)' <=> Older(p, q)) /\ (Precedes(p, q)' <=> Precedes(p, q))
               /\ Before(p, q, flash[q].seqnum, flash[q].timestamp)
                    => Before(p, q, flash[q].seqnum, flash[q].timestamp)'
               /\ Before(p, dfLastPage + 1, dfBuf.seqnum, dfBuf.timestamp)
                    => Before(p, dfLastPage + 1, dfBuf.seqnum, dfBuf.timestamp)'
    BY <2>1, <2>3 DEF Older, Precedes, Before
  <2>5. QED
    BY <2>2, <2>3, <2>4 DEF InOrder
<1>5. CASE eraseNext \/ eraseCommand \/ df_wipe
  <2>1. UNCHANGED <<dfBuf, dfLastPage, now, wrapped>>
    BY <1>5 DEF eraseNext, eraseCommand, df_wipe
  <2>2. \E S \in SUBSET Page : Erases(S)
    BY <1>5, EraseSteps
  <2>3. QED
    BY <2>1, <2>2, OrderErase
<1>6. QED
  BY <1>1, <1>2, <1>3, <1>4, <1>5 DEF Next

-----------------------------------------------------------------------------
(* What a replay reports.                                                  *)

\* Entries of an older page came in first.
LEMMA OlderPrecedes ==
  ASSUME TypeOK, RingInv, InOrder, NEW p \in Log, NEW q \in Log, Older(p, q)
  PROVE  Precedes(p, q)
<1>1. CASE Filled(p) /\ Filled(q)
  BY <1>1 DEF InOrder
<1>2. CASE ~Filled(p) \/ ~Filled(q)
  <2>1. flash[p] = Erased \/ flash[q] = Erased
    BY <1>2, Sizing DEF RingInv, Blank
  <2>2. EntriesOf(p) = {} \/ EntriesOf(q) = {}
    BY <2>1, NoEntries, ErasedContent
  <2>3. QED
    BY <2>2 DEF Precedes
<1>3. QED
  BY <1>1, <1>2

\* scanForMarker() finds a page of the lowest number from the one asked for on,
\* and no page of that number behind it is as old as asked for.
LEMMA MarkerPage ==
  ASSUME TypeOK, NEW seqnum \in 0 .. MaxSeq, NEW asof \in 0 .. MaxNow,
         \/ scanForMarker(seqnum, asof) # 0
         \/ \E p \in Log : Filled(p) /\ flash[p].seqnum >= seqnum
  PROVE  \E from \in Log :
           /\ from = scanForMarker(seqnum, asof) /\ Filled(from)
           /\ flash[from].seqnum >= seqnum
           /\ \A p \in Log : Filled(p) /\ flash[p].seqnum >= seqnum =>
                flash[from].seqnum <= flash[p].seqnum
           /\ \A p \in Log : /\ Filled(p) /\ flash[p].seqnum = flash[from].seqnum
                              /\ flash[p].timestamp <= asof
                => p <= from /\ flash[from].timestamp <= asof
<1> DEFINE found == {p \in Log : Filled(p) /\ flash[p].seqnum >= seqnum}
           seqs == {flash[p].seqnum : p \in found}
           lowest == Min(seqs)
           run == {p \in found : flash[p].seqnum = lowest}
           early == {p \in run : flash[p].timestamp <= asof}
           cand == {Min(run)} \cup early
<1>1. found # {}
  <2>1. CASE scanForMarker(seqnum, asof) # 0
    BY <2>1 DEF scanForMarker
  <2>2. CASE \E p \in Log : Filled(p) /\ flash[p].seqnum >= seqnum
    BY <2>2
  <2>3. QED
    BY <2>1, <2>2
<1>2. scanForMarker(seqnum, asof) = Max(cand)
  BY <1>1 DEF scanForMarker
<1>3. found \subseteq Log /\ found \subseteq Nat /\ found \subseteq 0 .. DF_LOG_LIMIT /\ DF_LOG_LIMIT \in Nat
  BY Sizing
<1>4. seqs \subseteq Nat /\ seqs # {}
  BY <1>1, PageNumbers, Sizing
<1>5. lowest \in seqs /\ \A y \in seqs : lowest <= y
  <2> HIDE DEF seqs
  <2>1. QED
    BY <1>4, MinNat
<1>6. run # {} /\ run \subseteq Nat /\ run \subseteq found
  BY <1>3, <1>5
<1>7. Min(run) \in run /\ \A y \in run : Min(run) <= y
  <2> HIDE DEF run
  <2>1. QED
    BY <1>6, MinNat
<1>8. cand # {} /\ cand \subseteq run /\ cand \subseteq 0 .. DF_LOG_LIMIT
  BY <1>3, <1>6, <1>7
<1>9. Max(cand) \in cand /\ \A y \in cand : Max(cand) >= y
  <2> HIDE DEF cand
  <2>1. QED
    BY <1>3, <1>8, MaxNat
<1>10. PICK from \in run : from = Max(cand) /\ (from = Min(run) \/ from \in early)
  BY <1>8, <1>9
<1>11. ASSUME NEW p \in Log, Filled(p), flash[p].seqnum >= seqnum
       PROVE  flash[from].seqnum <= flash[p].seqnum
  <2>1. p \in found /\ flash[p].seqnum \in seqs /\ flash[from].seqnum = lowest
    BY <1>11
  <2>2. QED
    BY <1>5, <2>1
<1>12. ASSUME NEW p \in Log, Filled(p), flash[p].seqnum = flash[from].seqnum,
              flash[p].timestamp <= asof
       PROVE  p <= from /\ flash[from].timestamp <= asof
  <2>1. p \in run /\ p \in early
    BY <1>12
  <2>2. p \in Nat /\ from \in Nat /\ Min(run) <= p /\ p <= from
    <3>1. p \in cand
      BY <2>1
    <3> HIDE DEF run, cand
    <3>2. QED
      BY <1>6, <1>7, <1>9, <1>10, <2>1, <3>1
  <2>3. from = Min(run) => from = p
    <3> HIDE DEF run
    <3>1. QED
      BY <2>2
  <2>4. from \in early
    BY <1>10, <2>1, <2>3
  <2>5. QED
    BY <2>2, <2>4
<1>13. /\ from \in Log /\ Filled(from) /\ from = scanForMarker(seqnum, asof)
       /\ flash[from].seqnum >= seqnum
  BY <1>2, <1>10
<1>14. QED
  BY <1>11, <1>12, <1>13

\* df_replay() goes through the pages behind the marker, each older than the
\* one that follows it, and no others.
LEMMA ReplayPagesOrder ==
  ASSUME TypeOK, NEW from \in Log
  PROVE  /\ \A k \in DOMAIN ReplayPages(from) : ReplayPages(from)[k] \in Log
         /\ \A j, k \in DOMAIN ReplayPages(from) :
              j < k => Older(ReplayPages(from)[j], ReplayPages(from)[k])
         /\ \A p \in Log : Older(from, p) <=> p \in Range(ReplayPages(from))
<1> DEFINE ahead == IF from <= dfLastPage THEN dfLastPage - from
                    ELSE (DF_LOG_LIMIT - from) + (dfLastPage - DF_LOG_BEGIN)
           page(k) == IF from + k < DF_LOG_LIMIT THEN from + k
                      ELSE DF_LOG_BEGIN + (from + k - DF_LOG_LIMIT)
<1>1. /\ dfLastPage \in Nat /\ dfLastPage >= DF_LOG_BEGIN /\ dfLastPage < DF_LOG_LIMIT
      /\ from \in Nat /\ from >= DF_LOG_BEGIN /\ from < DF_LOG_LIMIT
      /\ DF_LOG_BEGIN \in Nat /\ DF_LOG_LIMIT \in Nat
  BY PageNumbers, Sizing
<1>2. ReplayPages(from) = [k \in 1 .. ahead |-> page(k)]
  BY DEF ReplayPages
<1>3. ahead \in Nat
  BY <1>1
<1>4. ASSUME NEW k \in 1 .. ahead PROVE page(k) \in Log
  BY <1>1, <1>3 DEF Log
<1>5. ASSUME NEW j \in 1 .. ahead, NEW k \in 1 .. ahead, j < k
      PROVE  Older(page(j), page(k))
  BY <1>1, <1>3, <1>5 DEF Older
<1>6. ASSUME NEW k \in 1 .. ahead PROVE Older(from, page(k))
  BY <1>1, <1>3 DEF Older
<1>7. ASSUME NEW p \in Log, Older(from, p)
      PROVE  \E k \in 1 .. ahead : p = page(k)
  <2>1. p \in Nat /\ p >= DF_LOG_BEGIN /\ p < DF_LOG_LIMIT
    BY Sizing
  <2>2. CASE from < p
    <3>1. p - from \in 1 .. ahead /\ p = page(p - from)
      BY <1>1, <1>7, <2>1, <2>2 DEF Older
    <3>2. QED
      BY <3>1
  <2>3. CASE ~(from < p)
    <3>1. /\ from > dfLastPage /\ p <= dfLastPage
          /\ (p - DF_LOG_BEGIN) + (DF_LOG_LIMIT - from) \in 1 .. ahead
          /\ p = page((p - DF_LOG_BEGIN) + (DF_LOG_LIMIT - from))
      BY <1>1, <1>7, <2>1, <2>3 DEF Older
    <3>2. QED
      BY <3>1
  <2>4. QED
    BY <2>2, <2>3
<1> HIDE DEF ahead, page
<1>8. DOMAIN ReplayPages(from) = 1 .. ahead /\ \A k \in 1 .. ahead : ReplayPages(from)[k] = page(k)
  BY <1>2
<1>9. QED
  BY <1>4, <1>5, <1>6, <1>7, <1>8 DEF Range

\* Without a marker the pages are read by their addresses.
LEMMA ReplayAll ==
  ASSUME TypeOK
  PROVE  /\ DOMAIN ReplayPages(0) = 1 .. dfLastPage
         /\ \A k \in 1 .. dfLastPage : ReplayPages(0)[k] = k /\ k \in Page /\ k <= dfLastPage
<1>1. dfLastPage \in Nat /\ dfLastPage < DF_LOG_LIMIT /\ DF_LOG_LIMIT \in Nat
  BY PageNumbers, Sizing
<1>2. ReplayPages(0) = [k \in 1 .. dfLastPage |-> k]
  BY <1>1 DEF ReplayPages
<1>3. QED
  BY <1>1, <1>2 DEF Page

\* So the entries are reported in order, and what is left out is older.
LEMMA OrderReplays ==
  ASSUME TypeOK, RingInv, OnePlace, InOrder
  PROVE  ReplayInOrder
<1>1. ASSUME NEW seqnum \in 0 .. MaxSeq, NEW asof \in 0 .. MaxNow,
             scanForMarker(seqnum, asof) = 0,
             NEW j \in DOMAIN ReplayPages(0), NEW k \in DOMAIN ReplayPages(0), j < k
      PROVE  Precedes(ReplayPages(0)[j], ReplayPages(0)[k])
  <2>1. /\ j \in 1 .. dfLastPage /\ k \in 1 .. dfLastPage
        /\ ReplayPages(0)[j] = j /\ ReplayPages(0)[k] = k
        /\ j \in Page /\ k \in Page /\ j <= dfLastPage /\ k <= dfLastPage
    BY ReplayAll
  <2>2. CASE j \in Log /\ k \in Log
    <3>1. Older(j, k)
      BY <1>1, <2>1, PageNumbers DEF Older
    <3>2. QED
      BY <2>1, <2>2, <3>1, OlderPrecedes
  <2>3. CASE ~(j \in Log /\ k \in Log)
    <3>1. EntriesOf(j) = {} \/ EntriesOf(k) = {}
      BY <2>1, <2>3 DEF OnePlace
    <3>2. QED
      BY <2>1, <3>1 DEF Precedes
  <2>4. QED
    BY <2>2, <2>3
<1>2. ASSUME NEW from \in Log, NEW p \in Log
      PROVE  /\ p # from /\ p \notin Range(ReplayPages(from)) => Older(p, from)
             /\ p \in Range(ReplayPages(from)) <=> Older(from, p)
             /\ ~Older(from, from) /\ ~(Older(p, from) /\ Older(from, p))
  <2>1. p \in Nat /\ from \in Nat /\ dfLastPage \in Nat
    BY PageNumbers, Sizing
  <2>2. ~Older(from, from) /\ ~(Older(p, from) /\ Older(from, p))
    BY <2>1 DEF Older
  <2>3. QED
    BY <2>2, OlderTotal, ReplayPagesOrder
<1>3. ASSUME NEW from \in Log, NEW j \in DOMAIN ReplayPages(from),
             NEW k \in DOMAIN ReplayPages(from), j < k
      PROVE  Precedes(ReplayPages(from)[j], ReplayPages(from)[k])
  BY <1>3, ReplayPagesOrder, OlderPrecedes
<1>4. ASSUME NEW seqnum \in 0 .. MaxSeq, NEW asof \in 0 .. MaxNow, ~wrapped,
             NEW w \in Log, flash[w].seqnum = seqnum, Covered(w, seqnum, asof),
             NEW p \in Log, Filled(p)
      PROVE  p \in Range(ReplayPages(scanForMarker(seqnum, asof)))
               <=> ~Covered(p, seqnum, asof)
  <2>1. /\ seqnum \in Nat /\ asof \in Nat /\ flash[w].timestamp \in Nat /\ p \in Nat
        /\ flash[p].seqnum \in Nat /\ flash[p].timestamp \in Nat
    BY PageNumbers, Sizing, FlashAssumption
  <2>2. Filled(w) /\ flash[w].timestamp <= asof
    <3>1. seqnum # EMPTY
      BY FlashAssumption
    <3>2. QED
      BY <1>4, <2>1, <3>1 DEF Filled, Covered
  <2>3. PICK from \in Log :
          /\ from = scanForMarker(seqnum, asof) /\ Filled(from)
          /\ flash[from].seqnum >= seqnum
          /\ \A q \in Log : Filled(q) /\ flash[q].seqnum >= seqnum =>
               flash[from].seqnum <= flash[q].seqnum
          /\ \A q \in Log : /\ Filled(q) /\ flash[q].seqnum = flash[from].seqnum
                             /\ flash[q].timestamp <= asof
               => q <= from /\ flash[from].timestamp <= asof
    <3>1. \E q \in Log : Filled(q) /\ flash[q].seqnum >= seqnum
      <4>1. flash[w].seqnum >= seqnum
        BY <1>4, <2>1
      <4>2. QED
        BY <2>2, <4>1
    <3>2. QED
      BY <3>1, MarkerPage
  <2>4. flash[from].seqnum \in Nat /\ flash[from].timestamp \in Nat /\ from \in Nat
    BY PageNumbers, Sizing
  <2>5. flash[from].seqnum = seqnum
    BY <1>4, <2>1, <2>2, <2>3, <2>4
  <2>6. flash[from].timestamp <= asof
    BY <1>4, <2>2, <2>3, <2>5
  <2>7. CASE p = from
    BY <1>2, <2>3, <2>5, <2>6, <2>7 DEF Covered
  <2>8. CASE Older(from, p)
    <3>1. Before(from, p, flash[p].seqnum, flash[p].timestamp)
      BY <1>4, <2>3, <2>8 DEF InOrder
    <3>2. flash[p].seqnum = flash[from].seqnum => ~(flash[p].timestamp <= asof)
      BY <1>4, <2>1, <2>3, <2>4, <3>1 DEF Before
    <3>3. ~Covered(p, seqnum, asof)
      BY <2>1, <2>4, <2>5, <3>1, <3>2 DEF Before, Covered
    <3>4. QED
      BY <1>2, <2>3, <2>8, <3>3
  <2>9. CASE Older(p, from)
    <3>1. Before(p, from, flash[from].seqnum, flash[from].timestamp)
      BY <1>4, <2>3, <2>9 DEF InOrder
    <3>2. Covered(p, seqnum, asof)
      BY <1>4, <2>1, <2>4, <2>5, <2>6, <3>1 DEF Before, Covered
    <3>3. QED
      BY <1>2, <2>3, <2>9, <3>2
  <2>10. QED
    BY <2>7, <2>8, <2>9, OlderTotal
<1>5. ASSUME NEW seqnum \in 0 .. MaxSeq, NEW asof \in 0 .. MaxNow, NEW from,
             from = scanForMarker(seqnum, asof)
      PROVE  /\ \A j, k \in DOMAIN ReplayPages(from) :
                  j < k => Precedes(ReplayPages(from)[j], ReplayPages(from)[k])
             /\ from # 0 =>
                  \A p \in {p \in Log : Filled(p)} \ ({from} \cup Range(ReplayPages(from))) :
                    Precedes(p, from)
             /\ ~wrapped /\ (\E p \in Log : flash[p].seqnum = seqnum /\ Covered(p, seqnum, asof))
                  => \A p \in Log : Filled(p) =>
                       (p \in Range(ReplayPages(from)) <=> ~Covered(p, seqnum, asof))
  <2>1. CASE from = 0
    BY <1>1, <1>4, <1>5, <2>1
  <2>2. CASE from # 0
    <3>1. from \in Log
      BY <1>5, <2>2, MarkerPage
    <3>2. \A p \in {p \in Log : Filled(p)} \ ({from} \cup Range(ReplayPages(from))) :
            Precedes(p, from)
      BY <1>2, <3>1, OlderPrecedes
    <3>3. QED
      BY <1>3, <1>4, <1>5, <3>1, <3>2
  <2>3. QED
    BY <2>1, <2>2
<1>6. QED
  BY <1>5, Zenon DEF ReplayInOrder

\* A replay reports the entries of the pages in the order in which they came
\* in, across the end of the log, resets, earlier replays and overflows of the
\* clock, and leaves out only pages that are older than the one it starts behind;
\* while a page that the marker covers under its own number is in the log and the
\* clock has not overflowed, it reports exactly the pages the marker does not
\* cover.
THEOREM ReplayTheorem == Undisturbed /\ Spec => []ReplayInOrder
<1>1. Init => OnePlace /\ InOrder
  <2>1. SUFFICES ASSUME Init PROVE OnePlace /\ InOrder
    OBVIOUS
  <2>2. 1 .. next - 1 = {}
    BY <2>1, InitialState
  <2>3. \A p \in Log : ~Filled(p)
    BY <2>1, InitialState, ErasedContent, Sizing DEF Filled
  <2>4. wrapped \/ dfBuf.timestamp <= now
    BY <2>1 DEF Init
  <2>5. QED
    BY <2>1, <2>2, <2>3, <2>4, InitialState DEF OnePlace, InOrder
<1>2. /\ TypeOK /\ Numbered /\ RingInv /\ OnePlace /\ InOrder /\ [Next]_vars
      => OnePlace' /\ InOrder'
  BY PlaceStep, OrderStep
<1>3. TypeOK /\ RingInv /\ OnePlace /\ InOrder => ReplayInOrder
  BY OrderReplays
<1>4. QED
  BY <1>1, <1>2, <1>3, RingAlways, PTL DEF Spec

=============================================================================
