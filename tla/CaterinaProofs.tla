--------------------------- MODULE CaterinaProofs ---------------------------
(***************************************************************************)
(* Proofs about the bootloader, for every page count, page size, time-out  *)
(* period and host.                                                        *)
(***************************************************************************)
EXTENDS Caterina, IntegerLemmas, TLAPS

\* The cells of the memories and the bytes of an answer.
LEMMA CellFacts ==
    /\ Blank \in Cell /\ Zero \in Cell /\ Corrupt \in Cell
    /\ \A m \in Images, a \in Nat : HostByte(m, a) \in Cell
    /\ \A c \in Cell : c \in Replies
    /\ Garbage \in Replies /\ CR \in Replies /\ Unknown \in Replies
    /\ Info \in Replies /\ None \in Replies
BY DEF Cell, Replies, Blank, Zero, Corrupt, Garbage, CR, Unknown, Info, None, HostByte

\* The sizes are natural numbers.
LEMMA SizeFacts ==
    /\ BOOT_START_ADDR \in Nat /\ FlashAddr = 0 .. BOOT_START_ADDR - 1
    /\ 0 \in FlashAddr /\ 1 \in FlashAddr
    /\ EEBytes \in Nat /\ EEAddr = 0 .. EEBytes - 1
    /\ PageBytes \in Nat /\ PageBytes > 1
<1>1. PageBytes \in Nat /\ PageBytes > 1
  BY MemoryAssumption
<1>2. NPages * PageBytes \in Nat /\ NPages * PageBytes >= PageBytes
  BY <1>1, MemoryAssumption
<1> QED BY <1>1, <1>2, MemoryAssumption DEF BOOT_START_ADDR, FlashAddr, EEAddr

-----------------------------------------------------------------------------
(* Frames: which actions can change which variables.                       *)

\* Only a reset, the EEPROM, SPM and the two EEPROM writes change the memories.
LEMMA MemFrame ==
    Next => \/ Reset \/ EepromDone \/ Spm \/ WriteEeprom \/ WriteEepromByte
            \/ UNCHANGED memVars
BY DEF Next, Interrupt, Cpu, Tick, UsbInterrupt, SketchRequest, SketchOther, MainReadKey,
  MainDecide, SetupHardware, While, CdcIdle, CdcCommand, UsbTask, TimeoutLow, TimeoutHigh,
  ExitHigh, ExitLow, ExitRww, SetDevice, Query, SyncOrUnknown, SetAddress, ChipErase,
  EraseLoop, EraseWrite, FillByte, CommitPage, ReadWord, ReadEeprom, BlockHigh, BlockLow,
  BlockHead, ReadFlashByte, ReadEepromByte, ReadDone, WriteLowByte, WriteHighByte,
  WriteDone, BlockAck, Acknowledge, Flush

\* Only resets, the sketch and main() change what the boot decision depends on.
LEMMA BootFrame ==
    Next => \/ Reset \/ SketchRequest \/ SketchOther \/ MainReadKey \/ MainDecide
            \/ SetupHardware \/ While
            \/ UNCHANGED <<bootVars, requested>>
BY DEF Next, Interrupt, Cpu, Tick, UsbInterrupt, EepromDone,
  CdcIdle, CdcCommand, UsbTask, TimeoutLow, TimeoutHigh,
  ExitHigh, ExitLow, ExitRww, SetDevice, Query, SyncOrUnknown, SetAddress, ChipErase,
  EraseLoop, EraseWrite, FillByte, CommitPage, ReadWord, ReadEeprom, BlockHigh, BlockLow,
  BlockHead, ReadFlashByte, ReadEepromByte, ReadDone, WriteLowByte, WriteHighByte,
  WriteDone, BlockAck, Acknowledge, Flush, Spm, WriteEeprom, WriteEepromByte, histVars

\* Only these change Timeout, the interrupt mask, RunBootloader and the history
\* of the last assignment.
LEMMA TimerFrame ==
    Next => \/ Reset
            \/ Tick \/ MainDecide \/ SetupHardware \/ While \/ TimeoutLow
            \/ TimeoutHigh \/ ExitHigh \/ ExitLow \/ BlockHigh \/ BlockLow \/ BlockHead
            \/ ReadDone \/ BlockAck
            \/ UNCHANGED <<timerVars, RunBootloader, idle, slack>>
BY DEF Next, Interrupt, Cpu, UsbInterrupt, EepromDone, SketchRequest, SketchOther,
  MainReadKey, CdcIdle, CdcCommand, UsbTask, ExitRww, SetDevice, Query, SyncOrUnknown,
  SetAddress, ChipErase, EraseLoop, EraseWrite, FillByte, CommitPage, ReadWord,
  WriteEeprom, ReadEeprom, ReadFlashByte, ReadEepromByte, WriteLowByte, WriteHighByte,
  WriteEepromByte, WriteDone, Acknowledge, Flush, Spm, histVars

\* Only CDC_Task's own steps change its command, address and block.
LEMMA CdcFrame ==
    Next => \/ Reset
            \/ CdcCommand \/ SetAddress \/ ChipErase \/ EraseWrite \/ FillByte
            \/ WriteEeprom \/ ReadEeprom \/ BlockHead \/ ReadFlashByte \/ ReadEepromByte
            \/ WriteLowByte \/ WriteHighByte \/ WriteEepromByte \/ Flush
            \/ UNCHANGED cdcVars
BY DEF Next, Interrupt, Cpu, Tick, UsbInterrupt, EepromDone, SketchRequest,
  SketchOther, MainReadKey, MainDecide, SetupHardware, While, CdcIdle, UsbTask,
  TimeoutLow, TimeoutHigh, ExitHigh, ExitLow, ExitRww, SetDevice, Query,
  SyncOrUnknown, EraseLoop, CommitPage, ReadWord, BlockHigh, BlockLow, ReadDone,
  WriteDone, BlockAck, Acknowledge, Spm

\* Only these change the state of the bus, the host's image and the last answer.
LEMMA HostFrame ==
    Next => \/ Reset
            \/ UsbInterrupt \/ MainDecide \/ While \/ UsbTask \/ Query \/ ReadWord
            \/ ReadEeprom \/ ReadFlashByte \/ ReadEepromByte \/ BlockAck \/ Acknowledge
            \/ Flush
            \/ UNCHANGED <<hostVars, glitch>>
BY DEF Next, Interrupt, Cpu, Tick, EepromDone, SketchRequest, SketchOther,
  MainReadKey, SetupHardware, CdcIdle, CdcCommand, TimeoutLow, TimeoutHigh, ExitHigh,
  ExitLow, ExitRww, SetDevice, SyncOrUnknown, SetAddress, ChipErase, EraseLoop,
  EraseWrite, FillByte, CommitPage, WriteEeprom, BlockHigh, BlockLow, BlockHead,
  ReadDone, WriteLowByte, WriteHighByte, WriteEepromByte, WriteDone, Spm, histVars

-----------------------------------------------------------------------------
(* Types.                                                                  *)

\* What main() finds after the first reset is well-typed.
LEMMA TypeInit == Init => TypeOK
<1> SUFFICES ASSUME Init PROVE TypeOK
  OBVIOUS
<1>1. FlagType /\ BootType
  BY DEF Init, FlagType, BootType, ResetFlags
<1>2. TimerType
  BY TimerAssumption DEF Init, TimerType, Byte
<1>3. MemType
  <2>1. \A a \in FlashAddr : HostByte(img, a) \in Cell
    BY CellFacts, SizeFacts DEF Init
  <2> QED BY <2>1, CellFacts DEF Init, MemType, BlankPage
<1>4. CtlType
  BY CellFacts DEF Init, CtlType, ControlPoints, ReturnPoints, Looping, SpmKinds, NoOp
<1>5. CdcType
  BY CellFacts DEF Init, CdcType, Commands, NoBlock, Block
<1>6. HostType
  BY CellFacts DEF Init, HostType
<1> QED BY <1>1, <1>2, <1>3, <1>4, <1>5, <1>6 DEF TypeOK

\* Every step leaves the Boolean variables Boolean.
LEMMA FlagTypeNext == ASSUME TypeOK, Next PROVE FlagType'
<1> USE DEF TypeOK, FlagType
<1>1. CASE Reset
  <2>1. ASSUME NEW flags, NEW key, ResetTo(flags, key),
               requested' \in BOOLEAN, eeBusy' \in BOOLEAN
        PROVE FlagType'
    <3>1. wdt' = ("WDRF" \in flags)
      BY <2>1 DEF ResetTo
    <3>2. wdt' \in BOOLEAN
      BY <3>1
    <3> QED BY <2>1, <3>2 DEF ResetTo
  <2> QED BY <1>1, <2>1 DEF Reset, PowerOnReset, BrownOutReset, ExternalReset, WatchdogReset
<1>2. CASE SketchRequest \/ SketchOther \/ EepromDone
  BY <1>2 DEF SketchRequest, SketchOther, EepromDone, timerVars, memVars,
    spmVars, histVars, bootVars
<1>3. CASE Interrupt
  BY <1>3 DEF Interrupt, Tick, UsbInterrupt, timerVars, memVars, bootVars, histVars
<1>4. CASE MainReadKey \/ MainDecide \/ SetupHardware \/ While
  BY <1>4 DEF MainReadKey, MainDecide, SetupHardware, While, StartSketch, bootVars,
    timerVars, memVars, spmVars, histVars
<1>5. CASE \/ CdcIdle \/ CdcCommand \/ UsbTask \/ TimeoutLow
           \/ SetDevice \/ Query \/ SyncOrUnknown \/ SetAddress \/ ChipErase
  BY <1>5 DEF CdcIdle, CdcCommand, UsbTask, TimeoutLow, SetDevice, Query, SyncOrUnknown,
    SetAddress, ChipErase, bootVars, timerVars, memVars, spmVars, histVars
<1>6. CASE ExitHigh \/ ExitLow
  BY <1>6 DEF ExitHigh, ExitLow, bootVars, memVars, spmVars, histVars
<1>7. CASE TimeoutHigh
  BY <1>7 DEF TimeoutHigh, bootVars, memVars, spmVars, histVars
<1>8. CASE ExitRww \/ EraseLoop \/ EraseWrite
  BY <1>8 DEF ExitRww, EraseLoop, EraseWrite, Arm, bootVars, timerVars, memVars, spmVars,
    histVars
<1>9. CASE FillByte \/ CommitPage
  BY <1>9 DEF FillByte, CommitPage, Arm, bootVars, timerVars, memVars, histVars
<1>10. CASE WriteHighByte \/ WriteDone
  BY <1>10 DEF WriteHighByte, WriteDone, CommitBlock, Arm, bootVars, timerVars, memVars,
    spmVars, histVars
<1>11. CASE ReadWord \/ ReadEeprom \/ Acknowledge \/ Flush
  BY <1>11 DEF ReadWord, ReadEeprom, Acknowledge, Flush, bootVars, timerVars, memVars,
    spmVars, histVars
<1>12. CASE ReadFlashByte \/ ReadEepromByte \/ WriteLowByte
  <2>1. UNCHANGED <<bootVars, RunBootloader, timerVars, memVars, spmVars, histVars>>
    BY <1>12 DEF ReadFlashByte, ReadEepromByte, WriteLowByte
  <2> QED BY <2>1 DEF bootVars, timerVars, memVars, spmVars, histVars
<1>13. CASE WriteEeprom \/ WriteEepromByte
  BY <1>13 DEF WriteEeprom, WriteEepromByte, EepromWriteByte, bootVars, timerVars,
    spmVars, histVars
<1>14. CASE BlockHigh \/ BlockLow \/ ReadDone \/ BlockAck
  BY <1>14 DEF BlockHigh, BlockLow, ReadDone, BlockAck, bootVars, memVars, spmVars,
    histVars
<1>15. CASE BlockHead
  BY <1>15 DEF BlockHead, BlockStart, Arm, bootVars, memVars, spmVars, histVars
<1>16. CASE Spm
  BY <1>16 DEF Spm, Erase, WritePage, Fill, RwwEnable, bootVars, timerVars, histVars
<1> QED BY <1>1, <1>2, <1>3, <1>4, <1>5, <1>6, <1>7, <1>8, <1>9, <1>10, <1>11, <1>12,
  <1>13, <1>14, <1>15, <1>16 DEF Next, Cpu

\* Every step leaves the reset flags and the boot key well-typed.
LEMMA BootTypeNext == ASSUME TypeOK, Next PROVE BootType'
<1> USE DEF TypeOK, BootType, ResetFlags
<1>1. CASE Reset
  BY <1>1 DEF Reset, PowerOnReset, BrownOutReset, ExternalReset, WatchdogReset, ResetTo
<1>2. CASE SketchRequest \/ SketchOther
  BY <1>2 DEF SketchRequest, SketchOther
<1>3. CASE MainReadKey \/ SetupHardware \/ While
  BY <1>3 DEF MainReadKey, SetupHardware, While, StartSketch, histVars, bootVars
<1>4. CASE MainDecide
  BY <1>4 DEF MainDecide, StartSketch
<1>5. CASE UNCHANGED <<bootVars, requested>>
  BY <1>5 DEF bootVars
<1> QED BY <1>1, <1>2, <1>3, <1>4, <1>5, BootFrame

\* Timeout's two bytes stay bytes: the tick of TIMER1_COMPA_vect wraps.
LEMMA TimerTypeNext == ASSUME TypeOK, Next PROVE TimerType'
<1> USE TimerAssumption DEF TypeOK, TimerType, Byte
<1>1. CASE Reset
  BY <1>1 DEF Reset, PowerOnReset, BrownOutReset, ExternalReset, WatchdogReset, ResetTo
<1>2. CASE Tick
  <2>1. (tLo + 1) % BASE \in 0 .. BASE - 1 /\ (tHi + 1) % BASE \in 0 .. BASE - 1
    OBVIOUS
  <2> QED BY <1>2, <2>1 DEF Tick, CountTick, timerVars
<1>3. CASE MainDecide \/ SetupHardware \/ While
  BY <1>3 DEF MainDecide, SetupHardware, While, StartSketch, timerVars
<1>4. CASE TimeoutLow \/ TimeoutHigh
  BY <1>4 DEF TimeoutLow, TimeoutHigh, histVars
<1>5. CASE ExitHigh \/ ExitLow
  <2> DEFINE v == TIMEOUT_PERIOD - EXIT_GRACE
  <2>1. v \in Nat /\ v < BASE * BASE /\ v <= TIMEOUT_PERIOD
    OBVIOUS
  <2>2. v \div BASE \in 0 .. BASE - 1 /\ v % BASE \in 0 .. BASE - 1
    BY <2>1
  <2> QED BY <1>5, <2>1, <2>2 DEF ExitHigh, ExitLow, histVars
<1>6. CASE BlockHigh \/ BlockLow \/ BlockHead \/ ReadDone \/ BlockAck
  BY <1>6 DEF BlockHigh, BlockLow, BlockHead, ReadDone, BlockAck, histVars
<1>7. CASE UNCHANGED <<timerVars, RunBootloader, idle, slack>>
  BY <1>7 DEF timerVars
<1> QED BY <1>1, <1>2, <1>3, <1>4, <1>5, <1>6, <1>7, TimerFrame

\* SPM, eeprom_write_byte and resets keep flash, EEPROM and page buffer total
\* over their addresses.
LEMMA MemTypeNext == ASSUME TypeOK, Next PROVE MemType'
<1> USE CellFacts, SizeFacts DEF TypeOK, MemType
<1>1. CASE Reset
  BY <1>1 DEF Reset, PowerOnReset, BrownOutReset, ExternalReset, WatchdogReset, ResetTo,
    BlankPage
<1>2. CASE EepromDone
  BY <1>2 DEF EepromDone
<1>3. CASE Spm
  <2>1. spmOp.low \in Cell /\ spmOp.high \in Cell
    BY DEF CtlType
  <2>2. \A a, b \in Cell : Merge(a, b) \in Cell
    BY DEF Merge
  <2>3. \A x \in FlashAddr : x % PageBytes \in 0 .. PageBytes - 1
    OBVIOUS
  <2>4. CASE Erase(spmOp.addr)
    BY <1>3, <2>4 DEF Spm, Erase
  <2>5. CASE WritePage(spmOp.addr)
    BY <1>3, <2>2, <2>3, <2>5 DEF Spm, WritePage, BlankPage
  <2>6. CASE Fill(spmOp.addr, spmOp.low, spmOp.high)
    BY <1>3, <2>1, <2>6 DEF Spm, Fill
  <2>7. CASE RwwEnable
    BY <1>3, <2>7 DEF Spm, RwwEnable, BlankPage
  <2>8. CASE UNCHANGED <<flash, pageBuf, rww>>
    BY <1>3, <2>8 DEF Spm
  <2> QED BY <1>3, <2>4, <2>5, <2>6, <2>7, <2>8 DEF Spm
<1>4. CASE WriteEeprom \/ WriteEepromByte
  <2>1. ASSUME NEW b \in EepromSent PROVE b \in Cell
    <3>1. CurrAddress \div 2 \in Nat /\ img \in Images
      BY DEF CdcType, HostType
    <3> QED BY <2>1, <3>1 DEF EepromSent, FetchNextCommandByte
  <2> QED BY <1>4, <2>1 DEF WriteEeprom, WriteEepromByte, EepromWriteByte
<1>5. CASE UNCHANGED memVars
  BY <1>5 DEF memVars
<1> QED BY <1>1, <1>2, <1>3, <1>4, <1>5, MemFrame

\* Records of ReadWriteMemoryBlock's locals.
LEMMA NoBlockType == NoBlock \in Block
BY CellFacts DEF Block, NoBlock

\* The locals of ReadWriteMemoryBlock after one byte of a block.
LEMMA BlockByte ==
    ASSUME NEW b \in Block, b.n > 0
    PROVE /\ [b EXCEPT !.n = @ - 1] \in Block
          /\ [b EXCEPT !.n = @ - 1, !.high = ~@] \in Block
          /\ [b EXCEPT !.n = @ - 1, !.high = FALSE] \in Block
          /\ \A c \in Cell : [b EXCEPT !.n = @ - 1, !.high = TRUE, !.low = c] \in Block
<1>1. b.n - 1 \in Nat /\ b.high \in BOOLEAN
  BY DEF Block
<1> DEFINE d == [b EXCEPT !.n = @ - 1]
<1>2. d \in Block
  BY <1>1 DEF Block
<1>3. \A v \in BOOLEAN : [d EXCEPT !.high = v] \in Block
  BY <1>2 DEF Block
<1>4. \A c \in Cell : [[d EXCEPT !.high = TRUE] EXCEPT !.low = c] \in Block
  BY <1>3 DEF Block
<1>5. [b EXCEPT !.n = @ - 1, !.high = ~@] = [d EXCEPT !.high = ~b.high]
  BY DEF Block
<1> QED BY <1>1, <1>2, <1>3, <1>4, <1>5

\* CDC_Task keeps its command, addresses and block well-typed.
LEMMA CdcTypeNext == ASSUME TypeOK, Next PROVE CdcType'
<1> USE DEF TypeOK, CdcType
<1>1. CASE Reset
  BY <1>1, NoBlockType DEF Reset, PowerOnReset, BrownOutReset, ExternalReset, WatchdogReset, ResetTo,
    Commands
<1>2. CASE CdcCommand
  BY <1>2, HostAssumption DEF CdcCommand
<1>3. CASE SetAddress
  <2>1. \A a \in HostAddrs : a \in Nat /\ (a \div BASE) * BASE \in Nat
    BY HostAssumption, TimerAssumption
  <2>2. \A w \in FetchNextCommandByte(HostAddrs,
                  {0} \cup {(a \div BASE) * BASE : a \in HostAddrs}) : w \in Nat
    BY <2>1 DEF FetchNextCommandByte
  <2> QED BY <1>3, <2>2 DEF SetAddress
<1>4. CASE ChipErase \/ EraseWrite
  BY <1>4, SizeFacts DEF ChipErase, EraseWrite
<1>5. CASE FillByte \/ WriteEeprom \/ ReadEeprom
  BY <1>5 DEF FillByte, WriteEeprom, ReadEeprom
<1>6. CASE BlockHead
  <2>1. PICK h \in FetchNextCommandByte(HostSizes \X HostMems, {<<0, "other">>}) :
          blk' = [n |-> h[1], size |-> h[1], mem |-> h[2], high |-> FALSE,
                    low |-> Zero, start |-> CurrAddress]
    BY <1>6 DEF BlockHead
  <2>2. h[1] \in Nat /\ h[2] \in {"F", "E", "other"}
    <3>1. h \in HostSizes \X HostMems \/ h = <<0, "other">>
      BY DEF FetchNextCommandByte
    <3>2. CASE h \in HostSizes \X HostMems
      <4>1. h[1] \in HostSizes /\ h[2] \in HostMems
        BY <3>2
      <4> QED BY <4>1, HostAssumption
    <3>3. CASE h = <<0, "other">>
      BY <3>3
    <3> QED BY <3>1, <3>2, <3>3
  <2>3. blk' \in Block
    BY <2>1, <2>2, CellFacts DEF Block
  <2> QED BY <1>6, <2>3 DEF BlockHead
<1>7. CASE ReadFlashByte \/ ReadEepromByte \/ WriteHighByte \/ WriteEepromByte
  <2>1. blk.n > 0
    BY <1>7 DEF ReadFlashByte, ReadEepromByte, WriteHighByte, WriteEepromByte
  <2>2. /\ [blk EXCEPT !.n = @ - 1] \in Block
        /\ [blk EXCEPT !.n = @ - 1, !.high = ~@] \in Block
        /\ [blk EXCEPT !.n = @ - 1, !.high = FALSE] \in Block
    BY <2>1, BlockByte
  <2>3. blk' \in Block
    BY <1>7, <2>2, Zenon DEF ReadFlashByte, ReadEepromByte, WriteHighByte, WriteEepromByte
  <2> QED BY <1>7, <2>3 DEF ReadFlashByte, ReadEepromByte, WriteHighByte,
        WriteEepromByte, AfterFlashByte
<1>8. CASE WriteLowByte
  <2>1. HostByte(img, CurrAddress) \in Cell
    BY CellFacts DEF HostType
  <2>2. PICK b \in Cell : blk' = [blk EXCEPT !.n = @ - 1, !.high = TRUE, !.low = b]
    BY <1>8, <2>1, CellFacts DEF WriteLowByte, FetchNextCommandByte
  <2> QED BY <1>8, <2>2, BlockByte DEF WriteLowByte
<1>9. CASE Flush
  BY <1>9, NoBlockType DEF Flush, Commands
<1>10. CASE UNCHANGED cdcVars
  BY <1>10 DEF cdcVars
<1> QED BY <1>1, <1>2, <1>3, <1>4, <1>5, <1>6, <1>7, <1>8, <1>9, <1>10, CdcFrame

\* The first half of a boot_* macro sets up its second half.
LEMMA ArmType ==
    ASSUME TypeOK, NEW kind \in SpmKinds \ {"none"}, NEW addr \in Nat,
           NEW low \in Cell, NEW high \in Cell, NEW next \in ReturnPoints,
           Arm(kind, addr, low, high, next)
    PROVE CtlType'
<1>1. spmOp' \in [kind : SpmKinds, addr : Nat, low : Cell, high : Cell]
  BY DEF Arm
<1>2. spmOp'.kind # "none" /\ ctl' = "spm" /\ ret' = next
  BY DEF Arm, SpmKinds
<1> QED BY <1>1, <1>2 DEF CtlType, ControlPoints, Looping

\* A step of straight-line code.
LEMMA StepType ==
    ASSUME TypeOK, ctl # "spm", UNCHANGED spmVars, ctl' \in ControlPoints, ctl' # "spm"
    PROVE CtlType'
BY DEF TypeOK, CtlType, spmVars

\* The CPU is at "spm" exactly while a boot_* macro is under way, and the macro
\* returns to one of its callers.
LEMMA CtlTypeNext == ASSUME TypeOK, Next PROVE CtlType'
<1> USE DEF ControlPoints, ReturnPoints, Looping
<1>1. CASE Reset
  <2>1. ctl' = "reset" /\ spmOp' = NoOp /\ armed' = FALSE /\ ret' = "while"
    BY <1>1 DEF Reset, PowerOnReset, BrownOutReset, ExternalReset, WatchdogReset, ResetTo
  <2> QED BY <2>1, CellFacts DEF CtlType, NoOp, SpmKinds
<1>2. CASE Interrupt
  BY <1>2 DEF Interrupt, Tick, UsbInterrupt, TypeOK, CtlType
<1>3. CASE EepromDone \/ SketchRequest \/ SketchOther
  BY <1>3 DEF EepromDone, SketchRequest, SketchOther, spmVars, TypeOK, CtlType
<1>4. CASE \/ MainReadKey \/ MainDecide \/ SetupHardware
           \/ While \/ CdcIdle \/ CdcCommand \/ UsbTask \/ TimeoutLow \/ TimeoutHigh
  BY <1>4, StepType DEF MainReadKey, MainDecide, SetupHardware, While, StartSketch,
    CdcIdle, CdcCommand, UsbTask, TimeoutLow, TimeoutHigh
<1>5. CASE \/ ExitHigh \/ ExitLow \/ SetDevice \/ Query \/ SyncOrUnknown
           \/ SetAddress \/ ChipErase \/ ReadWord \/ WriteEeprom \/ ReadEeprom
  BY <1>5, StepType DEF ExitHigh, ExitLow, SetDevice, Query, SyncOrUnknown, SetAddress,
    ChipErase, ReadWord, WriteEeprom, ReadEeprom
<1>6. CASE \/ BlockHigh \/ BlockLow \/ ReadFlashByte \/ ReadEepromByte \/ ReadDone
           \/ WriteLowByte \/ WriteEepromByte \/ BlockAck \/ Acknowledge \/ Flush
  BY <1>6, StepType DEF BlockHigh, BlockLow, ReadFlashByte, ReadEepromByte, ReadDone,
    WriteLowByte, WriteEepromByte, BlockAck, Acknowledge, Flush
<1>7. CASE ExitRww \/ CommitPage \/ EraseWrite
  BY <1>7, ArmType, CellFacts DEF ExitRww, CommitPage, EraseWrite, SpmKinds, TypeOK,
    CdcType
<1>8. CASE EraseLoop
  BY <1>8, ArmType, StepType, CellFacts DEF EraseLoop, SpmKinds, TypeOK, CdcType
<1>9. CASE FillByte
  <2>1. \A a \in Nat : HostByte(img, a) \in Cell
    BY CellFacts DEF TypeOK, HostType
  <2>2. PICK at \in Nat, b \in Cell : Arm("fill", at, b, Zero, "ack")
    BY <1>9, <2>1, CellFacts DEF FillByte, FetchNextCommandByte, TypeOK, CdcType
  <2> QED BY <2>2, ArmType, CellFacts DEF SpmKinds
<1>10. CASE BlockHead
  <2>1. PICK h : BlockStart(h[2])
    BY <1>10 DEF BlockHead
  <2>2. ctl # "spm"
    BY <1>10 DEF BlockHead
  <2> QED BY <2>1, <2>2, ArmType, StepType, CellFacts DEF BlockStart, SpmKinds, TypeOK,
        CdcType
<1>11. CASE WriteHighByte
  <2>1. HostByte(img, CurrAddress + 1) \in Cell /\ blk.low \in Cell
    BY CellFacts DEF TypeOK, HostType, CdcType, Block
  <2>2. PICK b \in Cell : Arm("fill", CurrAddress, blk.low, b, "writeLoop")
    BY <1>11, <2>1, CellFacts DEF WriteHighByte, FetchNextCommandByte
  <2> QED BY <2>1, <2>2, ArmType DEF SpmKinds, TypeOK, CdcType
<1>12. CASE WriteDone
  <2>1. blk.start \in Nat
    BY DEF TypeOK, CdcType, Block
  <2> QED BY <1>12, <2>1, ArmType, StepType, CellFacts DEF WriteDone, CommitBlock,
        SpmKinds
<1>13. CASE Spm
  <2>1. ctl' = ret /\ spmOp' = NoOp /\ armed' = FALSE /\ ret' = "while"
    BY <1>13 DEF Spm
  <2> QED BY <2>1, CellFacts DEF CtlType, NoOp, SpmKinds, TypeOK
<1> QED BY <1>1, <1>2, <1>3, <1>4, <1>5, <1>6, <1>7, <1>8, <1>9, <1>10, <1>11, <1>12,
     <1>13 DEF Next, Cpu

-----------------------------------------------------------------------------
(* Addresses, and the type of an answer, which depends on them.            *)

\* Every answer is a byte of the protocol; a read inside the memories, which
\* AddressesInRange gives, returns a cell.
LEMMA HostTypeNext == ASSUME TypeOK, AddressesInRange, Next PROVE HostType'
<1> USE CellFacts DEF TypeOK, HostType
<1>1. CASE Reset
  BY <1>1 DEF Reset, PowerOnReset, BrownOutReset, ExternalReset, WatchdogReset, ResetTo
<1>2. CASE UsbInterrupt \/ UsbTask \/ Flush
  BY <1>2 DEF UsbInterrupt, UsbTask, Flush
<1>3. CASE MainDecide \/ While
  BY <1>3 DEF MainDecide, While, StartSketch
<1>4. CASE Query \/ Acknowledge \/ BlockAck
  BY <1>4 DEF Query, Acknowledge, BlockAck, WriteNextResponseByte
<1>5. \A a \in FlashAddr : FlashRead(a) \in Replies
  BY DEF FlashRead, MemType
<1>6. \A a \in EEAddr : eeprom[a] \in Replies
  BY DEF MemType
<1>7. CASE ReadWord
  BY <1>5, <1>7 DEF ReadWord, WriteNextResponseByte, AddressesInRange, HostInRange
<1>8. CASE ReadEeprom
  BY <1>6, <1>8 DEF ReadEeprom, WriteNextResponseByte, AddressesInRange, HostInRange
<1>9. CASE ReadFlashByte
  <2>1. (IF blk.high THEN CurrAddress + 1 ELSE CurrAddress) \in FlashAddr
    BY <1>9, SizeFacts DEF ReadFlashByte, AddressesInRange, CdcType, Block
  <2> QED BY <1>5, <1>9, <2>1 DEF ReadFlashByte, WriteNextResponseByte
<1>10. CASE ReadEepromByte
  <2>1. CurrAddress \div 2 \in EEAddr
    <3>1. blk.n > 0 /\ CurrAddress \div 2 + blk.n <= EEBytes
      BY <1>10 DEF ReadEepromByte, AddressesInRange
    <3>2. CurrAddress \in Nat /\ blk.n \in Nat
      BY DEF CdcType, Block
    <3> QED BY <3>1, <3>2, SizeFacts
  <2> QED BY <1>6, <1>10, <2>1 DEF ReadEepromByte, WriteNextResponseByte
<1>11. CASE UNCHANGED <<hostVars, glitch>>
  BY <1>11 DEF hostVars
<1> QED BY <1>1, <1>2, <1>3, <1>4, <1>7, <1>8, <1>9, <1>10, <1>11, HostFrame

\* Only these actions can bring the CPU to a point AddressesInRange is about.
LEMMA RangeFrame ==
    ASSUME TypeOK, Next
    PROVE \/ CdcCommand \/ BlockHead \/ ReadFlashByte \/ ReadEepromByte
          \/ WriteLowByte \/ WriteHighByte \/ WriteEepromByte \/ Spm
          \/ UNCHANGED <<ctl, ret, cdcVars>>
          \/ ctl' \notin {"exec", "readLoop", "writeLoop"}
             /\ ret' \notin {"readLoop", "writeLoop"}
<1>1. ctl # "spm" => ret \notin {"readLoop", "writeLoop"}
  BY DEF TypeOK, CtlType
<1>2. CASE Reset
  BY <1>2 DEF Reset, PowerOnReset, BrownOutReset, ExternalReset, WatchdogReset, ResetTo
<1>3. CASE Interrupt \/ EepromDone \/ SketchRequest \/ SketchOther
  BY <1>3 DEF Interrupt, Tick, UsbInterrupt, EepromDone, SketchRequest, SketchOther,
    spmVars
<1>4. CASE Cpu
  BY <1>1, <1>4 DEF Cpu, MainReadKey, MainDecide, SetupHardware, While, StartSketch,
    CdcIdle, UsbTask, TimeoutLow, TimeoutHigh, ExitHigh, ExitLow, ExitRww, SetDevice,
    Query, SyncOrUnknown, SetAddress, ChipErase, EraseLoop, EraseWrite, FillByte,
    CommitPage, ReadWord, WriteEeprom, ReadEeprom, BlockHigh, BlockLow, ReadDone,
    WriteDone, CommitBlock, BlockAck, Acknowledge, Flush, Arm, spmVars
<1> QED BY <1>2, <1>3, <1>4 DEF Next

\* No step of a command or a block takes its address out of the memories.
LEMMA RangeNext == ASSUME TypeOK, AddressesInRange, Next PROVE AddressesInRange'
<1> USE DEF TypeOK, CtlType, CdcType, Block
<1>1. CASE CdcCommand
  BY <1>1 DEF CdcCommand, AddressesInRange, HostInRange, spmVars
<1>2. CASE BlockHead
  <2>1. PICK h : /\ HostBlockInRange(h[1], h[2])
                 /\ blk' = [n |-> h[1], size |-> h[1], mem |-> h[2], high |-> FALSE,
                            low |-> Zero, start |-> CurrAddress]
                 /\ BlockStart(h[2])
    BY <1>2 DEF BlockHead
  <2>2. CurrAddress' = CurrAddress /\ ctl' # "exec"
    BY <1>2, <2>1 DEF BlockHead, BlockStart, Arm
  <2>3. /\ blk'.mem = "F" => CurrAddress' + blk'.n <= BOOT_START_ADDR /\ blk'.high = FALSE
        /\ blk'.mem = "E" => CurrAddress' \div 2 + blk'.n <= EEBytes
    BY <2>1, <2>2 DEF HostBlockInRange
  <2>4. blk' \in Block /\ CurrAddress' \in Nat
    BY CdcTypeNext
  <2> QED BY <2>2, <2>3, <2>4 DEF AddressesInRange
<1>3. CASE ReadFlashByte
  <2>1. /\ blk'.n = blk.n - 1 /\ blk'.mem = blk.mem /\ blk'.high = ~blk.high
        /\ CurrAddress' = AfterFlashByte /\ ctl' = ctl /\ ret' = ret
    BY <1>3 DEF ReadFlashByte, spmVars
  <2>2. blk.n > 0 /\ ctl = "readLoop" /\ blk.mem = "F"
    BY <1>3 DEF ReadFlashByte
  <2>3. CASE blk.high = TRUE
    <3>1. CurrAddress + 1 + blk.n <= BOOT_START_ADDR
      BY <2>2, <2>3 DEF AddressesInRange
    <3>2. blk'.high = FALSE /\ CurrAddress' = CurrAddress + 2
      BY <2>1, <2>3 DEF AfterFlashByte
    <3> QED BY <2>1, <2>2, <3>1, <3>2, SizeFacts DEF AddressesInRange
  <2>4. CASE blk.high = FALSE
    <3>1. CurrAddress + blk.n <= BOOT_START_ADDR
      BY <2>2, <2>4 DEF AddressesInRange
    <3>2. blk'.high = TRUE /\ CurrAddress' = CurrAddress
      BY <2>1, <2>4 DEF AfterFlashByte
    <3> QED BY <2>1, <2>2, <3>1, <3>2, SizeFacts DEF AddressesInRange
  <2> QED BY <2>3, <2>4
<1>4. CASE ReadEepromByte \/ WriteEepromByte
  <2>1. /\ blk'.n = blk.n - 1 /\ blk'.mem = blk.mem
        /\ CurrAddress' = CurrAddress + 2 /\ ctl' = ctl /\ ret' = ret
    BY <1>4 DEF ReadEepromByte, WriteEepromByte, spmVars
  <2>2. blk.n > 0 /\ ctl \in {"readLoop", "writeLoop"} /\ blk.mem = "E"
    BY <1>4 DEF ReadEepromByte, WriteEepromByte
  <2>3. CurrAddress \div 2 + blk.n <= EEBytes
    BY <2>2 DEF AddressesInRange
  <2>4. CurrAddress \in Nat /\ blk.n \in Nat
    BY DEF TypeOK, CdcType, Block
  <2>5. CurrAddress' \div 2 + blk'.n <= EEBytes
    BY <2>1, <2>3, <2>4, SizeFacts
  <2> QED BY <2>1, <2>2, <2>5 DEF AddressesInRange
<1>5. CASE WriteLowByte
  <2>1. /\ blk'.n = blk.n - 1 /\ blk'.mem = blk.mem /\ blk'.high = TRUE
        /\ CurrAddress' = CurrAddress /\ ctl' = ctl /\ ret' = ret
    BY <1>5 DEF WriteLowByte, spmVars
  <2> QED BY <1>5, <2>1, SizeFacts DEF AddressesInRange, WriteLowByte
<1>6. CASE WriteHighByte
  <2>1. /\ blk'.n = blk.n - 1 /\ blk'.mem = blk.mem /\ blk'.high = FALSE
        /\ CurrAddress' = CurrAddress + 2 /\ ctl' = "spm"
    BY <1>6 DEF WriteHighByte, Arm
  <2>2. blk.n > 0 /\ ctl = "writeLoop" /\ blk.mem = "F" /\ blk.high
    BY <1>6 DEF WriteHighByte
  <2>3. CurrAddress + 1 + blk.n <= BOOT_START_ADDR
    BY <2>2 DEF AddressesInRange
  <2> QED BY <2>1, <2>2, <2>3, SizeFacts DEF AddressesInRange
<1>7. CASE Spm
  BY <1>7 DEF Spm, AddressesInRange, ReturnPoints, cdcVars
<1>8. CASE UNCHANGED <<ctl, ret, cdcVars>>
  BY <1>8 DEF AddressesInRange, HostInRange, cdcVars
<1>9. CASE /\ ctl' \notin {"exec", "readLoop", "writeLoop"}
           /\ ret' \notin {"readLoop", "writeLoop"}
  BY <1>9 DEF AddressesInRange
<1> QED BY <1>1, <1>2, <1>3, <1>4, <1>5, <1>6, <1>7, <1>8, <1>9, RangeFrame

\* Type correctness of the bootloader, and that CDC_Task never leaves the
\* memories while the host's own addresses lie in them.
THEOREM TypesAndAddresses == Spec => [](TypeOK /\ AddressesInRange)
<1>1. Init => TypeOK /\ AddressesInRange
  BY TypeInit DEF Init, AddressesInRange
<1>2. TypeOK /\ AddressesInRange /\ [Next]_vars => (TypeOK /\ AddressesInRange)'
  <2> SUFFICES ASSUME TypeOK, AddressesInRange, [Next]_vars
               PROVE (TypeOK /\ AddressesInRange)'
    OBVIOUS
  <2>1. CASE Next
    BY <2>1, FlagTypeNext, BootTypeNext, TimerTypeNext, MemTypeNext, CtlTypeNext,
      CdcTypeNext, HostTypeNext, RangeNext DEF TypeOK
  <2>2. CASE UNCHANGED vars
    BY <2>2 DEF vars, bootVars, timerVars, memVars, spmVars, cdcVars, hostVars, histVars,
      TypeOK, FlagType, BootType, TimerType, MemType, CtlType, CdcType, HostType,
      AddressesInRange, HostInRange
  <2> QED BY <2>1, <2>2
<1> QED BY <1>1, <1>2, PTL DEF Spec

\* Type correctness alone.
THEOREM TypeCorrect == Spec => []TypeOK
BY TypesAndAddresses, PTL

-----------------------------------------------------------------------------
(* The boot key.                                                           *)

\* Where a boot key can be, and what it then means: in memory only while the
\* sketch that wrote it runs or just after a reset, in main's copy until
\* main() has decided.
KeyInv ==
    /\ bootKeyMem = "key" =>
         \/ ctl \in {"reset", "sketch"} /\ requested
         \/ ctl = "reset" /\ "PORF" \in mcusr
    /\ ctl = "main" /\ bootKeyPtrVal = "key" => requested \/ "PORF" \in mcusr
    /\ BootKeyOneShot

\* Only main() and the sketch move between the points KeyInv is about.
LEMMA KeyFrame ==
    ASSUME TypeOK, Next
    PROVE \/ Reset \/ SketchRequest \/ SketchOther
          \/ MainReadKey \/ MainDecide \/ SetupHardware \/ While
          \/ ctl \in {"reset", "main", "setup", "sketch"}
             /\ UNCHANGED <<ctl, bootVars, requested, flash>>
          \/ ctl \notin {"reset", "main", "setup", "sketch"}
             /\ ctl' \notin {"reset", "main", "setup", "sketch"}
             /\ UNCHANGED <<bootVars, requested>>
<1>1. ret \notin {"reset", "main", "setup", "sketch"}
  BY DEF TypeOK, CtlType, ReturnPoints
<1>2. CASE Interrupt
  BY <1>2 DEF Interrupt, Tick, UsbInterrupt, Looping, histVars
<1>3. CASE EepromDone
  BY <1>3 DEF EepromDone, histVars
<1>4. CASE Cpu
  BY <1>1, <1>4 DEF Cpu, CdcIdle, CdcCommand, UsbTask, TimeoutLow, TimeoutHigh, ExitHigh,
    ExitLow, ExitRww, SetDevice, Query, SyncOrUnknown, SetAddress, ChipErase, EraseLoop,
    EraseWrite, FillByte, CommitPage, ReadWord, WriteEeprom, ReadEeprom, BlockHigh,
    BlockLow, BlockHead, BlockStart, ReadFlashByte, ReadEepromByte, ReadDone,
    WriteLowByte, WriteHighByte, WriteEepromByte, WriteDone, CommitBlock, BlockAck,
    Acknowledge, Flush, Spm, Arm, histVars
<1> QED BY <1>2, <1>3, <1>4 DEF Next

\* main(), the sketch and the resets preserve KeyInv.
LEMMA KeyNext == ASSUME TypeOK, KeyInv, Next PROVE KeyInv'
<1> USE DEF TypeOK, BootType, KeyInv, BootKeyOneShot
<1>1. CASE Reset
  <2>1. CASE PowerOnReset
    BY <2>1 DEF PowerOnReset, ResetTo
  <2>2. CASE BrownOutReset
    BY <2>2 DEF BrownOutReset, ResetTo
  <2>3. CASE ExternalReset
    BY <2>3 DEF ExternalReset, ResetTo
  <2>4. CASE WatchdogReset
    BY <2>4 DEF WatchdogReset, ResetTo
  <2> QED BY <1>1, <2>1, <2>2, <2>3, <2>4 DEF Reset
<1>2. CASE SketchRequest \/ SketchOther
  BY <1>2 DEF SketchRequest, SketchOther
<1>3. CASE MainReadKey
  BY <1>3 DEF MainReadKey, histVars
<1>4. CASE MainDecide
  <2>1. CASE ctl' = "sketch"
    BY <1>4, <2>1 DEF MainDecide
  <2>2. CASE ctl' = "setup"
    <3>1. /\ ctl = "main" /\ mcusr_state' = mcusr /\ requested' = requested
          /\ flash' = flash /\ bootKeyMem' = bootKeyMem
          /\ ~SkipsBootloader(mcusr, bootKeyPtrVal)
      BY <1>4, <2>2 DEF MainDecide, StartSketch, memVars
    <3>2. mcusr = {"WDRF"} /\ SketchPresent => bootKeyPtrVal = "key"
      BY <3>1 DEF SkipsBootloader
    <3> QED BY <2>2, <3>1, <3>2 DEF SketchPresent
  <2> QED BY <1>4, <2>1, <2>2 DEF MainDecide, StartSketch
<1>5. CASE SetupHardware \/ While
  BY <1>5 DEF SetupHardware, While, StartSketch, bootVars
<1>6. CASE /\ ctl \in {"reset", "main", "setup", "sketch"}
           /\ UNCHANGED <<ctl, bootVars, requested, flash>>
  BY <1>6 DEF bootVars, SketchPresent
<1>7. CASE /\ ctl \notin {"reset", "main", "setup", "sketch"}
           /\ ctl' \notin {"reset", "main", "setup", "sketch"}
           /\ UNCHANGED <<bootVars, requested>>
  BY <1>7 DEF bootVars
<1> QED BY <1>1, <1>2, <1>3, <1>4, <1>5, <1>6, <1>7, KeyFrame

\* main() enters the bootloader on a watchdog reset, with a sketch present,
\* only if that sketch asked for it.
THEOREM BootKeyTheorem == Spec => []BootKeyOneShot
<1>1. Init => KeyInv
  BY DEF Init, KeyInv, BootKeyOneShot
<1>2. TypeOK /\ KeyInv /\ [Next]_vars => KeyInv'
  BY KeyNext DEF vars, bootVars, memVars, histVars, KeyInv, BootKeyOneShot, SketchPresent
<1>3. KeyInv => BootKeyOneShot
  BY DEF KeyInv
<1> QED BY <1>1, <1>2, <1>3, TypesAndAddresses, PTL DEF Spec

-----------------------------------------------------------------------------
(* The time-out.                                                           *)

\* What the high byte of Timeout may stand for: between the two halves of an
\* assignment, the assigned value without its low byte.
Assigned == IF ctl = "exitLow" THEN (slack \div BASE) * BASE ELSE slack

\* Timeout runs ahead of the ticks since its assignment by less than a byte:
\* an interrupt between the two halves of the assignment may carry into the
\* high byte from a low byte that is about to be replaced.
CountInv ==
    /\ ctl \in Looping /\ idle < IdleCap => tHi * BASE + tLo <= Assigned + idle + BASE - 1
    /\ ctl = "exitLow" => slack = TIMEOUT_PERIOD - EXIT_GRACE
    /\ ctl = "blockLow" => slack = 0
    /\ ~RunBootloader => ctl \in {"while", "sketch"}
    /\ StaysOpen

\* A tick adds at most one.
LEMMA CountUp ==
    ASSUME tHi \in Byte, tLo \in Byte, CountTick
    PROVE tHi' * BASE + tLo' <= tHi * BASE + tLo + 1
<1> USE TimerAssumption DEF Byte, CountTick
<1>1. CASE tLo < BASE - 1
  <2>1. tLo' = tLo + 1 /\ tHi' = tHi
    BY <1>1
  <2> QED BY <2>1
<1>2. CASE tLo = BASE - 1
  <2>1. tLo' = 0 /\ tHi' = (tHi + 1) % BASE
    BY <1>2
  <2>2. tHi' \in Nat /\ tHi' <= tHi + 1
    BY <2>1
  <2>3. tHi' * BASE <= (tHi + 1) * BASE
    BY <2>2
  <2>4. (tHi + 1) * BASE = tHi * BASE + BASE
    OBVIOUS
  <2> QED BY <1>2, <2>1, <2>3, <2>4
<1> QED BY <1>1, <1>2

\* A number and its two bytes.
LEMMA Halves ==
    ASSUME NEW v \in Int, NEW b \in Int, b > 0
    PROVE v - (v % b) = (v \div b) * b
BY SMT

\* The other actions neither count nor enter the middle of an assignment.
LEMMA CountFrame ==
    ASSUME TypeOK, Next
    PROVE \/ Reset \/ Tick \/ ExitHigh \/ ExitLow \/ BlockHigh \/ BlockLow
          \/ SetupHardware \/ TimeoutHigh \/ While \/ MainDecide
          \/ /\ UNCHANGED <<tHi, tLo, RunBootloader, idle, slack>>
             /\ ctl' \notin {"exitLow", "blockLow"} \/ ctl' = ctl
             /\ ctl' \in Looping => ctl \in Looping \ {"exitLow"} \/ ctl' = ctl
             /\ ctl \in {"while", "sketch"} => ctl' = ctl
<1> USE DEF Looping, timerVars, histVars
<1>1. ret \notin {"exitLow", "blockLow"}
  BY DEF TypeOK, CtlType, ReturnPoints
<1>2. CASE UsbInterrupt \/ EepromDone \/ SketchRequest \/ SketchOther
  BY <1>2 DEF UsbInterrupt, EepromDone, SketchRequest, SketchOther
<1>3. CASE \/ MainReadKey \/ CdcIdle \/ CdcCommand \/ UsbTask \/ TimeoutLow \/ SetDevice
           \/ Query \/ SyncOrUnknown \/ SetAddress \/ ChipErase
  BY <1>3 DEF MainReadKey, CdcIdle, CdcCommand, UsbTask, TimeoutLow, SetDevice, Query,
    SyncOrUnknown, SetAddress, ChipErase
<1>4. CASE \/ ExitRww \/ EraseLoop \/ EraseWrite \/ FillByte \/ CommitPage
           \/ BlockHead \/ WriteHighByte \/ WriteDone
  BY <1>4 DEF ExitRww, EraseLoop, EraseWrite, FillByte, CommitPage, BlockHead,
    BlockStart, WriteHighByte, WriteDone, CommitBlock, Arm
<1>5. CASE \/ ReadWord \/ WriteEeprom \/ ReadEeprom \/ ReadFlashByte \/ ReadEepromByte
           \/ ReadDone \/ WriteLowByte \/ WriteEepromByte \/ BlockAck
           \/ Acknowledge \/ Flush
  BY <1>5 DEF ReadWord, WriteEeprom, ReadEeprom, ReadFlashByte, ReadEepromByte,
    ReadDone, WriteLowByte, WriteEepromByte, BlockAck, Acknowledge, Flush
<1>6. CASE Spm
  BY <1>1, <1>6 DEF Spm
<1> QED BY <1>2, <1>3, <1>4, <1>5, <1>6 DEF Next, Interrupt, Cpu

\* Ticks, and each half of an assignment or test of Timeout, preserve CountInv.
LEMMA CountNext == ASSUME TypeOK, CountInv, Next PROVE CountInv'
<1> USE TimerAssumption DEF TypeOK, TimerType
<1>1. CASE Reset
  BY <1>1 DEF Reset, PowerOnReset, BrownOutReset, ExternalReset, WatchdogReset, ResetTo,
    CountInv, StaysOpen, Looping
<1>2. CASE Tick
  <2>1. /\ ctl' = ctl /\ slack' = slack /\ RunBootloader' = RunBootloader
        /\ \/ CountTick /\ idle' = (IF idle < IdleCap THEN idle + 1 ELSE idle)
           \/ UNCHANGED <<tLo, tHi, idle>>
    BY <1>2 DEF Tick
  <2>2. CASE UNCHANGED <<tLo, tHi, idle>>
    BY <2>1, <2>2 DEF CountInv, StaysOpen, Assigned
  <2>3. CASE CountTick /\ idle' = (IF idle < IdleCap THEN idle + 1 ELSE idle)
    <3>1. tHi' * BASE + tLo' <= tHi * BASE + tLo + 1
      BY <2>3, CountUp
    <3>2. tHi * BASE + tLo \in Int /\ tHi' * BASE + tLo' \in Int /\ Assigned \in Int
      BY TimerTypeNext DEF Byte, Assigned
    <3>3. Assigned' = Assigned
      BY <2>1 DEF Assigned
    <3> HIDE DEF Assigned
    <3> QED BY <2>1, <2>3, <3>1, <3>2, <3>3 DEF CountInv, StaysOpen
  <2> QED BY <2>1, <2>2, <2>3
<1>3. CASE ExitHigh
  <2>1. /\ ctl' = "exitLow" /\ tLo' = tLo /\ idle' = 0 /\ RunBootloader' = RunBootloader
        /\ slack' = TIMEOUT_PERIOD - EXIT_GRACE /\ tHi' = slack' \div BASE
        /\ ctl = "exec"
    BY <1>3 DEF ExitHigh
  <2>2. tHi' * BASE + tLo' <= Assigned' + idle' + BASE - 1
    BY <2>1, TimerTypeNext DEF Assigned, Byte
  <2> QED BY <2>1, <2>2 DEF CountInv, StaysOpen
<1>4. CASE ExitLow
  <2>1. /\ ctl = "exitLow" /\ ctl' = "exitRww" /\ tHi' = tHi
        /\ UNCHANGED <<idle, slack, RunBootloader>>
        /\ slack = TIMEOUT_PERIOD - EXIT_GRACE /\ tLo' = slack % BASE
    BY <1>4 DEF ExitLow, histVars, CountInv
  <2>2. slack - (slack % BASE) = (slack \div BASE) * BASE
    BY Halves
  <2> DEFINE h == tHi * BASE
             a == (slack \div BASE) * BASE
             m == slack % BASE
  <2>3. h \in Int /\ a \in Int /\ m \in Int
    BY DEF Byte
  <2>4. idle < IdleCap => h + tLo <= a + idle + BASE - 1
    BY <2>1 DEF CountInv, Assigned, Looping
  <2>5. idle < IdleCap => h + m <= slack + idle + BASE - 1
    <3> HIDE DEF h, a, m
    <3>1. slack - m = a
      BY <2>2 DEF a, m
    <3> QED BY <2>3, <2>4, <3>1 DEF Byte
  <2> QED BY <2>1, <2>5 DEF CountInv, StaysOpen, Assigned
<1>5. CASE BlockHigh
  <2>1. /\ ctl' = "blockLow" /\ tLo' = tLo /\ idle' = 0 /\ RunBootloader' = RunBootloader
        /\ slack' = 0 /\ tHi' = 0 /\ ctl = "exec"
    BY <1>5 DEF BlockHigh
  <2> QED BY <2>1 DEF CountInv, StaysOpen, Assigned, Byte
<1>6. CASE BlockLow
  <2>1. /\ ctl = "blockLow" /\ ctl' = "blockHead" /\ tHi' = tHi /\ tLo' = 0
        /\ UNCHANGED <<idle, slack, RunBootloader>>
    BY <1>6 DEF BlockLow, histVars
  <2>2. tHi * BASE \in Int
    BY DEF Byte
  <2> QED BY <2>1, <2>2 DEF CountInv, StaysOpen, Assigned, Looping, Byte
<1>7. CASE SetupHardware
  <2>1. /\ ctl = "setup" /\ ctl' = "while" /\ tHi' = 0 /\ tLo' = 0 /\ idle' = 0
        /\ slack' = 0 /\ RunBootloader' = RunBootloader
    BY <1>7 DEF SetupHardware
  <2> QED BY <2>1 DEF CountInv, StaysOpen, Assigned
<1>8. CASE TimeoutHigh
  <2>1. /\ ctl = "hi" /\ ctl' = "while" /\ UNCHANGED <<tHi, tLo, idle, slack>>
        /\ RunBootloader' = (RunBootloader /\ ~Expired)
    BY <1>8 DEF TimeoutHigh, histVars
  <2>2. RunBootloader
    BY <2>1 DEF CountInv
  <2> DEFINE h == tHi * BASE
  <2>3. h \in Int /\ tLo \in 0 .. BASE - 1 /\ rdLow \in 0 .. BASE - 1
    BY DEF Byte
  <2>4. idle < IdleCap => h + tLo <= slack + idle + BASE - 1
    BY <2>1 DEF CountInv, Assigned, Looping
  <2>5. Expired => idle >= TIMEOUT_PERIOD - slack - 2 * BASE + 3
    <3>1. Expired => h + rdLow > TIMEOUT_PERIOD
      BY DEF Expired
    <3> HIDE DEF h
    <3> QED BY <2>3, <2>4, <3>1
  <2> QED BY <2>1, <2>2, <2>4, <2>5 DEF CountInv, StaysOpen, Assigned
<1>9. CASE While \/ MainDecide
  <2>1. /\ UNCHANGED <<idle, slack, RunBootloader>>
        /\ ctl \in {"while", "main"} /\ ctl' \in {"cdc", "setup", "sketch"}
        /\ ctl' = "cdc" => UNCHANGED timerVars /\ RunBootloader /\ ctl = "while"
        /\ ctl' = "setup" => ctl = "main"
    BY <1>9 DEF While, MainDecide, StartSketch
  <2> QED BY <2>1 DEF CountInv, StaysOpen, Assigned, timerVars, Looping
<1>10. CASE /\ UNCHANGED <<tHi, tLo, RunBootloader, idle, slack>>
            /\ ctl' \notin {"exitLow", "blockLow"} \/ ctl' = ctl
            /\ ctl' \in Looping => ctl \in Looping \ {"exitLow"} \/ ctl' = ctl
            /\ ctl \in {"while", "sketch"} => ctl' = ctl
  BY <1>10 DEF CountInv, StaysOpen, Assigned
<1> QED BY <1>1, <1>2, <1>3, <1>4, <1>5, <1>6, <1>7, <1>8, <1>9, <1>10, CountFrame

\* The loop gives up only after the ticks its last assignment of Timeout left,
\* less what the two torn accesses can hide.
THEOREM StaysOpenTheorem == Spec => []StaysOpen
<1>1. Init => CountInv
  BY TimerAssumption DEF Init, CountInv, StaysOpen, Looping
<1>2. TypeOK /\ CountInv /\ [Next]_vars => CountInv'
  BY CountNext DEF vars, timerVars, histVars, CountInv, StaysOpen, Assigned
<1>3. CountInv => StaysOpen
  BY DEF CountInv
<1> QED BY <1>1, <1>2, <1>3, TypesAndAddresses, PTL DEF Spec

-----------------------------------------------------------------------------
(* The mask of the timer interrupt.                                        *)

\* The interrupt is masked only inside ReadWriteMemoryBlock.
MaskInv ==
    \/ ctl \notin Looping
    \/ ctl \in {"readLoop", "writeLoop", "blockAck"}
    \/ ctl = "spm" /\ ret \in {"readLoop", "writeLoop", "blockAck"}
    \/ TIMSK1

\* Every way through ReadWriteMemoryBlock preserves MaskInv.
LEMMA MaskNext == ASSUME TypeOK, MaskInv, Next PROVE MaskInv'
<1> USE DEF MaskInv, Looping
<1>1. CASE Reset
  BY <1>1 DEF Reset, PowerOnReset, BrownOutReset, ExternalReset, WatchdogReset, ResetTo
<1>2. CASE Interrupt \/ EepromDone \/ SketchRequest \/ SketchOther
  BY <1>2 DEF Interrupt, Tick, UsbInterrupt, EepromDone, SketchRequest, SketchOther,
    timerVars, spmVars
<1>3. CASE \/ MainReadKey \/ MainDecide \/ SetupHardware
           \/ While \/ CdcIdle \/ CdcCommand \/ UsbTask \/ TimeoutLow \/ TimeoutHigh
           \/ ExitHigh \/ ExitLow \/ ExitRww \/ SetDevice \/ Query \/ SyncOrUnknown
  BY <1>3 DEF MainReadKey, MainDecide, SetupHardware, While, StartSketch, CdcIdle,
    CdcCommand, UsbTask, TimeoutLow, TimeoutHigh, ExitHigh, ExitLow, ExitRww, SetDevice,
    Query, SyncOrUnknown, Arm, timerVars
<1>4. CASE \/ SetAddress \/ ChipErase \/ EraseLoop \/ EraseWrite \/ FillByte
           \/ CommitPage \/ ReadWord \/ WriteEeprom \/ ReadEeprom
           \/ BlockHigh \/ BlockLow \/ Acknowledge \/ Flush
  BY <1>4 DEF SetAddress, ChipErase, EraseLoop, EraseWrite, FillByte, CommitPage,
    ReadWord, WriteEeprom, ReadEeprom, BlockHigh, BlockLow, Acknowledge, Flush, Arm,
    timerVars
<1>5. CASE BlockHead
  <2>1. PICK h : TIMSK1' = (TIMSK1 /\ h[2] = "other") /\ BlockStart(h[2])
    BY <1>5 DEF BlockHead
  <2>2. TIMSK1
    BY <1>5 DEF BlockHead
  <2> QED BY <2>1, <2>2 DEF BlockStart, Arm
<1>6. CASE \/ ReadFlashByte \/ ReadEepromByte \/ ReadDone \/ WriteLowByte
           \/ WriteHighByte \/ WriteEepromByte \/ WriteDone \/ BlockAck
  BY <1>6 DEF ReadFlashByte, ReadEepromByte, ReadDone, WriteLowByte, WriteHighByte,
    WriteEepromByte, WriteDone, CommitBlock, BlockAck, Arm, timerVars
<1>7. CASE Spm
  BY <1>7 DEF Spm, timerVars
<1> QED BY <1>1, <1>2, <1>3, <1>4, <1>5, <1>6, <1>7 DEF Next, Cpu

\* Whatever way ReadWriteMemoryBlock returns, the loop goes on with the
\* time-out interrupt enabled.
THEOREM TimerRunsTheorem == Spec => []TimerRunsInLoop
<1>1. Init => MaskInv
  BY DEF Init, MaskInv, Looping
<1>2. TypeOK /\ MaskInv /\ [Next]_vars => MaskInv'
  BY MaskNext DEF vars, timerVars, spmVars, MaskInv
<1>3. MaskInv => TimerRunsInLoop
  BY DEF MaskInv, TimerRunsInLoop, Looping
<1> QED BY <1>1, <1>2, <1>3, TypesAndAddresses, PTL DEF Spec

-----------------------------------------------------------------------------
(* Blocks: what 'g' returns is what is in flash, and what 'B' acknowledges  *)
(* is in memory.                                                            *)

\* No command of the host writes to the EEPROM, so none is still being
\* written when the next command programs flash.
NoEepromWrites == "D" \notin HostCommands /\ "E" \notin HostMems

\* The host fills the page buffer by blocks only.
FlashHost == NoEepromWrites /\ "C" \notin HostCommands /\ "c" \notin HostCommands

\* The host sends EEPROM blocks only.
EepromHost == "F" \notin HostMems

InBlock == {"readLoop", "writeLoop", "blockAck"}

\* Commands and memory types are the host's, and the EEPROM is idle if the
\* host leaves it alone.
FromHost ==
    /\ cmd \in HostCommands \cup {"sync"} /\ blk.mem \in HostMems \cup {"other"}
    /\ NoEepromWrites => ~eeBusy

\* Inside ReadWriteMemoryBlock the timer interrupt is masked, and what is
\* left that can part SPMCSR from SPM is a USB interrupt, which glitch
\* remembers, or a busy EEPROM.
Uninterrupted ==
    /\ ctl \in InBlock \/ ret \in InBlock => ~TIMSK1 /\ blk.mem # "other"
    /\ ret = "readLoop" => spmOp.kind = "rww"
    /\ ret = "writeLoop" => spmOp.kind \in {"erase", "fill"} /\ blk.mem = "F"
    /\ ret = "blockAck" => spmOp.kind = "write" /\ blk.mem = "F" /\ blk.n = 0
    /\ NoEepromWrites /\ ret \in InBlock => armed \/ glitch

\* boot_rww_enable() has run before 'g' reads.
Readable ==
    /\ NoEepromWrites /\ ctl = "readLoop" => rww \/ glitch
    /\ NoEepromWrites /\ "R" \notin HostCommands => ReadBackIsReal

\* The page buffer is empty outside of a block that is being written.
BufferEmpty ==
    FlashHost =>
        /\ spmOp.kind = "fill" => ret = "writeLoop"
        /\ \/ glitch \/ ctl = "writeLoop" \/ ret \in {"writeLoop", "blockAck"}
           \/ pageBuf = BlankPage

\* What is left of a step once the steps of ReadWriteMemoryBlock, of SPM and
\* of the interrupts are set aside.
Outside ==
    /\ ctl \notin {"writeLoop", "spm"}
    /\ ctl' \notin InBlock /\ ret' \notin InBlock
    /\ UNCHANGED <<pageBuf, glitch>>
    /\ spmOp'.kind = "fill" => cmd \in {"C", "c"}

\* Only these actions work on a block.
LEMMA BlockFrame ==
    ASSUME TypeOK, Next
    PROVE \/ Reset \/ Interrupt \/ EepromDone
          \/ BlockHead \/ ReadFlashByte \/ ReadEepromByte \/ WriteLowByte
          \/ WriteHighByte \/ WriteEepromByte \/ WriteDone \/ Spm
          \/ Outside
<1> USE DEF Outside, InBlock, memVars, histVars
<1>1. ctl # "spm" => ret = "while" /\ spmOp.kind = "none"
  BY DEF TypeOK, CtlType
<1>2. CASE \/ SketchRequest \/ SketchOther \/ MainReadKey \/ MainDecide \/ SetupHardware
           \/ While \/ CdcIdle \/ CdcCommand \/ UsbTask \/ TimeoutLow \/ TimeoutHigh
  BY <1>1, <1>2 DEF SketchRequest, SketchOther, MainReadKey, MainDecide, SetupHardware,
    While, StartSketch, CdcIdle, CdcCommand, UsbTask, TimeoutLow, TimeoutHigh, spmVars
<1>3. CASE \/ ExitHigh \/ ExitLow \/ SetDevice \/ Query \/ SyncOrUnknown
           \/ SetAddress \/ ChipErase \/ ReadWord \/ ReadEeprom
  BY <1>1, <1>3 DEF ExitHigh, ExitLow, SetDevice, Query, SyncOrUnknown, SetAddress,
    ChipErase, ReadWord, ReadEeprom, spmVars
<1>4. CASE \/ BlockHigh \/ BlockLow \/ ReadDone \/ BlockAck \/ Acknowledge \/ Flush
           \/ WriteEeprom
  BY <1>1, <1>4 DEF BlockHigh, BlockLow, ReadDone, BlockAck, Acknowledge, Flush,
    WriteEeprom, EepromWriteByte, spmVars
<1>5. CASE ExitRww \/ EraseLoop \/ EraseWrite \/ CommitPage
  BY <1>1, <1>5 DEF ExitRww, EraseLoop, EraseWrite, CommitPage, Arm, spmVars
<1>6. CASE FillByte
  BY <1>6 DEF FillByte, Arm
<1> QED BY <1>2, <1>3, <1>4, <1>5, <1>6 DEF Next, Cpu

\* Commands come from CdcCommand, memory types from BlockHead, and EEPROM
\* writes from 'D' and from blocks of type 'E'.
LEMMA FromHostNext == ASSUME TypeOK, FromHost, Next PROVE FromHost'
<1>1. cmd' \in HostCommands \cup {"sync"} /\ blk'.mem \in HostMems \cup {"other"}
  <2> USE DEF FromHost, TypeOK, CdcType, Block
  <2>1. CASE Reset \/ Flush
    BY <2>1 DEF Reset, PowerOnReset, BrownOutReset, ExternalReset, WatchdogReset, ResetTo,
      Flush, NoBlock
  <2>2. CASE BlockHead
    <3>1. PICK h \in FetchNextCommandByte(HostSizes \X HostMems, {<<0, "other">>}) :
            blk' = [n |-> h[1], size |-> h[1], mem |-> h[2], high |-> FALSE,
                      low |-> Zero, start |-> CurrAddress]
      BY <2>2 DEF BlockHead
    <3>2. h \in HostSizes \X HostMems \/ h = <<0, "other">>
      BY DEF FetchNextCommandByte
    <3>3. h[2] \in HostMems \cup {"other"}
      BY <3>2
    <3> QED BY <2>2, <3>1, <3>3 DEF BlockHead
  <2>3. CASE CdcCommand
    BY <2>3 DEF CdcCommand
  <2>4. CASE \/ SetAddress \/ ChipErase \/ EraseWrite \/ FillByte \/ WriteEeprom
             \/ ReadEeprom
    BY <2>4 DEF SetAddress, ChipErase, EraseWrite, FillByte, WriteEeprom, ReadEeprom
  <2>5. CASE \/ ReadFlashByte \/ ReadEepromByte \/ WriteHighByte \/ WriteEepromByte
             \/ WriteLowByte
    <3>1. blk'.mem = blk.mem /\ cmd' = cmd
      BY <2>5 DEF ReadFlashByte, ReadEepromByte, WriteHighByte, WriteEepromByte,
        WriteLowByte
    <3> QED BY <3>1
  <2>6. CASE UNCHANGED cdcVars
    BY <2>6 DEF cdcVars
  <2> QED BY <2>1, <2>2, <2>3, <2>4, <2>5, <2>6, CdcFrame
<1>2. NoEepromWrites => ~eeBusy'
  <2>1. CASE Reset
    BY <2>1 DEF Reset, PowerOnReset, BrownOutReset, ExternalReset, WatchdogReset, FromHost
  <2>2. CASE EepromDone
    BY <2>2 DEF EepromDone
  <2>3. CASE Spm
    BY <2>3 DEF Spm, FromHost
  <2>4. CASE WriteEeprom
    BY <2>4 DEF WriteEeprom, FromHost, NoEepromWrites
  <2>5. CASE WriteEepromByte
    BY <2>5 DEF WriteEepromByte, FromHost, NoEepromWrites
  <2>6. CASE UNCHANGED memVars
    BY <2>6 DEF memVars, FromHost
  <2> QED BY <2>1, <2>2, <2>3, <2>4, <2>5, <2>6, MemFrame
<1> QED BY <1>1, <1>2 DEF FromHost

\* Every step of a block keeps the timer interrupt masked, and every boot_*
\* macro of a block is carried out unless a USB interrupt hits it.
LEMMA UninterruptedNext ==
    ASSUME TypeOK, FromHost, Uninterrupted, Next PROVE Uninterrupted'
<1> USE DEF Uninterrupted, InBlock
<1>1. ctl # "spm" => ret = "while"
  BY DEF TypeOK, CtlType
<1>2. CASE Reset
  BY <1>2 DEF Reset, PowerOnReset, BrownOutReset, ExternalReset, WatchdogReset, ResetTo
<1>3. CASE Interrupt
  <2>1. CASE Tick
    BY <2>1 DEF Tick
  <2>2. CASE UsbInterrupt
    BY <2>2 DEF UsbInterrupt, cdcVars, timerVars
  <2> QED BY <1>3, <2>1, <2>2 DEF Interrupt
<1>4. CASE EepromDone
  BY <1>4 DEF EepromDone, spmVars, cdcVars, timerVars, histVars
<1>5. CASE BlockHead
  <2>1. PICK h : /\ blk' = [n |-> h[1], size |-> h[1], mem |-> h[2], high |-> FALSE,
                            low |-> Zero, start |-> CurrAddress]
                 /\ TIMSK1' = (TIMSK1 /\ h[2] = "other")
                 /\ BlockStart(h[2])
    BY <1>5 DEF BlockHead
  <2>2. NoEepromWrites => ~eeBusy /\ blk'.mem # "E"
    BY FromHostNext DEF FromHost, NoEepromWrites
  <2>3. blk'.mem = h[2]
    BY <2>1
  <2>4. blk' \in Block
    BY CdcTypeNext DEF CdcType
  <2>5. ctl = "blockHead"
    BY <1>5 DEF BlockHead
  <2>6. CASE h[2] = "other"
    BY <1>1, <2>1, <2>5, <2>6 DEF BlockStart, spmVars
  <2>7. CASE h[2] # "other" /\ cmd = "g"
    <3>1. Arm("rww", 0, Blank, Blank, "readLoop")
      BY <2>1, <2>7 DEF BlockStart
    <3>2. ctl' = "spm" /\ ret' = "readLoop" /\ spmOp'.kind = "rww"
      BY <3>1 DEF Arm
    <3>3. NoEepromWrites => armed'
      BY <2>2, <3>1, Zenon DEF Arm
    <3>4. ~TIMSK1'
      BY <2>1, <2>7, Zenon
    <3> QED BY <2>3, <2>7, <3>2, <3>3, <3>4
  <2>8. CASE h[2] = "F" /\ cmd # "g"
    <3>1. Arm("erase", CurrAddress, Blank, Blank, "writeLoop")
      BY <2>1, <2>8 DEF BlockStart
    <3>2. ctl' = "spm" /\ ret' = "writeLoop" /\ spmOp'.kind = "erase"
      BY <3>1 DEF Arm
    <3>3. NoEepromWrites => armed'
      BY <2>2, <3>1, Zenon DEF Arm
    <3>4. ~TIMSK1'
      BY <2>1, <2>8, Zenon
    <3> QED BY <2>3, <2>8, <3>2, <3>3, <3>4
  <2>9. CASE h[2] \notin {"other", "F"} /\ cmd # "g"
    BY <1>1, <2>1, <2>3, <2>5, <2>9 DEF BlockStart, spmVars
  <2> QED BY <2>6, <2>7, <2>8, <2>9
<1>6. CASE ReadFlashByte \/ ReadEepromByte \/ WriteLowByte \/ WriteEepromByte
  <2>1. blk \in Block
    BY DEF TypeOK, CdcType
  <2>2. /\ blk'.mem = blk.mem /\ ctl' = ctl /\ ctl \in {"readLoop", "writeLoop"}
        /\ UNCHANGED <<timerVars, spmVars>>
    BY <1>6, <2>1 DEF ReadFlashByte, ReadEepromByte, WriteLowByte, WriteEepromByte, Block
  <2> QED BY <1>1, <2>2 DEF timerVars, spmVars
<1>7. CASE WriteHighByte
  <2>1. blk \in Block
    BY DEF TypeOK, CdcType
  <2>2. /\ blk'.mem = blk.mem /\ blk.mem = "F" /\ ctl = "writeLoop" /\ ctl' = "spm"
        /\ spmOp'.kind = "fill" /\ ret' = "writeLoop" /\ armed' = ~eeBusy
        /\ UNCHANGED timerVars
    BY <1>7, <2>1 DEF WriteHighByte, Arm, Block
  <2> QED BY <2>2 DEF timerVars, FromHost
<1>8. CASE WriteDone
  <2>1. /\ ctl = "writeLoop" /\ blk.n = 0 /\ blk' = blk /\ TIMSK1' = TIMSK1
        /\ IF blk.mem = "F" THEN CommitBlock ELSE ctl' = "blockAck" /\ UNCHANGED spmVars
    BY <1>8 DEF WriteDone, timerVars, cdcVars
  <2>2. CASE blk.mem = "F"
    <3>1. ret' = "blockAck" /\ spmOp'.kind = "write" /\ ctl' = "spm"
      BY <2>1, <2>2 DEF CommitBlock, Arm
    <3>2. NoEepromWrites => armed'
      BY <2>1, <2>2, Zenon DEF CommitBlock, Arm, FromHost
    <3> QED BY <2>1, <2>2, <3>1, <3>2
  <2>3. CASE blk.mem # "F"
    BY <1>1, <2>1, <2>3 DEF spmVars
  <2> QED BY <2>2, <2>3
<1>9. CASE Spm
  BY <1>9 DEF Spm, timerVars, cdcVars
<1>10. CASE Outside
  BY <1>10 DEF Outside
<1> QED BY <1>2, <1>3, <1>4, <1>5, <1>6, <1>7, <1>8, <1>9, <1>10, BlockFrame

\* A cell of the memories is never what a read of the busy section gives.
LEMMA CellNotGarbage == \A c \in Cell : c # Garbage
BY ImageAssumption DEF Cell, Garbage, Blank, Zero, Corrupt

\* The RWW section stays readable while 'g' reads, and no other command reads
\* flash.
LEMMA ReadableNext ==
    ASSUME TypeOK, AddressesInRange, FromHost, Uninterrupted, Readable, Next
    PROVE Readable'
<1>1. NoEepromWrites /\ ctl' = "readLoop" => rww' \/ glitch'
  <2> SUFFICES ASSUME NoEepromWrites, ctl' = "readLoop" PROVE rww' \/ glitch'
    OBVIOUS
  <2> USE DEF Readable, InBlock
  <2>1. CASE Reset
    BY <2>1 DEF Reset, PowerOnReset, BrownOutReset, ExternalReset, WatchdogReset, ResetTo
  <2>2. CASE Interrupt \/ EepromDone
    BY <2>2 DEF Interrupt, Tick, UsbInterrupt, EepromDone, memVars, histVars
  <2>3. CASE BlockHead \/ WriteHighByte \/ WriteDone
    BY <2>3 DEF BlockHead, BlockStart, WriteHighByte, WriteDone, CommitBlock, Arm
  <2>4. CASE ReadFlashByte \/ ReadEepromByte \/ WriteLowByte \/ WriteEepromByte
    BY <2>4 DEF ReadFlashByte, ReadEepromByte, WriteLowByte, WriteEepromByte,
      EepromWriteByte, memVars, histVars
  <2>5. CASE Spm
    <3>1. ret = "readLoop" /\ spmOp.kind = "rww" /\ (armed \/ glitch) /\ glitch' = glitch
      BY <2>5 DEF Spm, Uninterrupted, histVars
    <3>2. armed => rww'
      BY <2>5, <3>1 DEF Spm, RwwEnable
    <3> QED BY <3>1, <3>2
  <2>6. CASE Outside
    BY <2>6 DEF Outside
  <2> QED BY <2>1, <2>2, <2>3, <2>4, <2>5, <2>6, BlockFrame
<1>2. NoEepromWrites /\ "R" \notin HostCommands => ReadBackIsReal'
  <2> SUFFICES ASSUME NoEepromWrites, "R" \notin HostCommands PROVE ReadBackIsReal'
    OBVIOUS
  <2> USE DEF Readable, ReadBackIsReal
  <2>1. CR # Garbage /\ Unknown # Garbage /\ Info # Garbage /\ None # Garbage
    BY DEF CR, Unknown, Info, None, Garbage
  <2>2. ASSUME NEW r, WriteNextResponseByte(r), r = Garbage => glitch, glitch' = glitch
        PROVE ReadBackIsReal'
    BY <2>2 DEF WriteNextResponseByte
  <2>3. \A a \in EEAddr : eeprom[a] # Garbage
    BY CellNotGarbage DEF TypeOK, MemType
  <2>4. CASE Reset \/ Flush
    BY <2>1, <2>4 DEF Reset, PowerOnReset, BrownOutReset, ExternalReset, WatchdogReset,
      ResetTo, Flush
  <2>5. CASE UsbInterrupt \/ MainDecide \/ While \/ UsbTask
    BY <2>5 DEF UsbInterrupt, MainDecide, While, UsbTask, histVars
  <2>6. CASE Query \/ Acknowledge \/ BlockAck
    BY <2>1, <2>2, <2>6 DEF Query, Acknowledge, BlockAck, histVars
  <2>7. CASE ReadWord
    BY <2>7 DEF ReadWord, FromHost
  <2>8. CASE ReadEeprom
    <3>1. eeprom[CurrAddress \div 2] # Garbage
      BY <2>3, <2>8 DEF ReadEeprom, AddressesInRange, HostInRange
    <3> QED BY <2>2, <2>8, <3>1 DEF ReadEeprom, histVars
  <2>9. CASE ReadEepromByte
    BY <2>9 DEF ReadEepromByte, FromHost, NoEepromWrites
  <2>10. CASE ReadFlashByte
    <3> DEFINE a == IF blk.high THEN CurrAddress + 1 ELSE CurrAddress
    <3>1. a \in FlashAddr
      BY <2>10, SizeFacts DEF ReadFlashByte, AddressesInRange, TypeOK, CdcType, Block
    <3>2. rww \/ glitch
      BY <2>10 DEF ReadFlashByte
    <3>3. flash[a] # Garbage
      BY <3>1, CellNotGarbage DEF TypeOK, MemType
    <3>4. FlashRead(a) = Garbage => glitch
      BY <3>2, <3>3 DEF FlashRead
    <3> QED BY <2>2, <2>10, <3>4 DEF ReadFlashByte, histVars
  <2>11. CASE UNCHANGED <<hostVars, glitch>>
    BY <2>11 DEF hostVars
  <2> QED BY <2>4, <2>5, <2>6, <2>7, <2>8, <2>9, <2>10, <2>11, HostFrame
<1> QED BY <1>1, <1>2 DEF Readable

\* Every block leaves the page buffer as empty as it found it.
LEMMA BufferEmptyNext ==
    ASSUME TypeOK, FromHost, Uninterrupted, BufferEmpty, Next PROVE BufferEmpty'
<1> SUFFICES ASSUME FlashHost
             PROVE /\ spmOp'.kind = "fill" => ret' = "writeLoop"
                   /\ \/ glitch' \/ ctl' = "writeLoop"
                      \/ ret' \in {"writeLoop", "blockAck"}
                      \/ pageBuf' = BlankPage
  BY DEF BufferEmpty, BlankPage
<1>1. NoEepromWrites /\ cmd \notin {"C", "c"} /\ blk.mem # "E"
  BY DEF FlashHost, FromHost, NoEepromWrites
<1>2. /\ spmOp.kind = "fill" => ret = "writeLoop"
      /\ \/ glitch \/ ctl = "writeLoop" \/ ret \in {"writeLoop", "blockAck"}
         \/ pageBuf = BlankPage
  BY DEF BufferEmpty
<1>3. ctl # "spm" => ret = "while" /\ spmOp.kind = "none"
  BY DEF TypeOK, CtlType
<1>4. CASE Reset
  BY <1>4 DEF Reset, PowerOnReset, BrownOutReset, ExternalReset, WatchdogReset, ResetTo,
    NoOp
<1>5. CASE Interrupt
  <2>1. UNCHANGED <<ctl, spmOp, ret, pageBuf>>
    BY <1>5 DEF Interrupt, Tick, UsbInterrupt, memVars
  <2>2. glitch => glitch'
    BY <1>5, Zenon DEF Interrupt, Tick, UsbInterrupt
  <2> QED BY <1>2, <2>1, <2>2
<1>6. CASE EepromDone
  BY <1>2, <1>6 DEF EepromDone, spmVars, histVars
<1>7. CASE BlockHead
  <2>1. ctl = "blockHead" /\ UNCHANGED <<pageBuf, glitch>> /\ spmOp'.kind # "fill"
    BY <1>3, <1>7 DEF BlockHead, BlockStart, Arm, memVars, histVars, spmVars
  <2> QED BY <1>2, <1>3, <2>1
<1>8. CASE ReadFlashByte \/ ReadEepromByte \/ WriteLowByte \/ WriteEepromByte
  <2>1. UNCHANGED <<ctl, spmVars, pageBuf, glitch>>
    BY <1>8 DEF ReadFlashByte, ReadEepromByte, WriteLowByte, WriteEepromByte,
      EepromWriteByte, memVars, histVars
  <2> QED BY <1>2, <2>1 DEF spmVars
<1>9. CASE WriteHighByte
  BY <1>9 DEF WriteHighByte, Arm
<1>10. CASE WriteDone
  <2>1. blk.mem = "F"
    BY <1>1, <1>10 DEF WriteDone, Uninterrupted, InBlock, TypeOK, CdcType, Block
  <2> QED BY <1>10, <2>1 DEF WriteDone, CommitBlock, Arm
<1>11. CASE Spm
  <2>1. ctl' = ret /\ spmOp'.kind # "fill" /\ glitch' = glitch
    BY <1>11 DEF Spm, NoOp, histVars
  <2>2. CASE armed
    <3>1. CASE spmOp.kind = "fill"
      BY <1>2, <2>1, <3>1
    <3>2. CASE spmOp.kind \in {"write", "rww"}
      BY <1>11, <2>1, <2>2, <3>2 DEF Spm, Erase, WritePage, Fill, RwwEnable
    <3>3. CASE spmOp.kind = "erase"
      <4>1. pageBuf' = pageBuf
        BY <1>11, <2>2, <3>3 DEF Spm, Erase, WritePage, Fill, RwwEnable
      <4>2. ret # "blockAck"
        BY <3>3 DEF Uninterrupted
      <4>3. ctl = "spm"
        BY <1>11 DEF Spm
      <4> QED BY <1>2, <2>1, <4>1, <4>2, <4>3
    <3> QED BY <1>11, <2>2, <3>1, <3>2, <3>3 DEF Spm
  <2>3. CASE ~armed
    <3>1. pageBuf' = pageBuf /\ ctl = "spm"
      BY <1>11, <2>3 DEF Spm
    <3>2. ret = "blockAck" => glitch
      BY <1>1, <2>3 DEF Uninterrupted, InBlock
    <3> QED BY <1>2, <2>1, <3>1, <3>2
  <2> QED BY <2>2, <2>3
<1>12. CASE Outside
  BY <1>1, <1>2, <1>3, <1>12 DEF Outside
<1> QED BY <1>4, <1>5, <1>6, <1>7, <1>8, <1>9, <1>10, <1>11, <1>12, BlockFrame

BlockInv == FromHost /\ Uninterrupted /\ Readable /\ BufferEmpty

\* Commands and blocks preserve what BlockInv says of them.
LEMMA BlockInvariant == Spec => []BlockInv
<1>1. Init => BlockInv
  BY DEF Init, BlockInv, FromHost, Uninterrupted, Readable, BufferEmpty, ReadBackIsReal,
    InBlock, NoBlock, NoOp, None, Garbage
<1>2. TypeOK /\ AddressesInRange /\ BlockInv /\ [Next]_vars => BlockInv'
  <2> SUFFICES ASSUME TypeOK, AddressesInRange, BlockInv, [Next]_vars PROVE BlockInv'
    OBVIOUS
  <2>1. CASE Next
    BY <2>1, FromHostNext, UninterruptedNext, ReadableNext, BufferEmptyNext DEF BlockInv
  <2>2. CASE UNCHANGED vars
    BY <2>2 DEF vars, timerVars, memVars, spmVars, cdcVars, hostVars, histVars,
      BlockInv, FromHost, Uninterrupted, Readable, BufferEmpty, ReadBackIsReal
  <2> QED BY <2>1, <2>2
<1> QED BY <1>1, <1>2, TypesAndAddresses, PTL DEF Spec

\* With a host that reads by blocks and leaves the EEPROM alone, every byte
\* that 'g' returns was read from a readable section.
THEOREM ReadBackTheorem ==
    NoEepromWrites /\ "R" \notin HostCommands /\ Spec => []ReadBackIsReal
<1> SUFFICES ASSUME NoEepromWrites, "R" \notin HostCommands
             PROVE Spec => []ReadBackIsReal
  OBVIOUS
<1>1. BlockInv => ReadBackIsReal
  BY DEF BlockInv, Readable
<1> QED BY <1>1, BlockInvariant, PTL

-----------------------------------------------------------------------------
(* The bytes of a block.                                                    *)

\* The host has been there since the command, and SPM has always worked.
Sending == usb \in {"Configured", "Suspended"} /\ ~glitch

Writing == ctl = "writeLoop" \/ ret \in {"writeLoop", "blockAck"}

\* A block that AckedBlockIsProgrammed speaks of, being written to flash.
FlashBlock ==
    /\ FlashHost /\ Sending /\ blk.mem = "F"
    /\ blk.start % PageBytes = 0 /\ blk.size <= PageBytes

\* The words of the page buffer below k are the host's, the others empty.
Filled(k) ==
    \A i \in 0 .. PageBytes - 1 :
        pageBuf[i] = IF i < k THEN HostByte(img, blk.start + i) ELSE Blank

Taken == CurrAddress - blk.start

\* How far the block is: words taken, and a low byte that waits for its high
\* byte.
Progress ==
    FlashBlock /\ Writing =>
        /\ Taken + (IF blk.high THEN 1 ELSE 0) + blk.n = blk.size
        /\ Taken >= 0 /\ Taken % 2 = 0 /\ blk.size % 2 = 0
        /\ blk.start + blk.size <= BOOT_START_ADDR
        /\ blk.high => blk.low = HostByte(img, CurrAddress)

\* The page of the block is erased, except while that is still to happen.
PageErased ==
    FlashBlock /\ Writing =>
        \/ spmOp.kind = "erase"
        \/ \A x \in FlashAddr : PageOf(x) = PageOf(blk.start) => flash[x] = Blank

\* The page buffer holds the words taken, but for the one that the SPM under
\* way is about to fill in.
BufferAsSent ==
    FlashBlock =>
        /\ ctl = "writeLoop" => Filled(Taken)
        /\ ret = "writeLoop" /\ spmOp.kind = "erase" =>
             Filled(0) /\ Taken = 0 /\ spmOp.addr = blk.start
        /\ ret = "writeLoop" /\ spmOp.kind = "fill" =>
             /\ Taken >= 2 /\ Filled(Taken - 2) /\ spmOp.addr = CurrAddress - 2
             /\ spmOp.low = HostByte(img, spmOp.addr)
             /\ spmOp.high = HostByte(img, spmOp.addr + 1)
        /\ ret = "blockAck" =>
             Filled(blk.size) /\ Taken = blk.size /\ spmOp.addr = blk.start

FlashDone == FlashBlock /\ ctl = "blockAck" => BlockAsSent

\* The same for a block of the EEPROM, written byte by byte.
EepromAsSent ==
    Sending /\ blk.mem = "E" /\ ctl \in {"writeLoop", "blockAck"} =>
        /\ CurrAddress \div 2 = blk.start \div 2 + blk.size - blk.n
        /\ ctl = "blockAck" => blk.n = 0
        /\ blk.start \div 2 + blk.size <= EEBytes /\ blk.n <= blk.size
        /\ \A i \in 0 .. blk.size - blk.n - 1 :
             eeprom[blk.start \div 2 + i] = HostByte(img, blk.start \div 2 + i)

-----------------------------------------------------------------------------
(* Addresses in a page.                                                    *)

\* The bytes of a page that starts at a multiple of the page size.
LEMMA InPage ==
    ASSUME NEW s \in Nat, s % PageBytes = 0, NEW i \in 0 .. PageBytes - 1
    PROVE PageOf(s + i) = PageOf(s) /\ (s + i) % PageBytes = i
<1>1. PageBytes \in Nat \ {0}
  BY MemoryAssumption
<1>2. PICK q \in Nat : q = s \div PageBytes /\ s = PageBytes * q
  BY <1>1, DivMod
<1>3. s + i \in Nat /\ s + i = PageBytes * q + i
  BY <1>1, <1>2
<1>4. (s + i) \div PageBytes = q /\ (s + i) % PageBytes = i
  BY <1>1, <1>3, DivUnique
<1> QED BY <1>2, <1>4 DEF PageOf

\* A page has an even number of bytes, so its words start at even addresses.
LEMMA WordInPage ==
    ASSUME NEW s \in Nat, s % PageBytes = 0, NEW j \in Nat, j % 2 = 0, j < PageBytes
    PROVE ((s + j) \div 2) * 2 % PageBytes = j /\ j + 1 < PageBytes
<1>1. PageBytes \in Nat \ {0} /\ PageBytes % 2 = 0
  BY MemoryAssumption
<1>2. PICK q \in Nat : q = s \div PageBytes /\ s = PageBytes * q
  BY <1>1, DivMod
<1>3. PICK p \in Nat : PageBytes = 2 * p
  BY <1>1, DivMod
<1>4. PICK h \in Nat : j = 2 * h
  BY DivMod
<1>5. PICK w \in Nat : w = p * q /\ s = 2 * w
  <2>1. p * q \in Nat /\ (2 * p) * q = 2 * (p * q)
    OBVIOUS
  <2> QED BY <1>2, <1>3, <2>1
<1>6. s + j = 2 * (w + h) /\ w + h \in Nat /\ s + j \in Nat
  BY <1>4, <1>5
<1>7. (s + j) \div 2 = w + h
  BY <1>6, DivMultiple
<1>8. ((s + j) \div 2) * 2 = s + j
  BY <1>6, <1>7
<1>9. (s + j) % PageBytes = j
  <2>1. j \in 0 .. PageBytes - 1
    BY <1>1
  <2> QED BY <2>1, InPage
<1>10. j + 1 < PageBytes
  BY <1>1, <1>3, <1>4
<1> QED BY <1>8, <1>9, <1>10

-----------------------------------------------------------------------------
(* Blocks of flash.                                                        *)

FlashInv == Progress /\ PageErased /\ BufferAsSent /\ FlashDone

\* A step that writes no block.
LEMMA FlashIdle == ASSUME ~Writing', ctl' # "blockAck" PROVE FlashInv'
BY DEF FlashInv, Progress, PageErased, BufferAsSent, FlashDone, Writing

\* A step that leaves a block alone: interrupts, and the end of an EEPROM
\* write.
LEMMA FlashSame ==
    ASSUME FlashInv, FlashBlock' => FlashBlock,
           UNCHANGED <<ctl, ret, spmOp, blk, CurrAddress, img, flash, pageBuf, eeprom>>
    PROVE FlashInv'
<1>1. UNCHANGED <<Writing, Taken>>
  BY DEF Writing, Taken
<1>2. \A k : Filled(k)' = Filled(k)
  BY DEF Filled
<1>3. BlockAsSent' = BlockAsSent
  BY DEF BlockAsSent
<1>4. Progress'
  BY <1>1 DEF FlashInv, Progress
<1>5. PageErased'
  BY <1>1 DEF FlashInv, PageErased
<1>6. BufferAsSent'
  BY <1>1, <1>2 DEF FlashInv, BufferAsSent
<1>7. FlashDone'
  BY <1>3 DEF FlashInv, FlashDone
<1> QED BY <1>4, <1>5, <1>6, <1>7 DEF FlashInv

\* An interrupt does not bring the host back in the middle of a block.
LEMMA InterruptSending == ASSUME Interrupt PROVE Sending' => Sending
BY DEF Interrupt, Tick, UsbInterrupt, Sending, hostVars

\* BlockHead starts with an empty buffer and erases the page.
LEMMA FlashHead ==
    ASSUME TypeOK, BufferEmpty, FlashInv, BlockHead PROVE FlashInv'
<1>1. PICK h : /\ HostBlockInRange(h[1], h[2])
               /\ blk' = [n |-> h[1], size |-> h[1], mem |-> h[2], high |-> FALSE,
                          low |-> Zero, start |-> CurrAddress]
               /\ BlockStart(h[2])
  BY DEF BlockHead
<1>2. /\ ctl = "blockHead" /\ CurrAddress' = CurrAddress
      /\ UNCHANGED <<pageBuf, glitch, usb, img>>
  BY DEF BlockHead, memVars, histVars, hostVars
<1>3. ret = "while"
  BY <1>2 DEF TypeOK, CtlType
<1>4. /\ blk'.n = h[1] /\ blk'.size = h[1] /\ blk'.mem = h[2] /\ blk'.high = FALSE
      /\ blk'.start = CurrAddress
  BY <1>1
<1>5. CASE h[2] = "F" /\ cmd # "g"
  <2>1. /\ ctl' = "spm" /\ ret' = "writeLoop" /\ spmOp'.kind = "erase"
        /\ spmOp'.addr = CurrAddress
    BY <1>1, <1>5 DEF BlockStart, Arm
  <2>2. blk' \in Block /\ CurrAddress \in Nat
    BY CdcTypeNext, <1>2 DEF CdcType, TypeOK, Next, Cpu
  <2>3. blk'.n \in Nat /\ blk'.size = blk'.n /\ blk'.size % 2 = 0
        /\ CurrAddress + blk'.size <= BOOT_START_ADDR
    BY <1>1, <1>4, <1>5, <2>2 DEF HostBlockInRange, Block
  <2>4. Taken' = 0
    BY <1>2, <1>4, <2>2 DEF Taken
  <2>5. Progress'
    BY <1>2, <1>4, <2>2, <2>3, <2>4 DEF Progress
  <2>6. FlashBlock' => pageBuf = BlankPage
    BY <1>2, <1>3 DEF FlashBlock, Sending, BufferEmpty
  <2>7. FlashBlock' => Filled(0)'
    BY <1>2, <2>6, SizeFacts DEF Filled, BlankPage
  <2> QED BY <1>4, <2>1, <2>4, <2>5, <2>7 DEF FlashInv, PageErased, BufferAsSent, FlashDone
<1>6. CASE h[2] # "F"
  BY <1>4, <1>6 DEF FlashInv, Progress, PageErased, BufferAsSent, FlashDone, FlashBlock
<1>7. CASE h[2] = "F" /\ cmd = "g"
  BY <1>1, <1>7, FlashIdle DEF BlockStart, Arm, Writing
<1> QED BY <1>5, <1>6, <1>7

\* The low byte of a word waits in LowByte.
LEMMA FlashLow ==
    ASSUME TypeOK, FlashInv, WriteLowByte PROVE FlashInv'
<1>1. /\ ctl = "writeLoop" /\ blk.n > 0 /\ blk.mem = "F" /\ ~blk.high
      /\ UNCHANGED <<ctl, ret, spmOp, CurrAddress, img, usb, flash, pageBuf, glitch>>
  BY DEF WriteLowByte, memVars, spmVars, hostVars, histVars
<1>2. ret = "while" /\ blk \in Block
  BY <1>1 DEF TypeOK, CtlType, CdcType
<1>3. PICK b \in FetchNextCommandByte({HostByte(img, CurrAddress)}, {Zero}) :
        blk' = [blk EXCEPT !.n = @ - 1, !.high = TRUE, !.low = b]
  BY DEF WriteLowByte
<1>4. /\ blk'.n = blk.n - 1 /\ blk'.high = TRUE /\ blk'.low = b
      /\ blk'.start = blk.start /\ blk'.size = blk.size /\ blk'.mem = blk.mem
  BY <1>2, <1>3 DEF Block
<1>5. Sending => b = HostByte(img, CurrAddress)
  BY DEF Sending, FetchNextCommandByte
<1>6. FlashBlock' = FlashBlock /\ Taken' = Taken /\ Sending' = Sending
  BY <1>1, <1>4 DEF FlashBlock, Sending, Taken
<1>7. \A k : Filled(k)' = Filled(k)
  BY <1>1, <1>4 DEF Filled
<1>8. Progress'
  <2>1. Taken \in Int /\ blk.n \in Nat /\ blk.size \in Nat /\ blk.start \in Nat
    BY <1>2 DEF Taken, Block, TypeOK, CdcType
  <2> SUFFICES ASSUME FlashBlock PROVE Progress'
    BY <1>6 DEF Progress
  <2>2. /\ Taken + blk.n = blk.size /\ Taken >= 0 /\ Taken % 2 = 0
        /\ blk.size % 2 = 0 /\ blk.start + blk.size <= BOOT_START_ADDR
    BY <1>1, <2>1 DEF FlashInv, Progress, Writing
  <2>3. b = HostByte(img, CurrAddress)
    BY <1>5 DEF FlashBlock
  <2>4. Taken' + 1 + blk'.n = blk'.size
    <3>1. Taken' = Taken /\ blk'.n = blk.n - 1 /\ blk'.size = blk.size
      BY <1>4, <1>6
    <3> QED BY <2>1, <2>2, <3>1
  <2> QED BY <1>1, <1>4, <1>6, <2>2, <2>3, <2>4 DEF Progress
<1>9. PageErased'
  BY <1>1, <1>4, <1>6 DEF FlashInv, PageErased, Writing
<1>10. BufferAsSent'
  BY <1>1, <1>2, <1>6, <1>7 DEF FlashInv, BufferAsSent
<1> QED BY <1>1, <1>8, <1>9, <1>10 DEF FlashInv, FlashDone

\* The high byte completes the word that boot_page_fill() is given.
LEMMA FlashHigh ==
    ASSUME TypeOK, FlashInv, WriteHighByte PROVE FlashInv'
<1>1. /\ ctl = "writeLoop" /\ blk.n > 0 /\ blk.mem = "F" /\ blk.high
      /\ CurrAddress' = CurrAddress + 2
      /\ blk' = [blk EXCEPT !.n = @ - 1, !.high = FALSE]
      /\ UNCHANGED <<img, usb, flash, pageBuf, glitch>>
  BY DEF WriteHighByte, memVars, hostVars, histVars
<1>2. ret = "while" /\ blk \in Block /\ CurrAddress \in Nat /\ spmOp.kind = "none"
  BY <1>1 DEF TypeOK, CtlType, CdcType
<1>3. PICK b \in FetchNextCommandByte({HostByte(img, CurrAddress + 1)}, {Zero}) :
        Arm("fill", CurrAddress, blk.low, b, "writeLoop")
  BY DEF WriteHighByte
<1>4. /\ blk'.n = blk.n - 1 /\ blk'.high = FALSE
      /\ blk'.start = blk.start /\ blk'.size = blk.size /\ blk'.mem = blk.mem
  BY <1>1, <1>2 DEF Block
<1>5. /\ ctl' = "spm" /\ ret' = "writeLoop" /\ spmOp'.kind = "fill"
      /\ spmOp'.addr = CurrAddress /\ spmOp'.low = blk.low /\ spmOp'.high = b
  BY <1>3 DEF Arm
<1>6. Sending => b = HostByte(img, CurrAddress + 1)
  BY DEF Sending, FetchNextCommandByte
<1>7. FlashBlock' = FlashBlock
  BY <1>1, <1>4 DEF FlashBlock, Sending
<1> SUFFICES ASSUME FlashBlock PROVE FlashInv'
  BY <1>7 DEF FlashInv, Progress, PageErased, BufferAsSent, FlashDone
<1>8. /\ Taken \in Int /\ blk.n \in Nat /\ blk.size \in Nat /\ blk.start \in Nat
      /\ Taken' = Taken + 2
  BY <1>1, <1>2, <1>4 DEF Taken, Block
<1>9. /\ Taken + 1 + blk.n = blk.size /\ Taken >= 0 /\ Taken % 2 = 0
      /\ blk.size % 2 = 0 /\ blk.start + blk.size <= BOOT_START_ADDR
      /\ blk.low = HostByte(img, CurrAddress)
  BY <1>1, <1>8 DEF FlashInv, Progress, Writing
<1>10. Progress'
  <2>1. Taken' + blk'.n = blk'.size /\ Taken' >= 0 /\ Taken' % 2 = 0
    BY <1>4, <1>8, <1>9
  <2> QED BY <1>4, <1>8, <1>9, <2>1 DEF Progress
<1>11. PageErased'
  BY <1>1, <1>2, <1>4 DEF FlashInv, PageErased, Writing
<1>12. BufferAsSent'
  <2>1. Filled(Taken)
    BY <1>1 DEF FlashInv, BufferAsSent
  <2>2. Taken' - 2 = Taken /\ Taken' >= 2 /\ CurrAddress' - 2 = CurrAddress
    BY <1>1, <1>2, <1>8, <1>9
  <2>3. Filled(Taken - 2)'
    BY <1>1, <1>4, <2>1, <2>2 DEF Filled
  <2>4. b = HostByte(img, CurrAddress + 1)
    BY <1>6 DEF FlashBlock
  <2> QED BY <1>1, <1>5, <1>9, <2>2, <2>3, <2>4 DEF BufferAsSent
<1>13. FlashDone'
  BY <1>5 DEF FlashDone
<1> QED BY <1>10, <1>11, <1>12, <1>13 DEF FlashInv

\* When no byte is left, the buffer holds the whole block.
LEMMA FlashCommit ==
    ASSUME TypeOK, FlashInv, WriteDone PROVE FlashInv'
<1>1. /\ ctl = "writeLoop" /\ blk.n = 0 /\ UNCHANGED <<blk, CurrAddress, img, usb>>
      /\ UNCHANGED <<flash, pageBuf, glitch>>
      /\ IF blk.mem = "F" THEN CommitBlock ELSE ctl' = "blockAck" /\ UNCHANGED spmVars
  BY DEF WriteDone, cdcVars, memVars, hostVars, histVars
<1>2. blk \in Block /\ CurrAddress \in Nat /\ spmOp.kind = "none"
  BY <1>1 DEF TypeOK, CtlType, CdcType
<1>3. FlashBlock' = FlashBlock /\ Taken' = Taken
  BY <1>1 DEF FlashBlock, Sending, Taken
<1> SUFFICES ASSUME FlashBlock PROVE FlashInv'
  BY <1>3 DEF FlashInv, Progress, PageErased, BufferAsSent, FlashDone
<1>4. ctl' = "spm" /\ ret' = "blockAck" /\ spmOp'.kind = "write" /\ spmOp'.addr = blk.start
  BY <1>1 DEF FlashBlock, CommitBlock, Arm
<1>5. Taken \in Int /\ blk.size \in Nat /\ blk.high \in BOOLEAN
  BY <1>2 DEF Taken, Block
<1>6. /\ Taken + (IF blk.high THEN 1 ELSE 0) = blk.size
      /\ Taken >= 0 /\ Taken % 2 = 0 /\ blk.size % 2 = 0
  BY <1>1, <1>5 DEF FlashInv, Progress, Writing
<1>7. Taken = blk.size
  <2>1. CASE blk.high = TRUE
    BY <1>5, <1>6, <2>1
  <2>2. CASE blk.high = FALSE
    BY <1>5, <1>6, <2>2
  <2> QED BY <1>5, <2>1, <2>2
<1>8. Progress'
  BY <1>1, <1>3 DEF FlashInv, Progress, Writing
<1>9. PageErased'
  BY <1>1, <1>2 DEF FlashInv, PageErased, Writing
<1>10. BufferAsSent'
  <2>1. Filled(blk.size)
    BY <1>1, <1>7 DEF FlashInv, BufferAsSent
  <2>2. Filled(blk.size)'
    BY <1>1, <2>1 DEF Filled
  <2> QED BY <1>1, <1>3, <1>4, <1>7, <2>2 DEF BufferAsSent
<1>11. FlashDone'
  BY <1>4 DEF FlashDone
<1> QED BY <1>8, <1>9, <1>10, <1>11 DEF FlashInv

\* boot_page_erase() empties the block's page.
LEMMA SpmErase ==
    ASSUME TypeOK, FlashInv, FlashBlock, Spm, armed, ret = "writeLoop",
           spmOp.kind = "erase"
    PROVE PageErased' /\ (ctl = "spm" => Filled(Taken)')
<1>1. Erase(spmOp.addr) /\ UNCHANGED <<blk, CurrAddress, img>>
  BY DEF Spm, Erase, WritePage, Fill, RwwEnable, cdcVars, hostVars
<1>2. Filled(0) /\ Taken = 0 /\ spmOp.addr = blk.start
  BY DEF FlashInv, BufferAsSent
<1>3. PageErased'
  BY <1>1, <1>2 DEF PageErased, Erase
<1>4. Taken' = 0
  BY <1>1, <1>2 DEF Taken
<1>5. Filled(Taken)'
  BY <1>1, <1>2, <1>4 DEF Filled, Erase
<1> QED BY <1>3, <1>5

\* boot_page_fill() adds the next word to the buffer.
LEMMA SpmFill ==
    ASSUME TypeOK, FlashInv, FlashBlock, Spm, armed, ret = "writeLoop",
           spmOp.kind = "fill"
    PROVE Filled(Taken)' /\ flash' = flash
<1>1. /\ Fill(spmOp.addr, spmOp.low, spmOp.high)
      /\ UNCHANGED <<blk, CurrAddress, img, flash>>
  BY DEF Spm, Erase, WritePage, Fill, RwwEnable, cdcVars, hostVars
<1>2. /\ Taken >= 2 /\ Filled(Taken - 2) /\ spmOp.addr = CurrAddress - 2
      /\ spmOp.low = HostByte(img, spmOp.addr)
      /\ spmOp.high = HostByte(img, spmOp.addr + 1)
  BY DEF FlashInv, BufferAsSent
<1>3. /\ blk.start \in Nat /\ blk.size \in Nat /\ blk.n \in Nat /\ CurrAddress \in Nat
      /\ blk.start % PageBytes = 0 /\ blk.size <= PageBytes /\ blk.high \in BOOLEAN
  BY DEF TypeOK, CdcType, Block, FlashBlock
<1>4. Taken \in Int /\ Taken <= blk.size /\ Taken % 2 = 0
  <2>1. Taken \in Int
    BY <1>3 DEF Taken
  <2>2. Taken + (IF blk.high THEN 1 ELSE 0) + blk.n = blk.size /\ Taken % 2 = 0
    BY DEF FlashInv, Progress, Writing
  <2> QED BY <1>3, <2>1, <2>2
<1> DEFINE j == Taken - 2
<1>5. j \in Nat /\ j % 2 = 0 /\ j < PageBytes /\ spmOp.addr = blk.start + j
  <2>1. j \in Nat /\ j % 2 = 0 /\ j < PageBytes
    BY <1>2, <1>3, <1>4, SizeFacts
  <2>2. CurrAddress - 2 = blk.start + j
    BY <1>3 DEF Taken
  <2> QED BY <1>2, <2>1, <2>2
<1>6. (spmOp.addr \div 2) * 2 % PageBytes = j /\ j + 1 < PageBytes
  BY <1>3, <1>5, WordInPage
<1>7. Taken' = j + 2
  BY <1>1, <1>4 DEF Taken
<1> HIDE DEF j
<1>8. j \in 0 .. PageBytes - 1 /\ j + 1 \in 0 .. PageBytes - 1
  BY <1>5, <1>6, SizeFacts
<1>9. Filled(j)
  BY <1>2 DEF j
<1>10. pageBuf[j] = Blank /\ pageBuf[j + 1] = Blank
  BY <1>5, <1>8, <1>9 DEF Filled
<1>11. pageBuf' = [pageBuf EXCEPT ![j] = spmOp.low, ![j + 1] = spmOp.high]
  BY <1>1, <1>6, <1>10 DEF Fill
<1>12. /\ spmOp.low = HostByte(img, blk.start + j)
       /\ spmOp.high = HostByte(img, blk.start + (j + 1))
  <2>1. spmOp.addr + 1 = blk.start + (j + 1)
    BY <1>3, <1>5
  <2> QED BY <1>2, <1>5, <2>1
<1>13. ASSUME NEW i \in 0 .. PageBytes - 1
       PROVE pageBuf'[i] = IF i < j + 2 THEN HostByte(img, blk.start + i) ELSE Blank
  <2>1. i \in Int /\ pageBuf \in [0 .. PageBytes - 1 -> Cell]
    BY SizeFacts DEF TypeOK, MemType
  <2>2. CASE i = j
    <3>1. pageBuf'[j] = spmOp.low /\ j < j + 2
      BY <1>5, <1>8, <1>11, <2>1
    <3> QED BY <1>12, <2>2, <3>1
  <2>3. CASE i = j + 1
    <3>1. pageBuf'[j + 1] = spmOp.high /\ j + 1 < j + 2
      BY <1>5, <1>8, <1>11, <2>1
    <3> QED BY <1>12, <2>3, <3>1
  <2>4. CASE i # j /\ i # j + 1
    <3>1. pageBuf'[i] = pageBuf[i]
      BY <1>11, <2>1, <2>4
    <3>2. i < j <=> i < j + 2
      BY <1>5, <2>1, <2>4
    <3> QED BY <1>9, <3>1, <3>2 DEF Filled
  <2> QED BY <2>2, <2>3, <2>4
<1> QED BY <1>1, <1>7, <1>13 DEF Filled

\* boot_page_write() programs an erased page with the buffer.
LEMMA SpmWrite ==
    ASSUME TypeOK, FlashInv, FlashBlock, Spm, armed, ret = "blockAck",
           spmOp.kind = "write"
    PROVE BlockAsSent'
<1>1. WritePage(spmOp.addr) /\ UNCHANGED <<blk, img>>
  BY DEF Spm, Erase, WritePage, Fill, RwwEnable, cdcVars, hostVars
<1>2. Filled(blk.size) /\ spmOp.addr = blk.start
  BY DEF FlashInv, BufferAsSent
<1>3. \A x \in FlashAddr : PageOf(x) = PageOf(blk.start) => flash[x] = Blank
  BY DEF FlashInv, PageErased, Writing
<1>4. /\ blk.start \in Nat /\ blk.size \in Nat /\ blk.mem = "F"
      /\ blk.start % PageBytes = 0 /\ blk.size <= PageBytes
      /\ blk.start + blk.size <= BOOT_START_ADDR
  BY DEF TypeOK, CdcType, Block, FlashBlock, FlashInv, Progress, Writing
<1>5. ASSUME NEW i \in 0 .. blk.size - 1
      PROVE flash'[blk.start + i] = HostByte(img, blk.start + i)
  <2>1. i \in 0 .. PageBytes - 1 /\ i < blk.size
    BY <1>4, SizeFacts
  <2>2. PICK x \in FlashAddr : x = blk.start + i
    BY <1>4, SizeFacts
  <2>3. PageOf(x) = PageOf(blk.start) /\ x % PageBytes = i
    BY <1>4, <2>1, <2>2, InPage
  <2>4. flash'[x] = Merge(flash[x], pageBuf[i])
    BY <1>1, <1>2, <2>3 DEF WritePage
  <2>5. flash[x] = Blank
    BY <1>3, <2>3
  <2>6. pageBuf[i] = HostByte(img, blk.start + i)
    BY <1>2, <2>1 DEF Filled
  <2> QED BY <2>2, <2>4, <2>5, <2>6 DEF Merge
<1> QED BY <1>1, <1>4, <1>5 DEF BlockAsSent

\* The three boot_* macros of a block that is written.
LEMMA FlashSpm ==
    ASSUME TypeOK, BlockInv, FlashInv, Spm PROVE FlashInv'
<1>1. /\ ctl = "spm" /\ ctl' = ret /\ ret' = "while" /\ spmOp'.kind = "none"
      /\ UNCHANGED <<blk, CurrAddress, img, usb, glitch>>
  BY DEF Spm, NoOp, cdcVars, hostVars, histVars
<1>2. FlashBlock' = FlashBlock /\ Taken' = Taken
  BY <1>1 DEF FlashBlock, Sending, Taken
<1> SUFFICES ASSUME FlashBlock PROVE FlashInv'
  BY <1>2 DEF FlashInv, Progress, PageErased, BufferAsSent, FlashDone
<1>3. ret \in InBlock => armed
  BY DEF BlockInv, Uninterrupted, FlashBlock, FlashHost, Sending
<1>4. CASE ret = "writeLoop"
  <2>1. armed /\ spmOp.kind \in {"erase", "fill"}
    BY <1>3, <1>4 DEF InBlock, BlockInv, Uninterrupted
  <2>2. Progress'
    BY <1>1, <1>2, <1>4 DEF FlashInv, Progress, Writing
  <2>3. PageErased' /\ Filled(Taken)'
    <3>1. CASE spmOp.kind = "erase"
      BY <1>1, <1>4, <2>1, <3>1, SpmErase
    <3>2. CASE spmOp.kind = "fill"
      <4>1. Filled(Taken)' /\ flash' = flash
        BY <1>4, <2>1, <3>2, SpmFill
      <4>2. PageErased'
        BY <1>1, <1>4, <3>2, <4>1 DEF FlashInv, PageErased, Writing
      <4> QED BY <4>1, <4>2
    <3> QED BY <2>1, <3>1, <3>2
  <2>4. BufferAsSent'
    BY <1>1, <1>4, <2>3 DEF BufferAsSent
  <2>5. FlashDone'
    BY <1>1, <1>4 DEF FlashDone
  <2> QED BY <2>2, <2>3, <2>4, <2>5 DEF FlashInv
<1>5. CASE ret = "blockAck"
  <2>1. armed /\ spmOp.kind = "write"
    BY <1>3, <1>5 DEF InBlock, BlockInv, Uninterrupted
  <2>2. BlockAsSent'
    BY <1>5, <2>1, SpmWrite
  <2> QED BY <1>1, <1>5, <2>2 DEF FlashInv, Progress, PageErased, BufferAsSent, FlashDone,
        Writing
<1>6. CASE ret \notin {"writeLoop", "blockAck"}
  BY <1>1, <1>6, FlashIdle DEF Writing
<1> QED BY <1>4, <1>5, <1>6

\* Every step of a block preserves FlashInv.
LEMMA FlashNext == ASSUME TypeOK, BlockInv, FlashInv, Next PROVE FlashInv'
<1>1. ctl # "spm" => ret = "while"
  BY DEF TypeOK, CtlType
<1>2. CASE Reset
  BY <1>2, FlashIdle DEF Reset, PowerOnReset, BrownOutReset, ExternalReset, WatchdogReset,
    ResetTo, Writing
<1>3. CASE Interrupt
  <2>1. UNCHANGED <<ctl, ret, spmOp, blk, CurrAddress, img, flash, pageBuf, eeprom>>
    BY <1>3 DEF Interrupt, Tick, UsbInterrupt, cdcVars, memVars, hostVars
  <2>2. FlashBlock' => FlashBlock
    BY <1>3, <2>1, InterruptSending DEF FlashBlock
  <2> QED BY <2>1, <2>2, FlashSame
<1>4. CASE EepromDone
  <2>1. /\ UNCHANGED <<ctl, ret, spmOp, blk, CurrAddress, img, flash, pageBuf, eeprom>>
        /\ UNCHANGED <<usb, glitch>>
    BY <1>4 DEF EepromDone, spmVars, cdcVars, hostVars, histVars
  <2>2. FlashBlock' => FlashBlock
    BY <2>1 DEF FlashBlock, Sending
  <2> QED BY <2>1, <2>2, FlashSame
<1>5. CASE BlockHead
  BY <1>5, FlashHead DEF BlockInv
<1>6. CASE ReadFlashByte \/ ReadEepromByte
  BY <1>1, <1>6, FlashIdle DEF ReadFlashByte, ReadEepromByte, Writing, spmVars
<1>7. CASE WriteEepromByte
  <2>1. blk'.mem = "E"
    BY <1>7 DEF WriteEepromByte, TypeOK, CdcType, Block
  <2> QED BY <2>1 DEF FlashInv, Progress, PageErased, BufferAsSent, FlashDone, FlashBlock
<1>8. CASE WriteLowByte \/ WriteHighByte \/ WriteDone \/ Spm
  BY <1>8, FlashLow, FlashHigh, FlashCommit, FlashSpm
<1>9. CASE Outside
  BY <1>9, FlashIdle DEF Outside, Writing, InBlock
<1> QED BY <1>2, <1>3, <1>4, <1>5, <1>6, <1>7, <1>8, <1>9, BlockFrame

-----------------------------------------------------------------------------
(* Blocks of EEPROM.                                                       *)

\* Stepping over a word of two adds one to its number.
LEMMA NextWord == ASSUME NEW a \in Nat PROVE (a + 2) \div 2 = a \div 2 + 1
OBVIOUS

\* A step that leaves a block of EEPROM alone.
LEMMA EepromSame ==
    ASSUME EepromAsSent, Sending' => Sending,
           UNCHANGED <<ctl, blk, CurrAddress, img, eeprom>>
    PROVE EepromAsSent'
BY DEF EepromAsSent

\* Every byte of an EEPROM block goes where the host means it to go.
LEMMA EepromNext ==
    ASSUME TypeOK, AddressesInRange, BlockInv, EepromAsSent, Next PROVE EepromAsSent'
<1>1. CASE Reset
  BY <1>1 DEF Reset, PowerOnReset, BrownOutReset, ExternalReset, WatchdogReset,
    ResetTo, EepromAsSent
<1>2. CASE Interrupt
  <2>1. UNCHANGED <<ctl, blk, CurrAddress, img, eeprom>>
    BY <1>2 DEF Interrupt, Tick, UsbInterrupt, cdcVars, memVars, hostVars
  <2> QED BY <1>2, <2>1, EepromSame, InterruptSending
<1>3. CASE EepromDone
  <2>1. UNCHANGED <<ctl, blk, CurrAddress, img, eeprom, usb, glitch>>
    BY <1>3 DEF EepromDone, cdcVars, hostVars, histVars
  <2> QED BY <2>1, EepromSame DEF Sending
<1>4. CASE BlockHead
  <2>1. PICK h : /\ HostBlockInRange(h[1], h[2])
                 /\ blk' = [n |-> h[1], size |-> h[1], mem |-> h[2], high |-> FALSE,
                            low |-> Zero, start |-> CurrAddress]
                 /\ BlockStart(h[2]) /\ CurrAddress' = CurrAddress
    BY <1>4 DEF BlockHead
  <2>2. blk' \in Block /\ CurrAddress \in Nat
    BY CdcTypeNext DEF CdcType, TypeOK
  <2>3. /\ blk'.n = h[1] /\ blk'.size = h[1] /\ blk'.mem = h[2]
        /\ blk'.start = CurrAddress /\ blk'.n \in Nat
    BY <2>1, <2>2 DEF Block
  <2>4. ctl' # "blockAck"
    BY <2>1 DEF BlockStart, Arm
  <2>5. blk'.size - blk'.n = 0
    BY <2>3
  <2>6. CurrAddress \div 2 \in Nat
    BY <2>2
  <2>7. CurrAddress' \div 2 = blk'.start \div 2 + blk'.size - blk'.n
    BY <2>1, <2>3, <2>6
  <2>8. blk'.mem = "E" => blk'.start \div 2 + blk'.size <= EEBytes /\ blk'.n <= blk'.size
    BY <2>1, <2>3 DEF HostBlockInRange
  <2>9. 0 .. blk'.size - blk'.n - 1 = {}
    BY <2>5, <2>3
  <2> QED BY <2>4, <2>7, <2>8, <2>9 DEF EepromAsSent
<1>5. CASE ReadFlashByte \/ ReadEepromByte \/ WriteHighByte
  BY <1>5 DEF ReadFlashByte, ReadEepromByte, WriteHighByte, Arm, EepromAsSent
<1>6. CASE WriteLowByte
  <2>1. blk'.mem = "F"
    BY <1>6 DEF WriteLowByte, TypeOK, CdcType, Block
  <2> QED BY <2>1 DEF EepromAsSent
<1>7. CASE WriteEepromByte
  <2>1. /\ ctl = "writeLoop" /\ ctl' = ctl /\ blk.n > 0 /\ blk.mem = "E"
        /\ CurrAddress' = CurrAddress + 2 /\ blk' = [blk EXCEPT !.n = @ - 1]
        /\ UNCHANGED <<img, usb, glitch>>
    BY <1>7 DEF WriteEepromByte, hostVars, histVars
  <2>2. PICK b \in EepromSent : EepromWriteByte(b)
    BY <1>7 DEF WriteEepromByte
  <2>3. /\ blk \in Block /\ CurrAddress \in Nat /\ eeprom \in [EEAddr -> Cell]
        /\ blk.n \in Nat /\ blk.size \in Nat /\ blk.start \in Nat
    BY DEF TypeOK, CdcType, MemType, Block
  <2>4. /\ blk'.n = blk.n - 1 /\ blk'.size = blk.size /\ blk'.mem = "E"
        /\ blk'.start = blk.start
    BY <2>1, <2>3 DEF Block
  <2> SUFFICES ASSUME Sending PROVE EepromAsSent'
    BY <2>1 DEF EepromAsSent, Sending
  <2>5. PICK w \in Nat : w = blk.start \div 2
    BY <2>3
  <2>6. PICK c \in Nat : c = CurrAddress \div 2
    BY <2>3
  <2>7. /\ c = w + blk.size - blk.n /\ w + blk.size <= EEBytes /\ blk.n <= blk.size
        /\ \A i \in 0 .. blk.size - blk.n - 1 : eeprom[w + i] = HostByte(img, w + i)
    BY <2>1, <2>5, <2>6 DEF EepromAsSent
  <2>8. b = HostByte(img, c)
    BY <2>6 DEF Sending, EepromSent, FetchNextCommandByte
  <2>9. eeprom' = [eeprom EXCEPT ![c] = b]
    BY <2>2, <2>6 DEF EepromWriteByte
  <2>10. CurrAddress' \div 2 = c + 1
    BY <2>1, <2>3, <2>6, NextWord
  <2>11. c + 1 = w + blk'.size - blk'.n /\ blk'.n <= blk'.size
    BY <2>3, <2>4, <2>7
  <2>12. ASSUME NEW i \in 0 .. blk'.size - blk'.n - 1
         PROVE eeprom'[w + i] = HostByte(img, w + i)
    <3>1. i \in 0 .. blk.size - blk.n
      BY <2>3, <2>4
    <3>2. w + i \in EEAddr
      <4>1. blk.n > 0 /\ w + blk.size <= EEBytes
        BY <2>1, <2>7
      <4>2. i \in Int /\ 0 <= i /\ i <= blk.size - blk.n
        BY <2>3, <3>1
      <4>3. w + i \in Nat /\ w + i < EEBytes
        BY <2>3, <4>1, <4>2, SizeFacts
      <4> QED BY <4>3, SizeFacts
    <3>3. CASE i = blk.size - blk.n
      <4>1. w + i = c
        BY <2>3, <2>7, <3>3
      <4> QED BY <2>3, <2>8, <2>9, <3>2, <4>1
    <3>4. CASE i # blk.size - blk.n
      <4>1. i \in 0 .. blk.size - blk.n - 1 /\ w + i # c
        BY <2>3, <2>7, <3>1, <3>4
      <4>2. eeprom'[w + i] = eeprom[w + i]
        BY <2>3, <2>9, <3>2, <4>1
      <4> QED BY <2>7, <4>1, <4>2
    <3> QED BY <3>3, <3>4
  <2> QED BY <2>1, <2>4, <2>5, <2>7, <2>10, <2>11, <2>12 DEF EepromAsSent
<1>8. CASE WriteDone
  <2>1. /\ ctl = "writeLoop" /\ blk.n = 0
        /\ UNCHANGED <<blk, CurrAddress, img, eeprom, usb, glitch>>
    BY <1>8 DEF WriteDone, cdcVars, memVars, hostVars, histVars
  <2> QED BY <2>1 DEF EepromAsSent, Sending
<1>9. CASE Spm
  <2>1. ctl' = ret /\ UNCHANGED blk
    BY <1>9 DEF Spm, cdcVars
  <2>2. ret \in {"writeLoop", "blockAck"} => blk.mem = "F"
    BY DEF BlockInv, Uninterrupted
  <2> QED BY <2>1, <2>2 DEF EepromAsSent
<1>10. CASE Outside
  BY <1>10 DEF Outside, InBlock, EepromAsSent
<1> QED BY <1>1, <1>2, <1>3, <1>4, <1>5, <1>6, <1>7, <1>8, <1>9, <1>10, BlockFrame

\* Block by block, memory follows what the host sends.
LEMMA AsSentInvariant == Spec => [](FlashInv /\ EepromAsSent)
<1>1. Init => FlashInv /\ EepromAsSent
  BY DEF Init, FlashInv, Progress, PageErased, BufferAsSent, FlashDone, EepromAsSent,
    Writing
<1>2. TypeOK /\ AddressesInRange /\ BlockInv /\ (FlashInv /\ EepromAsSent) /\ [Next]_vars
      => (FlashInv /\ EepromAsSent)'
  <2> SUFFICES ASSUME TypeOK, AddressesInRange, BlockInv, FlashInv, EepromAsSent,
                      [Next]_vars
               PROVE (FlashInv /\ EepromAsSent)'
    OBVIOUS
  <2>1. CASE Next
    BY <2>1, FlashNext, EepromNext
  <2>2. CASE UNCHANGED vars
    <3>1. /\ UNCHANGED <<ctl, ret, spmOp, blk, CurrAddress, img, flash, pageBuf, eeprom>>
          /\ UNCHANGED <<usb, glitch>>
      BY <2>2 DEF vars, memVars, spmVars, cdcVars, hostVars, histVars
    <3>2. (FlashBlock' => FlashBlock) /\ (Sending' => Sending)
      BY <3>1 DEF FlashBlock, Sending
    <3> QED BY <3>1, <3>2, FlashSame, EepromSame
  <2> QED BY <2>1, <2>2
<1> QED BY <1>1, <1>2, TypesAndAddresses, BlockInvariant, PTL DEF Spec

\* 'B' acknowledges a block only when memory holds it: a page of flash with a
\* host that fills the page buffer by blocks only and leaves the EEPROM
\* alone, or an EEPROM block with a host that leaves flash alone.
THEOREM AckedBlockTheorem ==
    (FlashHost \/ EepromHost) /\ Spec => []AckedBlockIsProgrammed
<1> SUFFICES ASSUME FlashHost \/ EepromHost PROVE Spec => []AckedBlockIsProgrammed
  OBVIOUS
<1>1. TypeOK /\ BlockInv /\ FlashInv /\ EepromAsSent => AckedBlockIsProgrammed
  <2> SUFFICES ASSUME TypeOK, BlockInv, FlashInv, EepromAsSent,
                      ctl = "blockAck", usb = "Configured", ~glitch,
                      blk.start % PageBytes = 0, blk.size <= PageBytes
               PROVE BlockAsSent
    BY DEF AckedBlockIsProgrammed
  <2>1. Sending
    BY DEF Sending
  <2>2. blk.mem \in {"F", "E"} /\ (blk.mem = "F" => FlashHost)
    BY DEF BlockInv, Uninterrupted, FromHost, InBlock, EepromHost, TypeOK, CdcType, Block
  <2>3. CASE blk.mem = "F"
    BY <2>1, <2>2, <2>3 DEF FlashInv, FlashDone, FlashBlock
  <2>4. CASE blk.mem = "E"
    <3>1. blk.n = 0 /\ blk.size \in Nat
      BY <2>1, <2>4 DEF EepromAsSent, TypeOK, CdcType, Block
    <3>2. blk.size - blk.n - 1 = blk.size - 1
      BY <3>1
    <3>3. \A i \in 0 .. blk.size - 1 :
            eeprom[blk.start \div 2 + i] = HostByte(img, blk.start \div 2 + i)
      BY <2>1, <2>4, <3>2 DEF EepromAsSent
    <3> QED BY <2>4, <3>3 DEF BlockAsSent
  <2> QED BY <2>2, <2>3, <2>4
<1> QED BY <1>1, TypesAndAddresses, BlockInvariant, AsSentInvariant, PTL

=============================================================================
