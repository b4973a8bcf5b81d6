------------------------------ MODULE Caterina ------------------------------
(***************************************************************************)
(* The Caterina USB bootloader of the Funky board                          *)
(* (caterina-lilypadusb/Caterina.c): what main() decides after a reset,    *)
(* the main loop with its time-out, the AVR910 commands of CDC_Task, and   *)
(* the two interrupt sources that run between any two of its instructions: *)
(* the TIMER1 compare interrupt and the USB general interrupt.             *)
(*                                                                         *)
(* One step is a stretch of code that no interrupt can observe half-done:  *)
(* a call that waits for the host ends a step, so does each half of a      *)
(* 16-bit access to Timeout (the AVR reads the low byte first and writes   *)
(* the high byte first, Caterina.lss), and so does the write of SPMCSR     *)
(* that must be followed by SPM within four cycles.                        *)
(***************************************************************************)
EXTENDS Integers

CONSTANTS
    BASE,            \* values of one byte of Timeout (256 on the AVR)
    TIMEOUT_PERIOD,  \* ticks before the loop gives up (4000)
    EXIT_GRACE,      \* ticks command 'E' leaves on the clock (500)
    NPages,          \* pages of the application section
    PageBytes,       \* SPM_PAGESIZE
    EEBytes,         \* bytes of EEPROM
    Images,          \* the images a host may program, as names
    HostCommands,    \* the commands the host sends
    HostAddrs,       \* the word addresses it gives to 'A'
    HostSizes,       \* the block sizes it gives to 'B' and 'g'
    HostMems,        \* the memory types it gives to 'B' and 'g'
    HostSuspends,    \* whether it puts the bus to sleep and wakes it
    Resets,          \* the causes of reset that occur
    IdleCap          \* where the history counter idle stops counting

Commands == {"E", "A", "e", "B", "g", "C", "c", "m", "R", "D", "d",
             "T", "query", "sync", "unknown"}
BOOT_START_ADDR == NPages * PageBytes
FlashAddr == 0 .. BOOT_START_ADDR - 1
EEAddr == 0 .. EEBytes - 1
Byte == 0 .. BASE - 1
ResetFlags == {"PORF", "EXTRF", "BORF", "WDRF"}

ASSUME TimerAssumption ==
    /\ BASE \in Nat /\ BASE > 1
    /\ TIMEOUT_PERIOD \in Nat /\ TIMEOUT_PERIOD + 1 < BASE * BASE
    /\ EXIT_GRACE \in Nat /\ EXIT_GRACE < TIMEOUT_PERIOD
    /\ IdleCap \in Nat /\ IdleCap > TIMEOUT_PERIOD

ASSUME MemoryAssumption ==
    /\ NPages \in Nat \ {0}
    /\ PageBytes \in Nat \ {0} /\ PageBytes % 2 = 0
    /\ EEBytes \in Nat \ {0}

ASSUME HostAssumption ==
    /\ Resets \subseteq ResetFlags
    /\ HostCommands \subseteq Commands
    /\ HostAddrs \subseteq Nat
    /\ HostSizes \subseteq Nat
    /\ HostMems \subseteq {"F", "E", "other"}
    /\ HostSuspends \in BOOLEAN

\* The names of images are not those of the other cells and answers below.
ASSUME ImageAssumption ==
    Images \cap {"blank", "zero", "corrupt", "garbage", "\\r", "?", "info", "none"} = {}

(***************************************************************************)
(* A memory cell: erased (0xFF), the 0 that FetchNextCommandByte returns   *)
(* once the cable is out, the AND of two values programmed on top of each  *)
(* other, what a read of the busy RWW section gives, or the byte that      *)
(* image m holds at address a.                                             *)
(***************************************************************************)
Blank == <<"blank", 0>>
Zero == <<"zero", 0>>
Corrupt == <<"corrupt", 0>>
Garbage == <<"garbage", 0>>
HostByte(m, a) == <<m, a>>
Cell == {Blank, Zero, Corrupt} \cup (Images \X Nat)

CR == <<"\\r", 0>>
Unknown == <<"?", 0>>
Info == <<"info", 0>>
None == <<"none", 0>>
Replies == Cell \cup {Garbage, CR, Unknown, Info, None}

VARIABLES
    \* reset logic and what survives a reset
    mcusr,          \* MCUSR reset flags
    bootKeyMem,     \* the word at RAM address 0x0800: "key", "zero", "other"
    wdt,            \* the watchdog is running
    \* main()
    ctl,            \* where the CPU is
    mcusr_state,    \* main's copy of MCUSR
    bootKeyPtrVal,  \* main's copy of the boot key word
    RunBootloader,
    \* TIMER1 and its counter, Timeout = tHi * BASE + tLo
    tHi, tLo,
    rdLow,          \* low byte of Timeout, read by the loop's test
    TIMSK1,         \* the compare interrupt is enabled
    \* memories
    flash, pageBuf,
    rww,            \* the RWW section can be read
    eeprom,
    eeBusy,         \* an EEPROM write is in progress
    \* self-programming: the macro in execution, whether SPMCSR still
    \* enables its SPM instruction, and where it returns to
    spmOp, armed, ret,
    \* CDC_Task and ReadWriteMemoryBlock
    cmd, CurrAddress,
    CurrFlashAddress,
    blk,            \* BlockSize left and sent, MemoryType, HighByte,
                    \* LowByte, PageStartAddress
    \* USB and the host
    usb,            \* USB_DeviceState
    img,            \* the image the host is uploading
    reply,          \* last byte of the answer to the command
    \* history
    requested,      \* the sketch asked for the bootloader in this run
    idle,           \* ticks since Timeout was last assigned, up to IdleCap
    slack,          \* the value then assigned to it
    glitch          \* a USB interrupt has hit an SPM sequence in this run

bootVars == <<mcusr, bootKeyMem, wdt, mcusr_state, bootKeyPtrVal>>
timerVars == <<tHi, tLo, rdLow, TIMSK1>>
memVars == <<flash, pageBuf, rww, eeprom, eeBusy>>
spmVars == <<spmOp, armed, ret>>
hostVars == <<usb, img, reply>>
cdcVars == <<cmd, CurrAddress, CurrFlashAddress, blk>>
histVars == <<requested, idle, slack, glitch>>
vars == <<bootVars, ctl, RunBootloader, timerVars, memVars, spmVars,
          cdcVars, hostVars, histVars>>

Timeout == tHi * BASE + tLo
NoOp == [kind |-> "none", addr |-> 0, low |-> Blank, high |-> Blank]
NoBlock == [n |-> 0, size |-> 0, mem |-> "other", high |-> FALSE, low |-> Blank,
            start |-> 0]
BlankPage == [i \in 0 .. PageBytes - 1 |-> Blank]
PageOf(a) == a \div PageBytes

\* pgm_read_word(0) != 0xFFFF, with the RWW section readable
SketchPresent == flash[0] # Blank \/ flash[1] # Blank

\* Control points at which the bootloader runs with interrupts enabled.
Looping == {"while", "cdc", "exec", "exitLow", "exitRww", "ack", "nak",
            "flush", "eraseLoop", "eraseWrite", "blockLow", "blockHead",
            "readLoop", "writeLoop", "blockAck", "spm", "usbtask", "lo", "hi"}

-----------------------------------------------------------------------------
(* Reset, and the sketch (both outside the bootloader's code).             *)

\* Every reset: registers take their reset values, flash, EEPROM and RAM stay.
ResetTo(flags, key) ==
    /\ mcusr' = flags
    /\ bootKeyMem' = key
    /\ wdt' = ("WDRF" \in flags)
    /\ ctl' = "reset"
    /\ mcusr_state' = {} /\ bootKeyPtrVal' = "zero" /\ RunBootloader' = TRUE
    /\ tHi' = 0 /\ tLo' = 0 /\ rdLow' = 0 /\ TIMSK1' = FALSE
    /\ pageBuf' = BlankPage /\ rww' = TRUE /\ UNCHANGED <<flash, eeprom>>
    /\ spmOp' = NoOp /\ armed' = FALSE /\ ret' = "while"
    /\ cmd' = "sync" /\ CurrAddress' = 0 /\ CurrFlashAddress' = 0 /\ blk' = NoBlock
    /\ usb' = "Unattached" /\ reply' = None /\ UNCHANGED img
    /\ idle' = 0 /\ slack' = 0 /\ glitch' = FALSE

PowerOnReset ==
    /\ "PORF" \in Resets
    /\ \E key \in {"key", "zero", "other"} :
        ResetTo({"PORF"}, key) /\ eeBusy' = FALSE /\ requested' = FALSE

BrownOutReset ==
    /\ "BORF" \in Resets
    /\ \E key \in {bootKeyMem, "other"} :
        /\ ResetTo(mcusr \cup {"BORF"}, key)
        /\ UNCHANGED <<eeBusy, requested>>

ExternalReset ==
    /\ "EXTRF" \in Resets
    /\ ResetTo(mcusr \cup {"EXTRF"}, bootKeyMem) /\ UNCHANGED <<eeBusy, requested>>

WatchdogReset ==
    /\ "WDRF" \in Resets /\ wdt
    /\ ResetTo(mcusr \cup {"WDRF"}, bootKeyMem) /\ UNCHANGED <<eeBusy, requested>>

\* The Arduino core's answer to a 1200 baud touch: key in RAM, watchdog on.
SketchRequest ==
    /\ ctl = "sketch"
    /\ bootKeyMem' = "key" /\ wdt' = TRUE /\ requested' = TRUE
    /\ UNCHANGED <<mcusr, mcusr_state, bootKeyPtrVal, ctl, RunBootloader, timerVars,
                   memVars, spmVars, cdcVars, hostVars, idle, slack, glitch>>

\* The touch is withdrawn, or the sketch uses 0x0800 or the watchdog itself.
SketchOther ==
    /\ ctl = "sketch"
    /\ \/ UNCHANGED <<bootKeyMem, requested>>
       \/ bootKeyMem' \in {"zero", "other"} /\ requested' = FALSE
    /\ wdt' \in BOOLEAN
    /\ UNCHANGED <<mcusr, mcusr_state, bootKeyPtrVal, ctl, RunBootloader, timerVars,
                   memVars, spmVars, cdcVars, hostVars, idle, slack, glitch>>

-----------------------------------------------------------------------------
(* main(): the decision after a reset.                                     *)

\* Mutant: the key is left in memory.
MainReadKeyOnly ==
    /\ ctl = "reset" /\ ctl' = "main"
    /\ bootKeyPtrVal' = bootKeyMem
    /\ UNCHANGED <<mcusr, bootKeyMem, wdt, mcusr_state, RunBootloader, timerVars,
                   memVars, spmVars, cdcVars, hostVars, histVars>>

MainReadKey ==
    /\ ctl = "reset"
    /\ bootKeyPtrVal' = bootKeyMem
    /\ bootKeyMem' = "zero"
    /\ ctl' = "main"
    /\ UNCHANGED <<mcusr, wdt, mcusr_state, RunBootloader, timerVars, memVars,
                   spmVars, cdcVars, hostVars, histVars>>

\* Which resets go straight to the sketch.
SkipsBootloader(flags, key) ==
    /\ "EXTRF" \notin flags
    /\ SketchPresent
    /\ \/ "PORF" \in flags
       \/ "WDRF" \in flags /\ key # "key"

\* cli(), TIMER1 off, vectors back to the application, jmp 0x0000
StartSketch ==
    /\ ctl' = "sketch"
    /\ TIMSK1' = FALSE
    /\ tHi' = 0 /\ tLo' = 0 /\ rdLow' = 0
    /\ usb' = "Unattached"
    /\ requested' = FALSE

MainDecide ==
    /\ ctl = "main"
    /\ mcusr_state' = mcusr /\ mcusr' = {}
    /\ wdt' = FALSE
    /\ IF SkipsBootloader(mcusr, bootKeyPtrVal)
         THEN StartSketch
         ELSE ctl' = "setup" /\ UNCHANGED <<timerVars, usb, requested>>
    /\ UNCHANGED <<bootKeyMem, bootKeyPtrVal, RunBootloader, memVars, spmVars, cdcVars,
                   img, reply, idle, slack, glitch>>

\* SetupHardware(), sei(), Timeout = 0; main's copies are not used again
SetupHardware ==
    /\ ctl = "setup"
    /\ ctl' = "while"
    /\ mcusr_state' = {} /\ bootKeyPtrVal' = "zero"
    /\ TIMSK1' = TRUE /\ tHi' = 0 /\ tLo' = 0
    /\ idle' = 0 /\ slack' = 0
    /\ UNCHANGED <<mcusr, bootKeyMem, wdt, RunBootloader, rdLow, memVars, spmVars,
                   cdcVars, hostVars, requested, glitch>>

-----------------------------------------------------------------------------
(* Interrupts.                                                             *)

\* What pgm_read_word(0) != 0xFFFF may yield: reading the RWW section while
\* it is busy is undefined.
SketchRead == IF rww THEN {SketchPresent} ELSE BOOLEAN

\* Mutant: an 8-bit count that does not wrap.
CountWithoutCarry == tLo' = tLo + 1 /\ tHi' = tHi

\* Timeout++, on 16 bits
CountTick ==
    /\ tLo' = (tLo + 1) % BASE
    /\ tHi' = IF tLo = BASE - 1 THEN (tHi + 1) % BASE ELSE tHi

\* ISR(TIMER1_COMPA_vect)
Tick ==
    /\ ctl \in Looping /\ TIMSK1
    /\ armed' = FALSE
    /\ \E present \in SketchRead :
         IF present
           THEN /\ CountTick
                /\ idle' = IF idle < IdleCap THEN idle + 1 ELSE idle
           ELSE UNCHANGED <<tLo, tHi, idle>>
    /\ UNCHANGED <<bootVars, ctl, RunBootloader, rdLow, TIMSK1, memVars, spmOp, ret,
                   cdcVars, hostVars, requested, slack, glitch>>

\* ISR(USB_GEN_vect): the cable goes, comes, the bus is reset, or (after 3 ms
\* without traffic) suspended and later resumed.
UsbInterrupt ==
    /\ ctl \in Looping
    /\ \/ usb' \in {"Unattached", "Default"}
       \/ HostSuspends /\ usb = "Configured" /\ usb' = "Suspended"
       \/ usb = "Suspended" /\ usb' = "Configured"
    /\ armed' = FALSE
    /\ glitch' = (glitch \/ armed)
    /\ UNCHANGED <<bootVars, ctl, RunBootloader, timerVars, memVars, spmOp, ret, cdcVars,
                   img, reply, requested, idle, slack>>

\* The EEPROM write started by eeprom_write_byte finishes by itself.
EepromDone ==
    /\ eeBusy /\ eeBusy' = FALSE
    /\ UNCHANGED <<bootVars, ctl, RunBootloader, timerVars, flash, pageBuf, rww, eeprom,
                   spmVars, cdcVars, hostVars, histVars>>

-----------------------------------------------------------------------------
(* Self-programming: the boot_* macros write SPMCSR, then execute SPM.     *)

\* First half of a macro: SPMCSR written, SPM must follow within 4 cycles.
\* The write has no effect while an EEPROM write is in progress.
Arm(kind, addr, low, high, next) ==
    /\ spmOp' = [kind |-> kind, addr |-> addr, low |-> low, high |-> high]
    /\ armed' = ~eeBusy
    /\ ret' = next
    /\ ctl' = "spm"

Merge(old, new) ==
    IF old = Blank THEN new
    ELSE IF new \in {Blank, old} THEN old ELSE Corrupt

Erase(a) ==
    /\ flash' = [x \in FlashAddr |-> IF PageOf(x) = PageOf(a) THEN Blank ELSE flash[x]]
    /\ rww' = FALSE
    /\ UNCHANGED pageBuf

WritePage(a) ==
    /\ flash' = [x \in FlashAddr |->
                   IF PageOf(x) = PageOf(a)
                     THEN Merge(flash[x], pageBuf[x % PageBytes]) ELSE flash[x]]
    /\ rww' = FALSE
    /\ pageBuf' = BlankPage

\* a word of the buffer can be loaded once; its address ignores bit 0
Fill(a, low, high) ==
    LET w == (a \div 2) * 2 % PageBytes
    IN /\ pageBuf' = IF pageBuf[w] = Blank /\ pageBuf[w + 1] = Blank
                       THEN [pageBuf EXCEPT ![w] = low, ![w + 1] = high]
                       ELSE pageBuf
       /\ UNCHANGED <<flash, rww>>

RwwEnable == rww' = TRUE /\ pageBuf' = BlankPage /\ UNCHANGED flash

\* Second half: SPM does nothing unless SPMCSR still enables it.
\* boot_spm_busy_wait() follows.
Spm ==
    /\ ctl = "spm"
    /\ IF armed
         THEN \/ spmOp.kind = "erase" /\ Erase(spmOp.addr)
              \/ spmOp.kind = "write" /\ WritePage(spmOp.addr)
              \/ spmOp.kind = "fill" /\ Fill(spmOp.addr, spmOp.low, spmOp.high)
              \/ spmOp.kind = "rww" /\ RwwEnable
         ELSE UNCHANGED <<flash, pageBuf, rww>>
    /\ ctl' = ret
    /\ spmOp' = NoOp /\ armed' = FALSE /\ ret' = "while"
    /\ UNCHANGED <<bootVars, RunBootloader, timerVars, eeprom, eeBusy, cdcVars,
                   hostVars, histVars>>

-----------------------------------------------------------------------------
(* The main loop.                                                          *)

\* The loop's test; on the way out USB_Detach() and StartSketch().
While ==
    /\ ctl = "while"
    /\ IF RunBootloader
         THEN ctl' = "cdc" /\ UNCHANGED <<timerVars, usb, requested>>
         ELSE StartSketch
    /\ UNCHANGED <<bootVars, RunBootloader, memVars, spmVars, cdcVars, img, reply,
                   idle, slack, glitch>>

\* USB_USBTask(): a bus reset is followed by enumeration, served only here.
\* A new session of the host may bring another image.
UsbTask ==
    /\ ctl = "usbtask" /\ ctl' = "lo"
    /\ \/ UNCHANGED <<usb, img>>
       \/ usb = "Default" /\ usb' = "Configured" /\ img' \in Images
    /\ UNCHANGED <<bootVars, RunBootloader, timerVars, memVars, spmVars, cdcVars, reply,
                   histVars>>

\* if (Timeout > TIMEOUT_PERIOD), one byte at a time
TimeoutLow ==
    /\ ctl = "lo" /\ ctl' = "hi"
    /\ rdLow' = tLo
    /\ UNCHANGED <<bootVars, RunBootloader, tHi, tLo, TIMSK1, memVars, spmVars, cdcVars,
                   hostVars, histVars>>

Expired == tHi * BASE + rdLow > TIMEOUT_PERIOD

\* Mutant: RunBootloader is never cleared.
TimeoutUntested ==
    /\ ctl = "hi" /\ ctl' = "while"
    /\ rdLow' = 0
    /\ UNCHANGED <<bootVars, RunBootloader, tHi, tLo, TIMSK1, memVars, spmVars, cdcVars,
                   hostVars, histVars>>

TimeoutHigh ==
    /\ ctl = "hi" /\ ctl' = "while"
    /\ RunBootloader' = (RunBootloader /\ ~Expired)
    /\ rdLow' = 0
    /\ UNCHANGED <<bootVars, tHi, tLo, TIMSK1, memVars, spmVars, cdcVars, hostVars,
                   histVars>>

-----------------------------------------------------------------------------
(* The CDC endpoints, as CDC_Task sees them.                               *)

\* What FetchNextCommandByte() may return when the host sends a member of S:
\* with the cable out, what is left in the bank and then zeros (the other
\* bytes of the answer: zeros).  After a bus reset the endpoint is disabled
\* and the call does not return.
FetchNextCommandByte(S, zeros) ==
    IF usb = "Default" THEN {} ELSE IF usb = "Unattached" THEN S \cup zeros ELSE S

\* WriteNextResponseByte(): waits on a disabled endpoint, and gives up on a
\* full bank once the cable is out.
WriteNextResponseByte(r) ==
    /\ usb # "Default"
    /\ reply' \in (IF usb = "Unattached" THEN {r, reply} ELSE {r})
    /\ UNCHANGED <<usb, img>>

FlashRead(a) == IF rww THEN flash[a] ELSE Garbage

\* The host keeps its commands inside the application section and the EEPROM.
HostInRange(c) ==
    /\ c \in {"C", "c", "m", "R"} => CurrAddress \in FlashAddr
    /\ c \in {"D", "d"} => CurrAddress \div 2 \in EEAddr

HostBlockInRange(n, m) ==
    /\ m = "F" => CurrAddress + n <= BOOT_START_ADDR /\ n % 2 = 0
    /\ m = "E" => CurrAddress \div 2 + n <= EEBytes

-----------------------------------------------------------------------------
(* CDC_Task.                                                               *)

CdcIdle ==
    /\ ctl = "cdc" /\ ctl' = "usbtask"
    /\ UNCHANGED <<bootVars, RunBootloader, timerVars, memVars, spmVars, cdcVars,
                   hostVars, histVars>>

CdcCommand ==
    /\ ctl = "cdc" /\ ctl' = "exec"
    /\ usb = "Configured"
    /\ \E c \in HostCommands : HostInRange(c) /\ cmd' = c
    /\ UNCHANGED <<bootVars, RunBootloader, timerVars, memVars, spmVars, CurrAddress,
                   CurrFlashAddress, blk, hostVars, histVars>>

\* 'E': Timeout = TIMEOUT_PERIOD - 500 (high byte, then low byte), then
\* boot_rww_enable_safe(), which waits for the EEPROM
ExitHigh ==
    /\ ctl = "exec" /\ cmd = "E" /\ ctl' = "exitLow"
    /\ tHi' = (TIMEOUT_PERIOD - EXIT_GRACE) \div BASE
    /\ idle' = 0 /\ slack' = TIMEOUT_PERIOD - EXIT_GRACE
    /\ UNCHANGED <<bootVars, RunBootloader, tLo, rdLow, TIMSK1, memVars, spmVars,
                   cdcVars, hostVars, requested, glitch>>

ExitLow ==
    /\ ctl = "exitLow" /\ ctl' = "exitRww"
    /\ tLo' = (TIMEOUT_PERIOD - EXIT_GRACE) % BASE
    /\ UNCHANGED <<bootVars, RunBootloader, tHi, rdLow, TIMSK1, memVars, spmVars,
                   cdcVars, hostVars, histVars>>

ExitRww ==
    /\ ctl = "exitRww" /\ ~eeBusy
    /\ Arm("rww", 0, Blank, Blank, "ack")
    /\ UNCHANGED <<bootVars, RunBootloader, timerVars, memVars, cdcVars, hostVars,
                   histVars>>

\* 'T' (device type, ignored); 'L', 'P', 't', 'a', 'p', 'S', 'V', 's', 'b' and
\* the fuse queries answer at once; 27 is the sync byte
SetDevice ==
    /\ ctl = "exec" /\ cmd = "T" /\ ctl' = "ack"
    /\ FetchNextCommandByte({Info}, {Zero}) # {}
    /\ UNCHANGED <<bootVars, RunBootloader, timerVars, memVars, spmVars, cdcVars,
                   hostVars, histVars>>

Query ==
    /\ ctl = "exec" /\ cmd = "query" /\ ctl' = "flush"
    /\ WriteNextResponseByte(Info)
    /\ UNCHANGED <<bootVars, RunBootloader, timerVars, memVars, spmVars, cdcVars,
                   histVars>>

SyncOrUnknown ==
    /\ ctl = "exec" /\ cmd \in {"sync", "unknown"}
    /\ ctl' = IF cmd = "sync" THEN "flush" ELSE "nak"
    /\ UNCHANGED <<bootVars, RunBootloader, timerVars, memVars, spmVars, cdcVars,
                   hostVars, histVars>>

\* 'A': the high byte may be the last one to arrive before the cable goes
SetAddress ==
    /\ ctl = "exec" /\ cmd = "A" /\ ctl' = "ack"
    /\ \E w \in FetchNextCommandByte(HostAddrs,
                  {0} \cup {(a \div BASE) * BASE : a \in HostAddrs}) :
         CurrAddress' = 2 * w
    /\ UNCHANGED <<bootVars, RunBootloader, timerVars, memVars, spmVars, cmd,
                   CurrFlashAddress, blk, hostVars, histVars>>

\* 'e': for each page, boot_page_erase then boot_page_write; the timer
\* interrupt stays enabled
ChipErase ==
    /\ ctl = "exec" /\ cmd = "e" /\ ctl' = "eraseLoop"
    /\ CurrFlashAddress' = 0
    /\ UNCHANGED <<bootVars, RunBootloader, timerVars, memVars, spmVars, cmd,
                   CurrAddress, blk, hostVars, histVars>>

EraseLoop ==
    /\ ctl = "eraseLoop"
    /\ IF CurrFlashAddress < BOOT_START_ADDR
         THEN Arm("erase", CurrFlashAddress, Blank, Blank, "eraseWrite")
         ELSE ctl' = "ack" /\ UNCHANGED spmVars
    /\ UNCHANGED <<bootVars, RunBootloader, timerVars, memVars, cdcVars, hostVars,
                   histVars>>

EraseWrite ==
    /\ ctl = "eraseWrite"
    /\ Arm("write", CurrFlashAddress, Blank, Blank, "eraseLoop")
    /\ CurrFlashAddress' = CurrFlashAddress + PageBytes
    /\ UNCHANGED <<bootVars, RunBootloader, timerVars, memVars, cmd, CurrAddress, blk,
                   hostVars, histVars>>

\* 'C' and 'c': one byte as a word, at CurrAddress and at CurrAddress | 1
FillByte ==
    /\ ctl = "exec" /\ cmd \in {"C", "c"}
    /\ LET sent == HostByte(img, IF cmd = "C" THEN CurrAddress + 1 ELSE CurrAddress)
           at == IF cmd = "C" THEN CurrAddress ELSE CurrAddress + 1
       IN \E b \in FetchNextCommandByte({sent}, {Zero}) : Arm("fill", at, b, Zero, "ack")
    /\ CurrAddress' = IF cmd = "c" THEN CurrAddress + 2 ELSE CurrAddress
    /\ UNCHANGED <<bootVars, RunBootloader, timerVars, memVars, cmd, CurrFlashAddress,
                   blk, hostVars, histVars>>

\* 'm'
CommitPage ==
    /\ ctl = "exec" /\ cmd = "m"
    /\ Arm("write", CurrAddress, Blank, Blank, "ack")
    /\ UNCHANGED <<bootVars, RunBootloader, timerVars, memVars, cdcVars, hostVars,
                   histVars>>

\* 'R': high byte, then low byte
ReadWord ==
    /\ ctl = "exec" /\ cmd = "R" /\ ctl' = "flush"
    /\ WriteNextResponseByte(FlashRead(CurrAddress))
    /\ UNCHANGED <<bootVars, RunBootloader, timerVars, memVars, spmVars, cdcVars,
                   histVars>>

\* Mutant: the byte address is not CurrAddress >> 1.
EepromWriteUnshifted(b) ==
    /\ ~eeBusy /\ eeBusy' = TRUE
    /\ eeprom' = [a \in EEAddr |-> IF a = CurrAddress THEN b ELSE eeprom[a]]
    /\ UNCHANGED <<flash, pageBuf, rww>>

\* eeprom_write_byte() and eeprom_read_byte() first wait for a write in
\* progress.
EepromWriteByte(b) ==
    /\ ~eeBusy /\ eeBusy' = TRUE
    /\ eeprom' = [eeprom EXCEPT ![CurrAddress \div 2] = b]
    /\ UNCHANGED <<flash, pageBuf, rww>>

EepromSent == FetchNextCommandByte({HostByte(img, CurrAddress \div 2)}, {Zero})

\* 'D'
WriteEeprom ==
    /\ ctl = "exec" /\ cmd = "D" /\ ctl' = "ack"
    /\ \E b \in EepromSent : EepromWriteByte(b)
    /\ CurrAddress' = CurrAddress + 2
    /\ UNCHANGED <<bootVars, RunBootloader, timerVars, spmVars, cmd, CurrFlashAddress,
                   blk, hostVars, histVars>>

\* 'd'
ReadEeprom ==
    /\ ctl = "exec" /\ cmd = "d" /\ ctl' = "flush"
    /\ ~eeBusy
    /\ WriteNextResponseByte(eeprom[CurrAddress \div 2])
    /\ CurrAddress' = CurrAddress + 2
    /\ UNCHANGED <<bootVars, RunBootloader, timerVars, memVars, spmVars, cmd,
                   CurrFlashAddress, blk, histVars>>

\* The answer that ends most commands.
Acknowledge ==
    /\ ctl \in {"ack", "nak"} /\ ctl' = "flush"
    /\ WriteNextResponseByte(IF ctl = "ack" THEN CR ELSE Unknown)
    /\ UNCHANGED <<bootVars, RunBootloader, timerVars, memVars, spmVars, cdcVars,
                   histVars>>

\* The end of CDC_Task: wait until the answer is on its way, or give up; the
\* command's locals end here.
Flush ==
    /\ ctl = "flush" /\ ctl' = "usbtask"
    /\ usb \in {"Configured", "Unattached"}
    /\ cmd' = "sync" /\ CurrFlashAddress' = 0 /\ blk' = NoBlock
    /\ reply' = None
    /\ UNCHANGED <<bootVars, RunBootloader, timerVars, memVars, spmVars, CurrAddress,
                   usb, img, histVars>>

-----------------------------------------------------------------------------
(* 'B' and 'g': Timeout = 0, then ReadWriteMemoryBlock.                    *)

\* Mutant: the high byte of Timeout is not cleared.
BlockHighKept ==
    /\ ctl = "exec" /\ cmd \in {"B", "g"} /\ ctl' = "blockLow"
    /\ idle' = 0 /\ slack' = 0
    /\ UNCHANGED <<bootVars, RunBootloader, timerVars, memVars, spmVars, cdcVars,
                   hostVars, requested, glitch>>

BlockHigh ==
    /\ ctl = "exec" /\ cmd \in {"B", "g"} /\ ctl' = "blockLow"
    /\ tHi' = 0
    /\ idle' = 0 /\ slack' = 0
    /\ UNCHANGED <<bootVars, RunBootloader, tLo, rdLow, TIMSK1, memVars, spmVars,
                   cdcVars, hostVars, requested, glitch>>

BlockLow ==
    /\ ctl = "blockLow" /\ ctl' = "blockHead"
    /\ tLo' = 0
    /\ UNCHANGED <<bootVars, RunBootloader, tHi, rdLow, TIMSK1, memVars, spmVars,
                   cdcVars, hostVars, histVars>>

\* Mutant: 'g' reads without boot_rww_enable().
BlockStartNoRww(m) ==
    IF m = "F" /\ cmd = "B" THEN Arm("erase", CurrAddress, Blank, Blank, "writeLoop")
    ELSE /\ ctl' = IF m = "other" THEN "nak" ELSE IF cmd = "g" THEN "readLoop"
                   ELSE "writeLoop"
         /\ UNCHANGED spmVars

\* A bad memory type is refused, 'g' enables the RWW section, 'B' erases.
BlockStart(m) ==
    IF m = "other" THEN ctl' = "nak" /\ UNCHANGED spmVars
    ELSE IF cmd = "g" THEN Arm("rww", 0, Blank, Blank, "readLoop")
    ELSE IF m = "F" THEN Arm("erase", CurrAddress, Blank, Blank, "writeLoop")
    ELSE ctl' = "writeLoop" /\ UNCHANGED spmVars

\* BlockSize and MemoryType; a bad type is refused with the timer still on
BlockHead ==
    /\ ctl = "blockHead"
    /\ \E h \in FetchNextCommandByte(HostSizes \X HostMems, {<<0, "other">>}) :
         /\ HostBlockInRange(h[1], h[2])
         /\ blk' = [n |-> h[1], size |-> h[1], mem |-> h[2], high |-> FALSE,
                    low |-> Zero, start |-> CurrAddress]
         /\ TIMSK1' = (TIMSK1 /\ h[2] = "other")
         /\ BlockStart(h[2])
    /\ UNCHANGED <<bootVars, RunBootloader, tHi, tLo, rdLow, memVars, cmd, CurrAddress,
                   CurrFlashAddress, hostVars, histVars>>

\* Mutant: the address moves on after every byte.
AfterEveryByte == CurrAddress + 2

\* If both bytes in current word have been read, increment the address counter
AfterFlashByte == IF blk.high THEN CurrAddress + 2 ELSE CurrAddress

ReadFlashByte ==
    /\ ctl = "readLoop" /\ blk.n > 0 /\ blk.mem = "F"
    /\ WriteNextResponseByte(FlashRead(IF blk.high THEN CurrAddress + 1 ELSE CurrAddress))
    /\ CurrAddress' = AfterFlashByte
    /\ blk' = [blk EXCEPT !.n = @ - 1, !.high = ~@]
    /\ UNCHANGED <<bootVars, ctl, RunBootloader, timerVars, memVars, spmVars, cmd,
                   CurrFlashAddress, histVars>>

ReadEepromByte ==
    /\ ctl = "readLoop" /\ blk.n > 0 /\ blk.mem = "E"
    /\ ~eeBusy
    /\ WriteNextResponseByte(eeprom[CurrAddress \div 2])
    /\ CurrAddress' = CurrAddress + 2
    /\ blk' = [blk EXCEPT !.n = @ - 1]
    /\ UNCHANGED <<bootVars, ctl, RunBootloader, timerVars, memVars, spmVars, cmd,
                   CurrFlashAddress, histVars>>

ReadDone ==
    /\ ctl = "readLoop" /\ blk.n = 0 /\ ctl' = "flush"
    /\ TIMSK1' = TRUE
    /\ UNCHANGED <<bootVars, RunBootloader, tHi, tLo, rdLow, memVars, spmVars, cdcVars,
                   hostVars, histVars>>

WriteLowByte ==
    /\ ctl = "writeLoop" /\ blk.n > 0 /\ blk.mem = "F" /\ ~blk.high
    /\ \E b \in FetchNextCommandByte({HostByte(img, CurrAddress)}, {Zero}) :
         blk' = [blk EXCEPT !.n = @ - 1, !.high = TRUE, !.low = b]
    /\ UNCHANGED <<bootVars, ctl, RunBootloader, timerVars, memVars, spmVars, cmd,
                   CurrAddress, CurrFlashAddress, hostVars, histVars>>

WriteHighByte ==
    /\ ctl = "writeLoop" /\ blk.n > 0 /\ blk.mem = "F" /\ blk.high
    /\ \E b \in FetchNextCommandByte({HostByte(img, CurrAddress + 1)}, {Zero}) :
         Arm("fill", CurrAddress, blk.low, b, "writeLoop")
    /\ CurrAddress' = CurrAddress + 2
    /\ blk' = [blk EXCEPT !.n = @ - 1, !.high = FALSE]
    /\ UNCHANGED <<bootVars, RunBootloader, timerVars, memVars, cmd, CurrFlashAddress,
                   hostVars, histVars>>

WriteEepromByte ==
    /\ ctl = "writeLoop" /\ blk.n > 0 /\ blk.mem = "E"
    /\ \E b \in EepromSent : EepromWriteByte(b)
    /\ CurrAddress' = CurrAddress + 2
    /\ blk' = [blk EXCEPT !.n = @ - 1]
    /\ UNCHANGED <<bootVars, ctl, RunBootloader, timerVars, spmVars, cmd,
                   CurrFlashAddress, hostVars, histVars>>

\* Mutant: the page after the block is committed.
CommitAtCurrAddress == Arm("write", CurrAddress, Blank, Blank, "blockAck")

\* boot_page_write(PageStartAddress)
CommitBlock == Arm("write", blk.start, Blank, Blank, "blockAck")

WriteDone ==
    /\ ctl = "writeLoop" /\ blk.n = 0
    /\ IF blk.mem = "F" THEN CommitBlock ELSE ctl' = "blockAck" /\ UNCHANGED spmVars
    /\ UNCHANGED <<bootVars, RunBootloader, timerVars, memVars, cdcVars, hostVars,
                   histVars>>

\* Mutant: the timer interrupt stays off.
BlockAckMasked ==
    /\ ctl = "blockAck" /\ ctl' = "flush"
    /\ WriteNextResponseByte(CR)
    /\ UNCHANGED <<bootVars, RunBootloader, timerVars, memVars, spmVars, cdcVars,
                   histVars>>

BlockAck ==
    /\ ctl = "blockAck" /\ ctl' = "flush"
    /\ WriteNextResponseByte(CR)
    /\ TIMSK1' = TRUE
    /\ UNCHANGED <<bootVars, RunBootloader, tHi, tLo, rdLow, memVars, spmVars, cdcVars,
                   histVars>>

-----------------------------------------------------------------------------
(* The specification.                                                      *)

\* Power comes up on a board with an erased or a programmed application.
Init ==
    /\ mcusr = {"PORF"} /\ bootKeyMem \in {"key", "zero", "other"} /\ wdt = FALSE
    /\ ctl = "reset" /\ mcusr_state = {} /\ bootKeyPtrVal = "zero"
    /\ RunBootloader = TRUE
    /\ tHi = 0 /\ tLo = 0 /\ rdLow = 0 /\ TIMSK1 = FALSE
    /\ img \in Images
    /\ flash \in {[a \in FlashAddr |-> Blank], [a \in FlashAddr |-> HostByte(img, a)]}
    /\ pageBuf = BlankPage /\ rww = TRUE
    /\ eeprom = [a \in EEAddr |-> Blank] /\ eeBusy = FALSE
    /\ spmOp = NoOp /\ armed = FALSE /\ ret = "while"
    /\ cmd = "sync" /\ CurrAddress = 0 /\ CurrFlashAddress = 0 /\ blk = NoBlock
    /\ usb = "Unattached" /\ reply = None
    /\ requested = FALSE /\ idle = 0 /\ slack = 0 /\ glitch = FALSE

Reset == PowerOnReset \/ BrownOutReset \/ ExternalReset \/ WatchdogReset

Interrupt == Tick \/ UsbInterrupt

\* The next instruction of the bootloader.
Cpu ==
    \/ MainReadKey \/ MainDecide \/ SetupHardware
    \/ While \/ CdcIdle \/ CdcCommand \/ UsbTask \/ TimeoutLow \/ TimeoutHigh
    \/ ExitHigh \/ ExitLow \/ ExitRww \/ SetDevice \/ Query \/ SyncOrUnknown
    \/ SetAddress \/ ChipErase \/ EraseLoop \/ EraseWrite
    \/ FillByte \/ CommitPage \/ ReadWord \/ WriteEeprom \/ ReadEeprom
    \/ BlockHigh \/ BlockLow \/ BlockHead
    \/ ReadFlashByte \/ ReadEepromByte \/ ReadDone
    \/ WriteLowByte \/ WriteHighByte \/ WriteEepromByte \/ WriteDone \/ BlockAck
    \/ Acknowledge \/ Flush \/ Spm

Next == Reset \/ Interrupt \/ Cpu \/ EepromDone \/ SketchRequest \/ SketchOther

Spec == Init /\ [][Next]_vars

\* The CPU runs, the timer ticks, EEPROM writes end, and a host that is
\* configured sends the bytes of a command it began and reads the answers.
\* Nothing is assumed of cables, bus resets, resets and new commands.
Fairness == WF_vars(Cpu) /\ WF_vars(Tick) /\ WF_vars(EepromDone)

FairSpec == Spec /\ Fairness

-----------------------------------------------------------------------------
(* Properties.                                                             *)

ControlPoints == Looping \cup {"reset", "main", "setup", "sketch"}
ReturnPoints == {"while", "ack", "eraseLoop", "eraseWrite", "readLoop", "writeLoop",
                 "blockAck"}
SpmKinds == {"none", "erase", "write", "fill", "rww"}

Block == [n : Nat, size : Nat, mem : {"F", "E", "other"}, high : BOOLEAN,
          low : Cell, start : Nat]

FlagType ==
    /\ wdt \in BOOLEAN /\ RunBootloader \in BOOLEAN /\ TIMSK1 \in BOOLEAN
    /\ rww \in BOOLEAN /\ eeBusy \in BOOLEAN /\ armed \in BOOLEAN
    /\ requested \in BOOLEAN /\ glitch \in BOOLEAN

BootType ==
    /\ mcusr \subseteq ResetFlags /\ mcusr_state \subseteq ResetFlags
    /\ bootKeyMem \in {"key", "zero", "other"}
    /\ bootKeyPtrVal \in {"key", "zero", "other"}

TimerType ==
    /\ tHi \in Byte /\ tLo \in Byte /\ rdLow \in Byte
    /\ idle \in 0 .. IdleCap /\ slack \in 0 .. TIMEOUT_PERIOD

MemType ==
    /\ flash \in [FlashAddr -> Cell] /\ eeprom \in [EEAddr -> Cell]
    /\ pageBuf \in [0 .. PageBytes - 1 -> Cell]

CtlType ==
    /\ ctl \in ControlPoints
    /\ spmOp \in [kind : SpmKinds, addr : Nat, low : Cell, high : Cell]
    /\ (ctl = "spm") <=> (spmOp.kind # "none")
    /\ armed => ctl = "spm"
    /\ ret \in ReturnPoints /\ (ctl # "spm" => ret = "while")

CdcType ==
    /\ cmd \in Commands /\ CurrAddress \in Nat /\ CurrFlashAddress \in Nat
    /\ blk \in Block

HostType ==
    /\ usb \in {"Unattached", "Default", "Configured", "Suspended"}
    /\ img \in Images /\ reply \in Replies

\* The values each variable can hold.
TypeOK ==
    FlagType /\ BootType /\ TimerType /\ MemType /\ CtlType /\ CdcType /\ HostType

\* While the host keeps its own addresses in range, so does CDC_Task: the
\* address of a command, and what is left of a block, lie in the application
\* section or in the EEPROM, also between the two bytes of a word.
AddressesInRange ==
    /\ ctl = "exec" => HostInRange(cmd)
    /\ ctl \in {"readLoop", "writeLoop"} \/ ret \in {"readLoop", "writeLoop"} =>
         /\ blk.mem = "F" =>
              CurrAddress + (IF blk.high THEN 1 ELSE 0) + blk.n <= BOOT_START_ADDR
         /\ blk.mem = "E" => CurrAddress \div 2 + blk.n <= EEBytes

\* main() treats a watchdog reset as a request for the bootloader only if the
\* sketch asked for it since it was last started: a stale key, or one that
\* RAM held by chance at power-up, never keeps a present sketch from running.
BootKeyOneShot ==
    ctl = "setup" /\ mcusr_state = {"WDRF"} /\ SketchPresent => requested

\* The loop gives up only after the ticks that were left when Timeout was
\* last assigned, less one byte's worth for an interrupt between the two
\* halves of that assignment and one for an interrupt between the two halves
\* of the test.
StaysOpen ==
    ~RunBootloader => idle >= TIMEOUT_PERIOD - slack - 2 * BASE + 3

\* Every path through ReadWriteMemoryBlock, the refusal of a memory type
\* included, leaves the loop with the time-out interrupt enabled.
TimerRunsInLoop ==
    ctl \in {"while", "cdc", "exec", "flush", "usbtask", "lo", "hi"} => TIMSK1

\* The block that 'B' is about to acknowledge is in memory as it was sent.
BlockAsSent ==
    \A i \in 0 .. blk.size - 1 :
        IF blk.mem = "F"
          THEN flash[blk.start + i] = HostByte(img, blk.start + i)
          ELSE eeprom[blk.start \div 2 + i] = HostByte(img, blk.start \div 2 + i)

\* 'B' acknowledges a page-sized block only when memory holds what the host
\* sent, whatever was there before and wherever the timer interrupt falls,
\* as long as no USB interrupt has fallen between SPMCSR and SPM.
AckedBlockIsProgrammed ==
    ctl = "blockAck" /\ usb = "Configured" /\ ~glitch
        /\ blk.start % PageBytes = 0 /\ blk.size <= PageBytes
    => BlockAsSent

\* The bytes that 'g' returns come from a readable RWW section, even right
\* after a block was programmed.
ReadBackIsReal == reply = Garbage => glitch

\* The count may run over TIMEOUT_PERIOD and wrap again and again; while it
\* does, the test in main() is not made below TIMEOUT_PERIOD only.  In the code
\* a pass of the loop takes less than the minute the count spends above it.
TestedInTime ==
    []<>(Timeout > TIMEOUT_PERIOD) => []<><<TimeoutHigh /\ Timeout > TIMEOUT_PERIOD>>_vars

\* A host that talks but no longer programs or asks for the exit cannot hold
\* the bootloader open: once resets, bus resets and suspensions have stopped,
\* with a sketch in a readable RWW section, the sketch starts.
SketchGetsItsTurn ==
    (/\ <>[][~Reset]_vars
     /\ <>[](cmd \notin {"B", "g", "E"})
     /\ <>[](usb \in {"Configured", "Unattached"})
     /\ <>[](SketchPresent /\ rww)
     /\ TestedInTime)
    => <>(ctl = "sketch")

=============================================================================
