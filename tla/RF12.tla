-------------------------------- MODULE RF12 --------------------------------
(***************************************************************************)
(* The interrupt-driven RFM12B driver of                                   *)
(* examples/RFM12b_watchdog/RF12mods.cpp: the functions a sketch calls,    *)
(* and rf12_interrupt(), which the radio triggers between any two of their *)
(* instructions.                                                           *)
(*                                                                         *)
(* rf12_interrupt() is one step: the AVR runs it with interrupts off.      *)
(* rf12_xfer() is one step: it blocks the radio's interrupt while it owns  *)
(* the SPI bus.  A 16-bit "rfmstate |= ..." in the sketch's thread is a    *)
(* load, a store, the load of rf12_xfer's argument and the transfer.       *)
(* Encryption, group 0 and on-off keying are left out.                     *)
(***************************************************************************)
EXTENDS Integers, Sequences, SequencesExt

CONSTANTS
    RF12_MAXDATA,   \* 66
    DRSSI_BYTES,    \* drssi_bytes_per_decision, 7 at 49.2 kbps
    NodeId,         \* nodeid & NODE_ID
    Packets,        \* what may be on the air: [hdr, len, ok, level]
    SendLens,       \* lengths the sketch sends
    FixedLens,      \* arguments it gives to rf12_setFixedLength
    Calls           \* the driver functions it calls

Header == [ctl : BOOLEAN, dst : BOOLEAN, ack : BOOLEAN, node : 0 .. 31]
RF_MAX == RF12_MAXDATA + 5

ASSUME SizeAssumption ==
    /\ RF12_MAXDATA \in Nat \ {0} /\ RF12_MAXDATA < 125
    /\ DRSSI_BYTES \in Nat \ {0}
    /\ SendLens \subseteq 0 .. RF12_MAXDATA
    /\ FixedLens \subseteq 0 .. RF12_MAXDATA - 1

ASSUME AirAssumption ==
    /\ NodeId \in 1 .. 31
    /\ Packets \subseteq [hdr : Header, len : 0 .. 255, ok : BOOLEAN, level : 0 .. 7]

ASSUME CallAssumption ==
    Calls \subseteq {"recvDone", "canSend", "sendNow", "ack", "sleep", "restore",
                     "setWatchdog", "watchdogFired", "setFixedLength"}

\* Transceiver states; below 0 the data bytes of a packet are being sent.
TXCRC1 == 0
TXCRC2 == 1
TXTAIL == 2
TXDONE == 3
TXIDLE == 4
UNINITIALIZED == 5
POR_RECEIVED == 6
TXRECV == 7
TXPRE1 == 8
TXSYN1 == 11
TXSYN2 == 12

\* A byte of a packet p on the air, and the noise a receiver that stays on
\* gets after it.
Noise == [hdr |-> [ctl |-> FALSE, dst |-> FALSE, ack |-> FALSE, node |-> 0],
          len |-> 0, ok |-> FALSE, level |-> 0]
NoAir == [pkt |-> Noise, n |-> 0]

\* The running CRC, symbolically: it has taken in bytes 1 .. n of packet
\* "of", in order and nothing else.
CrcStart == [of |-> Noise, n |-> 0]
CrcBad == [of |-> Noise, n |-> -1]
CrcUpdate(c, p, i) ==
    IF i = c.n + 1 /\ (i = 1 \/ c.of = p) THEN [of |-> p, n |-> i] ELSE CrcBad
CrcZero(c) == c.of.ok /\ c.n = c.of.len + 4

NoData == [i \in 0 .. RF12_MAXDATA - 1 |-> Noise]
NoArg == [hdr |-> Noise.hdr, len |-> 0]
Own == [Noise EXCEPT !.ok = TRUE]      \* stands for what the sketch sends

VARIABLES
    \* the driver
    rxstate, rxfill, rf12_hdr, rf12_len,
    rf12_data,      \* the packet each data byte of rf12_buf belongs to
    rf12_crc, drssi, fixedLength, rf12_gotwakeup,
    rfmstate,       \* "rx", "tx", "xtal", "wkup"
    \* the sketch's thread
    pc,
    reg,            \* a CPU register: rfmstate, loaded
    arg,            \* the arguments of rf12_sendStart
    rmw,            \* the bits to clear and to set, and where to go on
    inNow,          \* inside rf12_sendNow
    last,           \* what the last call returned
    \* the radio
    rfm,            \* its power management register
    thr,            \* its RSSI threshold
    irq,            \* the status bits that pull nIRQ low
    air,            \* the packet being received and the bytes of it received
    configured,     \* its registers hold rf12_restore's settings
    \* history
    given,          \* header and length passed to rf12_sendStart
    frame,          \* the bytes sent since
    asked           \* a wake-up was requested and has not fired

bufVars == <<rxfill, rf12_hdr, rf12_len, rf12_data, rf12_crc, drssi>>
radioVars == <<rfm, thr, irq, air, configured>>
threadVars == <<reg, arg, rmw, inNow, last>>
sendVars == <<given, frame>>
wakeVars == <<rf12_gotwakeup, asked>>
vars == <<rxstate, bufVars, fixedLength, rfmstate, pc, threadVars, radioVars,
          sendVars, wakeVars>>

NoRmw == [off |-> {}, on |-> {}, next |-> "sketch"]

\* Mutant: sleeping clears the wake-up timer too.
PowerOffTimer == {"rx", "tx", "xtal", "wkup"}

\* everything is switched off (except bod, wkup, clk)
PowerOff == {"rx", "tx", "xtal"}

\* Mutant: the transmitter is left on.
IdleReceiver(s) == (s \ {"rx"}) \cup {"xtal"}

\* rf12_idle(): synthesizer, transmitter, receiver off, crystal on
Idle(s) == (s \ {"rx", "tx"}) \cup {"xtal"}

\* Mutant: the size of rf12_buf is not looked at.
CompleteUnbounded(fill, len, fixed) ==
    IF fixed # 0 THEN fill >= fixed ELSE fill >= len + 5

\* All the bytes are in (or maximum packet length was reached).
Complete(fill, len, fixed) ==
    IF fixed # 0 THEN fill >= fixed \/ fill >= RF_MAX
                 ELSE fill >= len + 5 \/ fill >= RF_MAX

-----------------------------------------------------------------------------
(* The radio.                                                              *)

\* It hears the sync pattern of a packet.
AirStart ==
    /\ "rx" \in rfm /\ configured /\ air = NoAir /\ "FIFO" \notin irq
    /\ \E p \in Packets : air' = [pkt |-> p, n |-> 1]
    /\ irq' = irq \cup {"FIFO"}
    /\ UNCHANGED <<rxstate, bufVars, fixedLength, rfmstate, pc, threadVars, rfm, thr,
                   configured, sendVars, wakeVars>>

\* The next byte; one that was not fetched in time is overrun.
AirByte ==
    /\ "rx" \in rfm /\ air # NoAir /\ "OVF" \notin irq
    /\ IF "FIFO" \in irq
         THEN irq' = irq \cup {"OVF"} /\ UNCHANGED air
         ELSE irq' = irq \cup {"FIFO"} /\ air' = [air EXCEPT !.n = @ + 1]
    /\ UNCHANGED <<rxstate, bufVars, fixedLength, rfmstate, pc, threadVars, rfm, thr,
                   configured, sendVars, wakeVars>>

\* The transmitter asks for a byte, or runs out of them.
TxRequest ==
    /\ "tx" \in rfm /\ "OVF" \notin irq
    /\ irq' = irq \cup {IF "FIFO" \in irq THEN "OVF" ELSE "FIFO"}
    /\ UNCHANGED <<rxstate, bufVars, fixedLength, rfmstate, pc, threadVars, rfm, thr,
                   air, configured, sendVars, wakeVars>>

\* The wake-up timer runs down, again and again until it is disabled.
WakeUp ==
    /\ "wkup" \in rfm /\ "WDG" \notin irq
    /\ irq' = irq \cup {"WDG"}
    /\ UNCHANGED <<rxstate, bufVars, fixedLength, rfmstate, pc, threadVars, rfm, thr,
                   air, configured, sendVars, wakeVars>>

\* The radio leaves its power-on reset, after the software reset of
\* rf12_initialize().
PowerOnReset ==
    /\ pc = "init" /\ rxstate = UNINITIALIZED /\ irq = {}
    /\ rfm' = {"xtal"} /\ thr' = 0 /\ air' = NoAir /\ configured' = FALSE
    /\ irq' = {"POR"}
    /\ UNCHANGED <<rxstate, bufVars, fixedLength, rfmstate, pc, threadVars, sendVars,
                   wakeVars>>

\* Writing the power management register; a receiver that is switched off
\* must find a sync pattern again.
SetPower(s) ==
    /\ rfm' = s
    /\ air' = IF "rx" \in s THEN air ELSE NoAir

-----------------------------------------------------------------------------
(* rf12_interrupt()                                                        *)

Fifo == "FIFO" \in irq
Receiving == Fifo /\ rxstate = TXRECV
Sending == Fifo /\ rxstate # TXRECV

\* The group byte is not transmitted again, but takes its place in rf12_buf.
FillAfter == (IF rxfill = 0 THEN 1 ELSE rxfill) + 1

\* Byte n of the packet, from the header on, goes to rf12_buf[FillAfter - 1].
Incoming == IF air.n > air.pkt.len + 4 THEN Noise ELSE air.pkt

\* the digital RSSI search tree: down and up from states A, * and B
drssi_dec_tree == [d \in 0 .. 2 |-> CASE d = 0 -> <<3, 4>> [] d = 1 -> <<0, 2>>
                                      [] OTHER -> <<5, 6>>]

\* Mutant: the nibbles of the tree are swapped.
DrssiSwapped ==
    IF Incoming.level >= thr THEN drssi_dec_tree[drssi][1] ELSE drssi_dec_tree[drssi][2]

\* RF_RSSI_BIT: the signal is above the threshold
DrssiNext ==
    IF Incoming.level >= thr THEN drssi_dec_tree[drssi][2] ELSE drssi_dec_tree[drssi][1]

\* The first rssi bit is read with the first byte.
DrssiDecides == drssi < 3 /\ (FillAfter - 2) % DRSSI_BYTES = 0

\* a byte of the packet is stored in rf12_buf[FillAfter - 1]
StoreByte ==
    LET at == FillAfter - 1
    IN /\ rxfill' = FillAfter
       /\ rf12_hdr' = IF at = 1 THEN Incoming.hdr ELSE rf12_hdr
       /\ rf12_len' = IF at = 2 THEN Incoming.len ELSE rf12_len
       /\ rf12_data' = IF at - 3 \in DOMAIN rf12_data
                         THEN [rf12_data EXCEPT ![at - 3] = Incoming] ELSE rf12_data
       /\ rf12_crc' = CrcUpdate(rf12_crc, Incoming, air.n)
       /\ drssi' = IF DrssiDecides THEN DrssiNext ELSE drssi
       /\ thr' = IF DrssiDecides /\ DrssiNext < 3 THEN DrssiNext * 2 + 1 ELSE thr

\* rf12_buf[pos] on its way out, from the header on
BufferByte(pos) ==
    IF pos = 1 THEN <<"hdr", rf12_hdr>>
    ELSE IF pos = 2 THEN <<"len", rf12_len>> ELSE <<"data", rf12_data[pos - 3]>>

\* Mutant: the header byte is skipped.
DataStateShort == - (1 + rf12_len)

DataState == - (2 + rf12_len)

\* What the switch on rxstate++ sends and where it goes on.
OutByte ==
    CASE rxstate < 0       -> BufferByte(3 + rf12_len + rxstate)
      [] rxstate = TXSYN1  -> <<"2D", 0>>
      [] rxstate = TXSYN2  -> <<"group", 0>>
      [] rxstate = TXCRC1  -> <<"crc", rf12_crc.n>>
      [] rxstate = TXCRC2  -> <<"crc8", rf12_crc.n>>
      [] OTHER             -> <<"AA", 0>>

NextState == IF rxstate = TXSYN2 THEN DataState ELSE rxstate + 1

SendByte ==
    /\ frame' = Append(frame, OutByte)
    /\ rf12_crc' = IF rxstate < 0
                     THEN CrcUpdate(rf12_crc, Own, 3 + rf12_len + rxstate) ELSE rf12_crc
    /\ UNCHANGED <<rxfill, rf12_hdr, rf12_len, rf12_data, drssi, thr>>

\* power-on reset; fifo overflow or buffer underrun - abort reception/sending
AfterErrors(s) ==
    IF "OVF" \in irq THEN TXIDLE ELSE IF "POR" \in irq THEN POR_RECEIVED ELSE s

\* The power bits after the handler's calls of rf12_idle() and of
\* rf12_setWatchdog(0), and the value they last wrote to the radio.
InterruptPower(idles) ==
    LET wdg == "WDG" \in irq
        quiet == IF idles THEN Idle(rfmstate) ELSE rfmstate
    IN /\ rfmstate' = IF wdg THEN quiet \ {"wkup"} ELSE quiet
       /\ IF idles \/ (wdg /\ "wkup" \in rfmstate)
            THEN SetPower(rfmstate') ELSE UNCHANGED <<rfm, air>>
       /\ rf12_gotwakeup' = (rf12_gotwakeup \/ wdg)
       /\ asked' = (asked /\ ~wdg)

rf12_interrupt ==
    /\ irq # {} /\ irq' = {}
    /\ \/ Receiving /\ StoreByte /\ UNCHANGED frame
       \/ Sending /\ SendByte
       \/ ~Fifo /\ UNCHANGED <<bufVars, thr, frame>>
    /\ rxstate' = AfterErrors(IF Sending THEN NextState ELSE rxstate)
    /\ InterruptPower(\/ Receiving /\ Complete(rxfill', rf12_len', fixedLength)
                      \/ Sending /\ rxstate = TXDONE
                      \/ "OVF" \in irq)
    /\ UNCHANGED <<fixedLength, pc, threadVars, configured, given>>

-----------------------------------------------------------------------------
(* The sketch's thread.  It runs only while no interrupt is pending, except *)
(* inside rf12_xfer().                                                     *)

Thread(from, to) == pc = from /\ irq = {} /\ pc' = to

\* rfmstate &= off; rfmstate |= on; rf12_xfer(rfmstate)
UpdatePower(off, on, next) == rmw' = [off |-> off, on |-> on, next |-> next]

RmwLoad ==
    /\ Thread("load", "store")
    /\ reg' = (rfmstate \ rmw.off) \cup rmw.on
    /\ UNCHANGED <<rxstate, bufVars, fixedLength, rfmstate, arg, rmw, inNow, last,
                   radioVars, sendVars, wakeVars>>

RmwStore ==
    /\ Thread("store", "argument")
    /\ rfmstate' = reg
    /\ UNCHANGED <<rxstate, bufVars, fixedLength, threadVars, radioVars, sendVars,
                   wakeVars>>

ArgLoad ==
    /\ Thread("argument", "xfer")
    /\ reg' = rfmstate
    /\ UNCHANGED <<rxstate, bufVars, fixedLength, rfmstate, arg, rmw, inNow, last,
                   radioVars, sendVars, wakeVars>>

rf12_xfer ==
    /\ pc = "xfer" /\ pc' = rmw.next
    /\ SetPower(reg)
    /\ reg' = {} /\ rmw' = NoRmw
    /\ UNCHANGED <<rxstate, bufVars, fixedLength, rfmstate, arg, inNow, last, thr, irq,
                   configured, sendVars, wakeVars>>

\* rf12_recvDone(), called by the sketch or by rf12_sendNow
AfterRecvDone == IF inNow THEN "canSend" ELSE "sketch"

recvDone ==
    /\ Thread("recvDone", IF rxstate = TXRECV /\ Complete(rxfill, rf12_len, fixedLength)
                            THEN "recvFull" ELSE "recvRestart")
    /\ UNCHANGED <<rxstate, bufVars, fixedLength, rfmstate, threadVars, radioVars,
                   sendVars, wakeVars>>

\* Mutant: the destination is not compared.
ForAnyone == TRUE

\* a broadcast packet, or it's addressed to this node
ForThisNode == ~rf12_hdr.dst \/ NodeId = 31 \/ rf12_hdr.node = NodeId

recvFull ==
    LET returns == fixedLength # 0 \/ ForThisNode
    IN /\ Thread("recvFull", IF returns THEN AfterRecvDone ELSE "recvRestart")
       /\ rxstate' = TXIDLE
       /\ rf12_crc' = IF fixedLength # 0 \/ rf12_len > RF12_MAXDATA
                        THEN CrcBad ELSE rf12_crc
       /\ last' = IF returns /\ ~inNow THEN "packet" ELSE last
       /\ UNCHANGED <<rxfill, rf12_hdr, rf12_len, rf12_data, drssi, fixedLength, rfmstate,
                      reg, arg, rmw, inNow, radioVars, sendVars, wakeVars>>

\* Mutant: reception is not restarted from TXIDLE.
RecvNotRestarted ==
    /\ Thread("recvRestart", AfterRecvDone)
    /\ UNCHANGED <<rxstate, bufVars, fixedLength, rfmstate, threadVars, radioVars,
                   sendVars, wakeVars>>

recvRestart ==
    /\ Thread("recvRestart", IF rxstate = TXIDLE THEN "recvStart" ELSE AfterRecvDone)
    /\ UNCHANGED <<rxstate, bufVars, fixedLength, rfmstate, threadVars, radioVars,
                   sendVars, wakeVars>>

rf12_recvStart ==
    /\ Thread("recvStart", "load")
    /\ rxfill' = 0 /\ rf12_len' = 0 /\ rf12_crc' = CrcStart
    /\ rxstate' = TXRECV
    /\ drssi' = 1 /\ thr' = 3
    /\ UpdatePower({}, {"rx", "xtal"}, AfterRecvDone)
    /\ given' = NoArg /\ frame' = <<>>
    /\ UNCHANGED <<rf12_hdr, rf12_data, fixedLength, rfmstate, reg, arg, inNow, last,
                   rfm, irq, air, configured, wakeVars>>

\* rf12_canSend()
canSend ==
    LET can == rxstate = TXRECV /\ rxfill = 0
    IN /\ Thread("canSend", IF can THEN "load" ELSE IF inNow THEN "recvDone" ELSE "sketch")
       /\ IF can THEN UpdatePower({"rx", "tx"}, {"xtal"}, "canSendYes") ELSE UNCHANGED rmw
       /\ UNCHANGED <<rxstate, bufVars, fixedLength, rfmstate, reg, arg, inNow, last,
                      radioVars, sendVars, wakeVars>>

canSendYes ==
    /\ Thread("canSendYes", IF inNow THEN "sendStart" ELSE "sketch")
    /\ rxstate' = TXIDLE
    /\ last' = "canSend"
    /\ UNCHANGED <<bufVars, fixedLength, rfmstate, reg, arg, rmw, inNow, radioVars,
                   sendVars, wakeVars>>

\* The header that goes out: a broadcast carries the sender's id.
OutHeader(h) == IF h.dst THEN h ELSE [h EXCEPT !.node = NodeId]

\* rf12_sendStart(): the buffer, then the state, then the transmitter
rf12_sendStart ==
    /\ Thread("sendStart", "sendPre")
    /\ rf12_len' = arg.len /\ rf12_hdr' = OutHeader(arg.hdr)
    /\ rf12_data' = [i \in DOMAIN rf12_data |-> IF i < arg.len THEN Own ELSE rf12_data[i]]
    /\ rf12_crc' = CrcStart
    /\ given' = arg /\ arg' = NoArg /\ frame' = <<>>
    /\ UNCHANGED <<rxstate, rxfill, drssi, fixedLength, rfmstate, reg, rmw, inNow, last,
                   radioVars, wakeVars>>

sendPre ==
    /\ Thread("sendPre", "load")
    /\ rxstate' = TXPRE1
    /\ UpdatePower({}, {"tx", "xtal"}, "sketch")
    /\ inNow' = FALSE /\ last' = "sent"
    /\ UNCHANGED <<bufVars, fixedLength, rfmstate, reg, arg, radioVars, sendVars, wakeVars>>

\* rf12_sendWait()
sendWait ==
    /\ Thread("sendWait", IF rxstate # TXIDLE THEN "sendWait" ELSE "sketch")
    /\ UNCHANGED <<rxstate, bufVars, fixedLength, rfmstate, threadVars, radioVars,
                   sendVars, wakeVars>>

\* rf12_sleep() after the transfer
sleepDone ==
    /\ Thread("sleepDone", "sketch")
    /\ rxstate' = TXIDLE
    /\ UNCHANGED <<bufVars, fixedLength, rfmstate, threadVars, radioVars, sendVars,
                   wakeVars>>

\* rf12_setWatchdog(m), m > 0, once the old timer is disabled
watchdogOn ==
    /\ Thread("watchdogOn", "load")
    /\ UpdatePower({}, {"wkup"}, "sketch")
    /\ asked' = TRUE
    /\ UNCHANGED <<rxstate, bufVars, fixedLength, rfmstate, reg, arg, inNow, last,
                   radioVars, sendVars, rf12_gotwakeup>>

\* rf12_watchdogFired() clears the flag it has read
watchdogClear ==
    /\ Thread("watchdogClear", "sketch")
    /\ rf12_gotwakeup' = FALSE
    /\ reg' = {}
    /\ UNCHANGED <<rxstate, bufVars, fixedLength, rfmstate, arg, rmw, inNow, last,
                   radioVars, sendVars, asked>>

\* the loop of rf12_initialize()
initWait ==
    /\ Thread("init", IF rxstate = UNINITIALIZED THEN "init" ELSE "restore")
    /\ UNCHANGED <<rxstate, bufVars, fixedLength, rfmstate, threadVars, radioVars,
                   sendVars, wakeVars>>

\* rf12_restore(): radio off, its registers, then the driver's state
rf12_restore ==
    /\ Thread("restore", "restoreRegs")
    /\ fixedLength' = 0
    /\ rfmstate' = {} /\ SetPower({})
    /\ UNCHANGED <<rxstate, bufVars, threadVars, thr, irq, configured, sendVars, wakeVars>>

restoreRegs ==
    /\ Thread("restoreRegs", "restoreDone")
    /\ configured' = TRUE /\ thr' = 2
    /\ UNCHANGED <<rxstate, bufVars, fixedLength, rfmstate, threadVars, rfm, irq, air,
                   sendVars, wakeVars>>

restoreDone ==
    /\ Thread("restoreDone", "sketch")
    /\ rxstate' = TXIDLE
    /\ UNCHANGED <<bufVars, fixedLength, rfmstate, threadVars, radioVars, sendVars,
                   wakeVars>>

-----------------------------------------------------------------------------
(* The sketch: which functions it calls, and when it may.                  *)

Call(f, to) == f \in Calls /\ Thread("sketch", to) /\ last' = "none"

CallRecvDone ==
    /\ Call("recvDone", "recvDone")
    /\ UNCHANGED <<rxstate, bufVars, fixedLength, rfmstate, reg, arg, rmw, inNow,
                   radioVars, sendVars, wakeVars>>

CallCanSend ==
    /\ Call("canSend", "canSend")
    /\ UNCHANGED <<rxstate, bufVars, fixedLength, rfmstate, reg, arg, rmw, inNow,
                   radioVars, sendVars, wakeVars>>

\* A request, once rf12_canSend() has returned true.
RequestHeader == [ctl |-> FALSE, dst |-> FALSE, ack |-> TRUE, node |-> 0]

CallSendStart ==
    /\ last = "canSend" /\ Call("canSend", "sendStart")
    /\ \E n \in SendLens : arg' = [hdr |-> RequestHeader, len |-> n]
    /\ UNCHANGED <<rxstate, bufVars, fixedLength, rfmstate, reg, rmw, inNow, radioVars,
                   sendVars, wakeVars>>

\* RF12_WANTS_ACK and RF12_ACK_REPLY
WantsAck == rf12_hdr.ack /\ ~rf12_hdr.ctl

AckReply == [ctl |-> TRUE, dst |-> ~rf12_hdr.dst, ack |-> FALSE,
             node |-> IF rf12_hdr.dst THEN 0 ELSE rf12_hdr.node]

\* The reply to a packet that rf12_recvDone() has just returned.
CallSendAck ==
    /\ last = "packet" /\ CrcZero(rf12_crc) /\ WantsAck
    /\ Call("ack", "sendStart")
    /\ arg' = [hdr |-> AckReply, len |-> 0]
    /\ UNCHANGED <<rxstate, bufVars, fixedLength, rfmstate, reg, rmw, inNow, radioVars,
                   sendVars, wakeVars>>

CallSendNow ==
    /\ Call("sendNow", "canSend")
    /\ \E n \in SendLens : arg' = [hdr |-> RequestHeader, len |-> n]
    /\ inNow' = TRUE
    /\ UNCHANGED <<rxstate, bufVars, fixedLength, rfmstate, reg, rmw, radioVars,
                   sendVars, wakeVars>>

CallSendWait ==
    /\ last = "sent" /\ Thread("sketch", "sendWait") /\ last' = "none"
    /\ UNCHANGED <<rxstate, bufVars, fixedLength, rfmstate, reg, arg, rmw, inNow,
                   radioVars, sendVars, wakeVars>>

CallSleep ==
    /\ Call("sleep", "load")
    /\ \/ UpdatePower({"rx", "tx"}, {"xtal"}, "sleepDone")      \* RF12_WAKEUP
       \/ UpdatePower(PowerOff, {}, "sleepDone")                \* RF12_SLEEP
    /\ UNCHANGED <<rxstate, bufVars, fixedLength, rfmstate, reg, arg, inNow, radioVars,
                   sendVars, wakeVars>>

\* rf12_setWatchdog(0) or (m): disable old wakeup-timer if enabled
CallSetWatchdog ==
    \E next \in {"sketch", "watchdogOn"} :
      /\ IF "wkup" \in rfmstate
           THEN Call("setWatchdog", "load") /\ UpdatePower({"wkup"}, {}, next)
           ELSE Call("setWatchdog", next) /\ UNCHANGED rmw
      /\ asked' = (asked /\ next # "sketch")
      /\ UNCHANGED <<rxstate, bufVars, fixedLength, rfmstate, reg, arg, inNow, radioVars,
                     sendVars, rf12_gotwakeup>>

CallWatchdogFired ==
    /\ Call("watchdogFired", "watchdogClear")
    /\ reg' = IF rf12_gotwakeup THEN {"wkup"} ELSE {}
    /\ UNCHANGED <<rxstate, bufVars, fixedLength, rfmstate, arg, rmw, inNow, radioVars,
                   sendVars, wakeVars>>

\* rf12_setFixedLength(), by a sketch that calls it only while the driver is
\* idle: it does not look at the packet that may be in the buffer
CallSetFixedLength ==
    /\ Call("setFixedLength", "sketch") /\ rxstate = TXIDLE
    /\ \E n \in FixedLens : fixedLength' = IF n > 0 THEN n + 1 ELSE 0
    /\ UNCHANGED <<rxstate, bufVars, rfmstate, reg, arg, rmw, inNow, radioVars, sendVars,
                   wakeVars>>

CallRestore ==
    /\ Call("restore", "restore")
    /\ UNCHANGED <<rxstate, bufVars, fixedLength, rfmstate, reg, arg, rmw, inNow,
                   radioVars, sendVars, wakeVars>>

-----------------------------------------------------------------------------
(* The specification.                                                      *)

\* rf12_initialize() has reset the radio and waits for it.
Init ==
    /\ rxstate = UNINITIALIZED /\ rxfill = 0
    /\ rf12_hdr = Noise.hdr /\ rf12_len = 0 /\ rf12_data = NoData
    /\ rf12_crc = CrcStart /\ drssi = 0 /\ fixedLength = 0 /\ rf12_gotwakeup = FALSE
    /\ rfmstate = {} /\ pc = "init" /\ reg = {} /\ rmw = NoRmw
    /\ arg = NoArg /\ inNow = FALSE /\ last = "none"
    /\ rfm = {} /\ thr = 0 /\ irq = {} /\ air = NoAir /\ configured = FALSE
    /\ given = NoArg /\ frame = <<>>
    /\ asked = FALSE

Radio == AirStart \/ AirByte \/ TxRequest \/ WakeUp \/ PowerOnReset

Driver ==
    \/ RmwLoad \/ RmwStore \/ ArgLoad \/ rf12_xfer
    \/ recvDone \/ recvFull \/ recvRestart \/ rf12_recvStart
    \/ canSend \/ canSendYes \/ rf12_sendStart \/ sendPre \/ sendWait \/ sleepDone
    \/ watchdogOn \/ watchdogClear
    \/ initWait \/ rf12_restore \/ restoreRegs \/ restoreDone

Sketch ==
    \/ CallRecvDone \/ CallCanSend \/ CallSendStart \/ CallSendAck \/ CallSendNow
    \/ CallSendWait \/ CallSleep \/ CallSetWatchdog \/ CallWatchdogFired
    \/ CallSetFixedLength \/ CallRestore

Next == Radio \/ rf12_interrupt \/ Driver \/ Sketch

Spec == Init /\ [][Next]_vars

\* The CPU runs the driver and serves the radio's interrupt; the radio leaves
\* its reset, delivers the bytes of a packet it has begun to receive and asks
\* for the ones to send.  Nothing is assumed of packets and of the sketch.
Fairness ==
    /\ WF_vars(Driver) /\ WF_vars(rf12_interrupt)
    /\ WF_vars(AirByte) /\ WF_vars(TxRequest) /\ WF_vars(PowerOnReset)

FairSpec == Spec /\ Fairness

-----------------------------------------------------------------------------
(* Properties.                                                             *)

PowerBits == {"rx", "tx", "xtal", "wkup"}
ControlPoints ==
    {"init", "restore", "restoreRegs", "restoreDone", "sketch", "recvDone", "recvFull",
     "recvRestart", "recvStart", "canSend", "canSendYes", "sendStart", "sendPre",
     "sendWait", "sleepDone", "watchdogOn", "watchdogClear",
     "load", "store", "argument", "xfer"}
AirPackets == Packets \cup {Noise, Own}
FrameBytes == {"AA", "2D", "group", "hdr", "len", "data", "crc", "crc8"}
Args == [hdr : Header, len : 0 .. RF12_MAXDATA]

\* The values each variable can hold; rxfill stays inside rf12_buf.
TypeOK ==
    /\ rxstate \in -128 .. TXSYN2
    /\ rxfill \in 0 .. RF_MAX /\ rf12_hdr \in Header /\ rf12_len \in 0 .. 255
    /\ rf12_data \in [0 .. RF12_MAXDATA - 1 -> AirPackets]
    /\ rf12_crc \in [of : AirPackets, n : Int]
    /\ drssi \in 0 .. 6 /\ fixedLength \in 0 .. RF12_MAXDATA
    /\ rf12_gotwakeup \in BOOLEAN
    /\ rfmstate \subseteq PowerBits /\ rfm \subseteq PowerBits /\ reg \subseteq PowerBits
    /\ pc \in ControlPoints /\ arg \in Args /\ given \in Args
    /\ rmw.off \subseteq PowerBits /\ rmw.on \subseteq PowerBits
    /\ rmw.next \in ControlPoints
    /\ inNow \in BOOLEAN /\ last \in {"none", "packet", "canSend", "sent"}
    /\ thr \in 0 .. 5 /\ irq \subseteq {"FIFO", "OVF", "WDG", "POR"}
    /\ air \in [pkt : AirPackets, n : Nat] /\ configured \in BOOLEAN
    /\ \A i \in DOMAIN frame : frame[i][1] \in FrameBytes
    /\ asked \in BOOLEAN

\* What rf12_recvDone() hands to the sketch with a zero CRC is one undamaged
\* packet, whole and from its first byte, addressed to this node; nothing the
\* radio or the interrupt does changes it until the sketch's next call.
GoodPacketIsWhole ==
    pc = "sketch" /\ last = "packet" /\ CrcZero(rf12_crc) =>
        \E p \in Packets :
            /\ p.ok /\ rf12_crc.of = p
            /\ rf12_hdr = p.hdr /\ rf12_len = p.len
            /\ p.hdr.dst /\ NodeId # 31 => p.hdr.node = NodeId
            /\ \A i \in 0 .. p.len - 1 : rf12_data[i] = p

\* Between calls the radio does what rxstate says: off in TXIDLE, receiving
\* or done with a packet in TXRECV, transmitting while a packet is sent; and
\* the driver is never back in the states of rf12_initialize.
RadioFollowsState ==
    pc = "sketch" /\ irq = {} =>
        /\ rxstate \notin {UNINITIALIZED, POR_RECEIVED}
        /\ rxstate = TXIDLE => rfm \cap {"rx", "tx"} = {}
        /\ rxstate = TXRECV =>
             "rx" \in rfm \/ Complete(rxfill, rf12_len, fixedLength)
        /\ rxstate \notin {TXIDLE, TXRECV} => "tx" \in rfm

\* The frame on the air for a packet the sketch gave to rf12_sendStart.
FrameOf(a) ==
    <<<<"AA", 0>>, <<"AA", 0>>, <<"AA", 0>>, <<"2D", 0>>, <<"group", 0>>,
      <<"hdr", OutHeader(a.hdr)>>, <<"len", a.len>>>>
    \o [i \in 1 .. a.len |-> <<"data", Own>>]
    \o <<<<"crc", a.len + 2>>, <<"crc8", a.len + 2>>, <<"AA", 0>>, <<"AA", 0>>>>

\* Byte by byte the interrupt sends the frame of the packet it was given: its
\* CRC covers every byte, and the state is idle again only when the frame is
\* out or was aborted.
SentAsGiven ==
    [][frame' # frame /\ frame' # <<>> =>
          /\ IsPrefix(frame', FrameOf(given))
          /\ rxstate' = TXIDLE /\ "OVF" \notin irq => frame' = FrameOf(given)]_vars

\* The band of signal strengths that each final state of the search stands for.
Band(level) == IF level >= 5 THEN 6 ELSE IF level >= 3 THEN 5 ELSE IF level >= 1 THEN 4 ELSE 3

\* When a good packet was long enough for the search to finish, rf12_getRSSI
\* reports the band its signal was in.
RssiIsTheBand ==
    pc = "sketch" /\ last = "packet" /\ CrcZero(rf12_crc) /\ drssi >= 3 =>
        drssi = Band(rf12_crc.of.level)

\* Once no new packets come in, every driver function returns to the sketch:
\* the loops of rf12_initialize, rf12_sendNow and rf12_sendWait end.
CallsReturn == <>[][~AirStart]_vars => []<>(pc = "sketch")

\* A wake-up the sketch has asked for stands until it fires or is disabled,
\* whatever else switches the receiver, the transmitter or the crystal.
WakeUpStands == pc = "sketch" /\ asked => "wkup" \in rfm

\* rf12_interrupt stops the receiver when "all the bytes (or maximum packet
\* length)" are in: the fill count stays inside rf12_buf.
BufferBound == rxfill <= RF_MAX

=============================================================================
