----------------------------- MODULE RF12Proofs -----------------------------
(***************************************************************************)
(* The RFM12B driver for every buffer size, set of packets and sequence of *)
(* calls: the radio follows the driver's state, so the interrupt stays     *)
(* inside rf12_buf and a packet with a good CRC is the one that was sent.  *)
(***************************************************************************)
EXTENDS RF12, SequenceTheorems, TLAPS

\* The sketch does not use the wake-up timer: rf12_setWatchdog() races with the
\* interrupt (run rf12_watchdog_race).
NoWatchdog == "setWatchdog" \notin Calls

-----------------------------------------------------------------------------
(* The inductive invariants.                                               *)

\* A read-modify-write of rfmstate is under way.
InRmw == pc \in {"load", "store", "argument", "xfer"}

\* The bits of receiver and transmitter, which cause interrupts, in a value of
\* the power register.
Off(s) == "rx" \notin s /\ "tx" \notin s
RxOnly(s) == "rx" \in s /\ "tx" \notin s
TxOnly(s) == "tx" \in s /\ "rx" \notin s
Agree(s, t) == ("rx" \in s <=> "rx" \in t) /\ ("tx" \in s <=> "tx" \in t)

\* What a read-modify-write is for.
TurnsRxOn == InRmw /\ Off(rmw.off) /\ RxOnly(rmw.on) /\ rmw.next \in {"sketch", "canSend"}
TurnsTxOn == InRmw /\ Off(rmw.off) /\ TxOnly(rmw.on) /\ rmw.next = "sketch"
TurnsOff == InRmw /\ "rx" \in rmw.off /\ "tx" \in rmw.off /\ Off(rmw.on)
              /\ rmw.next \in {"canSendYes", "sleepDone"}

\* The states of a driver that neither receives nor sends.
Idling == rxstate \in {TXIDLE, UNINITIALIZED, POR_RECEIVED}

\* All the bytes of the packet are in.
PacketDone == Complete(rxfill, rf12_len, fixedLength)

\* The radio does what rxstate says.
Follows ==
    /\ Idling => Off(rfm)
    /\ rxstate = TXRECV => IF PacketDone THEN Off(rfm) ELSE RxOnly(rfm)
    /\ ~Idling /\ rxstate # TXRECV => TxOnly(rfm)

\* The radio is off, whatever rxstate says: it is about to be switched on, or
\* rxstate is about to be set.
Resting == TurnsRxOn \/ TurnsTxOn
             \/ pc \in {"canSendYes", "sleepDone", "restoreRegs", "restoreDone"}

\* The power bits, their copy in rfmstate and the register of the
\* read-modify-write at each of its steps.
Power ==
    /\ IF Resting THEN Off(rfm) ELSE Follows
    /\ pc \notin {"argument", "xfer"} => Agree(rfmstate, rfm)
    /\ InRmw => TurnsRxOn \/ TurnsTxOn \/ TurnsOff
Halfway ==
    /\ TurnsOff => /\ pc \in {"store", "xfer"} => Off(reg)
                   /\ pc \in {"argument", "xfer"} => Off(rfmstate)
    /\ TurnsRxOn => /\ irq = {} /\ rxstate = TXRECV /\ rxfill = 0
                    /\ pc \in {"store", "xfer"} => RxOnly(reg)
                    /\ pc \in {"argument", "xfer"} => RxOnly(rfmstate)
    /\ TurnsTxOn => /\ irq = {} /\ rxstate = TXPRE1
                    /\ pc \in {"store", "xfer"} => TxOnly(reg)
                    /\ pc \in {"argument", "xfer"} => TxOnly(rfmstate)

\* Interrupts come from a radio that is on: there is a byte to send or room for
\* the one received.
Pending ==
    /\ "wkup" \notin rfm /\ "wkup" \notin rfmstate
    /\ InRmw => "wkup" \notin rmw.on
    /\ pc \in {"store", "xfer"} => "wkup" \notin reg
    /\ "WDG" \notin irq
    /\ "POR" \in irq => pc = "init" /\ rxstate = UNINITIALIZED /\ irq = {"POR"}
    /\ "FIFO" \in irq \/ "OVF" \in irq => ~Idling /\ (rxstate = TXRECV => ~PacketDone)

\* Where the sketch's thread can be in which state.
Control ==
    /\ rxstate \in {UNINITIALIZED, POR_RECEIVED} =>
         pc \in {"init", "restore", "restoreRegs", "restoreDone"}
    /\ pc = "init" => rxstate \in {UNINITIALIZED, POR_RECEIVED}
    /\ pc \in {"recvStart", "sendStart", "sendPre"} => rxstate = TXIDLE
    /\ pc = "recvFull" => rxstate = TXRECV /\ PacketDone
    /\ last \in {"canSend", "packet"} => rxstate = TXIDLE /\ pc \in {"sketch", "sendStart", "sendPre"}
    /\ last = "packet" => pc = "sketch"
    /\ pc # "watchdogOn"

\* What is being sent fits into the buffer.
SendBound ==
    /\ pc = "sendPre" \/ (~Idling /\ rxstate # TXRECV) => rf12_len <= RF12_MAXDATA
    /\ rxstate < 0 => rxstate >= - (2 + rf12_len)

\* The receiver is on or about to be; in the remaining states of TXRECV it was
\* switched off and a last byte may still come in.
Listening ==
    rxstate = TXRECV /\ pc \notin {"canSendYes", "sleepDone", "restoreRegs", "restoreDone"}

\* The buffer holds the packet that the CRC has been computed over.
Stored ==
    /\ rf12_crc.n = 0 => rxfill = 0
    /\ rf12_crc.n >= 1 =>
         /\ rf12_crc.of \in Packets \cup {Noise} /\ rxfill = rf12_crc.n + 1
         /\ rf12_hdr = rf12_crc.of.hdr
         /\ rf12_crc.n >= 2 => rf12_len = rf12_crc.of.len
         /\ \A k \in 0 .. RF12_MAXDATA - 1 : k + 3 <= rf12_crc.n => rf12_data[k] = rf12_crc.of
Accepted == rf12_len <= RF12_MAXDATA /\ ForThisNode
Reception ==
    /\ Listening \/ last = "packet" => Stored
    /\ last = "packet" /\ CrcZero(rf12_crc) => Accepted

\* A byte that is received belongs to what is on the air.
OnAir ==
    /\ air.pkt \in Packets \cup {Noise} /\ (air # NoAir => air.n >= 1)
    /\ "FIFO" \in irq /\ "rx" \in rfm => air # NoAir

\* The search for the signal strength has narrowed it down.
Narrowed ==
    /\ rf12_crc.n = 0 => drssi = 1
    /\ rf12_crc.n >= 1 =>
         /\ drssi = 0 => rf12_crc.of.level < 3
         /\ drssi = 2 => rf12_crc.of.level >= 3
         /\ drssi >= 3 => drssi = Band(rf12_crc.of.level)
Search ==
    /\ Listening \/ last = "packet" => Narrowed
    /\ Listening /\ drssi < 3 => thr = 2 * drssi + 1

\* How many bytes of the frame are out.
IsSending == ~Idling /\ rxstate # TXRECV
BytesOut == IF rxstate >= TXPRE1 THEN rxstate - TXPRE1 ELSE 7 + rf12_len + rxstate

\* The buffer holds what the sketch gave, and the frame so far is that packet's.
Underway ==
    /\ rf12_hdr = OutHeader(given.hdr) /\ rf12_len = given.len
    /\ \A i \in 0 .. given.len - 1 : rf12_data[i] = Own
    /\ \A i \in 1 .. Len(frame) : frame[i] = FrameOf(given)[i]

\* The CRC has taken in the header, the length and the data bytes sent so far.
CrcSent ==
    /\ rxstate >= TXPRE1 => rf12_crc.n = 0
    /\ rxstate < 0 => /\ rf12_crc.n = 2 + rf12_len + rxstate
                      /\ rf12_crc.n >= 1 => rf12_crc.of = Own
    /\ rxstate \in 0 .. TXDONE => rf12_crc.n = 2 + rf12_len

Transmission ==
    /\ pc = "sendPre" => Underway /\ rf12_crc.n = 0 /\ Len(frame) = 0
    /\ IsSending => Underway /\ CrcSent /\ Len(frame) = BytesOut

-----------------------------------------------------------------------------
(* What the steps do.                                                      *)

\* The interrupt switches the radio off: a packet is in or out, or an error.
Idles ==
    \/ Receiving /\ Complete(rxfill', rf12_len', fixedLength)
    \/ Sending /\ rxstate = TXDONE
    \/ "OVF" \in irq

\* The power bits after an interrupt that is not the wake-up timer's.
LEMMA InterruptPowerEffect ==
    ASSUME rf12_interrupt, "WDG" \notin irq
    PROVE  /\ irq' = {}
           /\ Idles => rfmstate' = Idle(rfmstate) /\ rfm' = rfmstate' /\ air' = NoAir
           /\ ~Idles => rfmstate' = rfmstate /\ rfm' = rfm /\ air' = air
<1>1. InterruptPower(Idles) /\ irq' = {}
  BY Zenon DEF rf12_interrupt, Idles
<1>2. rfmstate' = IF Idles THEN Idle(rfmstate) ELSE rfmstate
  BY <1>1, Zenon DEF InterruptPower
<1>3. IF Idles THEN SetPower(rfmstate') ELSE UNCHANGED <<rfm, air>>
  BY <1>1, Zenon DEF InterruptPower
<1>4. "rx" \notin Idle(rfmstate)
  BY DEF Idle
<1> QED BY <1>1, <1>2, <1>3, <1>4 DEF SetPower

\* The state after an interrupt.
LEMMA InterruptStateEffect ==
    ASSUME rf12_interrupt
    PROVE  /\ "OVF" \in irq => rxstate' = TXIDLE
           /\ "OVF" \notin irq /\ "POR" \in irq => rxstate' = POR_RECEIVED
           /\ "OVF" \notin irq /\ "POR" \notin irq =>
                rxstate' = IF Sending THEN NextState ELSE rxstate
BY DEF rf12_interrupt, AfterErrors

\* The buffer after an interrupt.
LEMMA InterruptBufferEffect ==
    ASSUME rf12_interrupt
    PROVE  /\ Receiving => StoreByte /\ frame' = frame
           /\ Sending => SendByte
           /\ ~Fifo => UNCHANGED <<bufVars, thr, frame>>
           /\ UNCHANGED <<fixedLength, pc, reg, arg, rmw, last, given>>
           /\ UNCHANGED <<inNow, configured>>
BY Zenon DEF rf12_interrupt, Receiving, Sending, threadVars

\* A radio that is on has a byte to send or room for the one it receives.
LEMMA RadioOn ==
    ASSUME Power, "rx" \in rfm \/ "tx" \in rfm
    PROVE  /\ ~Idling /\ (rxstate = TXRECV => ~PacketDone)
           /\ "rx" \in rfm <=> rxstate = TXRECV
BY DEF Power, Follows, Off, RxOnly, TxOnly, Idling, TXRECV, TXIDLE, UNINITIALIZED, POR_RECEIVED

\* Sending goes through the states of one packet and ends in TXIDLE.
LEMMA NextSending ==
    ASSUME TypeOK, SendBound, ~Idling, rxstate # TXRECV
    PROVE  /\ rxstate = TXDONE => NextState = TXIDLE
           /\ rxstate # TXDONE => NextState \in -128 .. 3 \cup 9 .. TXSYN2
           /\ NextState < 0 => NextState >= - (2 + rf12_len)
<1> USE DEF Idling, TXDONE, TXIDLE, UNINITIALIZED, POR_RECEIVED, TXRECV, TXSYN2
<1>1. rxstate \in -128 .. 12 /\ rf12_len \in 0 .. 255 /\ rf12_len <= RF12_MAXDATA
  BY DEF TypeOK, SendBound
<1>2. RF12_MAXDATA \in Nat /\ RF12_MAXDATA < 125
  BY SizeAssumption
<1>3. rxstate < 0 => rxstate >= - (2 + rf12_len)
  BY DEF SendBound
<1>4. rxstate \notin {4, 5, 6, 7}
  OBVIOUS
<1>5. CASE rxstate = TXSYN2
  <2>1. NextState = - (2 + rf12_len)
    BY <1>5 DEF NextState, DataState
  <2> QED BY <1>1, <1>2, <1>5, <2>1
<1>6. CASE rxstate # TXSYN2
  <2>1. NextState = rxstate + 1
    BY <1>6 DEF NextState
  <2> QED BY <1>1, <1>2, <1>3, <1>4, <1>6, <2>1
<1> QED BY <1>5, <1>6

\* What an interrupt does to the state: the reset is noted, the radio is
\* switched off, or the exchange goes on.
LEMMA InterruptCases ==
    ASSUME TypeOK, Power, Halfway, Pending, SendBound, rf12_interrupt
    PROVE  /\ ~TurnsRxOn /\ ~TurnsTxOn /\ (rxstate = TXRECV => ~PacketDone)
           /\ \/ /\ ~Idles /\ pc = "init" /\ irq = {"POR"} /\ rxstate' = POR_RECEIVED
                 /\ UNCHANGED <<bufVars, thr, frame>>
              \/ Idles /\ ~Idling /\ rxstate' = TXIDLE
              \/ Idles /\ Receiving /\ rxstate = TXRECV /\ rxstate' = TXRECV /\ PacketDone'
              \/ ~Idles /\ Receiving /\ rxstate = TXRECV /\ rxstate' = TXRECV /\ ~PacketDone'
              \/ /\ ~Idles /\ Sending /\ rxstate # TXRECV /\ ~Idling
                 /\ rxstate' = NextState /\ NextState \in -128 .. 3 \cup 9 .. TXSYN2
<1>1. irq # {} /\ irq \subseteq {"FIFO", "OVF", "WDG", "POR"} /\ "WDG" \notin irq
  BY DEF rf12_interrupt, TypeOK, Pending
<1>2. ~TurnsRxOn /\ ~TurnsTxOn
  BY <1>1 DEF Halfway
<1>3. CASE "POR" \in irq
  <2>1. irq = {"POR"} /\ pc = "init"
    BY <1>3 DEF Pending
  <2>2. ~Fifo /\ ~Receiving /\ ~Sending /\ ~Idles /\ rxstate # TXRECV
    BY <1>3, <2>1 DEF Fifo, Receiving, Sending, Idles, Pending, UNINITIALIZED, TXRECV
  <2> QED BY <1>2, <1>3, <2>1, <2>2, InterruptStateEffect, InterruptBufferEffect, Zenon
<1>4. CASE "POR" \notin irq
  <2>1. "FIFO" \in irq \/ "OVF" \in irq
    BY <1>1, <1>4
  <2>2. ~Idling /\ (rxstate = TXRECV => ~PacketDone)
    BY <2>1 DEF Pending
  <2>3. CASE "OVF" \in irq
    BY <1>2, <2>2, <2>3, InterruptStateEffect DEF Idles
  <2>4. CASE "OVF" \notin irq /\ rxstate = TXRECV
    <3>1. Receiving /\ ~Sending /\ rxstate' = TXRECV
      BY <1>4, <2>1, <2>4, InterruptStateEffect DEF Receiving, Sending, Fifo
    <3>2. PacketDone' <=> Idles
      BY <3>1, <2>4, InterruptBufferEffect DEF Idles, PacketDone
    <3> QED BY <1>2, <2>2, <2>4, <3>1, <3>2
  <2>5. CASE "OVF" \notin irq /\ rxstate # TXRECV
    <3>1. Sending /\ ~Receiving /\ rxstate' = NextState
      BY <1>4, <2>1, <2>5, InterruptStateEffect DEF Receiving, Sending, Fifo
    <3>2. Idles <=> rxstate = TXDONE
      BY <3>1, <2>5 DEF Idles
    <3> QED BY <1>2, <2>2, <2>5, <3>1, <3>2, NextSending
  <2> QED BY <2>3, <2>4, <2>5
<1> QED BY <1>3, <1>4

\* A packet is not complete before its first byte.
LEMMA EmptyNotDone == ASSUME TypeOK, rxfill = 0 PROVE ~PacketDone
BY SizeAssumption DEF TypeOK, PacketDone, Complete, RF_MAX

-----------------------------------------------------------------------------
(* The radio follows the driver's state.                                  *)

\* The sketch's thread is where the state lets it be.
LEMMA ControlStep == ASSUME NoWatchdog, TypeOK, Power, Halfway, Pending,
    Control, SendBound, Next PROVE Control'
<1> USE DEF Control, InRmw, TurnsRxOn, TurnsTxOn, TurnsOff, PacketDone,
      Idling, Power, Thread, Call, UpdatePower, SetPower, AfterRecvDone, bufVars,
      radioVars, threadVars, sendVars, wakeVars, TXIDLE, UNINITIALIZED,
      POR_RECEIVED, TXRECV, TXPRE1
<1>1. CASE AirStart \/ AirByte \/ TxRequest
  BY <1>1 DEF AirStart, AirByte, TxRequest
<1>2. CASE PowerOnReset
  BY <1>2 DEF PowerOnReset
<1>3. CASE rf12_interrupt
  <2>1. UNCHANGED <<pc, last>>
    BY <1>3, InterruptBufferEffect
  <2> QED BY <1>3, <2>1, InterruptCases DEF Pending, TXSYN2
<1>4. CASE RmwLoad \/ RmwStore \/ ArgLoad
  BY <1>4 DEF RmwLoad, RmwStore, ArgLoad
<1>5. CASE rf12_xfer
  BY <1>5 DEF rf12_xfer
<1>6. CASE recvDone \/ recvFull \/ recvRestart \/ rf12_recvStart
  BY <1>6 DEF recvDone, recvFull, recvRestart, rf12_recvStart
<1>7. CASE canSend \/ canSendYes \/ rf12_sendStart \/ sendPre
            \/ sendWait
  BY <1>7 DEF canSend, canSendYes, rf12_sendStart, sendPre, sendWait
<1>8. CASE sleepDone \/ watchdogClear \/ initWait \/ rf12_restore
            \/ restoreRegs \/ restoreDone
  BY <1>8 DEF sleepDone, watchdogClear, initWait, rf12_restore, restoreRegs,
    restoreDone
<1>9. CASE CallRecvDone \/ CallCanSend \/ CallSendStart \/ CallSendAck
            \/ CallSendNow \/ CallSendWait
  BY <1>9 DEF CallRecvDone, CallCanSend, CallSendStart, CallSendAck, CallSendNow,
    CallSendWait
<1>10. CASE CallSleep \/ CallWatchdogFired \/ CallSetFixedLength
            \/ CallRestore
  BY <1>10 DEF CallSleep, CallWatchdogFired, CallSetFixedLength, CallRestore
<1>11. ~WakeUp /\ ~watchdogOn /\ ~CallSetWatchdog
  BY DEF WakeUp, watchdogOn, CallSetWatchdog, NoWatchdog, Pending, Control, Call,
    Thread
<1> QED BY <1>1, <1>2, <1>3, <1>4, <1>5, <1>6, <1>7, <1>8, <1>9, <1>10, <1>11
    DEF Next, Radio, Driver, Sketch

\* An interrupt is pending only while the radio is on.
LEMMA PendingStep == ASSUME NoWatchdog, TypeOK, Power, Halfway, Pending,
    Control, SendBound, Next PROVE Pending'
<1> USE DEF Pending, InRmw, TurnsRxOn, TurnsTxOn, TurnsOff, PacketDone,
      Idling, Power, Thread, Call, UpdatePower, SetPower, AfterRecvDone, bufVars,
      radioVars, threadVars, sendVars, wakeVars, TXIDLE, UNINITIALIZED,
      POR_RECEIVED, TXRECV, TXPRE1
<1>1. CASE AirStart \/ AirByte \/ TxRequest
  <2>1. UNCHANGED <<pc, rfm, rfmstate, reg, rmw, rxstate, rxfill, rf12_len, fixedLength>>
    BY <1>1 DEF AirStart, AirByte, TxRequest
  <2>2. ~Idling /\ (rxstate = TXRECV => ~PacketDone) /\ "POR" \notin irq
    BY <1>1, RadioOn DEF AirStart, AirByte, TxRequest
  <2>3. "WDG" \notin irq' /\ "POR" \notin irq'
    BY <1>1, <2>2 DEF AirStart, AirByte, TxRequest
  <2> QED BY <2>1, <2>2, <2>3
<1>2. CASE PowerOnReset
  BY <1>2 DEF PowerOnReset
<1>3. CASE rf12_interrupt
  <2>1. UNCHANGED <<pc, reg, rmw>> /\ irq' = {}
    BY <1>3, InterruptBufferEffect, InterruptPowerEffect
  <2> QED BY <1>3, <2>1, InterruptPowerEffect DEF Idle
<1>4. CASE RmwLoad \/ RmwStore \/ ArgLoad
  BY <1>4 DEF RmwLoad, RmwStore, ArgLoad
<1>5. CASE rf12_xfer
  BY <1>5 DEF rf12_xfer
<1>6. CASE recvDone \/ recvFull \/ recvRestart \/ rf12_recvStart
  BY <1>6 DEF recvDone, recvFull, recvRestart, rf12_recvStart
<1>7. CASE canSend \/ canSendYes \/ rf12_sendStart \/ sendPre
            \/ sendWait
  BY <1>7 DEF canSend, canSendYes, rf12_sendStart, sendPre, sendWait
<1>8. CASE sleepDone \/ watchdogClear \/ initWait \/ rf12_restore
            \/ restoreRegs \/ restoreDone
  BY <1>8 DEF sleepDone, watchdogClear, initWait, rf12_restore, restoreRegs,
    restoreDone
<1>9. CASE CallRecvDone \/ CallCanSend \/ CallSendStart \/ CallSendAck
            \/ CallSendNow \/ CallSendWait
  BY <1>9 DEF CallRecvDone, CallCanSend, CallSendStart, CallSendAck, CallSendNow,
    CallSendWait
<1>10. CASE CallSleep \/ CallWatchdogFired \/ CallSetFixedLength
            \/ CallRestore
  BY <1>10 DEF CallSleep, CallWatchdogFired, CallSetFixedLength, CallRestore
<1>11. ~WakeUp /\ ~watchdogOn /\ ~CallSetWatchdog
  BY DEF WakeUp, watchdogOn, CallSetWatchdog, NoWatchdog, Pending, Control, Call,
    Thread
<1> QED BY <1>1, <1>2, <1>3, <1>4, <1>5, <1>6, <1>7, <1>8, <1>9, <1>10, <1>11
    DEF Next, Radio, Driver, Sketch

\* The radio follows the driver's state.
LEMMA PowerStep == ASSUME NoWatchdog, TypeOK, Power, Halfway, Pending, Control,
    SendBound, Next PROVE Power'
<1> USE DEF Power, InRmw, TurnsRxOn, TurnsTxOn, TurnsOff, Resting, Follows,
      Off, RxOnly, TxOnly, Agree, PacketDone, Idling, Control, Thread, Call,
      UpdatePower, SetPower, AfterRecvDone, bufVars, radioVars, threadVars,
      sendVars, wakeVars, TXIDLE, UNINITIALIZED, POR_RECEIVED, TXRECV, TXPRE1
<1>1. CASE AirStart \/ AirByte \/ TxRequest
  BY <1>1 DEF AirStart, AirByte, TxRequest
<1>2. CASE PowerOnReset
  BY <1>2 DEF PowerOnReset
<1>3. CASE rf12_interrupt
  <2>1. UNCHANGED <<pc, reg, rmw>>
    BY <1>3, InterruptBufferEffect
  <2>2. "WDG" \notin irq
    BY DEF Pending
  <2>3. CASE Idles
    BY <1>3, <2>1, <2>2, <2>3, InterruptCases, InterruptPowerEffect DEF Idle
  <2>4. CASE ~Idles
    <3>1. UNCHANGED <<rfm, rfmstate>>
      BY <1>3, <2>2, <2>4, InterruptPowerEffect
    <3>2. CASE Resting
      BY <2>1, <3>1, <3>2
    <3>3. CASE ~Resting
      <4>1. Resting' <=> Resting
        BY <2>1
      <4>2. Follows'
        BY <1>3, <2>4, <3>1, <3>3, InterruptCases DEF TXSYN2, Pending
      <4> QED BY <2>1, <3>1, <3>3, <4>1, <4>2
    <3> QED BY <3>2, <3>3
  <2> QED BY <2>3, <2>4
<1>4. CASE RmwLoad \/ RmwStore \/ ArgLoad
  BY <1>4 DEF RmwLoad, RmwStore, ArgLoad
<1>5. CASE rf12_xfer
  BY <1>5, EmptyNotDone DEF rf12_xfer, Halfway
<1>6. CASE recvDone \/ recvFull \/ recvRestart \/ rf12_recvStart
  BY <1>6 DEF recvDone, recvFull, recvRestart, rf12_recvStart
<1>7. CASE canSend \/ canSendYes \/ rf12_sendStart \/ sendPre
            \/ sendWait
  BY <1>7 DEF canSend, canSendYes, rf12_sendStart, sendPre, sendWait
<1>8. CASE sleepDone \/ watchdogClear \/ initWait \/ rf12_restore
            \/ restoreRegs \/ restoreDone
  BY <1>8 DEF sleepDone, watchdogClear, initWait, rf12_restore, restoreRegs,
    restoreDone
<1>9. CASE CallRecvDone \/ CallCanSend \/ CallSendStart \/ CallSendAck
            \/ CallSendNow \/ CallSendWait
  BY <1>9 DEF CallRecvDone, CallCanSend, CallSendStart, CallSendAck, CallSendNow,
    CallSendWait
<1>10. CASE CallSleep \/ CallWatchdogFired \/ CallSetFixedLength
            \/ CallRestore
  BY <1>10 DEF CallSleep, CallWatchdogFired, CallSetFixedLength, CallRestore, PowerOff
<1>11. ~WakeUp /\ ~watchdogOn /\ ~CallSetWatchdog
  BY DEF WakeUp, watchdogOn, CallSetWatchdog, NoWatchdog, Pending, Control, Call,
    Thread
<1> QED BY <1>1, <1>2, <1>3, <1>4, <1>5, <1>6, <1>7, <1>8, <1>9, <1>10, <1>11
    DEF Next, Radio, Driver, Sketch

\* A read-modify-write of the power bits writes what it is for.
LEMMA HalfwayStep == ASSUME NoWatchdog, TypeOK, Power, Halfway, Pending,
    Control, SendBound, Next PROVE Halfway'
<1> USE DEF Halfway, Power, InRmw, TurnsRxOn, TurnsTxOn, TurnsOff, Resting,
      Follows, Off, RxOnly, TxOnly, Agree, PacketDone, Idling, Control, Thread,
      Call, UpdatePower, SetPower, AfterRecvDone, bufVars, radioVars, threadVars,
      sendVars, wakeVars, TXIDLE, UNINITIALIZED, POR_RECEIVED, TXRECV, TXPRE1
<1>1. CASE AirStart \/ AirByte \/ TxRequest
  BY <1>1 DEF AirStart, AirByte, TxRequest
<1>2. CASE PowerOnReset
  BY <1>2 DEF PowerOnReset
<1>3. CASE rf12_interrupt
  <2>1. UNCHANGED <<pc, reg, rmw>> /\ ~TurnsRxOn /\ ~TurnsTxOn
    BY <1>3, InterruptBufferEffect, InterruptCases
  <2> QED BY <1>3, <2>1, InterruptPowerEffect DEF Idle, Pending
<1>4. CASE RmwLoad \/ RmwStore \/ ArgLoad
  BY <1>4 DEF RmwLoad, RmwStore, ArgLoad
<1>5. CASE rf12_xfer
  BY <1>5 DEF rf12_xfer
<1>6. CASE recvDone \/ recvFull \/ recvRestart \/ rf12_recvStart
  BY <1>6 DEF recvDone, recvFull, recvRestart, rf12_recvStart
<1>7. CASE canSend \/ canSendYes \/ rf12_sendStart \/ sendPre
            \/ sendWait
  BY <1>7 DEF canSend, canSendYes, rf12_sendStart, sendPre, sendWait
<1>8. CASE sleepDone \/ watchdogClear \/ initWait \/ rf12_restore
            \/ restoreRegs \/ restoreDone
  BY <1>8 DEF sleepDone, watchdogClear, initWait, rf12_restore, restoreRegs,
    restoreDone
<1>9. CASE CallRecvDone \/ CallCanSend \/ CallSendStart \/ CallSendAck
            \/ CallSendNow \/ CallSendWait
  BY <1>9 DEF CallRecvDone, CallCanSend, CallSendStart, CallSendAck, CallSendNow,
    CallSendWait
<1>10. CASE CallSleep \/ CallWatchdogFired \/ CallSetFixedLength
            \/ CallRestore
  BY <1>10 DEF CallSleep, CallWatchdogFired, CallSetFixedLength, CallRestore
<1>11. ~WakeUp /\ ~watchdogOn /\ ~CallSetWatchdog
  BY DEF WakeUp, watchdogOn, CallSetWatchdog, NoWatchdog, Pending, Control, Call,
    Thread
<1> QED BY <1>1, <1>2, <1>3, <1>4, <1>5, <1>6, <1>7, <1>8, <1>9, <1>10, <1>11
    DEF Next, Radio, Driver, Sketch

\* What is being sent fits into the buffer.
LEMMA SendBoundStep == ASSUME NoWatchdog, TypeOK, Power, Halfway, Pending,
    Control, SendBound, Next PROVE SendBound'
<1> USE DEF SendBound, Idling, Control, Thread, Call, UpdatePower, SetPower,
      AfterRecvDone, bufVars, radioVars, threadVars, sendVars, wakeVars, TXIDLE,
      UNINITIALIZED, POR_RECEIVED, TXRECV, TXPRE1
<1>1. CASE AirStart \/ AirByte \/ TxRequest
  BY <1>1 DEF AirStart, AirByte, TxRequest
<1>2. CASE PowerOnReset
  BY <1>2 DEF PowerOnReset
<1>3. CASE rf12_interrupt
  <2>1. pc' = pc
    BY <1>3, InterruptBufferEffect
  <2>2. rf12_len' = rf12_len \/ (rxstate = TXRECV /\ Receiving)
    BY <1>3, InterruptBufferEffect DEF Receiving, Sending, SendByte
  <2>3. ~Idling /\ rxstate # TXRECV => (NextState < 0 => NextState >= - (2 + rf12_len))
    BY NextSending
  <2> QED BY <1>3, <2>1, <2>2, <2>3, InterruptCases, SizeAssumption DEF TXSYN2, TypeOK
<1>4. CASE RmwLoad \/ RmwStore \/ ArgLoad
  BY <1>4 DEF RmwLoad, RmwStore, ArgLoad
<1>5. CASE rf12_xfer
  BY <1>5 DEF rf12_xfer, Power, InRmw, TurnsRxOn, TurnsTxOn, TurnsOff
<1>6. CASE recvDone \/ recvFull \/ recvRestart \/ rf12_recvStart
  BY <1>6 DEF recvDone, recvFull, recvRestart, rf12_recvStart
<1>7. CASE canSend \/ canSendYes \/ rf12_sendStart \/ sendPre
            \/ sendWait
  <2>1. CASE rf12_sendStart
    <3>1. arg.len \in 0 .. RF12_MAXDATA
      BY DEF TypeOK, Args
    <3> QED BY <2>1, <3>1, SizeAssumption DEF rf12_sendStart
  <2>2. CASE canSend \/ canSendYes \/ sendPre \/ sendWait
    BY <2>2 DEF canSend, canSendYes, sendPre, sendWait
  <2> QED BY <1>7, <2>1, <2>2
<1>8. CASE sleepDone \/ watchdogClear \/ initWait \/ rf12_restore
            \/ restoreRegs \/ restoreDone
  BY <1>8 DEF sleepDone, watchdogClear, initWait, rf12_restore, restoreRegs,
    restoreDone
<1>9. CASE CallRecvDone \/ CallCanSend \/ CallSendStart \/ CallSendAck
            \/ CallSendNow \/ CallSendWait
  BY <1>9 DEF CallRecvDone, CallCanSend, CallSendStart, CallSendAck, CallSendNow,
    CallSendWait
<1>10. CASE CallSleep \/ CallWatchdogFired \/ CallSetFixedLength
            \/ CallRestore
  BY <1>10 DEF CallSleep, CallWatchdogFired, CallSetFixedLength, CallRestore
<1>11. ~WakeUp /\ ~watchdogOn /\ ~CallSetWatchdog
  BY DEF WakeUp, watchdogOn, CallSetWatchdog, NoWatchdog, Pending, Control, Call,
    Thread
<1> QED BY <1>1, <1>2, <1>3, <1>4, <1>5, <1>6, <1>7, <1>8, <1>9, <1>10, <1>11
    DEF Next, Radio, Driver, Sketch

-----------------------------------------------------------------------------
(* Types.                                                                  *)

\* The type invariant by parts, and the sequence of bytes sent.
BufferType ==
    /\ rxstate \in -128 .. TXSYN2
    /\ rxfill \in 0 .. RF_MAX /\ rf12_hdr \in Header /\ rf12_len \in 0 .. 255
    /\ rf12_data \in [0 .. RF12_MAXDATA - 1 -> AirPackets]
    /\ rf12_crc \in [of : AirPackets, n : Int]
    /\ drssi \in 0 .. 6 /\ fixedLength \in 0 .. RF12_MAXDATA
RadioType ==
    /\ rfmstate \subseteq PowerBits /\ rfm \subseteq PowerBits /\ reg \subseteq PowerBits
    /\ thr \in 0 .. 5 /\ irq \subseteq {"FIFO", "OVF", "WDG", "POR"}
    /\ air \in [pkt : AirPackets, n : Nat]
ThreadType ==
    /\ pc \in ControlPoints /\ arg \in Args /\ given \in Args
    /\ rmw.off \subseteq PowerBits /\ rmw.on \subseteq PowerBits
    /\ rmw.next \in ControlPoints
    /\ last \in {"none", "packet", "canSend", "sent"}
FlagType ==
    /\ rf12_gotwakeup \in BOOLEAN /\ inNow \in BOOLEAN
    /\ configured \in BOOLEAN /\ asked \in BOOLEAN
Framed == frame \in Seq(FrameBytes \X (Header \cup AirPackets \cup Int))

\* The parts make up the type invariant.
LEMMA TypeParts ==
    BufferType /\ RadioType /\ ThreadType /\ FlagType /\ Framed => TypeOK
<1> SUFFICES ASSUME BufferType, RadioType, ThreadType, FlagType, Framed PROVE TypeOK
  OBVIOUS
<1>1. \A i \in DOMAIN frame : frame[i] \in FrameBytes \X (Header \cup AirPackets \cup Int)
  BY DEF Framed
<1>2. \A i \in DOMAIN frame : frame[i][1] \in FrameBytes
  BY <1>1
<1> QED BY <1>2 DEF BufferType, RadioType, ThreadType, FlagType, TypeOK

\* And it gives the parts back.
LEMMA TypeSplit ==
    ASSUME TypeOK PROVE BufferType /\ RadioType /\ ThreadType /\ FlagType
BY Zenon DEF BufferType, RadioType, ThreadType, FlagType, TypeOK

\* What may be on the air or in the buffer are packets.
LEMMA PacketType ==
    /\ AirPackets \subseteq [hdr : Header, len : 0 .. 255, ok : BOOLEAN, level : 0 .. 7]
    /\ Noise \in AirPackets /\ Own \in AirPackets
    /\ Noise.hdr \in Header /\ Noise.len = 0
<1>1. Noise.hdr \in Header /\ Noise.len = 0 /\ Noise.level = 0
  BY DEF Noise, Header
<1>2. \A p \in [hdr : Header, len : 0 .. 255, ok : BOOLEAN, level : 0 .. 7] :
        \A b \in BOOLEAN :
          [p EXCEPT !.ok = b] \in [hdr : Header, len : 0 .. 255, ok : BOOLEAN, level : 0 .. 7]
  OBVIOUS
<1>3. Noise \in [hdr : Header, len : 0 .. 255, ok : BOOLEAN, level : 0 .. 7]
  BY <1>1 DEF Noise
<1>4. Own \in [hdr : Header, len : 0 .. 255, ok : BOOLEAN, level : 0 .. 7]
  BY <1>2, <1>3, ZenonT(30) DEF Own
<1> QED BY <1>1, <1>3, <1>4, AirAssumption, SMT DEF AirPackets

\* The symbolic CRC stays one.
LEMMA CrcUpdateType ==
    ASSUME NEW c \in [of : AirPackets, n : Int], NEW p \in AirPackets, NEW i \in Int
    PROVE  CrcUpdate(c, p, i) \in [of : AirPackets, n : Int]
BY PacketType DEF CrcUpdate, CrcBad

\* The CRC's initial and spoilt values.
LEMMA CrcConstants ==
    CrcStart \in [of : AirPackets, n : Int] /\ CrcBad \in [of : AirPackets, n : Int]
BY PacketType DEF CrcStart, CrcBad

\* A byte that comes in while the packet is not complete finds its place.
LEMMA StoreTypes ==
    ASSUME BufferType, RadioType, StoreByte, ~PacketDone
    PROVE  /\ rxfill' \in 2 .. RF_MAX /\ rf12_hdr' \in Header /\ rf12_len' \in 0 .. 255
           /\ rf12_data' \in [0 .. RF12_MAXDATA - 1 -> AirPackets]
           /\ rf12_crc' \in [of : AirPackets, n : Int]
           /\ drssi' \in 0 .. 6 /\ thr' \in 0 .. 5
<1>1. RF12_MAXDATA \in Nat \ {0} /\ RF_MAX = RF12_MAXDATA + 5 /\ RF_MAX \in Nat
  BY SizeAssumption DEF RF_MAX
<1>2. rxfill \in 0 .. RF_MAX /\ rxfill < RF_MAX
  BY <1>1 DEF BufferType, PacketDone, Complete
<1>3. FillAfter \in 2 .. RF_MAX
  BY <1>1, <1>2 DEF FillAfter
<1>4. Incoming \in AirPackets
  BY PacketType DEF Incoming, RadioType
<1>5. Incoming.hdr \in Header /\ Incoming.len \in 0 .. 255
  BY <1>4, PacketType
<1>6. rf12_hdr' \in Header /\ rf12_len' \in 0 .. 255 /\ rxfill' \in 2 .. RF_MAX
  BY <1>3, <1>5 DEF StoreByte, BufferType
<1>7. rf12_data' \in [0 .. RF12_MAXDATA - 1 -> AirPackets]
  BY <1>4 DEF StoreByte, BufferType
<1>8. rf12_crc' \in [of : AirPackets, n : Int]
  BY <1>4, CrcUpdateType DEF StoreByte, BufferType, RadioType
<1>9. DrssiDecides => DrssiNext \in {0, 2, 3, 4, 5, 6}
  <2>1. drssi_dec_tree[0] = <<3, 4>> /\ drssi_dec_tree[1] = <<0, 2>>
           /\ drssi_dec_tree[2] = <<5, 6>>
    BY DEF drssi_dec_tree
  <2>2. DrssiDecides => drssi \in {0, 1, 2}
    BY DEF BufferType, DrssiDecides
  <2> QED BY <2>1, <2>2 DEF DrssiNext
<1>10. drssi' \in 0 .. 6 /\ thr' \in 0 .. 5
  BY <1>9 DEF StoreByte, BufferType, RadioType
<1> QED BY <1>6, <1>7, <1>8, <1>10

\* The ranges that the states and counts stay in.
LEMMA Ranges ==
    /\ TXIDLE \in -128 .. TXSYN2 /\ TXRECV \in -128 .. TXSYN2 /\ TXPRE1 \in -128 .. TXSYN2
    /\ 0 \in 0 .. RF_MAX /\ 0 \in 0 .. RF12_MAXDATA /\ 0 \in 0 .. 255
    /\ 1 \in 0 .. 6 /\ 2 \in 0 .. 5 /\ 3 \in 0 .. 5
BY SizeAssumption DEF RF_MAX, TXIDLE, TXRECV, TXPRE1, TXSYN2

\* Lengths that are sent or fixed fit into a byte and into the buffer.
LEMMA Lengths ==
    /\ \A n \in 0 .. RF12_MAXDATA : n \in 0 .. 255
    /\ \A n \in SendLens : n \in 0 .. RF12_MAXDATA
    /\ \A n \in FixedLens : n + 1 \in 0 .. RF12_MAXDATA
BY SizeAssumption

\* A header with another node is a header.
LEMMA OutHeaderType == ASSUME NEW h \in Header PROVE OutHeader(h) \in Header
<1>1. \A n \in 0 .. 31 : [h EXCEPT !.node = n] \in Header
  BY DEF Header
<1>2. NodeId \in 0 .. 31
  BY AirAssumption
<1> QED BY <1>1, <1>2, Zenon DEF OutHeader

\* No arguments yet.
LEMMA NoArgType == NoArg \in Args
BY PacketType, SizeAssumption DEF NoArg, Args

\* The byte on its way out is inside the buffer.
LEMMA OutByteType ==
    ASSUME TypeOK, SendBound, ~Idling, rxstate # TXRECV
    PROVE  OutByte \in FrameBytes \X (Header \cup AirPackets \cup Int)
<1>1. BufferType /\ RF12_MAXDATA \in Nat
  BY TypeSplit, SizeAssumption
<1>2. rxstate \in Int /\ rf12_len \in Nat /\ rf12_crc.n \in Int
  BY <1>1 DEF BufferType, TXSYN2
<1>3. CASE rxstate < 0
  <2>1. OutByte = BufferByte(3 + rf12_len + rxstate)
    BY <1>2, <1>3 DEF OutByte, TXSYN1, TXSYN2, TXCRC1, TXCRC2
  <2>2. PICK pos \in Int : pos = 3 + rf12_len + rxstate /\ pos \in 1 .. rf12_len + 2
    BY <1>2, <1>3 DEF SendBound
  <2>3. rf12_len <= RF12_MAXDATA
    BY DEF SendBound
  <2>4. pos \notin {1, 2} => rf12_data[pos - 3] \in AirPackets
    BY <1>1, <1>2, <2>2, <2>3 DEF BufferType
  <2> QED BY <1>1, <1>2, <2>1, <2>2, <2>4 DEF BufferByte, BufferType, FrameBytes
<1>4. CASE ~(rxstate < 0)
  <2>1. OutByte \in {<<"2D", 0>>, <<"group", 0>>, <<"crc", rf12_crc.n>>,
                     <<"crc8", rf12_crc.n>>, <<"AA", 0>>}
    BY <1>4, Zenon DEF OutByte
  <2> QED BY <1>2, <2>1 DEF FrameBytes
<1> QED BY <1>3, <1>4

\* Nothing sent yet.
LEMMA EmptyFrame == <<>> \in Seq(FrameBytes \X (Header \cup AirPackets \cup Int))
OBVIOUS

\* rf12_buf and the state keep their types: reception stops at the end of the buffer.
LEMMA BufferTypeStep == ASSUME NoWatchdog, TypeOK, Power, Halfway, Pending,
    Control, SendBound, BufferType, Next PROVE BufferType'
<1> USE DEF BufferType, SetPower, bufVars, TXSYN2
<1>1. CASE AirStart \/ AirByte \/ TxRequest
  BY <1>1, ZenonT(40) DEF AirStart, AirByte, TxRequest
<1>2. CASE PowerOnReset
  BY <1>2 DEF PowerOnReset
<1>3. CASE rf12_interrupt
  <2> SUFFICES ASSUME rf12_interrupt PROVE BufferType'
    BY <1>3, Zenon
  <2>1. BufferType /\ RadioType
    BY TypeSplit
  <2>2. fixedLength' = fixedLength
    BY InterruptBufferEffect
  <2>3. rxstate' \in -128 .. TXSYN2
    BY <2>1, InterruptCases DEF POR_RECEIVED, TXIDLE, TXRECV, TXSYN2
  <2>4. CASE Receiving
    BY <2>1, <2>2, <2>3, <2>4, InterruptBufferEffect, InterruptCases, StoreTypes
      DEF Receiving, PacketDone
  <2>5. CASE Sending
    <3>1. SendByte
      BY <2>5, InterruptBufferEffect
    <3>2. rf12_crc' \in [of : AirPackets, n : Int]
      BY <2>1, <3>1, CrcUpdateType, PacketType DEF SendByte
    <3> QED BY <2>1, <2>2, <2>3, <3>1, <3>2 DEF SendByte
  <2>6. CASE ~Fifo
    BY <2>1, <2>2, <2>3, <2>6, InterruptBufferEffect
  <2> QED BY <2>4, <2>5, <2>6 DEF Receiving, Sending
<1>4. CASE RmwLoad \/ RmwStore \/ ArgLoad
  BY <1>4, ZenonT(40) DEF RmwLoad, RmwStore, ArgLoad
<1>5. CASE rf12_xfer
  BY <1>5 DEF rf12_xfer
<1>6. CASE recvDone \/ recvFull \/ recvRestart \/ rf12_recvStart
  <2>1. CASE rf12_recvStart
    BY <2>1, CrcConstants, Ranges, Zenon DEF rf12_recvStart
  <2>2. CASE recvFull
    BY <2>2, CrcConstants, Ranges DEF recvFull
  <2>3. CASE recvDone \/ recvRestart
    BY <2>3, ZenonT(40) DEF recvDone, recvRestart
  <2> QED BY <1>6, <2>1, <2>2, <2>3
<1>7. CASE canSend \/ canSendYes \/ rf12_sendStart \/ sendPre
            \/ sendWait
  <2>1. CASE rf12_sendStart
    <3>1. arg.len \in 0 .. RF12_MAXDATA /\ arg.hdr \in Header
      BY TypeSplit DEF ThreadType, Args
    <3>2. OutHeader(arg.hdr) \in Header
      BY <3>1, OutHeaderType
    <3>3. rf12_data' \in [0 .. RF12_MAXDATA - 1 -> AirPackets]
      BY <2>1, PacketType DEF rf12_sendStart
    <3>4. arg.len \in 0 .. 255
      BY <3>1, Lengths
    <3> QED BY <2>1, <3>2, <3>3, <3>4, CrcConstants DEF rf12_sendStart
  <2>2. CASE canSend \/ canSendYes \/ sendPre \/ sendWait
    BY <2>2, Ranges, ZenonT(40) DEF canSend, canSendYes, sendPre, sendWait
  <2> QED BY <1>7, <2>1, <2>2
<1>8. CASE sleepDone \/ watchdogClear \/ initWait \/ rf12_restore
            \/ restoreRegs \/ restoreDone
  <2>1. CASE rf12_restore
    BY <2>1, Ranges, Zenon DEF rf12_restore
  <2>2. CASE sleepDone \/ restoreDone
    BY <2>2, Ranges, ZenonT(40) DEF sleepDone, restoreDone
  <2>3. CASE watchdogClear \/ initWait \/ restoreRegs
    BY <2>3, ZenonT(40) DEF watchdogClear, initWait, restoreRegs
  <2> QED BY <1>8, <2>1, <2>2, <2>3
<1>9. CASE CallRecvDone \/ CallCanSend \/ CallSendStart \/ CallSendAck
            \/ CallSendNow \/ CallSendWait
  BY <1>9, ZenonT(40) DEF CallRecvDone, CallCanSend, CallSendStart, CallSendAck, CallSendNow,
    CallSendWait
<1>10. CASE CallSleep \/ CallWatchdogFired \/ CallSetFixedLength
            \/ CallRestore
  <2>1. CASE CallSetFixedLength
    <3>1. fixedLength' \in 0 .. RF12_MAXDATA
      BY <2>1, Ranges, Lengths DEF CallSetFixedLength
    <3> QED BY <2>1, <3>1, Zenon DEF CallSetFixedLength
  <2>2. CASE CallSleep \/ CallWatchdogFired \/ CallRestore
    BY <2>2, ZenonT(40) DEF CallSleep, CallWatchdogFired, CallRestore
  <2> QED BY <1>10, <2>1, <2>2
<1>11. ~WakeUp /\ ~watchdogOn /\ ~CallSetWatchdog
  BY DEF WakeUp, watchdogOn, CallSetWatchdog, NoWatchdog, Pending, Control, Call,
    Thread
<1> QED BY <1>1, <1>2, <1>3, <1>4, <1>5, <1>6, <1>7, <1>8, <1>9, <1>10, <1>11
    DEF Next, Radio, Driver, Sketch

\* The power bits, the threshold and the air keep their types.
LEMMA RadioTypeStep == ASSUME NoWatchdog, TypeOK, Power, Halfway, Pending,
    Control, SendBound, RadioType, Next PROVE RadioType'
<1> USE DEF RadioType, SetPower, radioVars, threadVars, PowerBits
<1>1. CASE AirStart \/ AirByte \/ TxRequest
  BY <1>1, PacketType DEF AirStart, AirByte, TxRequest, AirPackets
<1>2. CASE PowerOnReset
  BY <1>2, PacketType DEF PowerOnReset, NoAir
<1>3. CASE rf12_interrupt
  <2> SUFFICES ASSUME rf12_interrupt PROVE RadioType'
    BY <1>3, Zenon
  <2>1. reg' = reg /\ "WDG" \notin irq /\ BufferType
    BY InterruptBufferEffect, TypeSplit DEF Pending
  <2>2. thr' \in 0 .. 5
    BY <2>1, InterruptBufferEffect, InterruptCases, StoreTypes DEF SendByte, Receiving, Sending
  <2>3. NoAir \in [pkt : AirPackets, n : Nat]
    BY PacketType DEF NoAir
  <2> QED BY <2>1, <2>2, <2>3, InterruptPowerEffect DEF Idle
<1>4. CASE RmwLoad \/ RmwStore \/ ArgLoad
  BY <1>4, TypeSplit DEF RmwLoad, RmwStore, ArgLoad, ThreadType
<1>5. CASE rf12_xfer
  BY <1>5, PacketType DEF rf12_xfer, NoAir
<1>6. CASE recvDone \/ recvFull \/ recvRestart \/ rf12_recvStart
  BY <1>6, Ranges DEF recvDone, recvFull, recvRestart, rf12_recvStart
<1>7. CASE canSend \/ canSendYes \/ rf12_sendStart \/ sendPre
            \/ sendWait
  BY <1>7 DEF canSend, canSendYes, rf12_sendStart, sendPre, sendWait
<1>8. CASE sleepDone \/ watchdogClear \/ initWait \/ rf12_restore
            \/ restoreRegs \/ restoreDone
  <2>1. CASE rf12_restore
    <3>1. air' \in [pkt : AirPackets, n : Nat]
      BY <2>1, PacketType DEF rf12_restore, NoAir
    <3> QED BY <2>1, <3>1 DEF rf12_restore
  <2>2. CASE restoreRegs
    BY <2>2, Ranges DEF restoreRegs
  <2>3. CASE sleepDone \/ watchdogClear \/ initWait \/ restoreDone
    BY <2>3 DEF sleepDone, watchdogClear, initWait, restoreDone
  <2> QED BY <1>8, <2>1, <2>2, <2>3
<1>9. CASE CallRecvDone \/ CallCanSend \/ CallSendStart \/ CallSendAck
            \/ CallSendNow \/ CallSendWait
  BY <1>9 DEF CallRecvDone, CallCanSend, CallSendStart, CallSendAck, CallSendNow,
    CallSendWait
<1>10. CASE CallSleep \/ CallWatchdogFired \/ CallSetFixedLength
            \/ CallRestore
  BY <1>10 DEF CallSleep, CallWatchdogFired, CallSetFixedLength, CallRestore
<1>11. ~WakeUp /\ ~watchdogOn /\ ~CallSetWatchdog
  BY DEF WakeUp, watchdogOn, CallSetWatchdog, NoWatchdog, Pending, Control, Call,
    Thread
<1> QED BY <1>1, <1>2, <1>3, <1>4, <1>5, <1>6, <1>7, <1>8, <1>9, <1>10, <1>11
    DEF Next, Radio, Driver, Sketch

\* The thread's place and the arguments of its calls keep their types.
LEMMA ThreadTypeStep == ASSUME NoWatchdog, TypeOK, Power, Halfway, Pending,
    Control, SendBound, ThreadType, Next PROVE ThreadType'
<1> USE DEF ThreadType, ControlPoints, PowerBits, Thread, Call, UpdatePower,
      SetPower, AfterRecvDone, bufVars, radioVars, threadVars, sendVars, wakeVars
<1>1. CASE AirStart \/ AirByte \/ TxRequest
  BY <1>1 DEF AirStart, AirByte, TxRequest
<1>2. CASE PowerOnReset
  BY <1>2 DEF PowerOnReset
<1>3. CASE rf12_interrupt
  BY <1>3, InterruptBufferEffect
<1>4. CASE RmwLoad \/ RmwStore \/ ArgLoad
  BY <1>4 DEF RmwLoad, RmwStore, ArgLoad
<1>5. CASE rf12_xfer
  BY <1>5 DEF rf12_xfer, NoRmw
<1>6. CASE recvDone \/ recvFull \/ recvRestart \/ rf12_recvStart
  BY <1>6, NoArgType DEF recvDone, recvFull, recvRestart, rf12_recvStart
<1>7. CASE canSend \/ canSendYes \/ rf12_sendStart \/ sendPre
            \/ sendWait
  BY <1>7, NoArgType DEF canSend, canSendYes, rf12_sendStart, sendPre, sendWait
<1>8. CASE sleepDone \/ watchdogClear \/ initWait \/ rf12_restore
            \/ restoreRegs \/ restoreDone
  BY <1>8 DEF sleepDone, watchdogClear, initWait, rf12_restore, restoreRegs,
    restoreDone
<1>9. CASE CallRecvDone \/ CallCanSend \/ CallSendStart \/ CallSendAck
            \/ CallSendNow \/ CallSendWait
  <2>1. \A n \in SendLens : [hdr |-> RequestHeader, len |-> n] \in Args
    <3>1. RequestHeader \in Header
      BY DEF RequestHeader, Header
    <3> QED BY <3>1, Lengths DEF Args
  <2>2. CASE CallSendAck
    <3>1. AckReply \in Header
      BY TypeSplit DEF BufferType, AckReply, Header
    <3> QED BY <2>2, <3>1, SizeAssumption DEF CallSendAck, Args
  <2>3. CASE CallRecvDone \/ CallCanSend \/ CallSendStart \/ CallSendNow \/ CallSendWait
    BY <2>1, <2>3 DEF CallRecvDone, CallCanSend, CallSendStart, CallSendNow, CallSendWait
  <2> QED BY <1>9, <2>2, <2>3
<1>10. CASE CallSleep \/ CallWatchdogFired \/ CallSetFixedLength
            \/ CallRestore
  BY <1>10 DEF CallSleep, CallWatchdogFired, CallSetFixedLength, CallRestore, PowerOff
<1>11. ~WakeUp /\ ~watchdogOn /\ ~CallSetWatchdog
  BY DEF WakeUp, watchdogOn, CallSetWatchdog, NoWatchdog, Pending, Control, Call,
    Thread
<1> QED BY <1>1, <1>2, <1>3, <1>4, <1>5, <1>6, <1>7, <1>8, <1>9, <1>10, <1>11
    DEF Next, Radio, Driver, Sketch

\* The flags stay Booleans.
LEMMA FlagTypeStep == ASSUME NoWatchdog, TypeOK, Power, Halfway, Pending,
    Control, SendBound, FlagType, Next PROVE FlagType'
<1> USE DEF FlagType, Thread, Call, UpdatePower, SetPower, AfterRecvDone,
      bufVars, radioVars, threadVars, sendVars, wakeVars
<1>1. CASE AirStart \/ AirByte \/ TxRequest
  BY <1>1 DEF AirStart, AirByte, TxRequest
<1>2. CASE PowerOnReset
  BY <1>2 DEF PowerOnReset
<1>3. CASE rf12_interrupt
  BY <1>3, InterruptBufferEffect, Zenon DEF rf12_interrupt, InterruptPower
<1>4. CASE RmwLoad \/ RmwStore \/ ArgLoad
  BY <1>4 DEF RmwLoad, RmwStore, ArgLoad
<1>5. CASE rf12_xfer
  BY <1>5 DEF rf12_xfer
<1>6. CASE recvDone \/ recvFull \/ recvRestart \/ rf12_recvStart
  BY <1>6 DEF recvDone, recvFull, recvRestart, rf12_recvStart
<1>7. CASE canSend \/ canSendYes \/ rf12_sendStart \/ sendPre
            \/ sendWait
  BY <1>7 DEF canSend, canSendYes, rf12_sendStart, sendPre, sendWait
<1>8. CASE sleepDone \/ watchdogClear \/ initWait \/ rf12_restore
            \/ restoreRegs \/ restoreDone
  BY <1>8 DEF sleepDone, watchdogClear, initWait, rf12_restore, restoreRegs,
    restoreDone
<1>9. CASE CallRecvDone \/ CallCanSend \/ CallSendStart \/ CallSendAck
            \/ CallSendNow \/ CallSendWait
  BY <1>9 DEF CallRecvDone, CallCanSend, CallSendStart, CallSendAck, CallSendNow,
    CallSendWait
<1>10. CASE CallSleep \/ CallWatchdogFired \/ CallSetFixedLength
            \/ CallRestore
  BY <1>10 DEF CallSleep, CallWatchdogFired, CallSetFixedLength, CallRestore
<1>11. ~WakeUp /\ ~watchdogOn /\ ~CallSetWatchdog
  BY DEF WakeUp, watchdogOn, CallSetWatchdog, NoWatchdog, Pending, Control, Call,
    Thread
<1> QED BY <1>1, <1>2, <1>3, <1>4, <1>5, <1>6, <1>7, <1>8, <1>9, <1>10, <1>11
    DEF Next, Radio, Driver, Sketch

\* The bytes sent come from the frame's fixed bytes and from inside rf12_buf.
LEMMA FramedStep == ASSUME NoWatchdog, TypeOK, Power, Halfway, Pending, Control,
    SendBound, Framed, Next PROVE Framed'
<1> USE DEF Framed, Thread, Call, UpdatePower, SetPower, AfterRecvDone,
      bufVars, radioVars, threadVars, sendVars, wakeVars
<1>1. CASE AirStart \/ AirByte \/ TxRequest
  BY <1>1 DEF AirStart, AirByte, TxRequest
<1>2. CASE PowerOnReset
  BY <1>2 DEF PowerOnReset
<1>3. CASE rf12_interrupt
  <2> SUFFICES ASSUME rf12_interrupt PROVE Framed'
    BY <1>3, Zenon
  <2>1. CASE Sending
    <3>1. frame' = Append(frame, OutByte)
      BY <2>1, InterruptBufferEffect DEF SendByte
    <3>2. OutByte \in FrameBytes \X (Header \cup AirPackets \cup Int)
      BY <2>1, OutByteType DEF Sending, Fifo, Pending
    <3> QED BY <3>1, <3>2
  <2>2. CASE ~Sending
    BY <2>2, InterruptBufferEffect DEF Sending, Receiving
  <2> QED BY <2>1, <2>2
<1>4. CASE RmwLoad \/ RmwStore \/ ArgLoad
  BY <1>4 DEF RmwLoad, RmwStore, ArgLoad
<1>5. CASE rf12_xfer
  BY <1>5 DEF rf12_xfer
<1>6. CASE recvDone \/ recvFull \/ recvRestart \/ rf12_recvStart
  BY <1>6, EmptyFrame DEF recvDone, recvFull, recvRestart, rf12_recvStart
<1>7. CASE canSend \/ canSendYes \/ rf12_sendStart \/ sendPre
            \/ sendWait
  BY <1>7, EmptyFrame DEF canSend, canSendYes, rf12_sendStart, sendPre, sendWait
<1>8. CASE sleepDone \/ watchdogClear \/ initWait \/ rf12_restore
            \/ restoreRegs \/ restoreDone
  BY <1>8 DEF sleepDone, watchdogClear, initWait, rf12_restore, restoreRegs,
    restoreDone
<1>9. CASE CallRecvDone \/ CallCanSend \/ CallSendStart \/ CallSendAck
            \/ CallSendNow \/ CallSendWait
  BY <1>9 DEF CallRecvDone, CallCanSend, CallSendStart, CallSendAck, CallSendNow,
    CallSendWait
<1>10. CASE CallSleep \/ CallWatchdogFired \/ CallSetFixedLength
            \/ CallRestore
  BY <1>10 DEF CallSleep, CallWatchdogFired, CallSetFixedLength, CallRestore
<1>11. ~WakeUp /\ ~watchdogOn /\ ~CallSetWatchdog
  BY DEF WakeUp, watchdogOn, CallSetWatchdog, NoWatchdog, Pending, Control, Call,
    Thread
<1> QED BY <1>1, <1>2, <1>3, <1>4, <1>5, <1>6, <1>7, <1>8, <1>9, <1>10, <1>11
    DEF Next, Radio, Driver, Sketch

\* All of it holds at first.
LEMMA TypeInit == Init => BufferType /\ RadioType /\ ThreadType /\ FlagType /\ Framed
<1> SUFFICES ASSUME Init PROVE BufferType /\ RadioType /\ ThreadType /\ FlagType /\ Framed
  OBVIOUS
<1>1. rxstate \in -128 .. TXSYN2
  BY DEF Init, UNINITIALIZED, TXSYN2
<1>2. rf12_data \in [0 .. RF12_MAXDATA - 1 -> AirPackets]
  BY PacketType DEF Init, NoData
<1>3. rf12_hdr \in Header /\ rf12_crc \in [of : AirPackets, n : Int]
  BY PacketType, CrcConstants DEF Init
<1>4. 0 \in 0 .. RF_MAX /\ 0 \in 0 .. 255 /\ 0 \in 0 .. 6 /\ 0 \in 0 .. RF12_MAXDATA /\ 0 \in 0 .. 5
  BY Ranges
<1>5. BufferType
  BY <1>1, <1>2, <1>3, <1>4 DEF Init, BufferType
<1>6. air \in [pkt : AirPackets, n : Nat]
  BY PacketType DEF Init, NoAir
<1>7. RadioType
  BY <1>4, <1>6 DEF Init, RadioType, PowerBits
<1>8. ThreadType
  BY NoArgType DEF Init, ThreadType, ControlPoints, PowerBits, NoRmw
<1>9. FlagType
  BY Zenon DEF Init, FlagType
<1>10. Framed
  BY EmptyFrame DEF Init, Framed
<1> QED BY <1>5, <1>7, <1>8, <1>9, <1>10

\* The invariant of the driver.
DriverInv == Framed /\ Power /\ Halfway /\ Pending /\ Control /\ SendBound

\* A driver that waits for the radio's reset.
LEMMA DriverInit == Init => TypeOK /\ DriverInv
<1> SUFFICES ASSUME Init PROVE TypeOK /\ DriverInv
  OBVIOUS
<1>1. TypeOK /\ Framed
  BY TypeInit, TypeParts
<1>2. Power /\ Halfway /\ Pending /\ Control /\ SendBound
  BY DEF Init, Power, Halfway, Pending, Control, SendBound, Resting, Follows, TurnsRxOn,
    TurnsTxOn, TurnsOff, InRmw, Off, Agree, Idling, TXIDLE, UNINITIALIZED, POR_RECEIVED,
    TXRECV
<1> QED BY <1>1, <1>2 DEF DriverInv

\* The invariant of the driver is preserved by every step.
LEMMA DriverStep ==
    ASSUME NoWatchdog, TypeOK, DriverInv, [Next]_vars PROVE (TypeOK /\ DriverInv)'
<1> USE DEF DriverInv
<1>1. CASE Next
  <2>1. BufferType /\ RadioType /\ ThreadType /\ FlagType
    BY TypeSplit
  <2>2. BufferType' /\ RadioType' /\ ThreadType' /\ FlagType' /\ Framed'
    BY <1>1, <2>1, BufferTypeStep, RadioTypeStep, ThreadTypeStep, FlagTypeStep, FramedStep
  <2>3. TypeOK'
    BY <2>2, TypeParts, PTL
  <2> QED BY <1>1, <2>2, <2>3, PowerStep, HalfwayStep, PendingStep, ControlStep, SendBoundStep
<1>2. CASE UNCHANGED vars
  <2>1. UNCHANGED <<Power, Halfway, Pending, Control, SendBound>>
    BY <1>2 DEF vars, bufVars, threadVars, radioVars, Power, Halfway, Pending, Control,
      SendBound, Resting, Follows, TurnsRxOn, TurnsTxOn, TurnsOff, InRmw, Off, RxOnly, TxOnly,
      Agree, Idling, PacketDone
  <2>2. UNCHANGED <<TypeOK, Framed>>
    BY <1>2, Zenon DEF vars, bufVars, threadVars, radioVars, sendVars, wakeVars, TypeOK, Framed
  <2> QED BY <2>1, <2>2
<1> QED BY <1>1, <1>2

\* A driver whose sketch leaves the wake-up timer alone keeps its variables in
\* their types: the interrupt never stores beyond rf12_buf, for any lengths on
\* the air and any instruction the interrupt falls on.
THEOREM TypeCorrect == NoWatchdog /\ Spec => []TypeOK
<1> SUFFICES ASSUME NoWatchdog PROVE Spec => []TypeOK
  OBVIOUS
<1>1. TypeOK /\ DriverInv /\ [Next]_vars => (TypeOK /\ DriverInv)'
  BY DriverStep
<1> QED BY <1>1, DriverInit, PTL DEF Spec

\* The inductive invariant, for the theorems below.
LEMMA DriverInvariant == NoWatchdog /\ Spec => [](TypeOK /\ DriverInv)
<1> SUFFICES ASSUME NoWatchdog PROVE Spec => [](TypeOK /\ DriverInv)
  OBVIOUS
<1>1. TypeOK /\ DriverInv /\ [Next]_vars => (TypeOK /\ DriverInv)'
  BY DriverStep
<1> QED BY <1>1, DriverInit, PTL DEF Spec

\* Between calls the radio is off, receiving or sending as rxstate says.
THEOREM RadioTheorem == NoWatchdog /\ Spec => []RadioFollowsState
<1> SUFFICES ASSUME NoWatchdog PROVE Spec => []RadioFollowsState
  OBVIOUS
<1>1. TypeOK /\ DriverInv => RadioFollowsState
  <2> SUFFICES ASSUME TypeOK, DriverInv, pc = "sketch" PROVE RadioFollowsState
    BY DEF RadioFollowsState
  <2>1. Follows
    BY DEF DriverInv, Power, Resting, TurnsRxOn, TurnsTxOn, InRmw
  <2>2. rxstate \notin {UNINITIALIZED, POR_RECEIVED}
    BY DEF DriverInv, Control
  <2>3. rfm \subseteq PowerBits
    BY DEF TypeOK
  <2> QED BY <2>1, <2>2, <2>3 DEF RadioFollowsState, Follows, Off, RxOnly, TxOnly, Idling,
            PacketDone, PowerBits
<1> QED BY <1>1, DriverInvariant, PTL

-----------------------------------------------------------------------------
(* What is received.                                                       *)

\* What comes in is a packet of the air or noise.
LEMMA IncomingType ==
    ASSUME OnAir
    PROVE  Incoming \in Packets \cup {Noise}
BY DEF OnAir, Incoming

\* The running CRC after a byte of the air: it has taken in one byte more of the
\* same packet, or it is spoilt for good.
LEMMA CrcCases ==
    ASSUME TypeOK, StoreByte, air.n >= 1
    PROVE  \/ rf12_crc'.n = -1
           \/ /\ rf12_crc'.n = air.n /\ rf12_crc'.of = Incoming /\ air.n = rf12_crc.n + 1
              /\ rf12_crc.n = 0 \/ (rf12_crc.n >= 1 /\ rf12_crc.of = Incoming)
<1>1. rf12_crc.n \in Int /\ air.n \in Int
  BY DEF TypeOK
<1>2. rf12_crc' = CrcUpdate(rf12_crc, Incoming, air.n)
  BY DEF StoreByte
<1>3. CASE air.n = rf12_crc.n + 1 /\ (air.n = 1 \/ rf12_crc.of = Incoming)
  <2>1. rf12_crc' = [of |-> Incoming, n |-> air.n]
    BY <1>2, <1>3 DEF CrcUpdate
  <2> QED BY <1>1, <1>3, <2>1
<1>4. CASE ~(air.n = rf12_crc.n + 1 /\ (air.n = 1 \/ rf12_crc.of = Incoming))
  <2>1. rf12_crc' = CrcBad
    BY <1>2, <1>4 DEF CrcUpdate
  <2> QED BY <2>1 DEF CrcBad
<1> QED BY <1>3, <1>4

\* A byte is stored where the packet has it.
LEMMA StoredByte ==
    ASSUME TypeOK, OnAir, StoreByte, ~PacketDone, air.n >= 1, Stored
    PROVE  Stored'
<1>1. /\ rf12_crc.n \in Int /\ air.n \in Int /\ rxfill \in Nat /\ RF12_MAXDATA \in Nat
      /\ rf12_data \in [0 .. RF12_MAXDATA - 1 -> AirPackets]
  BY SizeAssumption DEF TypeOK
<1>2. CASE rf12_crc'.n = -1
  BY <1>2 DEF Stored
<1>3. CASE /\ rf12_crc'.n = air.n /\ rf12_crc'.of = Incoming /\ air.n = rf12_crc.n + 1
           /\ rf12_crc.n = 0 \/ (rf12_crc.n >= 1 /\ rf12_crc.of = Incoming)
  <2>1. FillAfter = air.n + 1 /\ rxfill' = FillAfter
    BY <1>1, <1>3 DEF Stored, FillAfter, StoreByte
  <2>2. Incoming \in Packets \cup {Noise}
    BY IncomingType
  <2>3. rf12_hdr' = Incoming.hdr
    <3>1. CASE air.n = 1
      BY <3>1, <2>1 DEF StoreByte
    <3>2. CASE air.n # 1
      BY <1>1, <1>3, <3>2, <2>1 DEF StoreByte, Stored
    <3> QED BY <3>1, <3>2
  <2>4. air.n >= 2 => rf12_len' = Incoming.len
    <3>1. CASE air.n = 2
      BY <3>1, <2>1 DEF StoreByte
    <3>2. CASE air.n > 2
      BY <1>1, <1>3, <3>2, <2>1 DEF StoreByte, Stored
    <3> QED BY <1>1, <3>1, <3>2
  <2>5. ASSUME NEW k \in 0 .. RF12_MAXDATA - 1, k + 3 <= air.n PROVE rf12_data'[k] = Incoming
    <3>1. rf12_data' = IF air.n - 3 \in DOMAIN rf12_data
                         THEN [rf12_data EXCEPT ![air.n - 3] = Incoming] ELSE rf12_data
      <4>1. FillAfter - 1 = air.n
        BY <1>1, <2>1
      <4>2. rf12_data' = IF (FillAfter - 1) - 3 \in DOMAIN rf12_data
              THEN [rf12_data EXCEPT ![(FillAfter - 1) - 3] = Incoming] ELSE rf12_data
        BY Zenon DEF StoreByte
      <4> QED BY <4>1, <4>2, Zenon
    <3>2. CASE k = air.n - 3
      BY <1>1, <3>1, <3>2
    <3>3. CASE k # air.n - 3
      <4>1. k + 3 <= rf12_crc.n /\ rf12_crc.n >= 1
        BY <1>1, <1>3, <2>5, <3>3
      <4>2. rf12_data[k] = Incoming
        BY <1>1, <1>3, <4>1 DEF Stored
      <4> QED BY <1>1, <3>1, <3>3, <4>2
    <3> QED BY <3>2, <3>3
  <2> QED BY <1>1, <1>3, <2>1, <2>2, <2>3, <2>4, <2>5 DEF Stored
<1> QED BY <1>2, <1>3, CrcCases

\* A reading of the signal strength takes the search one level down its tree.
LEMMA NarrowedByte ==
    ASSUME TypeOK, OnAir, StoreByte, air.n >= 1, Stored, Narrowed,
           drssi < 3 => thr = 2 * drssi + 1
    PROVE  Narrowed' /\ (drssi' < 3 => thr' = 2 * drssi' + 1)
<1>1. /\ rf12_crc.n \in Int /\ air.n \in Int /\ rxfill \in Nat /\ drssi \in 0 .. 6
      /\ DRSSI_BYTES \in Nat \ {0}
  BY SizeAssumption DEF TypeOK
<1>2. Incoming.level \in 0 .. 7
  BY IncomingType, PacketType DEF AirPackets
<1>3. drssi_dec_tree[0] = <<3, 4>> /\ drssi_dec_tree[1] = <<0, 2>> /\ drssi_dec_tree[2] = <<5, 6>>
  BY DEF drssi_dec_tree
<1>4. DrssiDecides => /\ drssi = 0 => DrssiNext = IF Incoming.level >= 1 THEN 4 ELSE 3
                      /\ drssi = 1 => DrssiNext = IF Incoming.level >= 3 THEN 2 ELSE 0
                      /\ drssi = 2 => DrssiNext = IF Incoming.level >= 5 THEN 6 ELSE 5
                      /\ drssi \in {0, 1, 2}
  BY <1>1, <1>3 DEF DrssiNext, DrssiDecides
<1>5. drssi' < 3 => thr' = 2 * drssi' + 1
  BY <1>1, <1>4 DEF StoreByte
<1>6. CASE rf12_crc'.n = -1
  BY <1>5, <1>6 DEF Narrowed
<1>7. CASE /\ rf12_crc'.n = air.n /\ rf12_crc'.of = Incoming /\ air.n = rf12_crc.n + 1
           /\ rf12_crc.n = 0 \/ (rf12_crc.n >= 1 /\ rf12_crc.of = Incoming)
  <2>1. drssi' = IF DrssiDecides THEN DrssiNext ELSE drssi
    BY DEF StoreByte
  <2>2. /\ drssi = 0 => Incoming.level < 3
        /\ drssi = 2 => Incoming.level >= 3
        /\ drssi >= 3 => drssi = Band(Incoming.level)
    BY <1>1, <1>7 DEF Narrowed
  <2>3. /\ drssi' = 0 => Incoming.level < 3
        /\ drssi' = 2 => Incoming.level >= 3
        /\ drssi' >= 3 => drssi' = Band(Incoming.level)
    BY <1>1, <1>2, <1>4, <2>1, <2>2 DEF Band
  <2> QED BY <1>1, <1>5, <1>7, <2>3 DEF Narrowed
<1> QED BY <1>6, <1>7, CrcCases

\* What the buffer holds and the search knows depends on the buffer alone.
LEMMA StoredFrame ==
    ASSUME UNCHANGED <<rxfill, rf12_hdr, rf12_len, rf12_data, rf12_crc, drssi>>
    PROVE  /\ Stored' <=> Stored
           /\ Narrowed' <=> Narrowed
           /\ CrcZero(rf12_crc)' <=> CrcZero(rf12_crc)
           /\ Accepted' <=> Accepted
BY DEF Stored, Narrowed, CrcZero, Accepted, ForThisNode

\* The bytes that come in are the air's.
LEMMA OnAirStep == ASSUME NoWatchdog, TypeOK, Power, Halfway, Pending, Control,
    SendBound, OnAir, Next PROVE OnAir'
<1> USE DEF OnAir, SetPower, radioVars
<1>1. CASE AirStart \/ AirByte \/ TxRequest
  <2>1. CASE AirStart
    BY <2>1, PacketType DEF AirStart, NoAir
  <2>2. CASE AirByte
    BY <2>2 DEF AirByte, TypeOK, NoAir
  <2>3. CASE TxRequest
    BY <2>3, RadioOn DEF TxRequest, Power, Follows, RxOnly, TxOnly, Off, Idling
  <2> QED BY <1>1, <2>1, <2>2, <2>3
<1>2. CASE PowerOnReset
  BY <1>2 DEF PowerOnReset, NoAir
<1>3. CASE rf12_interrupt
  BY <1>3, InterruptPowerEffect DEF Pending, NoAir
<1>4. CASE RmwLoad \/ RmwStore \/ ArgLoad
  BY <1>4 DEF RmwLoad, RmwStore, ArgLoad
<1>5. CASE rf12_xfer
  BY <1>5 DEF rf12_xfer, NoAir, Halfway, TurnsOff, Power, InRmw, Off
<1>6. CASE recvDone \/ recvFull \/ recvRestart \/ rf12_recvStart
  BY <1>6 DEF recvDone, recvFull, recvRestart, rf12_recvStart
<1>7. CASE canSend \/ canSendYes \/ rf12_sendStart \/ sendPre
            \/ sendWait
  BY <1>7 DEF canSend, canSendYes, rf12_sendStart, sendPre, sendWait
<1>8. CASE sleepDone \/ watchdogClear \/ initWait \/ rf12_restore
            \/ restoreRegs \/ restoreDone
  BY <1>8 DEF sleepDone, watchdogClear, initWait, rf12_restore, restoreRegs, restoreDone, NoAir
<1>9. CASE CallRecvDone \/ CallCanSend \/ CallSendStart \/ CallSendAck
            \/ CallSendNow \/ CallSendWait
  BY <1>9 DEF CallRecvDone, CallCanSend, CallSendStart, CallSendAck, CallSendNow,
    CallSendWait
<1>10. CASE CallSleep \/ CallWatchdogFired \/ CallSetFixedLength
            \/ CallRestore
  BY <1>10 DEF CallSleep, CallWatchdogFired, CallSetFixedLength, CallRestore
<1>11. ~WakeUp /\ ~watchdogOn /\ ~CallSetWatchdog
  BY DEF WakeUp, watchdogOn, CallSetWatchdog, NoWatchdog, Pending, Control, Call,
    Thread
<1> QED BY <1>1, <1>2, <1>3, <1>4, <1>5, <1>6, <1>7, <1>8, <1>9, <1>10, <1>11
    DEF Next, Radio, Driver, Sketch

\* The buffer holds what the CRC was computed over.
LEMMA ReceptionStep == ASSUME NoWatchdog, TypeOK, Power, Halfway, Pending,
    Control, SendBound, OnAir, Reception, Next PROVE Reception'
<1> USE DEF Reception, Listening, Control, Thread, Call, bufVars, radioVars,
      threadVars, sendVars, wakeVars, TXRECV, TXIDLE
<1>1. CASE AirStart \/ AirByte \/ TxRequest
  BY <1>1, StoredFrame DEF AirStart, AirByte, TxRequest
<1>2. CASE PowerOnReset
  BY <1>2, StoredFrame DEF PowerOnReset
<1>3. CASE rf12_interrupt
  <2>1. UNCHANGED <<pc, last>> /\ last # "packet"
    BY <1>3, InterruptBufferEffect, InterruptCases DEF Idling
  <2>2. SUFFICES ASSUME rf12_interrupt, Listening' PROVE Stored'
    BY <1>3, <2>1
  <2>3. Receiving /\ Listening /\ ~PacketDone
    BY <2>1, <2>2, InterruptCases DEF TXSYN2, POR_RECEIVED
  <2>4. air.n >= 1
    BY <2>2, <2>3 DEF Power, Resting, Follows, RxOnly, OnAir, Receiving, Fifo, Halfway,
      rf12_interrupt
  <2>5. StoreByte
    BY <2>2, <2>3, InterruptBufferEffect
  <2> QED BY <2>3, <2>4, <2>5, StoredByte
<1>4. CASE RmwLoad \/ RmwStore \/ ArgLoad
  BY <1>4, StoredFrame DEF RmwLoad, RmwStore, ArgLoad
<1>5. CASE rf12_xfer
  BY <1>5, StoredFrame DEF rf12_xfer, Power, InRmw, TurnsRxOn, TurnsTxOn, TurnsOff
<1>6. CASE recvDone \/ recvFull \/ recvRestart \/ rf12_recvStart
  <2>1. CASE recvFull
    <3>1. CASE fixedLength # 0 \/ rf12_len > RF12_MAXDATA
      <4>1. rf12_crc' = CrcBad /\ UNCHANGED <<rxfill, rf12_hdr, rf12_len, rf12_data>>
        BY <2>1, <3>1 DEF recvFull
      <4>2. Stored' /\ ~CrcZero(CrcBad)
        BY <4>1 DEF Stored, CrcBad, CrcZero, Noise
      <4> QED BY <4>1, <4>2 DEF CrcZero
    <3>2. CASE ~(fixedLength # 0 \/ rf12_len > RF12_MAXDATA)
      <4>1. UNCHANGED <<rxfill, rf12_hdr, rf12_len, rf12_data, rf12_crc, drssi>>
        BY <2>1, <3>2 DEF recvFull
      <4>2. Stored'
        BY <2>1, <4>1, StoredFrame DEF recvFull
      <4>3. last' = "packet" => ForThisNode
        BY <2>1, <3>2 DEF recvFull
      <4>4. last' = "packet" => Accepted
        BY <3>2, <4>3, SizeAssumption DEF Accepted, TypeOK
      <4> QED BY <4>1, <4>2, <4>4, StoredFrame
    <3> QED BY <3>1, <3>2
  <2>2. CASE rf12_recvStart
    <3>1. Stored'
      BY <2>2 DEF rf12_recvStart, Stored, CrcStart
    <3> QED BY <2>2, <3>1 DEF rf12_recvStart
  <2>3. CASE recvDone \/ recvRestart
    BY <2>3, StoredFrame DEF recvDone, recvRestart
  <2> QED BY <1>6, <2>1, <2>2, <2>3
<1>7. CASE canSend \/ canSendYes \/ rf12_sendStart \/ sendPre
            \/ sendWait
  <2>1. CASE rf12_sendStart
    BY <2>1 DEF rf12_sendStart
  <2>2. CASE canSend \/ canSendYes \/ sendPre \/ sendWait
    BY <2>2, StoredFrame DEF canSend, canSendYes, sendPre, sendWait, TXPRE1
  <2> QED BY <1>7, <2>1, <2>2
<1>8. CASE sleepDone \/ watchdogClear \/ initWait \/ rf12_restore
            \/ restoreRegs \/ restoreDone
  BY <1>8, StoredFrame DEF sleepDone, watchdogClear, initWait, rf12_restore,
    restoreRegs, restoreDone
<1>9. CASE CallRecvDone \/ CallCanSend \/ CallSendStart \/ CallSendAck
            \/ CallSendNow \/ CallSendWait
  BY <1>9, StoredFrame DEF CallRecvDone, CallCanSend, CallSendStart, CallSendAck,
    CallSendNow, CallSendWait
<1>10. CASE CallSleep \/ CallWatchdogFired \/ CallSetFixedLength
            \/ CallRestore
  BY <1>10, StoredFrame DEF CallSleep, CallWatchdogFired, CallSetFixedLength,
    CallRestore
<1>11. ~WakeUp /\ ~watchdogOn /\ ~CallSetWatchdog
  BY DEF WakeUp, watchdogOn, CallSetWatchdog, NoWatchdog, Pending, Control, Call,
    Thread
<1> QED BY <1>1, <1>2, <1>3, <1>4, <1>5, <1>6, <1>7, <1>8, <1>9, <1>10, <1>11
    DEF Next, Radio, Driver, Sketch

\* The search narrows the signal strength of the packet being received.
LEMMA SearchStep == ASSUME NoWatchdog, TypeOK, Power, Halfway, Pending, Control,
    SendBound, OnAir, Reception, Search, Next PROVE Search'
<1> USE DEF Search, Listening, Control, Thread, Call, bufVars, radioVars,
      threadVars, sendVars, wakeVars, TXRECV, TXIDLE, UNINITIALIZED
<1>1. CASE AirStart \/ AirByte \/ TxRequest
  BY <1>1, StoredFrame DEF AirStart, AirByte, TxRequest
<1>2. CASE PowerOnReset
  BY <1>2, StoredFrame DEF PowerOnReset
<1>3. CASE rf12_interrupt
  <2>1. UNCHANGED <<pc, last>> /\ last # "packet"
    BY <1>3, InterruptBufferEffect, InterruptCases DEF Idling
  <2>2. SUFFICES ASSUME rf12_interrupt, Listening'
                 PROVE  Narrowed' /\ (drssi' < 3 => thr' = 2 * drssi' + 1)
    BY <1>3, <2>1
  <2>3. Receiving /\ Listening /\ ~PacketDone
    BY <2>1, <2>2, InterruptCases DEF TXSYN2, POR_RECEIVED
  <2>4. air.n >= 1
    BY <2>2, <2>3 DEF Power, Resting, Follows, RxOnly, OnAir, Receiving, Fifo, Halfway,
      rf12_interrupt
  <2>5. StoreByte
    BY <2>2, <2>3, InterruptBufferEffect
  <2> QED BY <2>3, <2>4, <2>5, NarrowedByte DEF Reception
<1>4. CASE RmwLoad \/ RmwStore \/ ArgLoad
  BY <1>4, StoredFrame DEF RmwLoad, RmwStore, ArgLoad
<1>5. CASE rf12_xfer
  BY <1>5, StoredFrame DEF rf12_xfer, Power, InRmw, TurnsRxOn, TurnsTxOn, TurnsOff
<1>6. CASE recvDone \/ recvFull \/ recvRestart \/ rf12_recvStart
  <2>1. CASE recvFull
    BY <2>1, StoredFrame DEF recvFull, Narrowed, CrcBad
  <2>2. CASE rf12_recvStart
    <3>1. Narrowed'
      BY <2>2 DEF rf12_recvStart, Narrowed, CrcStart
    <3> QED BY <2>2, <3>1 DEF rf12_recvStart
  <2>3. CASE recvDone \/ recvRestart
    BY <2>3, StoredFrame DEF recvDone, recvRestart
  <2> QED BY <1>6, <2>1, <2>2, <2>3
<1>7. CASE canSend \/ canSendYes \/ rf12_sendStart \/ sendPre
            \/ sendWait
  <2>1. CASE rf12_sendStart
    BY <2>1 DEF rf12_sendStart
  <2>2. CASE canSend \/ canSendYes \/ sendPre \/ sendWait
    BY <2>2, StoredFrame DEF canSend, canSendYes, sendPre, sendWait, TXPRE1
  <2> QED BY <1>7, <2>1, <2>2
<1>8. CASE sleepDone \/ watchdogClear \/ initWait \/ rf12_restore
            \/ restoreRegs \/ restoreDone
  BY <1>8, StoredFrame DEF sleepDone, watchdogClear, initWait, rf12_restore,
    restoreRegs, restoreDone
<1>9. CASE CallRecvDone \/ CallCanSend \/ CallSendStart \/ CallSendAck
            \/ CallSendNow \/ CallSendWait
  BY <1>9, StoredFrame DEF CallRecvDone, CallCanSend, CallSendStart, CallSendAck,
    CallSendNow, CallSendWait
<1>10. CASE CallSleep \/ CallWatchdogFired \/ CallSetFixedLength
            \/ CallRestore
  BY <1>10, StoredFrame DEF CallSleep, CallWatchdogFired, CallSetFixedLength,
    CallRestore
<1>11. ~WakeUp /\ ~watchdogOn /\ ~CallSetWatchdog
  BY DEF WakeUp, watchdogOn, CallSetWatchdog, NoWatchdog, Pending, Control, Call,
    Thread
<1> QED BY <1>1, <1>2, <1>3, <1>4, <1>5, <1>6, <1>7, <1>8, <1>9, <1>10, <1>11
    DEF Next, Radio, Driver, Sketch

\* The invariant of the receiver.
ReceiveInv == OnAir /\ Reception /\ Search

\* Nothing received yet.
LEMMA ReceiveInit == Init => ReceiveInv
BY DEF Init, ReceiveInv, OnAir, Reception, Search, Listening, NoAir, UNINITIALIZED, TXRECV

\* What was received stays what it was.
LEMMA ReceiveStep ==
    ASSUME NoWatchdog, TypeOK, DriverInv, ReceiveInv, [Next]_vars PROVE ReceiveInv'
<1> USE DEF DriverInv, ReceiveInv
<1>1. CASE Next
  BY <1>1, OnAirStep, ReceptionStep, SearchStep
<1>2. CASE UNCHANGED vars
  BY <1>2, StoredFrame DEF vars, bufVars, radioVars, threadVars, OnAir, Reception, Search,
    Listening
<1> QED BY <1>1, <1>2

\* The invariant of the receiver, for the two theorems below.
LEMMA ReceiveInvariant == NoWatchdog /\ Spec => []ReceiveInv
<1> SUFFICES ASSUME NoWatchdog PROVE Spec => []ReceiveInv
  OBVIOUS
<1>1. TypeOK /\ DriverInv /\ ReceiveInv /\ [Next]_vars => ReceiveInv'
  BY ReceiveStep
<1> QED BY <1>1, ReceiveInit, DriverInvariant, PTL DEF Spec

\* What rf12_recvDone() returns with a zero CRC is one packet of the air, whole,
\* undamaged and for this node, wherever the interrupts fell.
THEOREM GoodPacketTheorem == NoWatchdog /\ Spec => []GoodPacketIsWhole
<1> SUFFICES ASSUME NoWatchdog PROVE Spec => []GoodPacketIsWhole
  OBVIOUS
<1>1. TypeOK /\ ReceiveInv => GoodPacketIsWhole
  <2> SUFFICES ASSUME TypeOK, ReceiveInv, last = "packet", CrcZero(rf12_crc)
               PROVE  \E p \in Packets :
                        /\ p.ok /\ rf12_crc.of = p
                        /\ rf12_hdr = p.hdr /\ rf12_len = p.len
                        /\ p.hdr.dst /\ NodeId # 31 => p.hdr.node = NodeId
                        /\ \A i \in 0 .. p.len - 1 : rf12_data[i] = p
    BY DEF GoodPacketIsWhole
  <2> DEFINE q == rf12_crc.of
  <2>1. q \in AirPackets /\ rf12_crc.n = q.len + 4 /\ q.ok
    BY DEF TypeOK, CrcZero
  <2>2. q.len \in 0 .. 255 /\ RF12_MAXDATA \in Nat
    BY <2>1, PacketType, SizeAssumption
  <2>3. Stored /\ Accepted
    BY DEF ReceiveInv, Reception
  <2>4. rf12_crc.n >= 2
    BY <2>1, <2>2
  <2>5. /\ q \in Packets \cup {Noise} /\ rf12_hdr = q.hdr /\ rf12_len = q.len
        /\ \A k \in 0 .. RF12_MAXDATA - 1 : k + 3 <= rf12_crc.n => rf12_data[k] = q
    BY <2>1, <2>2, <2>3, <2>4 DEF Stored
  <2>6. q # Noise
    BY <2>1 DEF Noise
  <2>7. \A i \in 0 .. q.len - 1 : rf12_data[i] = q
    BY <2>1, <2>2, <2>3, <2>5, SMTT(30) DEF Accepted
  <2>8. q.hdr.dst /\ NodeId # 31 => q.hdr.node = NodeId
    BY <2>3, <2>5 DEF Accepted, ForThisNode
  <2> QED BY <2>1, <2>5, <2>6, <2>7, <2>8
<1> QED BY <1>1, ReceiveInvariant, DriverInvariant, PTL

\* The signal strength that comes with a good packet is its own.
THEOREM RssiTheorem == NoWatchdog /\ Spec => []RssiIsTheBand
<1> SUFFICES ASSUME NoWatchdog PROVE Spec => []RssiIsTheBand
  OBVIOUS
<1>1. TypeOK /\ ReceiveInv => RssiIsTheBand
  <2> SUFFICES ASSUME TypeOK, ReceiveInv, last = "packet", CrcZero(rf12_crc), drssi >= 3
               PROVE  drssi = Band(rf12_crc.of.level)
    BY DEF RssiIsTheBand
  <2>1. rf12_crc.of \in AirPackets /\ rf12_crc.n = rf12_crc.of.len + 4
    BY DEF TypeOK, CrcZero
  <2>2. rf12_crc.of.len \in 0 .. 255
    BY <2>1, PacketType
  <2>3. rf12_crc.n >= 1
    BY <2>1, <2>2
  <2> QED BY <2>3 DEF ReceiveInv, Search, Narrowed
<1> QED BY <1>1, ReceiveInvariant, DriverInvariant, PTL

-----------------------------------------------------------------------------
(* What is sent.                                                           *)

\* A byte of a frame: what it is, and its value.
SentByte == FrameBytes \X (Header \cup AirPackets \cup Int)

\* The bytes of a frame by their places.
LEMMA FrameElements ==
    ASSUME NEW a \in Args
    PROVE  /\ FrameOf(a) \in Seq(SentByte) /\ Len(FrameOf(a)) = a.len + 11
           /\ \A i \in 1 .. 3 : FrameOf(a)[i] = <<"AA", 0>>
           /\ FrameOf(a)[4] = <<"2D", 0>> /\ FrameOf(a)[5] = <<"group", 0>>
           /\ FrameOf(a)[6] = <<"hdr", OutHeader(a.hdr)>> /\ FrameOf(a)[7] = <<"len", a.len>>
           /\ \A i \in 8 .. a.len + 7 : FrameOf(a)[i] = <<"data", Own>>
           /\ FrameOf(a)[a.len + 8] = <<"crc", a.len + 2>>
           /\ FrameOf(a)[a.len + 9] = <<"crc8", a.len + 2>>
           /\ \A i \in a.len + 10 .. a.len + 11 : FrameOf(a)[i] = <<"AA", 0>>
<1> DEFINE s == <<<<"AA", 0>>, <<"AA", 0>>, <<"AA", 0>>, <<"2D", 0>>, <<"group", 0>>,
                  <<"hdr", OutHeader(a.hdr)>>, <<"len", a.len>>>>
           t == [i \in 1 .. a.len |-> <<"data", Own>>]
           u == <<<<"crc", a.len + 2>>, <<"crc8", a.len + 2>>, <<"AA", 0>>, <<"AA", 0>>>>
<1>1. a.len \in Nat /\ a.hdr \in Header /\ OutHeader(a.hdr) \in Header
  BY SizeAssumption, OutHeaderType DEF Args
<1>2. s \in Seq(SentByte) /\ Len(s) = 7
  BY <1>1 DEF SentByte, FrameBytes
<1>3. t \in Seq(SentByte) /\ Len(t) = a.len /\ \A i \in 1 .. a.len : t[i] = <<"data", Own>>
  <2>1. <<"data", Own>> \in SentByte
    BY PacketType DEF SentByte, FrameBytes
  <2>2. t \in [1 .. a.len -> SentByte] /\ DOMAIN t = 1 .. a.len
    BY <2>1
  <2>3. t \in Seq(SentByte)
    BY <1>1, <2>2, SMTT(30)
  <2>4. Len(t) \in Nat /\ DOMAIN t = 1 .. Len(t)
    BY <2>3, LenProperties
  <2>5. Len(t) = a.len
    BY <1>1, <2>2, <2>4
  <2> QED BY <2>3, <2>5
<1>4. u \in Seq(SentByte) /\ Len(u) = 4
  BY <1>1 DEF SentByte, FrameBytes
<1>5. FrameOf(a) = (s \o t) \o u
  BY DEF FrameOf
<1>6. /\ s[1] = <<"AA", 0>> /\ s[2] = <<"AA", 0>> /\ s[3] = <<"AA", 0>> /\ s[4] = <<"2D", 0>>
      /\ s[5] = <<"group", 0>> /\ s[6] = <<"hdr", OutHeader(a.hdr)>> /\ s[7] = <<"len", a.len>>
  OBVIOUS
<1>7. /\ u[1] = <<"crc", a.len + 2>> /\ u[2] = <<"crc8", a.len + 2>>
      /\ u[3] = <<"AA", 0>> /\ u[4] = <<"AA", 0>>
  OBVIOUS
<1> HIDE DEF s, t, u
<1>8. /\ s \o t \in Seq(SentByte) /\ Len(s \o t) = a.len + 7
      /\ \A i \in 1 .. a.len + 7 : (s \o t)[i] = IF i <= 7 THEN s[i] ELSE t[i - 7]
  <2>1. /\ s \o t \in Seq(SentByte) /\ Len(s \o t) = Len(s) + Len(t)
        /\ \A i \in 1 .. Len(s) + Len(t) :
             (s \o t)[i] = IF i <= Len(s) THEN s[i] ELSE t[i - Len(s)]
    BY <1>2, <1>3, ConcatProperties, Zenon
  <2>2. Len(s) + Len(t) = a.len + 7
    BY <1>1, <1>2, <1>3
  <2> QED BY <1>2, <2>1, <2>2, Zenon
<1>9. /\ FrameOf(a) \in Seq(SentByte) /\ Len(FrameOf(a)) = a.len + 11
      /\ \A i \in 1 .. a.len + 11 :
           FrameOf(a)[i] = IF i <= a.len + 7 THEN (s \o t)[i] ELSE u[i - (a.len + 7)]
  <2>1. /\ FrameOf(a) \in Seq(SentByte) /\ Len(FrameOf(a)) = Len(s \o t) + Len(u)
        /\ \A i \in 1 .. Len(s \o t) + Len(u) :
             FrameOf(a)[i] = IF i <= Len(s \o t) THEN (s \o t)[i] ELSE u[i - Len(s \o t)]
    <3>1. PICK v \in Seq(SentByte) : v = s \o t
      BY <1>8
    <3>2. /\ v \o u \in Seq(SentByte) /\ Len(v \o u) = Len(v) + Len(u)
          /\ \A i \in 1 .. Len(v) + Len(u) :
               (v \o u)[i] = IF i <= Len(v) THEN v[i] ELSE u[i - Len(v)]
      BY <1>4, ConcatProperties, Zenon
    <3> QED BY <1>5, <3>1, <3>2, Zenon
  <2>2. Len(s \o t) + Len(u) = a.len + 11
    BY <1>1, <1>4, <1>8
  <2> QED BY <1>8, <2>1, <2>2, Zenon
<1>10. \A i \in 1 .. 7 : FrameOf(a)[i] = s[i]
  <2> SUFFICES ASSUME NEW i \in 1 .. 7 PROVE FrameOf(a)[i] = s[i]
    OBVIOUS
  <2>1. i \in 1 .. a.len + 7 /\ i \in 1 .. a.len + 11 /\ i <= 7 /\ i <= a.len + 7
    BY <1>1
  <2>2. FrameOf(a)[i] = (s \o t)[i]
    BY <1>9, <2>1, Zenon
  <2>3. (s \o t)[i] = s[i]
    BY <1>8, <2>1, Zenon
  <2> QED BY <2>2, <2>3, Zenon
<1>11. \A i \in 8 .. a.len + 7 : FrameOf(a)[i] = <<"data", Own>>
  <2> SUFFICES ASSUME NEW i \in 8 .. a.len + 7 PROVE FrameOf(a)[i] = <<"data", Own>>
    OBVIOUS
  <2>1. i \in 1 .. a.len + 7 /\ i \in 1 .. a.len + 11 /\ ~(i <= 7) /\ i <= a.len + 7
    BY <1>1
  <2>2. FrameOf(a)[i] = t[i - 7]
    BY <1>8, <1>9, <2>1, Zenon
  <2> QED BY <1>1, <1>3, <2>2
<1>12. /\ FrameOf(a)[a.len + 8] = u[1] /\ FrameOf(a)[a.len + 9] = u[2]
       /\ FrameOf(a)[a.len + 10] = u[3] /\ FrameOf(a)[a.len + 11] = u[4]
  <2>1. \A k \in 1 .. 4 : /\ a.len + 7 + k \in 1 .. a.len + 11 /\ ~(a.len + 7 + k <= a.len + 7)
                          /\ (a.len + 7 + k) - (a.len + 7) = k
    BY <1>1
  <2>2. \A k \in 1 .. 4 : FrameOf(a)[a.len + 7 + k] = u[k]
    BY <1>9, <2>1, Zenon
  <2>3. /\ FrameOf(a)[a.len + 7 + 1] = u[1] /\ FrameOf(a)[a.len + 7 + 2] = u[2]
        /\ FrameOf(a)[a.len + 7 + 3] = u[3] /\ FrameOf(a)[a.len + 7 + 4] = u[4]
    BY <2>2
  <2>4. a.len + 7 + 1 = a.len + 8 /\ a.len + 7 + 2 = a.len + 9
          /\ a.len + 7 + 3 = a.len + 10 /\ a.len + 7 + 4 = a.len + 11
    BY <1>1
  <2> QED BY <2>3, <2>4
<1>13. \A i \in 1 .. 3 : FrameOf(a)[i] = <<"AA", 0>>
  BY <1>6, <1>10
<1>14. \A i \in a.len + 10 .. a.len + 11 : FrameOf(a)[i] = <<"AA", 0>>
  BY <1>1, <1>7, <1>12
<1>15. /\ FrameOf(a)[4] = s[4] /\ FrameOf(a)[5] = s[5] /\ FrameOf(a)[6] = s[6]
       /\ FrameOf(a)[7] = s[7]
  BY <1>10
<1> QED BY <1>6, <1>7, <1>9, <1>11, <1>12, <1>13, <1>14, <1>15, Zenon

\* The byte on its way out is the next one of the frame.
LEMMA NextByte ==
    ASSUME TypeOK, SendBound, Transmission, IsSending
    PROVE  /\ OutByte = FrameOf(given)[Len(frame) + 1]
           /\ Len(frame) \in Nat /\ Len(frame) + 1 <= given.len + 11
           /\ rxstate = TXDONE => Len(frame) + 1 = given.len + 11
<1> DEFINE F == FrameOf(given)
<1>1. given \in Args /\ given.len \in Nat /\ rf12_len = given.len /\ rxstate \in -128 .. 12
  BY SizeAssumption DEF TypeOK, Args, Transmission, Underway, TXSYN2
<1>2. rxstate \notin {4, 5, 6, 7} /\ (rxstate < 0 => rxstate >= - (2 + given.len))
  BY <1>1 DEF IsSending, Idling, TXIDLE, UNINITIALIZED, POR_RECEIVED, TXRECV, SendBound
<1>3. Len(frame) = IF rxstate >= 8 THEN rxstate - 8 ELSE 7 + given.len + rxstate
  BY <1>1 DEF Transmission, BytesOut, TXPRE1
<1>4. /\ \A i \in 1 .. 3 : F[i] = <<"AA", 0>>
      /\ F[4] = <<"2D", 0>> /\ F[5] = <<"group", 0>>
      /\ F[6] = <<"hdr", OutHeader(given.hdr)>> /\ F[7] = <<"len", given.len>>
      /\ \A i \in 8 .. given.len + 7 : F[i] = <<"data", Own>>
      /\ F[given.len + 8] = <<"crc", given.len + 2>>
      /\ F[given.len + 9] = <<"crc8", given.len + 2>>
      /\ \A i \in given.len + 10 .. given.len + 11 : F[i] = <<"AA", 0>>
  BY <1>1, FrameElements, Zenon
<1> HIDE DEF F
<1>5. CASE rxstate < 0
  <2>1. OutByte = BufferByte(3 + rf12_len + rxstate)
    BY <1>1, <1>5 DEF OutByte, TXSYN1, TXSYN2, TXCRC1, TXCRC2
  <2>2. PICK pos \in Int : pos = 3 + rf12_len + rxstate /\ pos \in 1 .. given.len + 2
    BY <1>1, <1>2, <1>5
  <2>3. Len(frame) + 1 = pos + 5
    BY <1>1, <1>3, <1>5, <2>2, SMTT(30)
  <2>4. ASSUME pos = 1 PROVE OutByte = F[Len(frame) + 1]
    <3>1. OutByte = <<"hdr", rf12_hdr>> /\ Len(frame) + 1 = 6
      BY <2>1, <2>2, <2>3, <2>4 DEF BufferByte
    <3>2. rf12_hdr = OutHeader(given.hdr)
      BY DEF Transmission, Underway
    <3> QED BY <1>4, <3>1, <3>2
  <2>5. ASSUME pos = 2 PROVE OutByte = F[Len(frame) + 1]
    <3>1. OutByte = <<"len", rf12_len>> /\ Len(frame) + 1 = 7
      BY <2>1, <2>2, <2>3, <2>5 DEF BufferByte
    <3> QED BY <1>1, <1>4, <3>1
  <2>6. ASSUME pos > 2 PROVE OutByte = F[Len(frame) + 1]
    <3>1. rf12_data[pos - 3] = Own
      BY <1>1, <2>2, <2>6 DEF Transmission, Underway
    <3>2. F[pos + 5] = <<"data", Own>>
      BY <1>1, <1>4, <2>2, <2>6
    <3> QED BY <2>1, <2>2, <2>3, <2>6, <3>1, <3>2 DEF BufferByte
  <2>7. OutByte = F[Len(frame) + 1]
    BY <2>2, <2>4, <2>5, <2>6 DEF F
  <2> QED BY <1>1, <1>2, <1>3, <1>5, <2>7 DEF F, TXDONE
<1>6. CASE rxstate \in {0, 1}
  <2>1. rf12_crc.n = given.len + 2
    BY <1>1, <1>6 DEF Transmission, CrcSent, TXDONE
  <2>2. OutByte = IF rxstate = 0 THEN <<"crc", rf12_crc.n>> ELSE <<"crc8", rf12_crc.n>>
    BY <1>6 DEF OutByte, TXSYN1, TXSYN2, TXCRC1, TXCRC2
  <2>3. Len(frame) + 1 = IF rxstate = 0 THEN given.len + 8 ELSE given.len + 9
    BY <1>1, <1>3, <1>6
  <2>4. OutByte = F[Len(frame) + 1]
    BY <1>4, <1>6, <2>1, <2>2, <2>3
  <2> QED BY <1>1, <1>3, <1>6, <2>4 DEF F, TXDONE
<1>7. CASE rxstate \in {2, 3}
  <2>1. OutByte = <<"AA", 0>>
    BY <1>7 DEF OutByte, TXSYN1, TXSYN2, TXCRC1, TXCRC2
  <2>2. Len(frame) + 1 \in given.len + 10 .. given.len + 11
    BY <1>1, <1>3, <1>7
  <2>3. OutByte = F[Len(frame) + 1]
    BY <1>4, <2>1, <2>2
  <2> QED BY <1>1, <1>3, <1>7, <2>3 DEF F, TXDONE
<1>8. CASE rxstate \in {8, 9, 10}
  <2>1. OutByte = <<"AA", 0>>
    BY <1>8 DEF OutByte, TXSYN1, TXSYN2, TXCRC1, TXCRC2
  <2>2. Len(frame) + 1 \in 1 .. 3
    BY <1>1, <1>3, <1>8
  <2>3. OutByte = F[Len(frame) + 1]
    BY <1>4, <2>1, <2>2
  <2> QED BY <1>1, <1>3, <1>8, <2>3 DEF F, TXDONE
<1>9. CASE rxstate \in {11, 12}
  <2>1. OutByte = IF rxstate = 11 THEN <<"2D", 0>> ELSE <<"group", 0>>
    BY <1>9 DEF OutByte, TXSYN1, TXSYN2, TXCRC1, TXCRC2
  <2>2. Len(frame) + 1 = IF rxstate = 11 THEN 4 ELSE 5
    BY <1>1, <1>3, <1>9
  <2>3. OutByte = F[Len(frame) + 1]
    BY <1>4, <1>9, <2>1, <2>2
  <2> QED BY <1>1, <1>3, <1>9, <2>3 DEF F, TXDONE
<1> QED BY <1>1, <1>2, <1>5, <1>6, <1>7, <1>8, <1>9

\* A byte sent adds one to the frame.
LEMMA FrameGrows ==
    ASSUME TypeOK, Framed, SendBound, Transmission, IsSending, SendByte, given' = given
    PROVE  /\ frame' \in Seq(SentByte) /\ Len(frame') = Len(frame) + 1
           /\ \A i \in 1 .. Len(frame') : frame'[i] = FrameOf(given)[i]
           /\ Underway'
<1>1. frame \in Seq(SentByte) /\ OutByte \in SentByte /\ frame' = Append(frame, OutByte)
  BY OutByteType DEF Framed, SentByte, SendByte, IsSending
<1>2. /\ frame' \in Seq(SentByte) /\ Len(frame') = Len(frame) + 1
      /\ frame'[Len(frame) + 1] = OutByte /\ \A i \in 1 .. Len(frame) : frame'[i] = frame[i]
  BY <1>1
<1>3. \A i \in 1 .. Len(frame) : frame[i] = FrameOf(given)[i]
  BY DEF Transmission, Underway
<1>4. \A i \in 1 .. Len(frame') : frame'[i] = FrameOf(given)[i]
  <2> HIDE DEF FrameOf
  <2> SUFFICES ASSUME NEW i \in 1 .. Len(frame') PROVE frame'[i] = FrameOf(given)[i]
    OBVIOUS
  <2>1. i = Len(frame) + 1 \/ i \in 1 .. Len(frame)
    BY <1>2, NextByte
  <2> QED BY <1>2, <1>3, <2>1, NextByte, Zenon
<1>5. UNCHANGED <<rf12_hdr, rf12_len, rf12_data>>
  BY DEF SendByte
<1>6. Underway'
  <2>1. FrameOf(given)' = FrameOf(given) /\ OutHeader(given.hdr)' = OutHeader(given.hdr)
    BY DEF FrameOf, OutHeader
  <2> QED BY <1>4, <1>5, <2>1 DEF Transmission, Underway
<1> QED BY <1>2, <1>4, <1>6

\* The CRC takes in every byte from the header on.
LEMMA CrcGrows ==
    ASSUME TypeOK, SendBound, Transmission, IsSending, SendByte, rxstate # TXDONE,
           rxstate' = NextState
    PROVE  CrcSent' /\ BytesOut' = BytesOut + 1
<1>1. /\ rf12_len \in Nat /\ rxstate \in -128 .. 12 /\ rf12_crc.n \in Int
      /\ rxstate \notin {3, 4, 5, 6, 7} /\ (rxstate < 0 => rxstate >= - (2 + rf12_len))
  BY DEF TypeOK, TXSYN2, IsSending, Idling, TXIDLE, UNINITIALIZED, POR_RECEIVED, TXRECV,
    TXDONE, SendBound
<1>2. rf12_len' = rf12_len
  BY DEF SendByte
<1>3. CrcSent
  BY DEF Transmission
<1>4. CASE rxstate = 12
  <2>1. rxstate' = - (2 + rf12_len) /\ rf12_crc' = rf12_crc
    BY <1>1, <1>4 DEF NextState, DataState, TXSYN2, SendByte
  <2>2. rf12_crc'.n = 0
    BY <1>3, <1>4, <2>1 DEF CrcSent, TXPRE1
  <2> QED BY <1>1, <1>2, <1>4, <2>1, <2>2 DEF CrcSent, BytesOut, TXPRE1, TXDONE
<1>5. CASE rxstate \in 0 .. 11
  <2>1. rxstate' = rxstate + 1 /\ rf12_crc' = rf12_crc
    BY <1>1, <1>5 DEF NextState, TXSYN2, SendByte
  <2> QED BY <1>1, <1>2, <1>3, <1>5, <2>1 DEF CrcSent, BytesOut, TXPRE1, TXDONE
<1>6. CASE rxstate < 0
  <2>1. rxstate' = rxstate + 1 /\ rf12_crc' = CrcUpdate(rf12_crc, Own, 3 + rf12_len + rxstate)
    BY <1>1, <1>6 DEF NextState, TXSYN2, SendByte
  <2>2. PICK pos \in Int : pos = 3 + rf12_len + rxstate /\ pos = rf12_crc.n + 1 /\ pos >= 1
    BY <1>1, <1>3, <1>6 DEF CrcSent
  <2>3. pos = 1 \/ rf12_crc.of = Own
    BY <1>1, <1>3, <1>6, <2>2 DEF CrcSent
  <2>4. rf12_crc' = [of |-> Own, n |-> pos]
    BY <2>1, <2>2, <2>3, Zenon DEF CrcUpdate
  <2>5. rf12_crc'.of = Own /\ rf12_crc'.n = pos
    BY <2>4
  <2> QED BY <1>1, <1>2, <1>6, <2>1, <2>2, <2>5 DEF CrcSent, BytesOut, TXPRE1, TXDONE
<1> QED BY <1>1, <1>4, <1>5, <1>6

\* What is under way depends on the buffer, the state and the frame alone.
LEMMA UnderwayFrame ==
    ASSUME UNCHANGED <<rf12_hdr, rf12_len, rf12_data, given, frame>>
    PROVE  /\ Underway' <=> Underway
           /\ rf12_crc' = rf12_crc /\ rxstate' = rxstate =>
                (CrcSent' <=> CrcSent) /\ BytesOut' = BytesOut
<1>1. FrameOf(given)' = FrameOf(given) /\ OutHeader(given.hdr)' = OutHeader(given.hdr)
  BY DEF FrameOf, OutHeader
<1> QED BY <1>1 DEF Underway, CrcSent, BytesOut

\* rf12_sendStart() puts what it was given into the buffer.
LEMMA GivenUnderway ==
    ASSUME TypeOK, rf12_sendStart
    PROVE  Underway' /\ rf12_crc'.n = 0 /\ Len(frame') = 0
<1>1. /\ given' = arg /\ rf12_len' = arg.len /\ rf12_hdr' = OutHeader(arg.hdr) /\ frame' = <<>>
      /\ rf12_data' = [i \in DOMAIN rf12_data |-> IF i < arg.len THEN Own ELSE rf12_data[i]]
      /\ rf12_crc' = CrcStart
  BY Zenon DEF rf12_sendStart
<1>2. /\ DOMAIN rf12_data = 0 .. RF12_MAXDATA - 1 /\ arg.len \in 0 .. RF12_MAXDATA
      /\ RF12_MAXDATA \in Nat
  BY SizeAssumption DEF TypeOK, Args
<1>3. \A i \in 0 .. arg.len - 1 : rf12_data'[i] = Own
  BY <1>1, <1>2
<1>4. Len(frame') = 0 /\ rf12_crc'.n = 0
  BY <1>1 DEF CrcStart
<1>5. \A i \in 1 .. Len(frame') : frame'[i] = FrameOf(given)'[i]
  BY <1>4
<1>6. OutHeader(given.hdr)' = OutHeader(arg.hdr)
  BY <1>1 DEF OutHeader
<1> QED BY <1>1, <1>3, <1>4, <1>5, <1>6 DEF Underway

\* The frame grows byte by byte while a packet is sent.
LEMMA TransmissionStep == ASSUME NoWatchdog, TypeOK, Framed, Power, Halfway,
    Pending, Control, SendBound, Transmission, Next PROVE Transmission'
<1> USE DEF Transmission, IsSending, Idling, Control, Thread, Call,
      AfterRecvDone, bufVars, radioVars, threadVars, sendVars, wakeVars, TXRECV,
      TXIDLE,  UNINITIALIZED, POR_RECEIVED
<1>1. CASE AirStart \/ AirByte \/ TxRequest
  BY <1>1, UnderwayFrame DEF AirStart, AirByte, TxRequest
<1>2. CASE PowerOnReset
  BY <1>2, UnderwayFrame DEF PowerOnReset
<1>3. CASE rf12_interrupt
  <2>1. UNCHANGED <<pc, given>>
    BY <1>3, InterruptBufferEffect
  <2>2. pc # "sendPre"
    BY <1>3, InterruptCases
  <2>3. SUFFICES ASSUME rf12_interrupt, IsSending'
                 PROVE  Underway' /\ CrcSent' /\ Len(frame') = BytesOut'
    BY <1>3, <2>1, <2>2
  <2>4. Sending /\ IsSending /\ rxstate' = NextState /\ rxstate # TXDONE
    BY <2>3, InterruptCases, NextSending DEF Idles
  <2>5. SendByte
    BY <2>3, <2>4, InterruptBufferEffect
  <2>6. Underway' /\ Len(frame') = Len(frame) + 1
    BY <2>1, <2>4, <2>5, FrameGrows
  <2>7. CrcSent' /\ BytesOut' = BytesOut + 1
    BY <2>4, <2>5, CrcGrows
  <2> QED BY <2>4, <2>6, <2>7
<1>4. CASE RmwLoad \/ RmwStore \/ ArgLoad
  BY <1>4, UnderwayFrame DEF RmwLoad, RmwStore, ArgLoad
<1>5. CASE rf12_xfer
  BY <1>5, UnderwayFrame DEF rf12_xfer, Power, InRmw, TurnsRxOn, TurnsTxOn, TurnsOff
<1>6. CASE recvDone \/ recvFull \/ recvRestart \/ rf12_recvStart
  <2>1. CASE recvFull
    BY <2>1 DEF recvFull
  <2>2. CASE rf12_recvStart
    BY <2>2 DEF rf12_recvStart
  <2>3. CASE recvDone \/ recvRestart
    BY <2>3, UnderwayFrame DEF recvDone, recvRestart
  <2> QED BY <1>6, <2>1, <2>2, <2>3
<1>7. CASE canSend \/ canSendYes \/ rf12_sendStart \/ sendPre
            \/ sendWait
  <2>1. CASE rf12_sendStart
    <3>1. Underway' /\ rf12_crc'.n = 0 /\ Len(frame') = 0
      BY <2>1, GivenUnderway
    <3> QED BY <2>1, <3>1 DEF rf12_sendStart
  <2>2. CASE sendPre
    <3>1. Underway' /\ UNCHANGED <<rf12_crc, frame>> /\ rf12_crc.n = 0 /\ Len(frame) = 0
      BY <2>2, UnderwayFrame DEF sendPre
    <3>2. rxstate' = 8 /\ pc' # "sendPre"
      BY <2>2 DEF sendPre, TXPRE1
    <3> QED BY <3>1, <3>2 DEF CrcSent, BytesOut, TXPRE1, TXDONE
  <2>3. CASE canSend \/ canSendYes \/ sendWait
    BY <2>3, UnderwayFrame DEF canSend, canSendYes, sendWait
  <2> QED BY <1>7, <2>1, <2>2, <2>3
<1>8. CASE sleepDone \/ watchdogClear \/ initWait \/ rf12_restore
            \/ restoreRegs \/ restoreDone
  BY <1>8, UnderwayFrame DEF sleepDone, watchdogClear, initWait, rf12_restore,
    restoreRegs, restoreDone
<1>9. CASE CallRecvDone \/ CallCanSend \/ CallSendStart \/ CallSendAck
            \/ CallSendNow \/ CallSendWait
  BY <1>9, UnderwayFrame DEF CallRecvDone, CallCanSend, CallSendStart,
    CallSendAck, CallSendNow, CallSendWait
<1>10. CASE CallSleep \/ CallWatchdogFired \/ CallSetFixedLength
            \/ CallRestore
  BY <1>10, UnderwayFrame DEF CallSleep, CallWatchdogFired, CallSetFixedLength,
    CallRestore
<1>11. ~WakeUp /\ ~watchdogOn /\ ~CallSetWatchdog
  BY DEF WakeUp, watchdogOn, CallSetWatchdog, NoWatchdog, Pending, Control, Call,
    Thread
<1> QED BY <1>1, <1>2, <1>3, <1>4, <1>5, <1>6, <1>7, <1>8, <1>9, <1>10, <1>11
    DEF Next, Radio, Driver, Sketch


\* Only the interrupt adds to the frame.
LEMMA FrameChange == ASSUME NoWatchdog, Pending, Control, frame' # frame, frame'
    # <<>>, Next PROVE rf12_interrupt
<1> USE DEF sendVars
<1>1. CASE AirStart \/ AirByte \/ TxRequest
  BY <1>1 DEF AirStart, AirByte, TxRequest
<1>2. CASE PowerOnReset
  BY <1>2 DEF PowerOnReset
<1>3. CASE rf12_interrupt
  BY <1>3
<1>4. CASE RmwLoad \/ RmwStore \/ ArgLoad
  BY <1>4 DEF RmwLoad, RmwStore, ArgLoad
<1>5. CASE rf12_xfer
  BY <1>5 DEF rf12_xfer
<1>6. CASE recvDone \/ recvFull \/ recvRestart \/ rf12_recvStart
  BY <1>6 DEF recvDone, recvFull, recvRestart, rf12_recvStart
<1>7. CASE canSend \/ canSendYes \/ rf12_sendStart \/ sendPre
            \/ sendWait
  BY <1>7 DEF canSend, canSendYes, rf12_sendStart, sendPre, sendWait
<1>8. CASE sleepDone \/ watchdogClear \/ initWait \/ rf12_restore
            \/ restoreRegs \/ restoreDone
  BY <1>8 DEF sleepDone, watchdogClear, initWait, rf12_restore, restoreRegs,
    restoreDone
<1>9. CASE CallRecvDone \/ CallCanSend \/ CallSendStart \/ CallSendAck
            \/ CallSendNow \/ CallSendWait
  BY <1>9 DEF CallRecvDone, CallCanSend, CallSendStart, CallSendAck, CallSendNow,
    CallSendWait
<1>10. CASE CallSleep \/ CallWatchdogFired \/ CallSetFixedLength
            \/ CallRestore
  BY <1>10 DEF CallSleep, CallWatchdogFired, CallSetFixedLength, CallRestore
<1>11. ~WakeUp /\ ~watchdogOn /\ ~CallSetWatchdog
  BY DEF WakeUp, watchdogOn, CallSetWatchdog, NoWatchdog, Pending, Control, Call,
    Thread
<1> QED BY <1>1, <1>2, <1>3, <1>4, <1>5, <1>6, <1>7, <1>8, <1>9, <1>10, <1>11
    DEF Next, Radio, Driver, Sketch


\* The invariant of the sender, for the theorem below.
LEMMA TransmissionInvariant == NoWatchdog /\ Spec => []Transmission
<1> SUFFICES ASSUME NoWatchdog PROVE Spec => []Transmission
  OBVIOUS
<1>1. Init => Transmission
  BY DEF Init, Transmission, IsSending, Idling, UNINITIALIZED
<1>2. TypeOK /\ DriverInv /\ Transmission /\ [Next]_vars => Transmission'
  <2> SUFFICES ASSUME TypeOK, DriverInv, Transmission, [Next]_vars PROVE Transmission'
    OBVIOUS
  <2>1. CASE Next
    BY <2>1, TransmissionStep DEF DriverInv
  <2>2. CASE UNCHANGED vars
    BY <2>2, UnderwayFrame DEF vars, bufVars, sendVars, Transmission, IsSending, Idling
  <2> QED BY <2>1, <2>2
<1> QED BY <1>1, <1>2, DriverInvariant, PTL DEF Spec

\* Two sequences that agree on the first one's places.
LEMMA PrefixByPlaces ==
    ASSUME NEW S, NEW s \in Seq(S), NEW t \in Seq(S), Len(s) <= Len(t),
           \A i \in 1 .. Len(s) : s[i] = t[i]
    PROVE  IsPrefix(s, t) /\ (Len(s) = Len(t) => s = t)
<1>1. Len(s) \in Nat /\ Len(t) \in Nat
  BY LenProperties
<1>2. \A i \in 1 .. Len(s) : s[i] \in S /\ t[i] \in S
  BY <1>1, ElementOfSeq
<1>3. /\ SubSeq(s, 1, Len(s)) \in Seq(S) /\ Len(SubSeq(s, 1, Len(s))) = Len(s)
      /\ \A i \in 1 .. Len(s) : SubSeq(s, 1, Len(s))[i] = s[i]
  BY <1>1, <1>2
<1>4. /\ SubSeq(t, 1, Len(s)) \in Seq(S) /\ Len(SubSeq(t, 1, Len(s))) = Len(s)
      /\ \A i \in 1 .. Len(s) : SubSeq(t, 1, Len(s))[i] = t[i]
  BY <1>1, <1>2
<1>5. SubSeq(s, 1, Len(s)) = SubSeq(t, 1, Len(s))
  BY <1>3, <1>4, SeqEqual
<1>6. Len(s) = Len(t) => s = t
  BY SeqEqual
<1> QED BY <1>5, <1>6 DEF IsPrefix

\* The interrupt sends, byte by byte, the frame of the packet that was given to
\* rf12_sendStart, and goes back to TXIDLE when all of it is out.
THEOREM SentTheorem == NoWatchdog /\ Spec => SentAsGiven
<1> SUFFICES ASSUME NoWatchdog PROVE Spec => SentAsGiven
  OBVIOUS
<1> DEFINE Sends == frame' # frame /\ frame' # <<>> =>
                      /\ IsPrefix(frame', FrameOf(given))
                      /\ rxstate' = TXIDLE /\ "OVF" \notin irq => frame' = FrameOf(given)
<1>1. TypeOK /\ DriverInv /\ Transmission /\ [Next]_vars => [Sends]_vars
  <2> SUFFICES ASSUME TypeOK, DriverInv, Transmission, Next, frame' # frame, frame' # <<>>
               PROVE  /\ IsPrefix(frame', FrameOf(given))
                      /\ rxstate' = TXIDLE /\ "OVF" \notin irq => frame' = FrameOf(given)
    OBVIOUS
  <2>1. rf12_interrupt
    BY FrameChange DEF DriverInv
  <2>2. Sending /\ SendByte /\ given' = given
    BY <2>1, InterruptBufferEffect DEF Sending, Receiving
  <2>3. IsSending
    BY <2>2 DEF Sending, Fifo, DriverInv, Pending, IsSending
  <2>4. /\ frame' \in Seq(SentByte) /\ Len(frame') = Len(frame) + 1
        /\ \A i \in 1 .. Len(frame') : frame'[i] = FrameOf(given)[i]
    BY <2>2, <2>3, FrameGrows DEF DriverInv
  <2>5. FrameOf(given) \in Seq(SentByte) /\ Len(FrameOf(given)) = given.len + 11
    BY FrameElements DEF TypeOK
  <2>6. Len(frame') <= Len(FrameOf(given))
    BY <2>3, <2>4, <2>5, NextByte DEF DriverInv
  <2>7. IsPrefix(frame', FrameOf(given))
          /\ (Len(frame') = Len(FrameOf(given)) => frame' = FrameOf(given))
    BY <2>4, <2>5, <2>6, PrefixByPlaces, Zenon
  <2>8. ASSUME rxstate' = TXIDLE, "OVF" \notin irq PROVE Len(frame') = Len(FrameOf(given))
    <3>1. rxstate' = NextState
      BY <2>1, <2>2, <2>8, InterruptStateEffect DEF Sending, Fifo, DriverInv, Pending
    <3>2. rxstate = TXDONE
      BY <2>3, <2>8, <3>1, NextSending DEF DriverInv, IsSending, TXIDLE, TXSYN2
    <3> QED BY <2>3, <2>4, <2>5, <3>2, NextByte DEF DriverInv
  <2> QED BY <2>7, <2>8
<1>2. [][Sends]_vars => SentAsGiven
  BY PTL DEF SentAsGiven
<1> QED BY <1>1, <1>2, DriverInvariant, TransmissionInvariant, PTL DEF Spec

-----------------------------------------------------------------------------
(* The wake-up timer.                                                      *)

\* The sketch does not call rf12_restore(), which switches the timer off too.
NoRestore == "restore" \notin Calls

\* The wake-up bit of rfmstate is on its way to the radio.
Arming ==
    /\ InRmw /\ "wkup" \in rmw.on
    /\ pc \in {"store", "xfer"} => "wkup" \in reg
    /\ pc \in {"argument", "xfer"} => "wkup" \in rfmstate

\* It is there, and no read-modify-write is about to lose it.
Armed ==
    /\ "wkup" \in rfmstate /\ "wkup" \in rfm
    /\ InRmw => /\ "wkup" \notin rmw.off
                /\ pc \in {"store", "xfer"} => "wkup" \in reg

\* Where a wake-up that was asked for can be.
WakeInv ==
    /\ asked => \/ pc = "watchdogOn" \/ (InRmw /\ rmw.next = "watchdogOn")
                \/ Arming \/ Armed
    /\ pc \in {"init", "restore", "restoreRegs", "restoreDone"} => ~asked
    /\ InRmw => rmw.next \in {"sketch", "canSend", "canSendYes", "sleepDone", "watchdogOn"}

\* A wake-up that was asked for is not lost on its way.
LEMMA WakeStep == ASSUME NoRestore, WakeInv, Next PROVE WakeInv'
<1> USE DEF WakeInv, NoRestore, Arming, Armed, InRmw, Thread, Call,
      UpdatePower, SetPower, AfterRecvDone, bufVars, radioVars, threadVars,
      sendVars, wakeVars
<1>1. CASE AirStart \/ AirByte \/ TxRequest
  BY <1>1 DEF AirStart, AirByte, TxRequest
<1>2. CASE PowerOnReset
  BY <1>2 DEF PowerOnReset
<1>3. CASE rf12_interrupt
  <2>1. UNCHANGED <<pc, reg, rmw>>
    BY <1>3, InterruptBufferEffect
  <2>2. asked' => asked /\ "WDG" \notin irq
    BY <1>3, Zenon DEF rf12_interrupt, InterruptPower
  <2>3. "WDG" \notin irq =>
          /\ "wkup" \in rfmstate => "wkup" \in rfmstate'
          /\ "wkup" \in rfmstate /\ "wkup" \in rfm => "wkup" \in rfm'
    BY <1>3, InterruptPowerEffect DEF Idle
  <2>4. CASE ~asked'
    BY <2>1, <2>4
  <2>5. CASE asked'
    <3>1. asked /\ ("wkup" \in rfmstate => "wkup" \in rfmstate')
            /\ ("wkup" \in rfmstate /\ "wkup" \in rfm => "wkup" \in rfm')
      BY <2>2, <2>3, <2>5, Zenon
    <3>2. pc \notin {"init", "restore", "restoreRegs", "restoreDone"}
      BY <3>1
    <3>3. Arming => Arming'
      BY <2>1, <3>1
    <3>4. Armed => Armed'
      BY <2>1, <3>1
    <3> QED BY <2>1, <3>1, <3>2, <3>3, <3>4
  <2> QED BY <2>4, <2>5
<1>4. CASE RmwLoad \/ RmwStore \/ ArgLoad
  BY <1>4 DEF RmwLoad, RmwStore, ArgLoad
<1>5. CASE rf12_xfer
  BY <1>5 DEF rf12_xfer
<1>6. CASE recvDone \/ recvFull \/ recvRestart \/ rf12_recvStart
  BY <1>6 DEF recvDone, recvFull, recvRestart, rf12_recvStart
<1>7. CASE canSend \/ canSendYes \/ rf12_sendStart \/ sendPre
            \/ sendWait
  BY <1>7 DEF canSend, canSendYes, rf12_sendStart, sendPre, sendWait
<1>8. CASE sleepDone \/ watchdogClear \/ initWait \/ rf12_restore
            \/ restoreRegs \/ restoreDone
  BY <1>8 DEF sleepDone, watchdogClear, initWait, rf12_restore, restoreRegs,
    restoreDone
<1>9. CASE CallRecvDone \/ CallCanSend \/ CallSendStart \/ CallSendAck
            \/ CallSendNow \/ CallSendWait
  BY <1>9 DEF CallRecvDone, CallCanSend, CallSendStart, CallSendAck, CallSendNow,
    CallSendWait
<1>10. CASE CallSleep \/ CallWatchdogFired \/ CallSetFixedLength
            \/ CallRestore
  BY <1>10 DEF CallSleep, CallWatchdogFired, CallSetFixedLength, CallRestore, PowerOff
<1>11. CASE WakeUp \/ watchdogOn \/ CallSetWatchdog
  <2>1. CASE WakeUp
    BY <2>1 DEF WakeUp
  <2>2. CASE watchdogOn
    BY <2>2 DEF watchdogOn
  <2>3. CASE CallSetWatchdog
    <3>1. PICK next \in {"sketch", "watchdogOn"} :
            /\ IF "wkup" \in rfmstate
                 THEN pc' = "load" /\ rmw' = [off |-> {"wkup"}, on |-> {}, next |-> next]
                 ELSE pc' = next
            /\ asked' => next # "sketch"
      BY <2>3, Zenon DEF CallSetWatchdog
    <3>2. CASE next = "sketch"
      BY <3>1, <3>2
    <3>3. CASE next = "watchdogOn"
      BY <3>1, <3>3
    <3> QED BY <3>1, <3>2, <3>3
  <2> QED BY <1>11, <2>1, <2>2, <2>3
<1> QED BY <1>1, <1>2, <1>3, <1>4, <1>5, <1>6, <1>7, <1>8, <1>9, <1>10, <1>11 DEF Next, Radio, Driver, Sketch


\* A wake-up that the sketch has asked for stands until it fires or is disabled:
\* no interrupt between the instructions of a read-modify-write loses it, even
\* where the receiver's bits are lost.
THEOREM WakeUpTheorem == NoRestore /\ Spec => []WakeUpStands
<1> SUFFICES ASSUME NoRestore PROVE Spec => []WakeUpStands
  OBVIOUS
<1>1. Init => WakeInv
  BY Zenon DEF Init, WakeInv, InRmw
<1>2. WakeInv /\ [Next]_vars => WakeInv'
  <2> SUFFICES ASSUME WakeInv, [Next]_vars PROVE WakeInv'
    OBVIOUS
  <2>1. CASE Next
    BY <2>1, WakeStep
  <2>2. CASE UNCHANGED vars
    BY <2>2, Zenon DEF vars, threadVars, radioVars, wakeVars, WakeInv, Arming, Armed, InRmw
  <2> QED BY <2>1, <2>2
<1>3. WakeInv => WakeUpStands
  BY DEF WakeInv, WakeUpStands, Arming, Armed, InRmw
<1> QED BY <1>1, <1>2, <1>3, PTL DEF Spec

=============================================================================
