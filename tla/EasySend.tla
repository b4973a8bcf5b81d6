------------------------------ MODULE EasySend ------------------------------
(***************************************************************************)
(* The easy transmission mechanism of RF12mods.cpp: rf12_easyInit,         *)
(* rf12_easySend and rf12_easyPoll of one node, called by a sketch, over a *)
(* half-duplex channel that loses frames, to a peer that answers a packet  *)
(* late or never.  The driver underneath is seen through what easyPoll     *)
(* uses of it: rf12_recvDone, rf12_canSend and rf12_sendStart.             *)
(***************************************************************************)
EXTENDS Integers

CONSTANTS
    RETRIES,        \* transmissions of one packet
    RETRY_MS,       \* milliseconds between them
    HALF,           \* a long holds -HALF .. HALF - 1
    SECOND,         \* milliseconds of one second of ezInterval
    FAST_MS,        \* the gap for ezInterval 0 (all bands together)
    Secs,           \* arguments of rf12_easyInit
    Data,           \* packets of at least one byte
    Empty,          \* the empty packet, in the buffer at start
    ANSWER_MS,      \* a frame or its answer is off the air after this time
    BUSY_MS,        \* the channel is found free within this time
    Patient,        \* the sketch waits for a result before it submits
    LastSubmit,     \* bound of the time at which it submits
    MaxMillis       \* bound of the clock

ASSUME EasyAssumption ==
    /\ RETRIES \in Nat \ {0} /\ RETRY_MS \in Nat \ {0} /\ HALF \in Nat \ {0}
    /\ SECOND \in Nat /\ FAST_MS \in Nat /\ Secs \subseteq Nat
    /\ Empty \notin Data /\ ANSWER_MS \in Nat \ {0} /\ Patient \in BOOLEAN
    /\ BUSY_MS \in Nat /\ LastSubmit \in Nat /\ MaxMillis \in Nat

VARIABLES
    ezInterval,     \* seconds between transmissions of new data
    ezSendBuf,      \* the data to send, its length included
    ezPending,      \* remaining transmissions
    ezNextSend,     \* earliest time of a retry [0] and of new data [1]
    ret,            \* what the last call returned
    millis,         \* the millisecond clock
    air,            \* the frame on the air
    owed,           \* the peer has a packet and has not answered it
    heard,          \* the last packet the peer received
    since           \* history: time since a transmission [0] and since one
                    \* of new data, with the gap it asked for [1]

ezVars == <<ezInterval, ezSendBuf, ezPending, ezNextSend>>
vars == <<ezVars, ret, millis, air, owed, heard, since>>

\* Frames: silence, this node's packet with d, an acknowledgement for this node
\* (with or without data in it) and one for another node.
Silence == [kind |-> "none", d |-> Empty]
Packet(d) == [kind |-> "packet", d |-> d]
Acks == {[kind |-> k, d |-> Empty] : k \in {"ack", "ackData"}}
OtherAck == [kind |-> "other", d |-> Empty]

\* The value a long keeps of n: overflow wraps around.
Long(n) == ((n + HALF) % (2 * HALF)) - HALF

Forever == RETRY_MS + FAST_MS + SECOND + MaxMillis

Init ==
    /\ ezInterval = 0 /\ ezSendBuf = Empty /\ ezPending = 0
    /\ ezNextSend = [i \in 0 .. 1 |-> 0]
    /\ ret = 0 /\ millis = 0
    /\ air = Silence /\ owed = FALSE /\ heard = Empty
    /\ since = [tx |-> Forever, new |-> Forever, gap |-> 0]

-----------------------------------------------------------------------------
(* The calls of the sketch.                                                *)

rf12_easyInit ==
    /\ \E s \in Secs : ezInterval' = s
    /\ UNCHANGED <<ezSendBuf, ezPending, ezNextSend, ret, millis, air, owed, heard, since>>

\* A transmission may still be answered.
Waiting == ezPending > 0 \/ (ezNextSend[0] # 0 /\ since.tx < RETRY_MS)

MaySubmit == millis <= LastSubmit /\ (Patient => ~Waiting)

\* rf12_easySend(data, size): the same packet as the one that was acknowledged
\* is not sent again.
Suppressed(d) == ezNextSend[0] = 0 /\ d = ezSendBuf

\* Mutant: the buffer is overwritten, but the transmission is not armed.
EasySendUnarmed ==
    /\ MaySubmit
    /\ \E d \in Data :
         /\ ezSendBuf' = d
         /\ UNCHANGED ezPending
         /\ ret' = IF Suppressed(d) THEN 0 ELSE 1
    /\ UNCHANGED <<ezInterval, ezNextSend, millis, air, owed, heard, since>>

rf12_easySend ==
    /\ MaySubmit
    /\ \E d \in Data :
         /\ ezSendBuf' = d
         /\ ezPending' = IF Suppressed(d) THEN ezPending ELSE RETRIES
         /\ ret' = IF Suppressed(d) THEN 0 ELSE 1
    /\ UNCHANGED <<ezInterval, ezNextSend, millis, air, owed, heard, since>>

\* rf12_easySend(0, 0): send again whatever was sent last.
easyResend ==
    /\ MaySubmit
    /\ ezPending' = RETRIES /\ ret' = 1
    /\ UNCHANGED <<ezInterval, ezSendBuf, ezNextSend, millis, air, owed, heard, since>>

\* What rf12_easyPoll returns when it does not report data.
PollResult(pending) == IF pending > 0 THEN -1 ELSE 0

\* Mutant: the node number in the header is not compared.
AckForAnyone(f) == f \in Acks \cup {OtherAck}

\* rf12_hdr == (RF12_HDR_CTL | RF12_HDR_DST | myAddr)
AckForMe(f) == f \in Acks

\* rf12_easyPoll() with an acknowledgement in the receive buffer
pollAck ==
    /\ AckForMe(air)
    /\ ezPending' = 0 /\ ezNextSend' = [ezNextSend EXCEPT ![0] = 0]
    /\ ret' = IF air.kind = "ackData" THEN 1 ELSE PollResult(0)
    /\ air' = Silence
    /\ UNCHANGED <<ezInterval, ezSendBuf, millis, owed, heard, since>>

newData == ezPending = RETRIES

\* Mutant: the last of the retries is counted as new data.
DueOffByOne ==
    Long(millis) >= ezNextSend[IF ezPending >= RETRIES - 1 THEN 1 ELSE 0]

Due == Long(millis) >= ezNextSend[IF newData THEN 1 ELSE 0]

\* For as long as the channel may be taken and the sketch may not poll.
Overdue == ezPending > 0 /\ Long(millis - BUSY_MS) >= ezNextSend[IF newData THEN 1 ELSE 0]

Gap == IF ezInterval > 0 THEN SECOND * ezInterval ELSE FAST_MS

\* Mutant: the remaining transmissions are not counted.
CountedNot == ezPending

\* Mutant: they are counted twice.
CountedTwice == ezPending - 2

Counted == ezPending - 1

\* rf12_easyPoll() that finds rf12_canSend() true
pollSend ==
    /\ ezPending > 0 /\ Due
    /\ ezNextSend' = [i \in 0 .. 1 |->
                        IF i = 0 THEN Long(millis + RETRY_MS)
                        ELSE IF newData THEN Long(millis + Gap) ELSE ezNextSend[1]]
    /\ air' = Packet(ezSendBuf)
    /\ ezPending' = Counted
    /\ ret' = PollResult(ezPending')
    /\ since' = IF newData THEN [tx |-> 0, new |-> 0, gap |-> Gap]
                ELSE [since EXCEPT !.tx = 0]
    /\ UNCHANGED <<ezInterval, ezSendBuf, millis, owed, heard>>

\* rf12_easyPoll() with nothing received and nothing to send, or the channel
\* taken
pollIdle ==
    /\ ret' = PollResult(ezPending)
    /\ UNCHANGED <<ezVars, millis, air, owed, heard, since>>

-----------------------------------------------------------------------------
(* The clock, the channel and the peer.                                    *)

\* What was sent and not answered in time is lost; a packet that is due is not
\* kept waiting for more than BUSY_MS.
Tick ==
    /\ millis < MaxMillis /\ ~Overdue
    /\ millis' = millis + 1
    /\ since' = [since EXCEPT !.tx = IF @ < Forever THEN @ + 1 ELSE @,
                              !.new = IF @ < Forever THEN @ + 1 ELSE @]
    /\ IF since'.tx >= ANSWER_MS
         THEN owed' = FALSE /\ air' = IF air = OtherAck THEN air ELSE Silence
         ELSE UNCHANGED <<owed, air>>
    /\ UNCHANGED <<ezVars, ret, heard>>

Lose ==
    /\ air # Silence /\ air' = Silence
    /\ UNCHANGED <<ezVars, ret, millis, owed, heard, since>>

\* A peer that has not yet answered a packet does not listen for the next.
PeerReceive ==
    /\ air.kind = "packet" /\ ~owed
    /\ heard' = air.d /\ owed' = TRUE /\ air' = Silence
    /\ UNCHANGED <<ezVars, ret, millis, since>>

PeerAnswer ==
    /\ owed
    /\ owed' = FALSE /\ air' \in Acks
    /\ UNCHANGED <<ezVars, ret, millis, heard, since>>

OtherNode ==
    /\ air = Silence /\ air' = OtherAck
    /\ UNCHANGED <<ezVars, ret, millis, owed, heard, since>>

-----------------------------------------------------------------------------
Poll == pollAck \/ pollSend \/ pollIdle
Sketch == rf12_easyInit \/ rf12_easySend \/ easyResend \/ Poll
Channel == Lose \/ PeerReceive \/ PeerAnswer \/ OtherNode

Next == Sketch \/ Channel \/ Tick

Spec == Init /\ [][Next]_vars

\* Time passes, and "this needs to be called often": the sketch polls.
Fairness == WF_vars(Tick) /\ WF_vars(pollSend)

FairSpec == Spec /\ Fairness

-----------------------------------------------------------------------------
(* Properties.                                                             *)

\* The values each variable can hold.
TypeOK ==
    /\ ezInterval \in Secs \cup {0} /\ ezSendBuf \in Data \cup {Empty}
    /\ ezPending \in 0 .. RETRIES
    /\ ezNextSend \in [0 .. 1 -> -HALF .. HALF - 1]
    /\ ret \in -1 .. 1 /\ millis \in 0 .. MaxMillis
    /\ air \in {Silence, OtherAck} \cup Acks \cup {Packet(d) : d \in Data \cup {Empty}}
    /\ owed \in BOOLEAN /\ heard \in Data \cup {Empty}
    /\ since \in [tx : Nat, new : Nat, gap : Nat]

\* "Only packets which differ from the previous packet will actually be sent":
\* what rf12_easySend would not send again is what the peer has.
SuppressedIsDelivered ==
    ezNextSend[0] = 0 /\ ezPending = 0 => heard = ezSendBuf

\* "new data sends should not happen less than ezInterval seconds apart ...
\* whereas retries should not happen less than RETRY_MS apart".
Spaced ==
    [][pollSend => IF newData THEN since.new >= since.gap ELSE since.tx >= RETRY_MS]_vars

\* A submitted packet is acknowledged or given up: it does not stay pending.
Settles == Waiting ~> ~Waiting

\* The sketch that waits for each result is given what AckedLink promises.
Link == INSTANCE AckedLink
          WITH Datum <- Data, Nothing <- Empty,
               want <- ezSendBuf, got <- heard,
               result <- IF Waiting THEN "sending"
                         ELSE IF ezNextSend[0] = 0 THEN "settled" ELSE "failed"

\* Seen from outside, retries, timers and lost frames never report a packet as
\* delivered that the peer does not have.
ImplementsLink == Link!Spec

=============================================================================
