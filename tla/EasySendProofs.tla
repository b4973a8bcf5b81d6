--------------------------- MODULE EasySendProofs ---------------------------
(***************************************************************************)
(* What rf12_easySend and rf12_easyPoll guarantee for every number of      *)
(* retries, every interval and every time-out: the type invariant, the     *)
(* spacing of the transmissions, that a suppressed packet is one the peer  *)
(* has, and that the mechanism implements AckedLink.                       *)
(***************************************************************************)
EXTENDS EasySend, TLAPS

\* The clock and the times computed from it fit a long: the first 24 days after
\* a reset.
NoWrap ==
    /\ MaxMillis + RETRY_MS < HALF /\ MaxMillis + FAST_MS < HALF
    /\ \A s \in Secs : MaxMillis + SECOND * s < HALF

\* The sketch waits for a result, and an answer that is later than the next
\* retry never arrives.
Orderly == Patient /\ ANSWER_MS <= RETRY_MS

-----------------------------------------------------------------------------
(* The inductive invariants.                                               *)

\* The retry timer is the time of the last transmission plus RETRY_MS, and the
\* timer for new data that of the last new packet plus its gap.
TimersFollowSends ==
    /\ ezNextSend[0] # 0 =>
         since.tx <= millis /\ ezNextSend[0] = millis - since.tx + RETRY_MS
    /\ since.gap > 0 =>
         since.new <= millis /\ ezNextSend[1] = millis - since.new + since.gap
    /\ ezPending > 0 /\ ezPending < RETRIES => ezNextSend[0] # 0

\* Nothing of this node's exchange is under way.
Quiet == air \in {Silence, OtherAck} /\ ~owed

\* At most one frame of the exchange is under way, it belongs to the packet in
\* the buffer, and none is left when the time for an answer has passed, when
\* the exchange was acknowledged and when a new one begins.
OneExchange ==
    /\ since.tx >= ANSWER_MS => Quiet
    /\ ezNextSend[0] = 0 => Quiet
    /\ ezPending = RETRIES => Quiet
    /\ owed => air \in {Silence, OtherAck} /\ heard = ezSendBuf
    /\ air \in Acks => heard = ezSendBuf
    /\ air.kind = "packet" => air.d = ezSendBuf

-----------------------------------------------------------------------------
(* Lemmas about the operators.                                             *)

\* A long holds what it is given, wrapped into its range.
LEMMA LongRange == \A n \in Int : Long(n) \in -HALF .. HALF - 1
  BY EasyAssumption DEF Long

\* Within its range a long holds the value itself.
LEMMA LongExact == \A n \in Nat : n < HALF => Long(n) = n
  BY EasyAssumption DEF Long

\* The gap after new data is a time, and one that fits a long.
LEMMA GapNat ==
  ASSUME TypeOK
  PROVE  Gap \in Nat /\ (NoWrap => MaxMillis + Gap < HALF)
<1>1. CASE ezInterval > 0
  <2>1. ezInterval \in Secs /\ ezInterval \in Nat /\ SECOND \in Nat
    BY <1>1, EasyAssumption DEF TypeOK
  <2>2. SECOND * ezInterval \in Nat
    BY <2>1
  <2>3. QED
    BY <1>1, <2>1, <2>2 DEF Gap, NoWrap
<1>2. CASE ~(ezInterval > 0)
  BY <1>2, EasyAssumption DEF Gap, NoWrap
<1>3. QED
  BY <1>1, <1>2

\* The saturated age of a transmission that never was: later than any time.
LEMMA ForeverNat == Forever \in Nat /\ Forever > MaxMillis
  BY EasyAssumption DEF Forever

\* A tick of the clock ages the last transmissions by one millisecond, and by
\* none those that never were.
LEMMA TickTimes ==
  ASSUME TypeOK, Tick
  PROVE  /\ since' \in [tx : Nat, new : Nat, gap : Nat]
         /\ millis' = millis + 1 /\ millis' <= MaxMillis
         /\ since'.tx = IF since.tx < Forever THEN since.tx + 1 ELSE since.tx
         /\ since'.new = IF since.new < Forever THEN since.new + 1 ELSE since.new
         /\ since'.gap = since.gap
<1>1. since \in [tx : Nat, new : Nat, gap : Nat] /\ millis \in Nat /\ MaxMillis \in Nat
  BY EasyAssumption DEF TypeOK
<1>2. since'.tx = IF since.tx < Forever THEN since.tx + 1 ELSE since.tx
  BY <1>1, ForeverNat DEF Tick
<1>3. since'.new = IF since.new < Forever THEN since.new + 1 ELSE since.new
  BY <1>1, ForeverNat DEF Tick
<1>4. since' = [tx |-> since'.tx, new |-> since'.new, gap |-> since.gap]
  BY <1>1, ForeverNat DEF Tick
<1>5. QED
  BY <1>1, <1>2, <1>3, <1>4, ForeverNat DEF Tick

-----------------------------------------------------------------------------
(* Type correctness.                                                       *)

\* Every call of the sketch, the peer, the channel and the clock leave the
\* state well-typed.
LEMMA TypeStep ==
  ASSUME TypeOK, [Next]_vars
  PROVE  TypeOK'
<1> USE EasyAssumption
<1>1. CASE rf12_easyInit
  BY <1>1 DEF rf12_easyInit, TypeOK
<1>2. CASE rf12_easySend
  BY <1>2 DEF rf12_easySend, TypeOK
<1>3. CASE easyResend
  BY <1>3 DEF easyResend, TypeOK
<1>4. CASE pollAck
  BY <1>4 DEF pollAck, PollResult, TypeOK
<1>5. CASE pollSend
  <2>1. Long(millis + RETRY_MS) \in -HALF .. HALF - 1
    BY LongRange DEF TypeOK
  <2>2. Long(millis + Gap) \in -HALF .. HALF - 1
    BY LongRange, GapNat DEF TypeOK
  <2>3. ezNextSend' \in [0 .. 1 -> -HALF .. HALF - 1]
    BY <1>5, <2>1, <2>2 DEF pollSend, TypeOK
  <2>4. ezPending' \in 0 .. RETRIES /\ ret' \in -1 .. 1
    BY <1>5 DEF pollSend, Counted, PollResult, TypeOK
  <2>5. since' \in [tx : Nat, new : Nat, gap : Nat]
    BY <1>5, GapNat DEF pollSend, TypeOK
  <2>6. air' \in {Packet(d) : d \in Data \cup {Empty}}
    BY <1>5 DEF pollSend, TypeOK
  <2>7. QED
    BY <1>5, <2>3, <2>4, <2>5, <2>6 DEF pollSend, TypeOK
<1>6. CASE pollIdle
  BY <1>6 DEF pollIdle, ezVars, PollResult, TypeOK
<1>7. CASE Lose
  BY <1>7 DEF Lose, ezVars, TypeOK
<1>8. CASE PeerReceive
  <2>1. air.d \in Data \cup {Empty}
    BY DEF TypeOK, Silence, OtherAck, Acks, Packet
  <2>2. QED
    BY <1>8, <2>1 DEF PeerReceive, ezVars, TypeOK
<1>9. CASE PeerAnswer
  BY <1>9 DEF PeerAnswer, ezVars, TypeOK
<1>10. CASE OtherNode
  BY <1>10 DEF OtherNode, ezVars, TypeOK
<1>11. CASE Tick
  <2>1. since' \in [tx : Nat, new : Nat, gap : Nat]
    BY <1>11, TickTimes DEF TypeOK
  <2>2. millis' \in 0 .. MaxMillis /\ UNCHANGED <<ezVars, ret, heard>>
    BY <1>11 DEF Tick, TypeOK
  <2>3. owed' \in BOOLEAN /\ (air' = air \/ air' = Silence)
    BY <1>11 DEF Tick, TypeOK
  <2>4. QED
    BY <2>1, <2>2, <2>3 DEF ezVars, TypeOK
<1>12. CASE UNCHANGED vars
  BY <1>12 DEF vars, ezVars, TypeOK
<1>13. QED
  BY <1>1, <1>2, <1>3, <1>4, <1>5, <1>6, <1>7, <1>8, <1>9, <1>10, <1>11, <1>12
     DEF Next, Sketch, Poll, Channel

\* The initial state is well-typed.
LEMMA TypeInit == Init => TypeOK
<1> SUFFICES ASSUME Init PROVE TypeOK
  OBVIOUS
<1>1. ezNextSend \in [0 .. 1 -> -HALF .. HALF - 1]
  BY EasyAssumption DEF Init
<1>2. since \in [tx : Nat, new : Nat, gap : Nat]
  BY ForeverNat DEF Init
<1>3. ezPending \in 0 .. RETRIES /\ ret \in -1 .. 1 /\ millis \in 0 .. MaxMillis
  BY EasyAssumption DEF Init
<1>4. QED
  BY <1>1, <1>2, <1>3 DEF Init, TypeOK

\* EasySend.TypeOK: no sequence of calls, frames and losses takes a variable of
\* rf12_easyPoll out of its range, at whatever value the clock wraps.
THEOREM TypeCorrect == Spec => []TypeOK
<1>1. TypeOK /\ [Next]_vars => TypeOK'
  BY TypeStep
<1>2. QED
  BY TypeInit, <1>1, PTL DEF Spec

-----------------------------------------------------------------------------
(* The timers.                                                             *)

\* What a transmission does to the timers and to their history.
LEMMA SendTimes ==
  ASSUME NoWrap, TypeOK, pollSend
  PROVE  /\ ezNextSend'[0] = millis + RETRY_MS /\ ezNextSend'[0] # 0
         /\ since'.tx = 0 /\ millis' = millis
         /\ newData => /\ ezNextSend'[1] = millis + Gap
                        /\ since'.new = 0 /\ since'.gap = Gap
         /\ ~newData => /\ ezNextSend'[1] = ezNextSend[1]
                         /\ since'.new = since.new /\ since'.gap = since.gap
<1>1. millis \in 0 .. MaxMillis /\ MaxMillis \in Nat /\ RETRY_MS \in Nat \ {0} /\ HALF \in Nat
  BY EasyAssumption DEF TypeOK
<1>2. Long(millis + RETRY_MS) = millis + RETRY_MS
  BY <1>1, LongExact DEF NoWrap
<1>3. Gap \in Nat /\ Long(millis + Gap) = millis + Gap
  BY <1>1, LongExact, GapNat
<1>4. ezNextSend'[0] = Long(millis + RETRY_MS)
  BY DEF pollSend
<1>5. ezNextSend'[1] = IF newData THEN Long(millis + Gap) ELSE ezNextSend[1]
  BY DEF pollSend
<1>6. since \in [tx : Nat, new : Nat, gap : Nat]
  BY DEF TypeOK
<1>7. CASE newData
  BY <1>1, <1>2, <1>3, <1>4, <1>5, <1>7 DEF pollSend
<1>8. CASE ~newData
  BY <1>1, <1>2, <1>4, <1>5, <1>6, <1>8 DEF pollSend
<1>9. QED
  BY <1>7, <1>8

\* Steps of the sketch and of the channel other than a transmission and an
\* acknowledgement leave the timers alone, and arm no retry.
LEMMA TimersFrame ==
  ASSUME TypeOK, [Next]_vars, ~pollAck, ~pollSend, ~Tick
  PROVE  /\ UNCHANGED <<ezNextSend, since, millis>>
         /\ ezPending' = ezPending \/ ezPending' = RETRIES
  BY DEF Next, Sketch, Poll, Channel, rf12_easyInit, rf12_easySend, easyResend,
         pollIdle, Lose, PeerReceive, PeerAnswer, OtherNode, vars, ezVars

\* The timers stay the times of the last transmissions plus their gaps.
LEMMA TimersStep ==
  ASSUME NoWrap, TypeOK, TimersFollowSends, [Next]_vars
  PROVE  TimersFollowSends'
<1> USE EasyAssumption
<1>1. CASE pollAck
  <2>1. /\ ezNextSend'[0] = 0 /\ ezNextSend'[1] = ezNextSend[1]
        /\ ezPending' = 0 /\ UNCHANGED <<since, millis>>
    BY <1>1 DEF pollAck, TypeOK
  <2>2. QED
    BY <2>1 DEF TimersFollowSends
<1>2. CASE pollSend
  <2>1. millis \in Nat /\ ezPending \in Nat /\ ezPending' = ezPending - 1 /\ Gap \in Nat
    BY <1>2, GapNat DEF pollSend, Counted, TypeOK
  <2>2. CASE newData
    BY <1>2, <2>1, <2>2, SendTimes DEF TimersFollowSends, newData
  <2>3. CASE ~newData
    BY <1>2, <2>1, <2>3, SendTimes DEF TimersFollowSends, newData
  <2>4. QED
    BY <2>2, <2>3
<1>3. CASE Tick
  <2>1. UNCHANGED <<ezNextSend, ezPending>>
    BY <1>3 DEF Tick, ezVars
  <2>2. /\ since.tx \in Nat /\ since.new \in Nat /\ since.gap \in Nat
        /\ millis \in 0 .. MaxMillis
    BY DEF TypeOK
  <2>3. QED
    BY <1>3, <2>1, <2>2, TickTimes, ForeverNat DEF TimersFollowSends
<1>4. CASE ~pollAck /\ ~pollSend /\ ~Tick
  BY <1>4, TimersFrame DEF TimersFollowSends, TypeOK
<1>5. QED
  BY <1>1, <1>2, <1>3, <1>4

\* The timers and their history hold together in every reachable state.
LEMMA TimersHold == NoWrap /\ Spec => [](TypeOK /\ TimersFollowSends)
<1> SUFFICES ASSUME NoWrap PROVE Spec => [](TypeOK /\ TimersFollowSends)
  OBVIOUS
<1>1. Init => TimersFollowSends
  BY EasyAssumption DEF Init, TimersFollowSends
<1>2. TypeOK /\ TimersFollowSends /\ [Next]_vars => TimersFollowSends'
  BY TimersStep
<1>3. QED
  BY <1>1, <1>2, TypeInit, TypeStep, PTL DEF Spec

\* EasySend.Spaced: a packet goes out no earlier than the gap that the previous
\* new packet asked for, and a retry no earlier than RETRY_MS after the last
\* transmission, whatever the sketch submits in between and whether or not it
\* waits for a result.
THEOREM SpacedTheorem == NoWrap /\ Spec => Spaced
<1> SUFFICES ASSUME NoWrap PROVE Spec => Spaced
  OBVIOUS
<1>1. ASSUME TypeOK, TimersFollowSends, pollSend
      PROVE  IF newData THEN since.new >= since.gap ELSE since.tx >= RETRY_MS
  <2>1. millis \in Nat /\ millis < HALF /\ Long(millis) = millis
    BY <1>1, LongExact, EasyAssumption DEF TypeOK, NoWrap
  <2>2. since.tx \in Nat /\ since.new \in Nat /\ since.gap \in Nat
    BY <1>1 DEF TypeOK
  <2>3. CASE newData
    <3>1. millis >= ezNextSend[1]
      BY <1>1, <2>1, <2>3 DEF pollSend, Due
    <3>2. QED
      BY <1>1, <2>1, <2>2, <2>3, <3>1 DEF TimersFollowSends
  <2>4. CASE ~newData
    <3>1. millis >= ezNextSend[0]
      BY <1>1, <2>1, <2>4 DEF pollSend, Due
    <3>2. ezPending > 0 /\ ezPending < RETRIES
      BY <1>1, <2>4, EasyAssumption DEF pollSend, newData, TypeOK
    <3>3. QED
      BY <1>1, <2>1, <2>2, <2>4, <3>1, <3>2, EasyAssumption DEF TimersFollowSends
  <2>5. QED
    BY <2>3, <2>4
<1>2. QED
  BY <1>1, TimersHold, PTL DEF Spaced

-----------------------------------------------------------------------------
(* One exchange at a time.                                                 *)

\* A frame that is on the air is of one kind only.
LEMMA Kinds ==
  /\ Silence.kind = "none" /\ OtherAck.kind = "other"
  /\ Silence \notin Acks /\ OtherAck \notin Acks
  /\ \A f \in Acks : f.kind # "packet" /\ f # Silence /\ f # OtherAck
  /\ \A d : /\ Packet(d).kind = "packet" /\ Packet(d).d = d
            /\ Packet(d) \notin Acks \cup {Silence, OtherAck}
  BY DEF Silence, OtherAck, Acks, Packet

\* A sketch that waits for its results submits when nothing is under way.
LEMMA SubmitWhenQuiet ==
  ASSUME Orderly, TypeOK, OneExchange, MaySubmit
  PROVE  Quiet /\ ezPending = 0
<1>1. ~Waiting
  BY DEF MaySubmit, Orderly
<1>2. ezPending = 0
  BY <1>1, EasyAssumption DEF Waiting, TypeOK
<1>3. ezNextSend[0] = 0 \/ since.tx >= RETRY_MS
  BY <1>1, EasyAssumption DEF Waiting, TypeOK
<1>4. since.tx >= RETRY_MS => since.tx >= ANSWER_MS
  BY EasyAssumption DEF Orderly, TypeOK
<1>5. QED
  BY <1>2, <1>3, <1>4 DEF OneExchange

\* A packet is sent when nothing is under way.
LEMMA SendWhenQuiet ==
  ASSUME NoWrap, Orderly, TypeOK, TimersFollowSends, OneExchange, pollSend
  PROVE  Quiet
<1>1. CASE newData
  BY <1>1 DEF newData, OneExchange
<1>2. CASE ~newData
  <2>1. Long(millis) = millis /\ millis \in Nat
    BY LongExact, EasyAssumption DEF TypeOK, NoWrap
  <2>2. millis >= ezNextSend[0]
    BY <1>2, <2>1 DEF pollSend, Due
  <2>3. ezPending > 0 /\ ezPending < RETRIES
    BY <1>2, EasyAssumption DEF pollSend, newData, TypeOK
  <2>4. since.tx >= ANSWER_MS
    BY <2>1, <2>2, <2>3, EasyAssumption DEF TimersFollowSends, Orderly, TypeOK
  <2>5. QED
    BY <2>4 DEF OneExchange
<1>3. QED
  BY <1>1, <1>2

\* What is under way stays one exchange, of the packet in the buffer.
LEMMA ExchangeStep ==
  ASSUME NoWrap, Orderly, TypeOK, TimersFollowSends, OneExchange, [Next]_vars
  PROVE  OneExchange'
<1> USE EasyAssumption, Kinds
<1>1. CASE rf12_easyInit
  BY <1>1 DEF rf12_easyInit, OneExchange, Quiet
<1>2. CASE rf12_easySend
  <2>1. Quiet /\ UNCHANGED <<ezNextSend, air, owed, heard, since>>
    BY <1>2, SubmitWhenQuiet DEF rf12_easySend
  <2>2. QED
    BY <2>1 DEF OneExchange, Quiet
<1>3. CASE easyResend
  <2>1. Quiet /\ UNCHANGED <<ezNextSend, air, owed, heard, since>>
    BY <1>3, SubmitWhenQuiet DEF easyResend
  <2>2. QED
    BY <2>1 DEF OneExchange, Quiet
<1>4. CASE pollAck
  <2>1. ~owed /\ air' = Silence /\ owed' = owed
    BY <1>4 DEF pollAck, AckForMe, OneExchange
  <2>2. QED
    BY <2>1 DEF OneExchange, Quiet
<1>5. CASE pollSend
  <2>1. Quiet
    BY <1>5, SendWhenQuiet
  <2>2. /\ air' = Packet(ezSendBuf) /\ ~owed' /\ ezSendBuf' = ezSendBuf
        /\ ezPending' # RETRIES
    BY <1>5, <2>1 DEF pollSend, Counted, Quiet, TypeOK
  <2>3. since'.tx = 0 /\ ezNextSend'[0] # 0
    BY <1>5, SendTimes
  <2>4. QED
    BY <2>2, <2>3 DEF OneExchange
<1>6. CASE pollIdle
  BY <1>6 DEF pollIdle, ezVars, OneExchange, Quiet
<1>7. CASE Lose
  BY <1>7 DEF Lose, ezVars, OneExchange, Quiet
<1>8. CASE PeerReceive
  <2>1. ~Quiet /\ air' = Silence /\ heard' = ezSendBuf
    BY <1>8 DEF PeerReceive, Quiet, OneExchange
  <2>2. UNCHANGED <<ezNextSend, ezPending, ezSendBuf, since>>
    BY <1>8 DEF PeerReceive, ezVars
  <2>3. QED
    BY <2>1, <2>2 DEF OneExchange
<1>9. CASE PeerAnswer
  <2>1. ~Quiet /\ air' \in Acks /\ ~owed' /\ heard' = ezSendBuf
    BY <1>9 DEF PeerAnswer, Quiet, OneExchange
  <2>2. UNCHANGED <<ezNextSend, ezPending, ezSendBuf, since>>
    BY <1>9 DEF PeerAnswer, ezVars
  <2>3. QED
    BY <2>1, <2>2 DEF OneExchange
<1>10. CASE OtherNode
  BY <1>10 DEF OtherNode, ezVars, OneExchange, Quiet
<1>11. CASE Tick
  <2>1. UNCHANGED <<ezNextSend, ezPending, ezSendBuf, heard>>
    BY <1>11 DEF Tick, ezVars
  <2>2. since'.tx \in Nat
    BY <1>11, TickTimes
  <2>3. CASE since'.tx >= ANSWER_MS
    BY <1>11, <2>1, <2>3 DEF Tick, OneExchange, Quiet
  <2>4. CASE ~(since'.tx >= ANSWER_MS)
    BY <1>11, <2>1, <2>4 DEF Tick, OneExchange, Quiet
  <2>5. QED
    BY <2>3, <2>4
<1>12. CASE UNCHANGED vars
  BY <1>12 DEF vars, ezVars, OneExchange, Quiet
<1>13. QED
  BY <1>1, <1>2, <1>3, <1>4, <1>5, <1>6, <1>7, <1>8, <1>9, <1>10, <1>11, <1>12
     DEF Next, Sketch, Poll, Channel

\* What rf12_easySend would suppress stays what the peer has.
LEMMA SuppressedStep ==
  ASSUME NoWrap, Orderly, TypeOK, TimersFollowSends, OneExchange,
         SuppressedIsDelivered, [Next]_vars
  PROVE  SuppressedIsDelivered'
<1> USE EasyAssumption, Kinds
<1>1. CASE rf12_easyInit
  BY <1>1 DEF rf12_easyInit, SuppressedIsDelivered
<1>2. CASE rf12_easySend
  <2>1. ezPending = 0
    BY <1>2, SubmitWhenQuiet DEF rf12_easySend
  <2>2. QED
    BY <1>2, <2>1 DEF rf12_easySend, Suppressed, SuppressedIsDelivered
<1>3. CASE easyResend
  BY <1>3 DEF easyResend, SuppressedIsDelivered
<1>4. CASE pollAck
  BY <1>4 DEF pollAck, AckForMe, OneExchange, SuppressedIsDelivered
<1>5. CASE pollSend
  BY <1>5, SendTimes DEF SuppressedIsDelivered
<1>6. CASE pollIdle
  BY <1>6 DEF pollIdle, ezVars, SuppressedIsDelivered
<1>7. CASE PeerReceive
  BY <1>7 DEF PeerReceive, ezVars, OneExchange, SuppressedIsDelivered
<1>8. CASE Lose \/ PeerAnswer \/ OtherNode \/ Tick
  BY <1>8 DEF Lose, PeerAnswer, OtherNode, Tick, ezVars, SuppressedIsDelivered
<1>9. CASE UNCHANGED vars
  BY <1>9 DEF vars, ezVars, SuppressedIsDelivered
<1>10. QED
  BY <1>1, <1>2, <1>3, <1>4, <1>5, <1>6, <1>7, <1>8, <1>9
     DEF Next, Sketch, Poll, Channel

\* The inductive invariant of an orderly exchange.
ExchangeInv == TypeOK /\ TimersFollowSends /\ OneExchange /\ SuppressedIsDelivered

\* It holds in every reachable state.
LEMMA ExchangeHolds == NoWrap /\ Orderly /\ Spec => []ExchangeInv
<1> SUFFICES ASSUME NoWrap, Orderly PROVE Spec => []ExchangeInv
  OBVIOUS
<1>1. Init => TimersFollowSends /\ OneExchange /\ SuppressedIsDelivered
  BY EasyAssumption, Kinds
     DEF Init, TimersFollowSends, OneExchange, Quiet, SuppressedIsDelivered
<1>2. ExchangeInv /\ [Next]_vars => ExchangeInv'
  BY TypeStep, TimersStep, ExchangeStep, SuppressedStep DEF ExchangeInv
<1>3. QED
  BY <1>1, <1>2, TypeInit, PTL DEF Spec, ExchangeInv

\* EasySend.SuppressedIsDelivered: with a sketch that waits for its results and
\* answers that come within RETRY_MS or never, a packet that rf12_easySend does
\* not send again because it equals the acknowledged one is what the peer
\* received last.
THEOREM SuppressedTheorem == NoWrap /\ Orderly /\ Spec => []SuppressedIsDelivered
  BY ExchangeHolds, PTL DEF ExchangeInv

-----------------------------------------------------------------------------
(* The refinement of AckedLink.                                            *)

\* While the packet or its answer is under way, the caller waits.
LEMMA WaitingWhileBusy ==
  ASSUME Orderly, TypeOK, OneExchange, ~Quiet
  PROVE  Waiting
<1>1. ezNextSend[0] # 0 /\ ~(since.tx >= ANSWER_MS)
  BY DEF OneExchange
<1>2. QED
  BY <1>1, EasyAssumption DEF Waiting, Orderly, TypeOK

\* Every step of the exchange is a step of the link or changes nothing of it.
LEMMA LinkStep ==
  ASSUME NoWrap, Orderly, ExchangeInv, [Next]_vars
  PROVE  [Link!Next]_(Link!vars)
<1> USE EasyAssumption, Kinds
<1> USE DEF Link!vars
<1>0. TypeOK /\ TimersFollowSends /\ OneExchange /\ SuppressedIsDelivered
  BY DEF ExchangeInv
<1>1. CASE rf12_easyInit \/ pollIdle \/ Lose \/ PeerAnswer \/ OtherNode \/ UNCHANGED vars
  <2>1. UNCHANGED <<ezSendBuf, heard, ezPending, ezNextSend, since>>
    BY <1>1 DEF rf12_easyInit, pollIdle, Lose, PeerAnswer, OtherNode, vars, ezVars
  <2>2. QED
    BY <2>1 DEF Waiting
<1>2. CASE rf12_easySend
  <2>1. ~Waiting /\ ezPending = 0 /\ UNCHANGED <<ezNextSend, heard, since>>
    BY <1>0, <1>2, SubmitWhenQuiet DEF rf12_easySend, MaySubmit, Orderly
  <2>2. PICK d \in Data : /\ ezSendBuf' = d
                          /\ ezPending' = IF Suppressed(d) THEN ezPending ELSE RETRIES
    BY <1>2 DEF rf12_easySend
  <2>3. CASE Suppressed(d)
    BY <2>1, <2>2, <2>3 DEF Suppressed, Waiting
  <2>4. CASE ~Suppressed(d)
    <3>1. Waiting'
      BY <2>2, <2>4 DEF Waiting
    <3>2. Link!Submit
      BY <2>1, <2>2, <3>1 DEF Link!Submit
    <3>3. QED
      BY <3>2 DEF Link!Next
  <2>5. QED
    BY <2>3, <2>4
<1>3. CASE easyResend
  <2>1. ~Waiting /\ UNCHANGED <<ezSendBuf, heard>>
    BY <1>3 DEF easyResend, MaySubmit, Orderly
  <2>2. Waiting'
    BY <1>3 DEF easyResend, Waiting
  <2>3. ezSendBuf \in Data \cup {Empty}
    BY <1>0 DEF TypeOK
  <2>4. Link!Submit
    BY <2>1, <2>2, <2>3 DEF Link!Submit
  <2>5. QED
    BY <2>4 DEF Link!Next
<1>4. CASE pollAck
  <2>1. air \in Acks /\ ~Quiet /\ heard = ezSendBuf
    BY <1>0, <1>4 DEF pollAck, AckForMe, Quiet, OneExchange
  <2>2. Waiting
    BY <1>0, <2>1, WaitingWhileBusy
  <2>3. ezPending' = 0 /\ ezNextSend'[0] = 0 /\ UNCHANGED <<ezSendBuf, heard>>
    BY <1>0, <1>4 DEF pollAck, TypeOK
  <2>4. ~Waiting'
    BY <2>3 DEF Waiting
  <2>5. Link!Settle
    BY <2>1, <2>2, <2>3, <2>4 DEF Link!Settle
  <2>6. QED
    BY <2>5 DEF Link!Next
<1>5. CASE pollSend
  <2>1. Waiting /\ UNCHANGED <<ezSendBuf, heard>>
    BY <1>5 DEF pollSend, Waiting
  <2>2. ezNextSend'[0] # 0 /\ since'.tx = 0
    BY <1>0, <1>5, SendTimes
  <2>3. Waiting'
    BY <2>2 DEF Waiting
  <2>4. QED
    BY <2>1, <2>3
<1>6. CASE PeerReceive
  <2>1. ~Quiet /\ heard' = ezSendBuf /\ UNCHANGED <<ezSendBuf, ezPending, ezNextSend, since>>
    BY <1>0, <1>6 DEF PeerReceive, Quiet, OneExchange, ezVars
  <2>2. Waiting /\ Waiting'
    BY <1>0, <2>1, WaitingWhileBusy DEF Waiting
  <2>3. Link!Receive
    BY <2>1, <2>2 DEF Link!Receive
  <2>4. QED
    BY <2>3 DEF Link!Next
<1>7. CASE Tick
  <2>1. UNCHANGED <<ezSendBuf, heard, ezPending, ezNextSend>>
    BY <1>7 DEF Tick, ezVars
  <2>2. CASE Waiting /\ ~Waiting'
    <3>1. ezNextSend[0] # 0
      BY <2>1, <2>2 DEF Waiting
    <3>2. Link!Fail
      BY <2>1, <2>2, <3>1 DEF Link!Fail
    <3>3. QED
      BY <3>2 DEF Link!Next
  <2>3. CASE ~Waiting
    <3>1. since'.tx \in Nat /\ since'.tx >= since.tx /\ since.tx \in Nat
      BY <1>0, <1>7, TickTimes, ForeverNat DEF TypeOK
    <3>2. ~Waiting'
      BY <2>1, <2>3, <3>1 DEF Waiting
    <3>3. QED
      BY <2>1, <2>3, <3>2
  <2>4. CASE Waiting /\ Waiting'
    BY <2>1, <2>4
  <2>5. QED
    BY <2>2, <2>3, <2>4
<1>8. QED
  BY <1>1, <1>2, <1>3, <1>4, <1>5, <1>6, <1>7 DEF Next, Sketch, Poll, Channel

\* EasySend.ImplementsLink: to a sketch that waits for its results,
\* rf12_easySend and rf12_easyPoll are an acknowledged link: retries, timers,
\* lost frames and foreign acknowledgements never report a packet as settled
\* that the peer does not have.
THEOREM LinkTheorem == NoWrap /\ Orderly /\ Spec => ImplementsLink
<1> SUFFICES ASSUME NoWrap, Orderly PROVE Spec => ImplementsLink
  OBVIOUS
<1>1. Init => Link!Init
  BY EasyAssumption DEF Init, Link!Init, Waiting
<1>2. ExchangeInv /\ [Next]_vars => [Link!Next]_(Link!vars)
  BY LinkStep
<1>3. QED
  BY <1>1, <1>2, ExchangeHolds, PTL DEF Spec, ImplementsLink, Link!Spec

=============================================================================
