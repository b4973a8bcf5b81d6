---------------------------- MODULE GatewayProofs ----------------------------
(***************************************************************************)
(* The acknowledged senders and the gateway for any number of nodes,       *)
(* retries and polls: what is printed and how often, and that an           *)
(* acknowledgement means what AckedLink says it means.                     *)
(***************************************************************************)
EXTENDS Gateway, TLAPS

-----------------------------------------------------------------------------
(* The inductive invariants.                                               *)

\* The gateway sends in state "send" only, and receives a frame that is on the
\* air, in state TXRECV and behind its header; a node sends while it has a
\* frame on the air.
Channel ==
    /\ IF rxstate = "send" THEN gwtx.kind \in {"ack", "command"} ELSE gwtx = NoSend
    /\ rx.node # None =>
         rxstate = "TXRECV" /\ rxfill = 1 /\ rf12_hdr.node = rx.node /\ onair[rx.node] = "header"
    /\ \A n \in Node : spc[n] = "send" <=> onair[n] # "none"
    /\ rxstate = "TXRECV" /\ rxfill # 0 =>
         rf12_hdr.node \in Node /\ (rf12_hdr.ack <=> rf12_hdr.node \in Acking)

\* A packet of node n is in the buffer for rf12_recvDone() to return.
Holds(n) == Full /\ rf12_hdr.node = n

\* Node n waits for the acknowledgement of its transmission, or has given it up.
Waits(n) == spc[n] \in {"waitForAck", "pause"}

\* The gateway holds a packet only of the transmission that the node has made
\* last, and that one has not been counted.
Counted ==
    \A n \in Acking :
        /\ Holds(n) => Waits(n)
        /\ spc[n] \in {"try", "send"} \/ Holds(n) => copies[n] <= tries[n]
        /\ copies[n] <= tries[n] + 1

\* From rf12_recvDone() to the line that is printed the buffer keeps the packet.
Kept ==
    /\ gpc \in {"ackWait", "reply", "print"} /\ ~touched =>
         rf12_hdr.node = taken.node /\ rf12_data = taken.data /\ rx.node = None
    /\ gpc = "print" => rxstate # "TXRECV"
    /\ gpc \in {"ackWait", "reply"} => rxstate # "send"

\* A good packet in the buffer, a packet being replied to and the packet that a
\* reply on the air answers belong to the reading its node is still waiting for.
Answered ==
    /\ \A n \in Acking : spc[n] = "sleep" <=> outcome[n] # "sending"
    /\ \A n \in Acking : Holds(n) /\ rf12_crc => rf12_data = payload[n]
    /\ gpc \in {"ackWait", "reply"} =>
         /\ taken.node \in Acking
         /\ Waits(taken.node) /\ got[taken.node] = payload[taken.node]
    /\ gwtx.of # None =>
         gwtx.of \in Acking /\ Waits(gwtx.of) /\ got[gwtx.of] = payload[gwtx.of]

-----------------------------------------------------------------------------
(* Types.                                                                  *)

\* What rf12_recvDone() does to the driver.
LEMMA RecvDoneCases ==
  ASSUME recvDone
  PROVE  \/ Full /\ rxstate' = "TXIDLE" /\ UNCHANGED <<rxfill, rf12_crc>>
         \/ rxstate = "TXIDLE" /\ rxstate' = "TXRECV" /\ rxfill' = 0 /\ rf12_crc' = FALSE
         \/ ~Full /\ rxstate # "TXIDLE" /\ UNCHANGED <<rxstate, rxfill, rf12_crc>>
<1>1. CASE Full
  <2>1. rxstate # "TXIDLE"
    BY <1>1 DEF Full
  <2>2. QED
    BY <1>1, <2>1 DEF recvDone
<1>2. CASE ~Full
  BY <1>2 DEF recvDone, recvStart
<1>3. QED
  BY <1>1, <1>2

\* The same without the CRC.
LEMMA RecvDoneState ==
  ASSUME recvDone
  PROVE  \/ rxstate = "TXRECV" /\ rxfill = 2 /\ rxstate' = "TXIDLE" /\ rxfill' = rxfill
         \/ rxstate = "TXIDLE" /\ rxstate' = "TXRECV" /\ rxfill' = 0
         \/ ~Full /\ rxstate' = rxstate /\ rxfill' = rxfill
  BY RecvDoneCases, Zenon DEF Full

\* The steps of a node keep the types.
LEMMA NodeTypes ==
  ASSUME TypeOK, NEW n \in Node, Report(n) \/ NodeStep(n)
  PROVE  TypeOK'
<1>1. CASE Report(n)
  <2>1. Readings[n] \subseteq Data
    BY GatewayAssumption
  <2>2. 0 \in 0 .. RETRY_LIMIT
    BY GatewayAssumption
  <2>3. QED
    BY <1>1, <2>1, <2>2 DEF Report, TypeOK, driverVars, sketchVars
<1>2. CASE StartFrame(n)
  <2>1. rx' \in [node : Node \cup {None}, damaged : BOOLEAN]
    BY <1>2 DEF StartFrame, TypeOK
  <2>2. gwtx' \in [kind : {"none", "ack", "command"}, to : Node \cup {None},
                   of : Node \cup {None}, damaged : BOOLEAN, hearers : SUBSET Node]
    BY <1>2 DEF StartFrame, TypeOK
  <2>3. /\ spc' \in [Node -> {"sleep", "try", "send", "waitForAck", "pause"}]
        /\ onair' \in [Node -> {"none", "preamble", "header"}]
    BY <1>2 DEF StartFrame, TypeOK
  <2>4. UNCHANGED <<tries, payload, outcome, rxstate, rxfill, rf12_hdr, rf12_data, rf12_crc,
                    gpc, i, collect, cmd, taken, got, copies, touched>>
    BY <1>2 DEF StartFrame, sketchVars, histVars
  <2>5. QED
    BY <2>1, <2>2, <2>3, <2>4 DEF TypeOK
<1>3. CASE SendHeader(n)
  <2>1. /\ [node |-> n, damaged |-> Others(n) # {}] \in [node : Node \cup {None}, damaged : BOOLEAN]
        /\ [node |-> n, ack |-> n \in Acking] \in [node : Node \cup {None}, ack : BOOLEAN]
    <3>1. /\ \A b \in BOOLEAN : [node |-> n, damaged |-> b] \in [node : Node \cup {None}, damaged : BOOLEAN]
          /\ \A b \in BOOLEAN : [node |-> n, ack |-> b] \in [node : Node \cup {None}, ack : BOOLEAN]
      OBVIOUS
    <3>2. (Others(n) # {}) \in BOOLEAN /\ (n \in Acking) \in BOOLEAN
      OBVIOUS
    <3>3. QED
      BY <3>1, <3>2, Zenon
  <2>2. rx' \in [node : Node \cup {None}, damaged : BOOLEAN]
    BY <1>3, <2>1 DEF SendHeader, TypeOK
  <2>3. rf12_hdr' \in [node : Node \cup {None}, ack : BOOLEAN]
    BY <1>3, <2>1 DEF SendHeader, TypeOK
  <2>4. touched' \in BOOLEAN
    BY <1>3 DEF SendHeader, TypeOK
  <2>5. rxfill' \in 0 .. 2
    BY <1>3 DEF SendHeader, TypeOK
  <2>6. QED
    BY <1>3, <2>2, <2>3, <2>4, <2>5 DEF SendHeader, TypeOK, senderVars, sketchVars
<1>4. CASE SendRest(n)
  <2>1. rxfill' \in 0 .. 2 /\ rx' \in [node : Node \cup {None}, damaged : BOOLEAN]
    <3>1. NoFrame \in [node : Node \cup {None}, damaged : BOOLEAN]
      BY DEF NoFrame
    <3>2. rxfill' = 2 \/ rxfill' = rxfill
      BY <1>4 DEF SendRest
    <3>3. rx' = NoFrame \/ rx' = rx
      BY <1>4 DEF SendRest
    <3>4. QED
      BY <3>1, <3>2, <3>3 DEF TypeOK
  <2>2. rf12_crc' \in BOOLEAN
    <3>1. rf12_crc' \in {FALSE, ~rx.damaged} \/ rf12_crc' = rf12_crc
      BY <1>4, Zenon DEF SendRest
    <3>2. (~rx.damaged) \in BOOLEAN /\ rf12_crc \in BOOLEAN
      BY DEF TypeOK
    <3>3. QED
      BY <3>1, <3>2, Zenon
  <2>3. rf12_data' \in Data \cup {None}
    <3>1. rf12_data' = payload[n] \/ rf12_data' = None \/ rf12_data' = rf12_data
      BY <1>4, Zenon DEF SendRest
    <3>2. QED
      BY <3>1 DEF TypeOK
  <2>4. QED
    BY <1>4, <2>1, <2>2, <2>3 DEF SendRest, TypeOK, sketchVars, histVars
<1>5. CASE AckTimeout(n)
  BY <1>5 DEF AckTimeout, TypeOK, driverVars, sketchVars, histVars
<1>6. CASE Resume(n)
  <2>1. tries' \in [Node -> 0 .. RETRY_LIMIT]
    <3>1. tries \in [Node -> 0 .. RETRY_LIMIT] /\ RETRY_LIMIT \in Nat
      BY GatewayAssumption DEF TypeOK
    <3>2. ~LastTry(n) => tries[n] + 1 \in 0 .. RETRY_LIMIT
      BY <3>1 DEF LastTry
    <3>3. QED
      BY <1>6, <3>1, <3>2 DEF Resume, NextTry
  <2>2. QED
    BY <1>6, <2>1 DEF Resume, TypeOK, driverVars, sketchVars, histVars
<1>7. QED
  BY <1>1, <1>2, <1>3, <1>4, <1>5, <1>6 DEF NodeStep, Running

\* The steps of the gateway keep the types.
LEMMA GatewayTypes ==
  ASSUME TypeOK, FrameSent \/ Loop
  PROVE  TypeOK'
<1> DEFINE Frames == [kind : {"none", "ack", "command"}, to : Node \cup {None},
                      of : Node \cup {None}, damaged : BOOLEAN, hearers : SUBSET Node]
           Headers == [node : Node \cup {None}, ack : BOOLEAN]
<1>1. NoSend \in Frames /\ NoFrame \in [node : Node \cup {None}, damaged : BOOLEAN]
  BY DEF NoSend, NoFrame
<1>2. ASSUME NEW hdr \in Headers, NEW kind \in {"ack", "command"},
             NEW of \in Node \cup {None}, sendStart(hdr, kind, of)
      PROVE  /\ rf12_hdr' \in Headers /\ rxstate' \in {"TXIDLE", "TXRECV", "send"}
             /\ gwtx' \in Frames /\ rf12_crc' \in BOOLEAN
             /\ rx' \in [node : Node \cup {None}, damaged : BOOLEAN]
  <2>1. AirBusy \in BOOLEAN /\ {n \in Node : spc[n] = "waitForAck"} \subseteq Node
    BY DEF AirBusy
  <2>2. QED
    BY <1>1, <1>2, <2>1 DEF sendStart
<1>3. CASE FrameSent
  <2>1. outcome' \in [Acking -> {"sending", "settled", "failed"}]
    BY <1>3 DEF FrameSent, TypeOK
  <2>2. spc' \in [Node -> {"sleep", "try", "send", "waitForAck", "pause"}]
    BY <1>3 DEF FrameSent, TypeOK
  <2>3. QED
    BY <1>1, <1>3, <2>1, <2>2 DEF FrameSent, TypeOK, sketchVars, histVars
<1>4. CASE handleInput
  <2>1. /\ collect' \in BOOLEAN /\ cmd' \in BOOLEAN /\ rxstate' \in {"TXIDLE", "TXRECV", "send"}
        /\ rx' \in [node : Node \cup {None}, damaged : BOOLEAN] /\ gwtx' \in Frames
    BY <1>1, <1>4 DEF handleInput, NoInput, SendCommand, CollectCommand, OtherCommand,
                      Reinitialize, TypeOK
  <2>2. QED
    BY <1>4, <2>1 DEF handleInput, TypeOK, senderVars, histVars
<1>5. ASSUME recvDone
      PROVE  rxstate' \in {"TXIDLE", "TXRECV", "send"} /\ rxfill' \in 0 .. 2 /\ rf12_crc' \in BOOLEAN
  <2>1. rf12_crc' = FALSE \/ rf12_crc' = rf12_crc
    BY <1>5, RecvDoneCases, Zenon
  <2>2. rf12_crc' \in BOOLEAN
    BY <2>1, Zenon DEF TypeOK
  <2>3. rxstate' \in {"TXIDLE", "TXRECV", "send"} /\ rxfill' \in 0 .. 2
    <3>1. /\ rxstate' = "TXIDLE" \/ rxstate' = "TXRECV" \/ rxstate' = rxstate
          /\ rxfill' = 0 \/ rxfill' = rxfill
      BY <1>5, RecvDoneCases, Zenon
    <3>2. QED
      BY <3>1 DEF TypeOK
  <2>4. QED
    BY <2>2, <2>3
<1>6. CASE receive
  <2>1. gpc' \in {"input", "recv", "ackWait", "reply", "print", "command"} /\ i' \in 0 .. MAX_WAIT
    BY <1>6, GatewayAssumption DEF receive
  <2>2. /\ taken' \in [node : Node \cup {None}, data : Data \cup {None}]
        /\ got' \in [Acking -> Data \cup {None}]
    BY <1>6 DEF receive, TypeOK
  <2>3. copies' \in [Acking -> Nat]
    BY <1>6 DEF receive, TypeOK
  <2>4. QED
    BY <1>5, <1>6, <2>1, <2>2, <2>3 DEF receive, TypeOK, senderVars
<1>7. CASE ackWait
  <2>1. i' \in 0 .. MAX_WAIT
    BY <1>7, GatewayAssumption DEF ackWait, Polls, TypeOK
  <2>2. rxstate' \in {"TXIDLE", "TXRECV", "send"} /\ rxfill' \in 0 .. 2 /\ rf12_crc' \in BOOLEAN
    BY <1>5, <1>7 DEF ackWait, TypeOK
  <2>3. gpc' \in {"input", "recv", "ackWait", "reply", "print", "command"}
    BY <1>7 DEF ackWait, TypeOK
  <2>4. QED
    BY <1>7, <2>1, <2>2, <2>3 DEF ackWait, TypeOK, senderVars, histVars
<1>8. CASE reply
  <2>1. AckReply \in Headers /\ taken.node \in Node \cup {None}
    BY DEF AckReply, TypeOK
  <2>2. QED
    BY <1>2, <1>8, <2>1 DEF reply, TypeOK, senderVars, histVars
<1>9. CASE print
  <2>1. taken' \in [node : Node \cup {None}, data : Data \cup {None}] /\ touched' \in BOOLEAN
    BY <1>9 DEF print, NoPacket
  <2>2. gpc' = "command" /\ UNCHANGED <<spc, tries, payload, outcome, onair, rxstate, rxfill,
          rf12_hdr, rf12_data, rf12_crc, rx, gwtx, i, collect, cmd, got, copies>>
    BY <1>9 DEF print, senderVars, driverVars
  <2>3. QED
    BY <2>1, <2>2 DEF TypeOK
<1>10. CASE command
  <2>1. \A n \in Node : [node |-> n, ack |-> FALSE] \in Headers
    OBVIOUS
  <2>2. /\ rf12_hdr' \in Headers /\ rxstate' \in {"TXIDLE", "TXRECV", "send"}
        /\ gwtx' \in Frames /\ rf12_crc' \in BOOLEAN /\ cmd' \in BOOLEAN
        /\ rx' \in [node : Node \cup {None}, damaged : BOOLEAN]
    <3>1. CASE UNCHANGED <<cmd, rf12_hdr, rxstate, rx, gwtx, rf12_crc>>
      BY <3>1 DEF TypeOK
    <3>2. ASSUME NEW n \in Node, NEW kind \in {"command", "ack"}, cmd' = FALSE,
                 sendStart([node |-> n, ack |-> FALSE], kind, None)
          PROVE  /\ rf12_hdr' \in Headers /\ rxstate' \in {"TXIDLE", "TXRECV", "send"}
                 /\ gwtx' \in Frames /\ rf12_crc' \in BOOLEAN /\ cmd' \in BOOLEAN
                 /\ rx' \in [node : Node \cup {None}, damaged : BOOLEAN]
      <4> HIDE DEF Headers, Frames
      <4>1. /\ [node |-> n, ack |-> FALSE] \in Headers /\ kind \in {"ack", "command"}
            /\ None \in Node \cup {None}
        BY <2>1
      <4>2. QED
        BY <1>2, <3>2, <4>1, Zenon
    <3>3. QED
      BY <1>10, <3>1, <3>2 DEF command
  <2>3. QED
    BY <1>10, <2>2 DEF command, TypeOK, senderVars, histVars
<1>11. QED
  BY <1>3, <1>4, <1>6, <1>7, <1>8, <1>9, <1>10 DEF Loop

\* Types hold at the start.
LEMMA TypeInit ==
  ASSUME Init
  PROVE  TypeOK
<1>1. /\ spc \in [Node -> {"sleep", "try", "send", "waitForAck", "pause"}]
      /\ tries \in [Node -> 0 .. RETRY_LIMIT] /\ payload \in [Node -> Data \cup {None}]
      /\ outcome \in [Acking -> {"sending", "settled", "failed"}]
      /\ onair \in [Node -> {"none", "preamble", "header"}]
  BY GatewayAssumption DEF Init
<1>2. /\ rxstate \in {"TXIDLE", "TXRECV", "send"} /\ rxfill \in 0 .. 2
      /\ rf12_hdr \in [node : Node \cup {None}, ack : BOOLEAN] /\ rf12_data \in Data \cup {None}
      /\ rx \in [node : Node \cup {None}, damaged : BOOLEAN]
      /\ gwtx \in [kind : {"none", "ack", "command"}, to : Node \cup {None},
                   of : Node \cup {None}, damaged : BOOLEAN, hearers : SUBSET Node]
  BY DEF Init, NoFrame, NoSend
<1>3. /\ gpc \in {"input", "recv", "ackWait", "reply", "print", "command"} /\ i \in 0 .. MAX_WAIT
      /\ taken \in [node : Node \cup {None}, data : Data \cup {None}]
      /\ got \in [Acking -> Data \cup {None}] /\ copies \in [Acking -> Nat]
  BY GatewayAssumption DEF Init, NoPacket
<1>4. rf12_crc \in BOOLEAN /\ collect \in BOOLEAN /\ cmd \in BOOLEAN /\ touched \in BOOLEAN
  BY Zenon DEF Init
<1>5. QED
  BY <1>1, <1>2, <1>3, <1>4 DEF TypeOK

\* Every step keeps the types.
LEMMA TypeStep ==
  ASSUME TypeOK, [Next]_vars
  PROVE  TypeOK'
<1>1. CASE UNCHANGED vars
  BY <1>1 DEF TypeOK, vars, senderVars, driverVars, sketchVars, histVars
<1>2. QED
  BY <1>1, NodeTypes, GatewayTypes DEF Next

\* Every variable keeps its type: the tries and the polls stay within their
\* limits.
THEOREM TypeCorrect == Spec => []TypeOK
  BY TypeInit, TypeStep, PTL DEF Spec

-----------------------------------------------------------------------------
(* What the steps do to the channel and to the driver.                     *)

\* A node that starts to send disturbs frames and changes nothing else of them.
LEMMA StartFrameEffect ==
  ASSUME TypeOK, NEW n \in Node, StartFrame(n)
  PROVE  /\ spc[n] = "try" /\ spc' = [spc EXCEPT ![n] = "send"]
         /\ onair' = [onair EXCEPT ![n] = "preamble"]
         /\ rx'.node = rx.node /\ gwtx'.kind = gwtx.kind /\ gwtx'.of = gwtx.of
         /\ gwtx = NoSend => gwtx' = NoSend
         /\ UNCHANGED <<tries, payload, outcome, rxstate, rxfill, rf12_hdr, rf12_data, rf12_crc,
                        gpc, i, collect, cmd, taken, got, copies, touched>>
<1>1. rx'.node = rx.node
  BY DEF StartFrame, TypeOK
<1>2. gwtx'.kind = gwtx.kind /\ gwtx'.of = gwtx.of
  BY DEF StartFrame, TypeOK
<1>3. QED
  BY <1>1, <1>2 DEF StartFrame, sketchVars, histVars

\* A header is stored by a receiver that has found the frame, or is not heard.
LEMMA SendHeaderEffect ==
  ASSUME TypeOK, NEW n \in Node, SendHeader(n)
  PROVE  /\ onair[n] = "preamble" /\ onair' = [onair EXCEPT ![n] = "header"]
         /\ \/ /\ rxstate = "TXRECV" /\ rxfill = 0 /\ rxfill' = 1
               /\ rf12_hdr'.node = n /\ (rf12_hdr'.ack <=> n \in Acking) /\ rx'.node = n
               /\ gpc \in {"ackWait", "reply"} => touched'
               /\ touched => touched'
            \/ UNCHANGED <<rxfill, rf12_hdr, rx, touched>>
         /\ UNCHANGED <<spc, tries, payload, outcome, rxstate, rf12_data, rf12_crc, gwtx,
                        gpc, i, collect, cmd, taken, got, copies>>
<1>1. onair[n] = "preamble" /\ onair' = [onair EXCEPT ![n] = "header"]
  BY DEF SendHeader
<1>2. UNCHANGED <<spc, tries, payload, outcome, rxstate, rf12_data, rf12_crc, gwtx,
                  gpc, i, collect, cmd, taken, got, copies>>
  BY DEF SendHeader, senderVars, sketchVars
<1>3. CASE /\ rxstate = "TXRECV" /\ rxfill = 0
           /\ rxfill' = 1 /\ rf12_hdr' = [node |-> n, ack |-> n \in Acking]
           /\ rx' = [node |-> n, damaged |-> Others(n) # {}]
           /\ touched' = (touched \/ gpc \in {"ackWait", "reply"})
  <2>1. rf12_hdr'.node = n /\ (rf12_hdr'.ack <=> n \in Acking) /\ rx'.node = n
    BY <1>3
  <2>2. (gpc \in {"ackWait", "reply"} => touched') /\ (touched => touched')
    BY <1>3
  <2>3. QED
    BY <1>1, <1>2, <1>3, <2>1, <2>2
<1>4. CASE UNCHANGED <<rxfill, rf12_hdr, rx, touched>>
  BY <1>1, <1>2, <1>4
<1>5. QED
  BY <1>3, <1>4, Zenon DEF SendHeader

\* The rest of a frame completes the packet of the receiver that is in it.
LEMMA SendRestEffect ==
  ASSUME TypeOK, NEW n \in Node, SendRest(n)
  PROVE  /\ onair[n] = "header" /\ onair' = [onair EXCEPT ![n] = "none"]
         /\ spc' = [spc EXCEPT ![n] = IF n \in Acking THEN "waitForAck" ELSE "sleep"]
         /\ rx.node = n => /\ rxfill' = 2 /\ rx'.node = None
                           /\ rf12_crc' => rf12_data' = payload[n]
         /\ rx.node # n => UNCHANGED <<rxfill, rx, rf12_crc, rf12_data>>
         /\ UNCHANGED <<tries, payload, outcome, rxstate, rf12_hdr, gwtx,
                        gpc, i, collect, cmd, taken, got, copies, touched>>
<1>1. /\ onair[n] = "header" /\ onair' = [onair EXCEPT ![n] = "none"]
      /\ spc' = [spc EXCEPT ![n] = IF n \in Acking THEN "waitForAck" ELSE "sleep"]
  BY DEF SendRest
<1>2. UNCHANGED <<tries, payload, outcome, rxstate, rf12_hdr, gwtx,
                  gpc, i, collect, cmd, taken, got, copies, touched>>
  BY DEF SendRest, sketchVars, histVars
<1>3. ASSUME rx.node = n
      PROVE  rxfill' = 2 /\ rx'.node = None /\ (rf12_crc' => rf12_data' = payload[n])
  <2>1. rxfill' = 2 /\ rx' = NoFrame /\ rf12_data' = IF rf12_crc' THEN payload[n] ELSE None
    BY <1>3, Zenon DEF SendRest
  <2>2. rx'.node = None
    BY <2>1 DEF NoFrame
  <2>3. QED
    BY <2>1, <2>2, Zenon
<1>4. rx.node # n => UNCHANGED <<rxfill, rx, rf12_crc, rf12_data>>
  BY Zenon DEF SendRest
<1>5. QED
  BY <1>1, <1>2, <1>3, <1>4

\* rf12_sendStart(): the receiver is cut off, and a frame goes out.
LEMMA SendStartEffect ==
  ASSUME NEW hdr, NEW kind, NEW of, sendStart(hdr, kind, of)
  PROVE  /\ rf12_hdr' = hdr /\ rxstate' = "send" /\ rx'.node = None
         /\ gwtx'.kind = kind /\ gwtx'.of = of
<1>1. rx' = NoFrame /\ rf12_hdr' = hdr /\ rxstate' = "send"
  BY Zenon DEF sendStart
<1>2. gwtx' = [kind |-> kind, to |-> hdr.node, of |-> of, damaged |-> AirBusy,
               hearers |-> {n \in Node : spc[n] = "waitForAck"}]
  BY Zenon DEF sendStart
<1>3. QED
  BY <1>1, <1>2 DEF NoFrame

\* The end of the gateway's frame: at most one node takes it for its
\* acknowledgement.
LEMMA FrameSentEffect ==
  ASSUME TypeOK, FrameSent
  PROVE  /\ gwtx # NoSend /\ rxstate' = "TXIDLE" /\ gwtx' = NoSend
         /\ \/ UNCHANGED <<spc, outcome>>
            \/ \E n \in Node : /\ spc[n] = "waitForAck" /\ gwtx.to = n /\ gwtx.kind = "ack"
                               /\ spc' = [spc EXCEPT ![n] = "sleep"]
                               /\ outcome' = [outcome EXCEPT ![n] = "settled"]
         /\ UNCHANGED <<tries, payload, onair, rxfill, rf12_hdr, rf12_data, rf12_crc, rx,
                        gpc, i, collect, cmd, taken, got, copies, touched>>
<1>1. gwtx.hearers \subseteq Node
  BY DEF TypeOK
<1>2. QED
  BY <1>1 DEF FrameSent, AckFor, sketchVars, histVars

\* A command leaves the radio alone or sets it up again.
LEMMA InputEffect ==
  ASSUME handleInput
  PROVE  /\ gpc = "input" /\ gpc' = "recv"
         /\ \/ UNCHANGED <<rxstate, rx, gwtx>>
            \/ rxstate' = "TXIDLE" /\ rx'.node = None /\ gwtx' = NoSend
         /\ UNCHANGED <<spc, tries, payload, outcome, onair, rxfill, rf12_hdr, rf12_data,
                        rf12_crc, taken, got, copies, touched>>
<1>1. UNCHANGED <<rxstate, rx, gwtx>> \/ (rxstate' = "TXIDLE" /\ rx' = NoFrame /\ gwtx' = NoSend)
  BY Zenon DEF handleInput, NoInput, SendCommand, CollectCommand, OtherCommand, Reinitialize
<1>2. NoFrame.node = None
  BY DEF NoFrame
<1>3. UNCHANGED <<spc, tries, payload, outcome, onair, rxfill, rf12_hdr, rf12_data, rf12_crc,
                  taken, got, copies, touched>>
  BY DEF handleInput, senderVars, histVars
<1>4. QED
  BY <1>1, <1>2, <1>3 DEF handleInput

\* loop() takes a good packet, or none.
LEMMA ReceiveEffect ==
  ASSUME receive
  PROVE  /\ gpc = "recv" /\ recvDone
         /\ \/ /\ Full /\ rf12_crc
               /\ gpc' = IF rf12_hdr.ack /\ ~collect THEN "ackWait" ELSE "print"
               /\ taken'.node = rf12_hdr.node /\ taken'.data = rf12_data
               /\ got' = [m \in Acking |-> IF m = rf12_hdr.node THEN rf12_data ELSE got[m]]
               /\ copies' = [m \in Acking |-> IF m = rf12_hdr.node THEN copies[m] + 1 ELSE copies[m]]
            \/ gpc' = "command" /\ UNCHANGED <<taken, got, copies>>
         /\ UNCHANGED <<spc, tries, payload, outcome, onair, rf12_hdr, rf12_data, rx, gwtx, touched>>
<1>1. CASE Full /\ rf12_crc
  <2>1. taken' = [node |-> rf12_hdr.node, data |-> rf12_data]
    BY <1>1, Zenon DEF receive
  <2>2. taken'.node = rf12_hdr.node /\ taken'.data = rf12_data
    BY <2>1
  <2>3. QED
    BY <1>1, <2>2 DEF receive, senderVars
<1>2. CASE ~(Full /\ rf12_crc)
  BY <1>2 DEF receive, senderVars
<1>3. QED
  BY <1>1, <1>2

\* A poll of the wait for a free channel: the receiver is stopped, asked or left
\* alone.
LEMMA AckWaitEffect ==
  ASSUME ackWait
  PROVE  /\ gpc = "ackWait" /\ gpc' \in {"ackWait", "reply"}
         /\ \/ rxstate = "TXRECV" /\ rxfill = 0 /\ rxstate' = "TXIDLE" /\ UNCHANGED <<rxfill, rf12_crc>>
            \/ recvDone
            \/ UNCHANGED <<rxstate, rxfill, rf12_crc>>
         /\ UNCHANGED <<spc, tries, payload, outcome, onair, rf12_hdr, rf12_data, rx, gwtx,
                        taken, got, copies, touched>>
  BY DEF ackWait, canSend, senderVars, histVars

\* A packet from the serial line goes out, or not yet.
LEMMA CommandEffect ==
  ASSUME command
  PROVE  /\ gpc = "command" /\ gpc' = "input"
         /\ \/ \E n \in Node, kind \in {"command", "ack"} :
                 sendStart([node |-> n, ack |-> FALSE], kind, None)
            \/ UNCHANGED <<rf12_hdr, rxstate, rx, gwtx, rf12_crc>>
         /\ UNCHANGED <<spc, tries, payload, outcome, onair, rxfill, rf12_data, taken, got,
                        copies, touched>>
  BY DEF command, senderVars, histVars

-----------------------------------------------------------------------------
(* The channel.                                                            *)

\* The facts of TypeOK that the proofs below use.
LEMMA Types ==
  ASSUME TypeOK
  PROVE  /\ spc \in [Node -> {"sleep", "try", "send", "waitForAck", "pause"}]
         /\ onair \in [Node -> {"none", "preamble", "header"}]
         /\ rxstate \in {"TXIDLE", "TXRECV", "send"} /\ rxfill \in 0 .. 2
         /\ rx.node \in Node \cup {None} /\ rf12_hdr.node \in Node \cup {None}
         /\ None \notin Node /\ Acking \subseteq Node
         /\ outcome \in [Acking -> {"sending", "settled", "failed"}]
         /\ tries \in [Node -> Nat] /\ copies \in [Acking -> Nat]
         /\ payload \in [Node -> Data \cup {None}] /\ got \in [Acking -> Data \cup {None}]
<1>1. tries \in [Node -> Nat]
  BY GatewayAssumption DEF TypeOK
<1>2. QED
  BY <1>1, GatewayAssumption DEF TypeOK

\* What the driver and the nodes know of the frames on the air stays true.
LEMMA ChannelStep ==
  ASSUME TypeOK, Channel, [Next]_vars
  PROVE  Channel'
<1>1. CASE UNCHANGED vars
  BY <1>1 DEF Channel, vars, senderVars, driverVars
<1>2. ASSUME NEW n \in Node, Report(n) \/ AckTimeout(n) \/ Resume(n)
      PROVE  Channel'
  <2>1. /\ UNCHANGED <<onair, rxstate, rxfill, rf12_hdr, rx, gwtx>>
        /\ spc[n] \in {"sleep", "waitForAck", "pause"}
        /\ spc' = [spc EXCEPT ![n] = "try"] \/ spc' = [spc EXCEPT ![n] = "sleep"]
           \/ spc' = [spc EXCEPT ![n] = "pause"]
    BY <1>2 DEF Report, AckTimeout, Resume, driverVars
  <2>2. \A m \in Node : spc'[m] = "send" <=> onair[m] # "none"
    BY <1>2, <2>1, Types DEF Channel
  <2>3. QED
    BY <2>1, <2>2 DEF Channel
<1>3. ASSUME NEW n \in Node, StartFrame(n)
      PROVE  Channel'
  <2>1. \A m \in Node : spc'[m] = "send" <=> onair'[m] # "none"
    BY <1>3, StartFrameEffect, Types DEF Channel
  <2>2. rx.node # None => onair'[rx.node] = "header"
    BY <1>3, StartFrameEffect, Types DEF Channel
  <2>3. IF rxstate = "send" THEN gwtx'.kind \in {"ack", "command"} ELSE gwtx' = NoSend
    BY <1>3, StartFrameEffect DEF Channel
  <2>4. QED
    BY <1>3, <2>1, <2>2, <2>3, StartFrameEffect DEF Channel
<1>4. ASSUME NEW n \in Node, SendHeader(n)
      PROVE  Channel'
  <2>1. \A m \in Node : spc'[m] = "send" <=> onair'[m] # "none"
    BY <1>4, SendHeaderEffect, Types DEF Channel
  <2>2. rx'.node # None =>
          /\ rxstate' = "TXRECV" /\ rxfill' = 1 /\ rf12_hdr'.node = rx'.node
          /\ onair'[rx'.node] = "header"
    BY <1>4, SendHeaderEffect, Types DEF Channel
  <2>3. rxstate' = "TXRECV" /\ rxfill' # 0 =>
          rf12_hdr'.node \in Node /\ (rf12_hdr'.ack <=> rf12_hdr'.node \in Acking)
    BY <1>4, SendHeaderEffect DEF Channel
  <2>4. rxstate' = rxstate /\ gwtx' = gwtx
    BY <1>4, SendHeaderEffect
  <2>5. QED
    BY <2>1, <2>2, <2>3, <2>4 DEF Channel
<1>5. ASSUME NEW n \in Node, SendRest(n)
      PROVE  Channel'
  <2>1. \A m \in Node : spc'[m] = "send" <=> onair'[m] # "none"
    BY <1>5, SendRestEffect, Types DEF Channel
  <2>2. rx'.node # None =>
          /\ rxstate' = "TXRECV" /\ rxfill' = 1 /\ rf12_hdr'.node = rx'.node
          /\ onair'[rx'.node] = "header"
    BY <1>5, SendRestEffect, Types DEF Channel
  <2>3. rxstate' = "TXRECV" /\ rxfill' # 0 =>
          rf12_hdr'.node \in Node /\ (rf12_hdr'.ack <=> rf12_hdr'.node \in Acking)
    BY <1>5, SendRestEffect, Types DEF Channel
  <2>4. rxstate' = rxstate /\ gwtx' = gwtx
    BY <1>5, SendRestEffect
  <2>5. QED
    BY <2>1, <2>2, <2>3, <2>4 DEF Channel
<1>6. CASE FrameSent
  <2>1. rxstate = "send" /\ rx.node = None
    BY <1>6, FrameSentEffect DEF Channel
  <2>2. \A m \in Node : spc'[m] = "send" <=> onair'[m] # "none"
    BY <1>6, FrameSentEffect, Types DEF Channel
  <2>3. QED
    BY <1>6, <2>1, <2>2, FrameSentEffect DEF Channel
<1>7. CASE handleInput
  BY <1>7, InputEffect DEF Channel
<1>8. ASSUME recvDone, UNCHANGED <<spc, onair, rf12_hdr, rx, gwtx>>
      PROVE  Channel'
  BY <1>8, RecvDoneState DEF Channel
<1>9. CASE receive
  BY <1>8, <1>9, ReceiveEffect
<1>10. CASE ackWait
  <2>1. CASE recvDone
    BY <1>8, <1>10, <2>1, AckWaitEffect
  <2>2. CASE ~recvDone
    BY <1>10, <2>2, AckWaitEffect DEF Channel
  <2>3. QED
    BY <2>1, <2>2
<1>11. CASE reply
  <2>1. sendStart(AckReply, "ack", taken.node) /\ UNCHANGED <<spc, onair, rxfill>>
    BY <1>11 DEF reply, senderVars
  <2>2. QED
    BY <2>1, SendStartEffect DEF Channel
<1>12. CASE print
  BY <1>12 DEF print, Channel, senderVars, driverVars
<1>13. CASE command
  <2>1. CASE UNCHANGED <<rf12_hdr, rxstate, rx, gwtx, rf12_crc>>
    BY <1>13, <2>1, CommandEffect DEF Channel
  <2>2. ASSUME NEW n \in Node, NEW kind \in {"command", "ack"},
               sendStart([node |-> n, ack |-> FALSE], kind, None)
        PROVE  Channel'
    <3>1. rxstate' = "send" /\ rx'.node = None /\ gwtx'.kind \in {"ack", "command"}
      BY <2>2, SendStartEffect
    <3>2. UNCHANGED <<spc, onair>>
      BY <1>13, CommandEffect
    <3>3. QED
      BY <3>1, <3>2 DEF Channel
  <2>3. QED
    BY <1>13, <2>1, <2>2, CommandEffect
<1>14. QED
  BY <1>1, <1>2, <1>3, <1>4, <1>5, <1>6, <1>7, <1>9, <1>10, <1>11, <1>12, <1>13
     DEF Next, NodeStep, Running, Loop

-----------------------------------------------------------------------------
(* What is printed.                                                        *)

\* The buffer keeps a packet until its line is printed, unless touched.
LEMMA KeptStep ==
  ASSUME TypeOK, Channel, Kept, [Next]_vars
  PROVE  Kept'
<1>1. CASE UNCHANGED vars
  BY <1>1 DEF Kept, vars, driverVars, sketchVars, histVars
<1>2. ASSUME NEW n \in Node, Report(n) \/ AckTimeout(n) \/ Resume(n)
      PROVE  Kept'
  BY <1>2 DEF Report, AckTimeout, Resume, Kept, driverVars, sketchVars, histVars
<1>3. ASSUME NEW n \in Node, StartFrame(n)
      PROVE  Kept'
  BY <1>3, StartFrameEffect DEF Kept
<1>4. ASSUME NEW n \in Node, SendHeader(n)
      PROVE  Kept'
  BY <1>4, SendHeaderEffect DEF Kept
<1>5. ASSUME NEW n \in Node, SendRest(n)
      PROVE  Kept'
  BY <1>5, SendRestEffect, Types DEF Kept, Channel
<1>6. CASE FrameSent
  BY <1>6, FrameSentEffect DEF Kept
<1>7. CASE handleInput
  BY <1>7, InputEffect DEF Kept
<1>8. CASE receive
  <2>1. CASE Full /\ gpc' # "command"
    <3>1. rx.node = None /\ rxstate' = "TXIDLE"
      BY <2>1, <1>8, ReceiveEffect, RecvDoneCases DEF Channel, Full
    <3>2. QED
      BY <1>8, <2>1, <3>1, ReceiveEffect DEF Kept
  <2>2. CASE ~(Full /\ gpc' # "command")
    BY <1>8, <2>2, ReceiveEffect DEF Kept
  <2>3. QED
    BY <2>1, <2>2
<1>9. CASE ackWait
  <2>1. rxstate' # "send"
    BY <1>9, AckWaitEffect, RecvDoneCases DEF Kept
  <2>2. QED
    BY <1>9, <2>1, AckWaitEffect DEF Kept
<1>10. CASE reply
  <2>1. /\ sendStart(AckReply, "ack", taken.node) /\ gpc = "reply" /\ gpc' = "print"
        /\ UNCHANGED <<rf12_data, taken, touched>>
    BY <1>10 DEF reply, histVars
  <2>2. AckReply.node = rf12_hdr.node
    BY DEF AckReply
  <2>3. QED
    BY <2>1, <2>2, SendStartEffect DEF Kept
<1>11. CASE print
  BY <1>11 DEF print, Kept
<1>12. CASE command
  BY <1>12, CommandEffect DEF Kept
<1>13. QED
  BY <1>1, <1>2, <1>3, <1>4, <1>5, <1>6, <1>7, <1>8, <1>9, <1>10, <1>11, <1>12
     DEF Next, NodeStep, Running, Loop

\* Both hold at the start.
LEMMA ChannelInit ==
  ASSUME Init
  PROVE  Channel /\ Kept
<1>1. NoFrame.node = None
  BY DEF NoFrame
<1>2. QED
  BY <1>1 DEF Init, Channel, Kept

\* They hold for ever.
LEMMA ChannelAlways == Spec => [](TypeOK /\ Channel /\ Kept)
<1>1. Init => TypeOK /\ Channel /\ Kept
  BY TypeInit, ChannelInit
<1>2. TypeOK /\ Channel /\ Kept /\ [Next]_vars => (TypeOK /\ Channel /\ Kept)'
  BY TypeStep, ChannelStep, KeptStep
<1>3. QED
  BY <1>1, <1>2, PTL DEF Spec

\* Gateway.PrintedIfUntouched: the line that loop() prints for a packet has the
\* packet's node and data, unless another header came in during the wait for a
\* free channel.
THEOREM PrintedTheorem == Spec => []PrintedIfUntouched
<1>1. Kept => PrintedIfUntouched
  BY DEF Kept, PrintedIfUntouched, PrintedAsReceived
<1>2. QED
  BY <1>1, ChannelAlways, PTL

-----------------------------------------------------------------------------
(* How often a reading is taken.                                           *)

\* A transmission is taken at most once.
LEMMA CountedStep ==
  ASSUME TypeOK, Channel, Counted, [Next]_vars
  PROVE  Counted'
<1>1. CASE UNCHANGED vars
  BY <1>1 DEF Counted, Holds, Full, Waits, vars, senderVars, driverVars, histVars
<1>2. ASSUME NEW n \in Node, Report(n)
      PROVE  Counted'
  <2>1. /\ spc[n] = "sleep" /\ spc' = [spc EXCEPT ![n] = "try"] /\ tries' = [tries EXCEPT ![n] = 0]
        /\ copies' = [m \in Acking |-> IF m = n THEN 0 ELSE copies[m]]
        /\ UNCHANGED <<rxstate, rxfill, rf12_hdr>>
    BY <1>2 DEF Report, driverVars
  <2>2. ASSUME NEW m \in Acking
        PROVE  /\ Holds(m)' <=> Holds(m)
               /\ m = n => spc'[m] = "try" /\ tries'[m] = 0 /\ copies'[m] = 0 /\ ~Waits(m)
               /\ m # n => spc'[m] = spc[m] /\ tries'[m] = tries[m] /\ copies'[m] = copies[m]
    BY <2>1, Types DEF Holds, Full, Waits
  <2>3. QED
    BY <2>2 DEF Counted, Waits
<1>3. ASSUME NEW n \in Node, StartFrame(n)
      PROVE  Counted'
  <2>1. \A m \in Acking : /\ Holds(m)' <=> Holds(m)
                          /\ spc'[m] = spc[m] \/ (spc[m] = "try" /\ spc'[m] = "send")
    BY <1>3, StartFrameEffect, Types DEF Holds, Full
  <2>2. UNCHANGED <<tries, copies>>
    BY <1>3, StartFrameEffect
  <2>3. QED
    BY <2>1, <2>2 DEF Counted, Waits
<1>4. ASSUME NEW n \in Node, SendHeader(n)
      PROVE  Counted'
  <2>1. \A m \in Acking : Holds(m)' => Holds(m)
    BY <1>4, SendHeaderEffect DEF Holds, Full
  <2>2. UNCHANGED <<spc, tries, copies>>
    BY <1>4, SendHeaderEffect
  <2>3. QED
    BY <2>1, <2>2 DEF Counted, Waits
<1>5. ASSUME NEW n \in Node, SendRest(n)
      PROVE  Counted'
  <2>1. ASSUME NEW m \in Acking, m # n
        PROVE  spc'[m] = spc[m] /\ (Holds(m)' => Holds(m))
    BY <1>5, <2>1, SendRestEffect, Types DEF Holds, Full, Channel
  <2>2. ASSUME n \in Acking
        PROVE  spc[n] = "send" /\ spc'[n] = "waitForAck"
    BY <1>5, <2>2, SendRestEffect, Types DEF Channel
  <2>3. UNCHANGED <<tries, copies>>
    BY <1>5, SendRestEffect
  <2>4. QED
    BY <2>1, <2>2, <2>3 DEF Counted, Waits
<1>6. ASSUME NEW n \in Node, AckTimeout(n)
      PROVE  Counted'
  <2>1. /\ spc[n] = "waitForAck" /\ spc' = [spc EXCEPT ![n] = "pause"]
        /\ UNCHANGED <<tries, copies, rxstate, rxfill, rf12_hdr>>
    BY <1>6 DEF AckTimeout, driverVars, histVars
  <2>2. \A m \in Acking : /\ Holds(m)' <=> Holds(m)
                          /\ spc'[m] = spc[m] \/ spc'[m] = "pause"
    BY <2>1, Types DEF Holds, Full
  <2>3. QED
    BY <2>1, <2>2 DEF Counted, Waits
<1>7. ASSUME NEW n \in Node, Resume(n)
      PROVE  Counted'
  <2>1. ~Holds(n) /\ UNCHANGED <<copies, rxstate, rxfill, rf12_hdr>>
    BY <1>7 DEF Resume, Answering, Holds, Full, driverVars, histVars
  <2>2. \/ spc' = [spc EXCEPT ![n] = "sleep"] /\ tries' = tries
        \/ spc' = [spc EXCEPT ![n] = "try"] /\ tries' = [tries EXCEPT ![n] = tries[n] + 1]
    BY <1>7 DEF Resume, NextTry
  <2>3. ASSUME NEW m \in Acking
        PROVE  /\ Holds(m)' <=> Holds(m)
               /\ m = n => \/ spc'[m] = "sleep" /\ tries'[m] = tries[m]
                           \/ spc'[m] = "try" /\ tries'[m] = tries[m] + 1
               /\ m # n => spc'[m] = spc[m] /\ tries'[m] = tries[m]
               /\ tries[m] \in Nat /\ copies[m] \in Nat
    BY <2>1, <2>2, Types DEF Holds, Full
  <2>4. QED
    BY <2>1, <2>3 DEF Counted, Waits
<1>8. CASE FrameSent
  <2>1. rxstate' = "TXIDLE" /\ UNCHANGED <<tries, copies>>
    BY <1>8, FrameSentEffect
  <2>2. \A m \in Acking : ~Holds(m)' /\ (spc'[m] = spc[m] \/ spc'[m] = "sleep")
    BY <1>8, <2>1, FrameSentEffect, Types DEF Holds, Full
  <2>3. QED
    BY <2>1, <2>2 DEF Counted, Waits
<1>9. ASSUME UNCHANGED <<spc, tries, copies>>, \A m \in Acking : Holds(m)' => Holds(m)
      PROVE  Counted'
  BY <1>9 DEF Counted, Waits
<1>10. CASE handleInput
  <2>1. \A m \in Acking : Holds(m)' => Holds(m)
    BY <1>10, InputEffect DEF Holds, Full
  <2>2. QED
    BY <1>9, <1>10, <2>1, InputEffect
<1>11. ASSUME recvDone, rf12_hdr' = rf12_hdr
       PROVE  /\ \A m \in Acking : Holds(m)' => Holds(m)
              /\ Full => \A m \in Acking : ~Holds(m)'
  BY <1>11, RecvDoneState DEF Holds, Full
<1>12. CASE receive
  <2>1. CASE copies' = copies
    BY <1>9, <1>11, <1>12, <2>1, ReceiveEffect
  <2>2. CASE copies' # copies
    <3>1. /\ Full /\ UNCHANGED <<spc, tries>>
          /\ copies' = [m \in Acking |-> IF m = rf12_hdr.node THEN copies[m] + 1 ELSE copies[m]]
      BY <1>12, <2>2, ReceiveEffect
    <3>2. \A m \in Acking : ~Holds(m)'
      BY <1>11, <1>12, <3>1, ReceiveEffect
    <3>3. ASSUME NEW m \in Acking
          PROVE  /\ Holds(m) => Waits(m) /\ copies[m] <= tries[m] /\ copies'[m] = copies[m] + 1
                 /\ ~Holds(m) => copies'[m] = copies[m]
                 /\ tries[m] \in Nat /\ copies[m] \in Nat
      BY <3>1, Types DEF Counted, Holds
    <3>4. QED
      BY <3>1, <3>2, <3>3 DEF Counted, Waits
  <2>3. QED
    BY <2>1, <2>2
<1>13. CASE ackWait
  <2>1. \A m \in Acking : Holds(m)' => Holds(m)
    BY <1>11, <1>13, AckWaitEffect DEF Holds, Full
  <2>2. QED
    BY <1>9, <1>13, <2>1, AckWaitEffect
<1>14. CASE reply
  <2>1. sendStart(AckReply, "ack", taken.node) /\ UNCHANGED <<spc, tries, copies>>
    BY <1>14 DEF reply, senderVars, histVars
  <2>2. \A m \in Acking : ~Holds(m)'
    BY <2>1, SendStartEffect DEF Holds, Full
  <2>3. QED
    BY <1>9, <2>1, <2>2
<1>15. CASE print
  <2>1. UNCHANGED <<spc, tries, copies>> /\ \A m \in Acking : Holds(m)' => Holds(m)
    BY <1>15 DEF print, Holds, Full, senderVars, driverVars
  <2>2. QED
    BY <1>9, <2>1
<1>16. CASE command
  <2>1. \A m \in Acking : Holds(m)' => Holds(m)
    BY <1>16, CommandEffect, SendStartEffect DEF Holds, Full
  <2>2. QED
    BY <1>9, <1>16, <2>1, CommandEffect
<1>17. QED
  BY <1>1, <1>2, <1>3, <1>4, <1>5, <1>6, <1>7, <1>8, <1>10, <1>12, <1>13, <1>14, <1>15, <1>16
     DEF Next, NodeStep, Running, Loop

\* Nothing has been sent at the start.
LEMMA CountedInit ==
  ASSUME Init
  PROVE  Counted
<1>1. \A n \in Acking : ~Holds(n) /\ spc[n] = "sleep" /\ copies[n] = 0 /\ tries[n] = 0
  BY GatewayAssumption DEF Init, Holds, Full
<1>2. QED
  BY <1>1 DEF Counted

\* Gateway.CopiesBounded: loop() is given a reading at most once for each of
\* its transmissions, with any number of nodes and retries.
THEOREM CopiesTheorem == Spec => []CopiesBounded
<1>1. TypeOK /\ Channel /\ Counted /\ [Next]_vars => Counted'
  BY CountedStep
<1>2. Counted => CopiesBounded
  BY DEF Counted, CopiesBounded
<1>3. QED
  BY <1>1, <1>2, CountedInit, ChannelAlways, PTL DEF Spec

-----------------------------------------------------------------------------
(* What an acknowledgement means.                                          *)

\* Everything that an acknowledgement rests on.
LinkInv == TypeOK /\ Channel /\ Kept /\ Counted /\ Answered

\* What the buffer holds after a step that receives nothing it held before.
LEMMA HeldBefore ==
  ASSUME recvDone \/ UNCHANGED <<rxstate, rxfill, rf12_crc>>
           \/ rxstate' # "TXRECV", UNCHANGED <<rf12_hdr, rf12_data>>, NEW n
  PROVE  Holds(n)' => Holds(n) /\ rf12_crc' = rf12_crc
<1>1. CASE recvDone
  <2>1. SUFFICES ASSUME Holds(n)' PROVE Holds(n) /\ rf12_crc' = rf12_crc
    OBVIOUS
  <2>2. rxstate' = "TXRECV" /\ rxfill' = 2 /\ rf12_hdr'.node = n
    BY <2>1 DEF Holds, Full
  <2>3. UNCHANGED <<rxstate, rxfill, rf12_crc>>
    <3>1. rxstate' # "TXIDLE" /\ rxfill' # 0
      BY <2>2
    <3>2. QED
      BY <1>1, <3>1, RecvDoneCases, Zenon
  <2>4. QED
    BY <2>2, <2>3 DEF Holds, Full
<1>2. CASE UNCHANGED <<rxstate, rxfill, rf12_crc>>
  BY <1>2 DEF Holds, Full
<1>3. CASE rxstate' # "TXRECV"
  BY <1>3 DEF Holds, Full
<1>4. QED
  BY <1>1, <1>2, <1>3

\* A step of a node keeps Answered: a node that is answered does not go on.
LEMMA AnsweredNode ==
  ASSUME LinkInv, NEW n \in Node, Report(n) \/ NodeStep(n)
  PROVE  Answered'
<1>1. TypeOK /\ Channel /\ Kept /\ Counted /\ Answered
  BY DEF LinkInv
<1>2. ASSUME NEW m \in Acking, spc'[m] = spc[m], payload'[m] = payload[m], outcome'[m] = outcome[m]
      PROVE  /\ Waits(m)' <=> Waits(m)
             /\ spc'[m] = "sleep" <=> outcome'[m] # "sending"
  BY <1>1, <1>2 DEF Waits, Answered
<1>3. CASE Report(n)
  <2>1. /\ spc[n] = "sleep" /\ ~Waits(n)
        /\ spc' = [spc EXCEPT ![n] = "try"]
        /\ outcome' = [m \in Acking |-> IF m = n THEN "sending" ELSE outcome[m]]
        /\ UNCHANGED <<rxstate, rxfill, rf12_hdr, rf12_data, rf12_crc, gwtx, gpc, taken, got>>
    BY <1>3 DEF Report, Waits, driverVars, sketchVars
  <2>2. ASSUME NEW m \in Acking
        PROVE  /\ m # n => spc'[m] = spc[m] /\ payload'[m] = payload[m] /\ outcome'[m] = outcome[m]
               /\ m = n => spc'[m] = "try" /\ outcome'[m] = "sending" /\ ~Holds(m)
               /\ Holds(m)' <=> Holds(m)
    BY <1>1, <1>3, <2>1, Types DEF Report, Holds, Full, Counted
  <2>3. QED
    BY <1>1, <1>2, <2>1, <2>2 DEF Answered
<1>4. CASE StartFrame(n)
  <2>1. /\ spc[n] = "try" /\ ~Waits(n)
        /\ UNCHANGED <<rxstate, rxfill, rf12_hdr, rf12_data, rf12_crc, gpc, taken, got, payload, outcome>>
        /\ gwtx'.kind = gwtx.kind /\ gwtx'.of = gwtx.of
    BY <1>1, <1>4, StartFrameEffect DEF Waits
  <2>2. ASSUME NEW m \in Acking
        PROVE  /\ m # n => spc'[m] = spc[m]
               /\ m = n => spc'[m] = "send" /\ outcome[m] = "sending"
               /\ Holds(m)' <=> Holds(m)
    BY <1>1, <1>4, <2>1, StartFrameEffect, Types DEF Holds, Full, Answered
  <2>3. QED
    BY <1>1, <1>2, <2>1, <2>2 DEF Answered
<1>5. CASE SendHeader(n)
  <2>1. /\ UNCHANGED <<spc, payload, outcome, rf12_data, rf12_crc, gwtx, gpc, taken, got>>
        /\ \A m \in Acking : Holds(m)' => Holds(m)
    BY <1>1, <1>5, SendHeaderEffect DEF Holds, Full
  <2>2. QED
    BY <1>1, <1>2, <2>1 DEF Answered
<1>6. CASE SendRest(n)
  <2>1. /\ spc[n] = "send" /\ ~Waits(n)
        /\ UNCHANGED <<payload, outcome, gwtx, gpc, taken, got, rf12_hdr>>
    BY <1>1, <1>6, SendRestEffect DEF Waits, Channel
  <2>2. ASSUME NEW m \in Acking
        PROVE  /\ m # n => spc'[m] = spc[m]
               /\ m = n => spc'[m] = "waitForAck" /\ outcome[m] = "sending"
    BY <1>1, <1>6, <2>1, SendRestEffect, Types DEF Answered
  <2>3. ASSUME NEW m \in Acking, Holds(m)', rf12_crc'
        PROVE  rf12_data' = payload[m]
    <3>1. CASE rx.node = n
      <4>1. m = n
        BY <1>1, <2>1, <2>3, <3>1, Types DEF Holds, Channel
      <4>2. QED
        BY <1>1, <1>6, <2>3, <3>1, <4>1, SendRestEffect
    <3>2. CASE rx.node # n
      <4>1. UNCHANGED <<rxstate, rxfill, rf12_crc, rf12_data>>
        BY <1>1, <1>6, <3>2, SendRestEffect
      <4>2. Holds(m) /\ rf12_crc
        BY <2>1, <2>3, <4>1 DEF Holds, Full
      <4>3. QED
        BY <1>1, <4>1, <4>2 DEF Answered
    <3>3. QED
      BY <3>1, <3>2
  <2>4. QED
    BY <1>1, <1>2, <2>1, <2>2, <2>3 DEF Answered, Waits
<1>7. CASE AckTimeout(n)
  <2>1. /\ spc[n] = "waitForAck" /\ spc' = [spc EXCEPT ![n] = "pause"]
        /\ UNCHANGED <<rxstate, rxfill, rf12_hdr, rf12_data, rf12_crc, gwtx, gpc, taken, got, payload, outcome>>
    BY <1>7 DEF AckTimeout, driverVars, sketchVars, histVars
  <2>2. ASSUME NEW m \in Acking
        PROVE  /\ m # n => spc'[m] = spc[m]
               /\ m = n => spc'[m] = "pause" /\ outcome[m] = "sending"
               /\ Holds(m)' <=> Holds(m)
    BY <1>1, <2>1, Types DEF Holds, Full, Answered
  <2>3. QED
    BY <1>1, <1>2, <2>1, <2>2 DEF Answered, Waits
<1>8. CASE Resume(n)
  <2>1. /\ spc[n] = "pause"
        /\ UNCHANGED <<rxstate, rxfill, rf12_hdr, rf12_data, rf12_crc, gwtx, gpc, taken, got, payload>>
        /\ \/ spc' = [spc EXCEPT ![n] = "sleep"] /\ outcome' = [outcome EXCEPT ![n] = "failed"]
           \/ spc' = [spc EXCEPT ![n] = "try"] /\ outcome' = outcome
    BY <1>8 DEF Resume, driverVars, sketchVars, histVars
  <2>2. ~Holds(n) /\ ~(gpc \in {"ackWait", "reply"} /\ taken.node = n)
          /\ gwtx.of # n
    BY <1>8 DEF Resume, Answering, Holds, Full
  <2>3. ASSUME NEW m \in Acking
        PROVE  /\ m # n => spc'[m] = spc[m] /\ outcome'[m] = outcome[m]
               /\ m = n => \/ spc'[m] = "sleep" /\ outcome'[m] = "failed"
                           \/ spc'[m] = "try" /\ outcome'[m] = "sending"
               /\ Holds(m)' <=> Holds(m)
    BY <1>1, <2>1, Types DEF Holds, Full, Answered
  <2>4. QED
    BY <1>1, <1>2, <2>1, <2>2, <2>3 DEF Answered
<1>9. QED
  BY <1>3, <1>4, <1>5, <1>6, <1>7, <1>8 DEF NodeStep, Running

\* A step of the gateway keeps Answered.
LEMMA AnsweredGateway ==
  ASSUME LinkInv, FrameSent \/ Loop
  PROVE  Answered'
<1>1. TypeOK /\ Channel /\ Kept /\ Counted /\ Answered
  BY DEF LinkInv
<1>2. NoSend.of = None
  BY DEF NoSend
<1>3. CASE FrameSent
  <2>1. /\ rxstate = "send" /\ rxstate' = "TXIDLE" /\ gwtx'.of = None
        /\ gpc' \notin {"ackWait", "reply"}
    BY <1>1, <1>2, <1>3, FrameSentEffect DEF Channel, Kept
  <2>2. \A m \in Acking : ~Holds(m)'
    BY <2>1 DEF Holds, Full
  <2>3. \A m \in Acking : spc'[m] = "sleep" <=> outcome'[m] # "sending"
    BY <1>1, <1>3, FrameSentEffect, Types DEF Answered
  <2>4. QED
    BY <2>1, <2>2, <2>3 DEF Answered
<1>4. ASSUME UNCHANGED <<spc, payload, outcome, got>>,
             \A m \in Acking : Holds(m)' => Holds(m) /\ rf12_crc' = rf12_crc /\ rf12_data' = rf12_data,
             gpc' \in {"ackWait", "reply"} => gpc \in {"ackWait", "reply"} /\ taken' = taken,
             gwtx' = gwtx \/ gwtx'.of = None
      PROVE  Answered'
  <2>1. \A m \in Acking : Waits(m)' <=> Waits(m)
    BY <1>4 DEF Waits
  <2>2. \A m \in Acking : Holds(m)' /\ rf12_crc' => rf12_data' = payload[m]
    BY <1>1, <1>4 DEF Answered
  <2>3. gpc' \in {"ackWait", "reply"} =>
          /\ taken'.node \in Acking /\ Waits(taken'.node) /\ got[taken'.node] = payload[taken'.node]
    BY <1>1, <1>4 DEF Answered
  <2>4. gwtx'.of # None =>
          gwtx'.of \in Acking /\ Waits(gwtx'.of) /\ got[gwtx'.of] = payload[gwtx'.of]
    BY <1>1, <1>4 DEF Answered
  <2>5. QED
    BY <1>1, <1>4, <2>1, <2>2, <2>3, <2>4 DEF Answered, Waits
<1>5. CASE handleInput
  <2>1. \A m \in Acking : Holds(m)' => Holds(m) /\ rf12_crc' = rf12_crc /\ rf12_data' = rf12_data
    BY <1>5, InputEffect DEF Holds, Full
  <2>2. gpc' \notin {"ackWait", "reply"} /\ (gwtx' = gwtx \/ gwtx'.of = None)
    BY <1>2, <1>5, InputEffect
  <2>3. QED
    BY <1>4, <1>5, <2>1, <2>2, InputEffect
<1>6. CASE receive
  <2>1. /\ recvDone /\ UNCHANGED <<spc, payload, outcome, gwtx, rf12_hdr, rf12_data>>
    BY <1>6, ReceiveEffect
  <2>2. \A m \in Acking : Holds(m)' => Holds(m) /\ rf12_crc' = rf12_crc /\ rf12_data' = rf12_data
    BY <2>1, HeldBefore
  <2>3. CASE gpc' = "command" /\ UNCHANGED <<taken, got>>
    BY <1>4, <2>1, <2>2, <2>3
  <2>4. CASE ~(gpc' = "command" /\ UNCHANGED <<taken, got>>)
    <3>1. /\ Full /\ rf12_crc /\ taken'.node = rf12_hdr.node
          /\ gpc' = IF rf12_hdr.ack /\ ~collect THEN "ackWait" ELSE "print"
          /\ got' = [m \in Acking |-> IF m = rf12_hdr.node THEN rf12_data ELSE got[m]]
      BY <1>6, <2>4, ReceiveEffect
    <3>2. gwtx'.of = None
      BY <1>1, <1>2, <2>1, <3>1 DEF Channel, Full
    <3>3. gpc' \in {"ackWait", "reply"} => rf12_hdr.node \in Acking
      BY <1>1, <3>1 DEF Channel, Full
    <3>4. rf12_hdr.node \in Acking =>
            Waits(rf12_hdr.node) /\ got'[rf12_hdr.node] = payload[rf12_hdr.node]
      BY <1>1, <3>1 DEF Counted, Answered, Holds
    <3>5. \A m \in Acking : Waits(m)' <=> Waits(m)
      BY <2>1 DEF Waits
    <3>6. \A m \in Acking : Holds(m)' /\ rf12_crc' => rf12_data' = payload[m]
      BY <1>1, <2>2 DEF Answered
    <3>7. QED
      BY <1>1, <2>1, <3>1, <3>2, <3>3, <3>4, <3>5, <3>6 DEF Answered, Waits
  <2>5. QED
    BY <2>3, <2>4
<1>7. CASE ackWait
  <2>1. \A m \in Acking : Holds(m)' => Holds(m) /\ rf12_crc' = rf12_crc /\ rf12_data' = rf12_data
    <3>1. recvDone \/ UNCHANGED <<rxstate, rxfill, rf12_crc>> \/ rxstate' # "TXRECV"
      BY <1>7, AckWaitEffect
    <3>2. UNCHANGED <<rf12_hdr, rf12_data>>
      BY <1>7, AckWaitEffect
    <3>3. QED
      BY <3>1, <3>2, HeldBefore
  <2>2. QED
    BY <1>4, <1>7, <2>1, AckWaitEffect
<1>8. CASE reply
  <2>1. /\ sendStart(AckReply, "ack", taken.node) /\ gpc = "reply" /\ gpc' = "print"
        /\ UNCHANGED <<spc, payload, outcome, got>>
    BY <1>8 DEF reply, senderVars, histVars
  <2>2. gwtx'.of = taken.node /\ rxstate' = "send"
    BY <2>1, SendStartEffect
  <2>3. taken.node \in Acking /\ Waits(taken.node) /\ got[taken.node] = payload[taken.node]
    BY <1>1, <2>1 DEF Answered
  <2>4. \A m \in Acking : ~Holds(m)' /\ (Waits(m)' <=> Waits(m))
    BY <2>1, <2>2 DEF Holds, Full, Waits
  <2>5. QED
    BY <1>1, <2>1, <2>2, <2>3, <2>4 DEF Answered
<1>9. CASE print
  <2>1. UNCHANGED <<spc, payload, outcome, got, rxstate, rxfill, rf12_hdr, rf12_data, rf12_crc, gwtx>>
    BY <1>9 DEF print, senderVars, driverVars
  <2>2. gpc' = "command"
    BY <1>9 DEF print
  <2>3. QED
    BY <1>4, <2>1, <2>2, HeldBefore
<1>10. CASE command
  <2>1. gpc' = "input" /\ UNCHANGED <<spc, payload, outcome, got, rxfill, rf12_data>>
    BY <1>10, CommandEffect
  <2>2. ASSUME NEW n \in Node, NEW kind \in {"command", "ack"},
               sendStart([node |-> n, ack |-> FALSE], kind, None)
        PROVE  Answered'
    <3>1. gwtx'.of = None /\ rxstate' = "send"
      BY <2>2, SendStartEffect
    <3>2. \A m \in Acking : ~Holds(m)'
      BY <3>1 DEF Holds, Full
    <3>3. QED
      BY <1>1, <2>1, <3>1, <3>2 DEF Answered
  <2>3. CASE UNCHANGED <<rf12_hdr, rxstate, rx, gwtx, rf12_crc>>
    BY <1>4, <2>1, <2>3, HeldBefore
  <2>4. QED
    BY <1>10, <2>2, <2>3, CommandEffect
<1>11. QED
  BY <1>3, <1>5, <1>6, <1>7, <1>8, <1>9, <1>10 DEF Loop

\* Every step keeps the invariant.
LEMMA LinkInvStep ==
  ASSUME LinkInv, [Next]_vars
  PROVE  LinkInv'
<1>1. Answered'
  <2>1. CASE UNCHANGED vars
    BY <2>1 DEF LinkInv, Answered, Waits, Holds, Full, vars, senderVars, driverVars, sketchVars, histVars
  <2>2. QED
    BY <2>1, AnsweredNode, AnsweredGateway DEF Next
<1>2. QED
  BY <1>1, TypeStep, ChannelStep, KeptStep, CountedStep DEF LinkInv

\* It holds at the start.
LEMMA LinkInvInit ==
  ASSUME Init
  PROVE  LinkInv
<1>1. \A n \in Acking : ~Holds(n) /\ spc[n] = "sleep" /\ outcome[n] = "settled"
  BY GatewayAssumption DEF Init, Holds, Full
<1>2. gpc = "input" /\ gwtx.of = None
  BY DEF Init, NoSend
<1>3. Answered
  BY <1>1, <1>2 DEF Answered
<1>4. QED
  BY <1>3, TypeInit, ChannelInit, CountedInit DEF LinkInv

\* Every step is one of AckedLink's for the reporting node, a MistakenAck, or
\* changes nothing that AckedLink sees.
LEMMA LinkStep ==
  ASSUME LinkInv, [Next]_vars
  PROVE  [Link!Next \/ MistakenAck]_(Link!vars)
<1>1. TypeOK /\ Channel /\ Kept /\ Counted /\ Answered /\ Reporter \in Acking /\ Reporter \in Node
  BY GatewayAssumption DEF LinkInv
<1>2. ASSUME payload'[Reporter] = payload[Reporter], got'[Reporter] = got[Reporter],
             outcome'[Reporter] = outcome[Reporter]
      PROVE  [Link!Next \/ MistakenAck]_(Link!vars)
  BY <1>2 DEF Link!vars
<1>3. ASSUME NEW n \in Node, Report(n)
      PROVE  [Link!Next \/ MistakenAck]_(Link!vars)
  <2>1. PICK d \in Readings[n] : payload' = [payload EXCEPT ![n] = d]
    BY <1>3 DEF Report
  <2>2. /\ spc[n] = "sleep" /\ got' = got
        /\ outcome' = [m \in Acking |-> IF m = n THEN "sending" ELSE outcome[m]]
    BY <1>3 DEF Report
  <2>3. CASE n = Reporter
    <3>1. d \in Data
      BY GatewayAssumption
    <3>2. Link!Submit
      BY <1>1, <2>1, <2>2, <2>3, <3>1, Types DEF Link!Submit, Answered
    <3>3. QED
      BY <3>2 DEF Link!Next
  <2>4. CASE n # Reporter
    BY <1>1, <1>2, <2>1, <2>2, <2>4, Types
  <2>5. QED
    BY <2>3, <2>4
<1>4. ASSUME NEW n \in Node, Resume(n)
      PROVE  [Link!Next \/ MistakenAck]_(Link!vars)
  <2>1. /\ spc[n] = "pause" /\ UNCHANGED <<payload, got>>
        /\ outcome' = [outcome EXCEPT ![n] = "failed"] \/ outcome' = outcome
    BY <1>4 DEF Resume, histVars
  <2>2. CASE n = Reporter /\ outcome' = [outcome EXCEPT ![n] = "failed"]
    <3>1. Link!Fail
      BY <1>1, <2>1, <2>2, Types DEF Link!Fail, Answered
    <3>2. QED
      BY <3>1 DEF Link!Next
  <2>3. CASE ~(n = Reporter /\ outcome' = [outcome EXCEPT ![n] = "failed"])
    BY <1>1, <1>2, <2>1, <2>3, Types
  <2>4. QED
    BY <2>2, <2>3
<1>5. CASE FrameSent
  <2>1. UNCHANGED <<payload, got>>
    BY <1>1, <1>5, FrameSentEffect
  <2>2. CASE outcome' = outcome
    BY <1>2, <2>1, <2>2
  <2>3. CASE outcome' # outcome
    <3>1. PICK n \in Node : /\ spc[n] = "waitForAck" /\ gwtx.to = n /\ gwtx.kind = "ack"
                            /\ outcome' = [outcome EXCEPT ![n] = "settled"]
      BY <1>1, <1>5, <2>3, FrameSentEffect
    <3>2. CASE n = Reporter /\ gwtx.of = Reporter
      <4>1. Link!Settle
        BY <1>1, <2>1, <3>1, <3>2, Types DEF Link!Settle, Answered
      <4>2. QED
        BY <4>1 DEF Link!Next
    <3>3. CASE n = Reporter /\ gwtx.of # Reporter
      BY <1>5, <3>1, <3>3 DEF MistakenAck
    <3>4. CASE n # Reporter
      BY <1>1, <1>2, <2>1, <3>1, <3>4, Types
    <3>5. QED
      BY <3>2, <3>3, <3>4
  <2>4. QED
    BY <2>2, <2>3
<1>6. CASE receive
  <2>1. UNCHANGED <<payload, outcome>>
    BY <1>6, ReceiveEffect
  <2>2. CASE got'[Reporter] = got[Reporter]
    BY <1>2, <2>1, <2>2
  <2>3. CASE got'[Reporter] # got[Reporter]
    <3>1. /\ Full /\ rf12_crc /\ Reporter = rf12_hdr.node
          /\ got'[Reporter] = rf12_data
      BY <1>1, <1>6, <2>3, ReceiveEffect
    <3>2. Waits(Reporter) /\ rf12_data = payload[Reporter]
      BY <1>1, <3>1 DEF Counted, Answered, Holds
    <3>3. Link!Receive
      BY <1>1, <2>1, <3>1, <3>2, Types DEF Link!Receive, Answered, Waits
    <3>4. QED
      BY <3>3 DEF Link!Next
  <2>4. QED
    BY <2>2, <2>3
<1>7. ASSUME NEW n \in Node, StartFrame(n) \/ SendHeader(n) \/ SendRest(n) \/ AckTimeout(n)
      PROVE  UNCHANGED <<payload, got, outcome>>
  BY <1>1, <1>7, StartFrameEffect, SendHeaderEffect, SendRestEffect DEF AckTimeout, histVars
<1>8. ASSUME handleInput \/ ackWait \/ reply \/ print \/ command \/ UNCHANGED vars
      PROVE  UNCHANGED <<payload, got, outcome>>
  BY <1>8, InputEffect, AckWaitEffect, CommandEffect DEF reply, print, vars, senderVars, histVars
<1>9. QED
  BY <1>2, <1>3, <1>4, <1>5, <1>6, <1>7, <1>8 DEF Next, NodeStep, Running, Loop

\* Gateway.ImplementsLink, for any number of acknowledging and other nodes:
\* rfwrite() reports a reading as acknowledged only if the gateway's loop() was
\* given it, or the frame it received did not answer its packet.
THEOREM LinkTheorem == Spec => ImplementsLink
<1>1. Init => Link!Init
  BY GatewayAssumption DEF Init, Link!Init
<1>2. LinkInv /\ [Next]_vars => LinkInv' /\ [Link!Next \/ MistakenAck]_(Link!vars)
  BY LinkInvStep, LinkStep
<1>3. Init => LinkInv
  BY LinkInvInit
<1>4. QED
  BY <1>1, <1>2, <1>3, PTL DEF Spec, ImplementsLink

\* The frame on the air is no 's' with the header of a reply.
Unforged == gwtx.kind = "ack" => gwtx.of # None

\* With one acknowledging node there is no MistakenAck, whatever the other nodes
\* send, unless somebody types one: rfwrite() and loop() implement AckedLink.
THEOREM SingleLinkTheorem == Acking = {Reporter} /\ Spec /\ []Unforged => Link!Spec
<1> SUFFICES ASSUME Acking = {Reporter} PROVE Spec /\ []Unforged => Link!Spec
  OBVIOUS
<1>1. Init => Link!Init
  BY GatewayAssumption DEF Init, Link!Init
<1>2. LinkInv /\ [Next]_vars => LinkInv'
  BY LinkInvStep
<1>3. LinkInv /\ Unforged /\ [Next]_vars => [Link!Next]_(Link!vars)
  <2>1. LinkInv /\ Unforged => ~MistakenAck
    BY DEF LinkInv, Answered, Unforged, MistakenAck
  <2>2. QED
    BY <2>1, LinkStep
<1>4. Init => LinkInv
  BY LinkInvInit
<1>5. QED
  BY <1>1, <1>2, <1>3, <1>4, PTL DEF Spec, Link!Spec

=============================================================================
