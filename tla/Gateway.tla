------------------------------- MODULE Gateway -------------------------------
(***************************************************************************)
(* Sensor nodes that report readings with rfwrite() (door_sensor.ino and   *)
(* the other acknowledged senders), and the gateway that acknowledges and  *)
(* prints them (RFM12_to_Pi.ino on the driver RF12x.cpp), over one radio   *)
(* channel: frames collide, are damaged or not heard.  A frame is on the   *)
(* air in three parts: the preamble, the header byte, the rest.            *)
(***************************************************************************)
EXTENDS Integers, FiniteSets

CONSTANTS
    Node,           \* the sensor nodes
    Acking,         \* those compiled with ACK 1
    Data,           \* readings
    Readings,       \* those a node can have
    None,           \* no reading, no node
    Reporter,       \* the node whose link is compared with AckedLink
    RETRY_LIMIT,    \* retries after the first transmission
    MAX_WAIT        \* polls of the gateway before it replies anyway

ASSUME GatewayAssumption ==
    /\ Acking \subseteq Node /\ Reporter \in Acking /\ None \notin Data \cup Node
    /\ Readings \in [Node -> SUBSET Data] /\ RETRY_LIMIT \in Nat /\ MAX_WAIT \in Nat

VARIABLES
    \* rfwrite() of each node
    spc, tries, payload, outcome,
    onair,          \* the part of a node's frame that is on the air
    \* RF12x.cpp in the gateway
    rxstate,        \* "TXIDLE", "TXRECV", or "send" for the states of sending
    rxfill,         \* 0: nothing, 1: the header, 2: the whole packet
    rf12_hdr, rf12_data, rf12_crc,
    rx,             \* the frame the receiver is in: its node, and if damaged
    gwtx,           \* the frame the gateway sends, of: the node it answers
    \* RFM12_to_Pi.ino
    gpc, i, collect, cmd,
    \* history
    taken,          \* the packet loop() is working on, as it was received
    got,            \* each node's reading that loop() was given last
    copies,         \* how often, since the node began to report it
    touched         \* another header came in before the reply to taken

senderVars == <<spc, tries, payload, outcome>>
driverVars == <<rxstate, rxfill, rf12_hdr, rf12_data, rf12_crc, rx, gwtx>>
sketchVars == <<gpc, i, collect, cmd>>
histVars == <<taken, got, copies, touched>>
vars == <<senderVars, onair, driverVars, sketchVars, histVars>>

NoFrame == [node |-> None, damaged |-> FALSE]
NoSend == [kind |-> "none", to |-> None, of |-> None, damaged |-> FALSE, hearers |-> {}]
NoPacket == [node |-> None, data |-> None]

Init ==
    /\ spc = [n \in Node |-> "sleep"] /\ tries = [n \in Node |-> 0]
    /\ payload = [n \in Node |-> None] /\ outcome = [n \in Acking |-> "settled"]
    /\ onair = [n \in Node |-> "none"]
    /\ rxstate = "TXIDLE" /\ rxfill = 0 /\ rf12_crc = FALSE
    /\ rf12_hdr = [node |-> None, ack |-> FALSE] /\ rf12_data = None
    /\ rx = NoFrame /\ gwtx = NoSend
    /\ gpc = "input" /\ i = 0 /\ collect = FALSE /\ cmd = FALSE
    /\ taken = NoPacket
    /\ got = [n \in Acking |-> None] /\ copies = [n \in Acking |-> 0]
    /\ touched = FALSE

\* The other nodes that are transmitting.
Others(n) == {m \in Node \ {n} : onair[m] # "none"}
AirBusy == \E n \in Node : onair[n] # "none"

-----------------------------------------------------------------------------
(* The nodes.                                                              *)

\* loop() has a new reading and calls rfwrite().
Report(n) ==
    /\ spc[n] = "sleep"
    /\ \E d \in Readings[n] : payload' = [payload EXCEPT ![n] = d]
    /\ spc' = [spc EXCEPT ![n] = "try"] /\ tries' = [tries EXCEPT ![n] = 0]
    /\ outcome' = [m \in Acking |-> IF m = n THEN "sending" ELSE outcome[m]]
    /\ copies' = [m \in Acking |-> IF m = n THEN 0 ELSE copies[m]]
    /\ UNCHANGED <<onair, driverVars, sketchVars, taken, got, touched>>

\* while (!rf12_canSend()) rf12_recvDone(); has ended, which it does at any time
\* or never: the loop has no bound.  rf12_sendStart(): the frame disturbs the
\* ones on the air.  Nodes need not hear each other, so rf12_canSend() keeps
\* none of them silent for sure.
StartFrame(n) ==
    /\ spc[n] = "try"
    /\ spc' = [spc EXCEPT ![n] = "send"] /\ onair' = [onair EXCEPT ![n] = "preamble"]
    /\ rx' = IF rx.node # None THEN [rx EXCEPT !.damaged = TRUE] ELSE rx
    /\ gwtx' = IF gwtx # NoSend THEN [gwtx EXCEPT !.damaged = TRUE] ELSE gwtx
    /\ UNCHANGED <<tries, payload, outcome, rxstate, rxfill, rf12_hdr, rf12_data, rf12_crc,
                   sketchVars, histVars>>

\* The header byte; a receiver that has found the frame's preamble stores it.
SendHeader(n) ==
    /\ onair[n] = "preamble"
    /\ onair' = [onair EXCEPT ![n] = "header"]
    /\ \/ /\ rxstate = "TXRECV" /\ rxfill = 0
          /\ rxfill' = 1 /\ rf12_hdr' = [node |-> n, ack |-> n \in Acking]
          /\ rx' = [node |-> n, damaged |-> Others(n) # {}]
          /\ touched' = (touched \/ gpc \in {"ackWait", "reply"})
       \/ UNCHANGED <<rxfill, rf12_hdr, rx, touched>>
    /\ UNCHANGED <<senderVars, rxstate, rf12_data, rf12_crc, gwtx, sketchVars,
                   taken, got, copies>>

\* Length, data and CRC; the node then waits for the acknowledgement, if any.
SendRest(n) ==
    /\ onair[n] = "header"
    /\ onair' = [onair EXCEPT ![n] = "none"]
    /\ spc' = [spc EXCEPT ![n] = IF n \in Acking THEN "waitForAck" ELSE "sleep"]
    /\ IF rx.node = n
         THEN /\ rxfill' = 2 /\ rx' = NoFrame
              /\ rf12_crc' \in {FALSE, ~rx.damaged}
              /\ rf12_data' = IF rf12_crc' THEN payload[n] ELSE None
         ELSE UNCHANGED <<rxfill, rx, rf12_crc, rf12_data>>
    /\ UNCHANGED <<tries, payload, outcome, rxstate, rf12_hdr, gwtx, sketchVars, histVars>>

\* ACK_TIME is over; the radio sleeps.
AckTimeout(n) ==
    /\ spc[n] = "waitForAck"
    /\ spc' = [spc EXCEPT ![n] = "pause"]
    /\ UNCHANGED <<tries, payload, outcome, onair, driverVars, sketchVars, histVars>>

\* The gateway has a packet of n or an answer to it in hand.
Answering(n) ==
    \/ rxstate = "TXRECV" /\ rxfill = 2 /\ rf12_hdr.node = n
    \/ gpc \in {"ackWait", "reply"} /\ taken.node = n
    \/ gwtx.of = n

\* Mutant: one retry more than RETRY_LIMIT.
LastTryLate(n) == tries[n] > RETRY_LIMIT

\* i <= RETRY_LIMIT fails for the next i
LastTry(n) == tries[n] >= RETRY_LIMIT

\* Mutant: the retries are not counted.
TriesUncounted(n) == tries[n]

NextTry(n) == tries[n] + 1

\* RETRY_PERIOD is over.  It is longer than a pass of the gateway's loop().
Resume(n) ==
    /\ spc[n] = "pause" /\ ~Answering(n)
    /\ IF LastTry(n)
         THEN /\ spc' = [spc EXCEPT ![n] = "sleep"]
              /\ outcome' = [outcome EXCEPT ![n] = "failed"] /\ UNCHANGED tries
         ELSE /\ spc' = [spc EXCEPT ![n] = "try"]
              /\ tries' = [tries EXCEPT ![n] = NextTry(n)] /\ UNCHANGED outcome
    /\ UNCHANGED <<payload, onair, driverVars, sketchVars, histVars>>

-----------------------------------------------------------------------------
(* The driver in the gateway.                                              *)

\* rf12_recvStart()
recvStart == rxstate' = "TXRECV" /\ rxfill' = 0 /\ rf12_crc' = FALSE

Full == rxstate = "TXRECV" /\ rxfill = 2

\* Mutant: the state stays TXRECV and the packet is returned again.
RecvDoneStays ==
    CASE Full                 -> UNCHANGED <<rxstate, rxfill, rf12_crc>>
      [] rxstate = "TXIDLE"   -> recvStart
      [] OTHER                -> UNCHANGED <<rxstate, rxfill, rf12_crc>>

\* rf12_recvDone(): true if it was Full (every packet here is a broadcast)
recvDone ==
    CASE Full                 -> rxstate' = "TXIDLE" /\ UNCHANGED <<rxfill, rf12_crc>>
      [] rxstate = "TXIDLE"   -> recvStart
      [] OTHER                -> UNCHANGED <<rxstate, rxfill, rf12_crc>>

\* rf12_canSend(): the RSSI bit may be set without a frame on the air.
canSend(quiet) == rxstate = "TXRECV" /\ rxfill = 0 /\ quiet
Quiet == {FALSE, ~AirBusy}

\* rf12_sendStart(): whatever was being received is cut off.
sendStart(hdr, kind, of) ==
    /\ rf12_hdr' = hdr
    /\ rxstate' = "send" /\ rx' = NoFrame
    /\ gwtx' = [kind |-> kind, to |-> hdr.node, of |-> of, damaged |-> AirBusy,
                hearers |-> {n \in Node : spc[n] = "waitForAck"}]
    /\ rf12_crc' = FALSE

\* Mutant: any header with the node's number ends the wait.
AnyFrameFor(n) == gwtx.to = n

\* rf12_hdr == (RF12_HDR_DST | RF12_HDR_CTL | myNodeID)
AckFor(n) == gwtx.to = n /\ gwtx.kind = "ack"

\* The frame is out: rxstate is TXIDLE.  A node that has listened from its
\* start may have received it.
FrameSent ==
    /\ gwtx # NoSend
    /\ rxstate' = "TXIDLE" /\ gwtx' = NoSend
    /\ \/ UNCHANGED <<spc, outcome>>
       \/ \E n \in gwtx.hearers :
            /\ spc[n] = "waitForAck" /\ ~gwtx.damaged /\ AckFor(n)
            /\ spc' = [spc EXCEPT ![n] = "sleep"]
            /\ outcome' = [outcome EXCEPT ![n] = "settled"]
    /\ UNCHANGED <<tries, payload, onair, rxfill, rf12_hdr, rf12_data, rf12_crc, rx,
                   sketchVars, histVars>>

-----------------------------------------------------------------------------
(* loop() of the gateway.                                                  *)

\* rf12_config() sets up the radio again: a frame being received or sent is
\* lost.
Reinitialize == rxstate' = "TXIDLE" /\ rx' = NoFrame /\ gwtx' = NoSend

\* handleInput(): a character without effect on the radio or a setting that is
\* locked, 'a' and 's' with any destination, 'c', and what else ends in
\* rf12_config(): the other settings, 'x' and the help.
NoInput == UNCHANGED <<collect, cmd, rxstate, rx, gwtx>>
SendCommand == cmd' = TRUE /\ UNCHANGED <<collect, rxstate, rx, gwtx>>
CollectCommand == collect' = ~collect /\ Reinitialize /\ UNCHANGED cmd
OtherCommand == Reinitialize /\ UNCHANGED <<collect, cmd>>

handleInput ==
    /\ gpc = "input" /\ gpc' = "recv"
    /\ NoInput \/ SendCommand \/ CollectCommand \/ OtherCommand
    /\ UNCHANGED <<senderVars, onair, rxfill, rf12_hdr, rf12_data, rf12_crc, i, histVars>>

\* if (rf12_recvDone() && (rf12_crc == 0))
receive ==
    /\ gpc = "recv"
    /\ recvDone
    /\ IF Full /\ rf12_crc
         THEN /\ gpc' = IF rf12_hdr.ack /\ ~collect THEN "ackWait" ELSE "print"
              /\ taken' = [node |-> rf12_hdr.node, data |-> rf12_data]
              /\ got' = [m \in Acking |-> IF m = rf12_hdr.node THEN rf12_data ELSE got[m]]
              /\ copies' = [m \in Acking |-> IF m = rf12_hdr.node THEN copies[m] + 1 ELSE copies[m]]
         ELSE gpc' = "command" /\ UNCHANGED <<taken, got, copies>>
    /\ i' = 0 /\ UNCHANGED touched
    /\ UNCHANGED <<senderVars, onair, rf12_hdr, rf12_data, rx, gwtx, collect, cmd>>

\* Mutant: the polls are not counted.
PollsUncounted == i

Polls == i + 1

\* while (!rf12_canSend() && i<10) {rf12_recvDone(); i++;}
ackWait ==
    /\ gpc = "ackWait"
    /\ \E quiet \in Quiet :
         \/ /\ canSend(quiet)
            /\ rxstate' = "TXIDLE" /\ gpc' = "reply" /\ UNCHANGED <<rxfill, rf12_crc, i>>
         \/ /\ ~canSend(quiet) /\ i < MAX_WAIT
            /\ recvDone /\ i' = Polls /\ UNCHANGED gpc
         \/ /\ ~canSend(quiet) /\ i >= MAX_WAIT
            /\ gpc' = "reply" /\ UNCHANGED <<rxstate, rxfill, rf12_crc, i>>
    /\ UNCHANGED <<senderVars, onair, rf12_hdr, rf12_data, rx, gwtx, collect, cmd,
                   histVars>>

\* Mutant: the test of RF12_HDR_DST inverted: a reply with the gateway's number.
AckReplyInverted == [node |-> None, ack |-> FALSE]

\* RF12_ACK_REPLY
AckReply == [node |-> rf12_hdr.node, ack |-> FALSE]

\* rf12_sendStart(RF12_ACK_REPLY, 0, 0), from the header now in the buffer
reply ==
    /\ gpc = "reply" /\ gpc' = "print"
    /\ sendStart(AckReply, "ack", taken.node)
    /\ UNCHANGED <<senderVars, onair, rxfill, rf12_data, i, collect, cmd, histVars>>

\* The line with the node's number and the data (see PrintedAsReceived).
print ==
    /\ gpc = "print" /\ gpc' = "command"
    /\ taken' = NoPacket /\ touched' = FALSE
    /\ UNCHANGED <<senderVars, onair, driverVars, i, collect, cmd, got, copies>>

\* if (cmd && rf12_canSend()).  dest is a byte as it was typed: 128 + n has
\* RF12_HDR_CTL in it, and the header of 's' is then the one of a reply to n.
\* The other headers, the broadcast among them, are a "command" to the nodes.
command ==
    /\ gpc = "command" /\ gpc' = "input"
    /\ \E quiet \in Quiet :
         IF cmd /\ canSend(quiet)
           THEN /\ cmd' = FALSE
                /\ \E n \in Node, kind \in {"command", "ack"} :
                     sendStart([node |-> n, ack |-> FALSE], kind, None)
           ELSE UNCHANGED <<cmd, rf12_hdr, rxstate, rx, gwtx, rf12_crc>>
    /\ UNCHANGED <<senderVars, onair, rxfill, rf12_data, i, collect, histVars>>

-----------------------------------------------------------------------------
Running(n) == SendHeader(n) \/ SendRest(n) \/ AckTimeout(n) \/ Resume(n)
NodeStep(n) == StartFrame(n) \/ Running(n)
Loop == handleInput \/ receive \/ ackWait \/ reply \/ print \/ command

Next == (\E n \in Node : Report(n) \/ NodeStep(n)) \/ FrameSent \/ Loop

Spec == Init /\ [][Next]_vars

\* Every CPU and transmitter runs.  Nothing is assumed of new readings, of the
\* serial line and of the channel: a node that waits for it to be free may wait
\* forever, so StartFrame is not fair.
Fairness == (\A n \in Node : WF_vars(Running(n))) /\ WF_vars(FrameSent) /\ WF_vars(Loop)

FairSpec == Spec /\ Fairness

-----------------------------------------------------------------------------
(* Properties.                                                             *)

\* The values each variable can hold.
TypeOK ==
    /\ spc \in [Node -> {"sleep", "try", "send", "waitForAck", "pause"}]
    /\ tries \in [Node -> 0 .. RETRY_LIMIT] /\ payload \in [Node -> Data \cup {None}]
    /\ outcome \in [Acking -> {"sending", "settled", "failed"}]
    /\ onair \in [Node -> {"none", "preamble", "header"}]
    /\ rxstate \in {"TXIDLE", "TXRECV", "send"} /\ rxfill \in 0 .. 2
    /\ rf12_hdr \in [node : Node \cup {None}, ack : BOOLEAN]
    /\ rf12_data \in Data \cup {None} /\ rf12_crc \in BOOLEAN
    /\ rx \in [node : Node \cup {None}, damaged : BOOLEAN]
    /\ gwtx \in [kind : {"none", "ack", "command"}, to : Node \cup {None},
                 of : Node \cup {None}, damaged : BOOLEAN, hearers : SUBSET Node]
    /\ gpc \in {"input", "recv", "ackWait", "reply", "print", "command"}
    /\ i \in 0 .. MAX_WAIT /\ collect \in BOOLEAN /\ cmd \in BOOLEAN
    /\ taken \in [node : Node \cup {None}, data : Data \cup {None}]
    /\ got \in [Acking -> Data \cup {None}] /\ copies \in [Acking -> Nat]
    /\ touched \in BOOLEAN

\* "rf12_hdr - Contains the header byte of the received packet", "To send an
\* acknowledgement, call rf12_sendStart() - but only right after
\* rf12_recvDone() returns true": the line loop() prints for a packet has the
\* node and the data of that packet.
PrintedAsReceived ==
    gpc = "print" => rf12_hdr.node = taken.node /\ rf12_data = taken.data

\* The line is right whenever no other frame's header has come in while the
\* gateway waited to reply, whatever came before and comes after.
PrintedIfUntouched == ~touched => PrintedAsReceived

\* A lost acknowledgement makes rfwrite() repeat a packet that was printed; a
\* reading is given to loop() at most once per transmission of it.
CopiesBounded == \A n \in Acking : copies[n] <= tries[n] + 1

\* rfwrite() ends, acknowledged or not, whatever the gateway does, if each wait
\* for rf12_canSend() ends.  Under permanent noise or traffic that wait does not,
\* and rfwrite() never returns.
RfwriteReturns ==
    (spc[Reporter] = "try" ~> spc[Reporter] # "try") =>
        (spc[Reporter] # "sleep" ~> spc[Reporter] = "sleep")

\* No noise and no traffic keeps the gateway in its wait for a free channel.
LoopGoesOn == []<>(gpc = "input")

\* The node Reporter and the gateway together.
Link == INSTANCE AckedLink
          WITH Datum <- Data, Nothing <- None,
               want <- payload[Reporter], got <- got[Reporter], result <- outcome[Reporter]

\* Reporter receives a frame with the header of its acknowledgement that does
\* not answer its packet: the reply to another acknowledging node, whose header
\* was overwritten by Reporter's while the gateway waited to reply, or an 's'
\* with 128 + its number.
MistakenAck == FrameSent /\ gwtx.kind = "ack" /\ gwtx.to = Reporter /\ gwtx.of # Reporter

\* rfwrite() goes back to sleep with an acknowledgement only if the gateway's
\* loop() has been given that very reading, except by a MistakenAck, against
\* which the code does nothing: whatever is lost, late, repeated or in
\* collision, a reply to the node answers the packet it is waiting for.
ImplementsLink == Link!Init /\ [][Link!Next \/ MistakenAck]_(Link!vars)

=============================================================================
