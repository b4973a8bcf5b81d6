------------------------------- MODULE MCRF12 -------------------------------
(* Instances of RF12 for TLC. *)
EXTENDS RF12

H(ctl, dst, ack, node) == [ctl |-> ctl, dst |-> dst, ack |-> ack, node |-> node]

\* A broadcast that wants an ack, one packet for this node and one for
\* another, a damaged one whose length byte is too large.
MCPackets ==
    {[hdr |-> H(FALSE, FALSE, TRUE, 5), len |-> 1, ok |-> TRUE, level |-> 4],
     [hdr |-> H(FALSE, TRUE, TRUE, 2), len |-> 0, ok |-> TRUE, level |-> 0],
     [hdr |-> H(FALSE, TRUE, FALSE, 9), len |-> 0, ok |-> TRUE, level |-> 6],
     [hdr |-> H(FALSE, FALSE, FALSE, 5), len |-> 3, ok |-> FALSE, level |-> 2]}

\* The broadcast and the damaged one.
MCTwoPackets == {p \in MCPackets : p.hdr.node = 5}

\* The broadcast alone.
MCOnePacket == {p \in MCTwoPackets : p.ok}

\* Stop exploring once a lost update of rfmstate has left the receiver or the
\* transmitter on (run rf12_watchdog_race).
RadioStops ==
    /\ given = NoArg => frame = <<>>
    /\ pc = "sketch" =>
         /\ rxstate = TXIDLE => rfm \cap {"rx", "tx"} = {}
         /\ rxstate = TXRECV /\ Complete(rxfill, rf12_len, fixedLength) => "rx" \notin rfm

=============================================================================
