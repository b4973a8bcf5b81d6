------------------------------ MODULE AckedLink ------------------------------
(***************************************************************************)
(* What an acknowledged transmission promises its caller, without retries, *)
(* timers, frames and losses: one datum at a time is handed over; it is    *)
(* reported as settled only when it is what the peer has last received,    *)
(* and otherwise as failed.  rf12_easySend / rf12_easyPoll and the         *)
(* rfwrite() of the acknowledged senders are shown to implement this.      *)
(***************************************************************************)
CONSTANTS Datum,    \* what can be handed over
          Nothing   \* what has been "sent" at start: not one byte

VARIABLES want,     \* the datum handed over last
          got,      \* the datum the peer received last
          result    \* "sending", "settled" or "failed"

vars == <<want, got, result>>

Init == want = Nothing /\ got = Nothing /\ result = "settled"

Submit ==
    /\ result # "sending"
    /\ \E d \in Datum \cup {Nothing} : want' = d
    /\ result' = "sending" /\ UNCHANGED got

Receive ==
    /\ result = "sending"
    /\ got' = want /\ UNCHANGED <<want, result>>

Settle ==
    /\ result = "sending" /\ got = want
    /\ result' = "settled" /\ UNCHANGED <<want, got>>

Fail ==
    /\ result = "sending"
    /\ result' = "failed" /\ UNCHANGED <<want, got>>

Next == Submit \/ Receive \/ Settle \/ Fail

Spec == Init /\ [][Next]_vars

=============================================================================
