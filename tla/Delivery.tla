------------------------------ MODULE Delivery ------------------------------
(***************************************************************************)
(* What the bus promises the one reader of an append-only log: each        *)
(* delivery hands over the next unread messages, in log order, none        *)
(* skipped and none handed over a second time, for as long as the record   *)
(* of how far the reader got is not lost.  Positions in the log stand for  *)
(* messages.                                                               *)
(***************************************************************************)
EXTENDS Naturals

CONSTANT Keys       \* the logs the reader follows

VARIABLES
  sent,             \* sent[k]: how many messages log k holds
  delivered,        \* delivered[k]: the positions handed over so far
  repeated,         \* repeated[k]: the positions handed over more than once
  lost              \* the record of how far the reader got is lost

vars == <<sent, delivered, repeated, lost>>

Init ==
  /\ sent = [k \in Keys |-> 0]
  /\ delivered = [k \in Keys |-> {}]
  /\ repeated = [k \in Keys |-> {}]
  /\ lost = FALSE

\* A message reaches the end of log k.
Send(k) ==
  /\ sent' = [sent EXCEPT ![k] = @ + 1]
  /\ UNCHANGED <<delivered, repeated, lost>>

\* The next n - m messages are handed over; m of them already were.
Deliver(k) ==
  \E m \in 0..sent[k] : \E n \in (m + 1)..sent[k] :
    /\ delivered[k] = 1..m
    /\ delivered' = [delivered EXCEPT ![k] = 1..n]
    /\ UNCHANGED <<sent, repeated, lost>>

\* The record is lost, and with it the promise.
Lose == lost' = TRUE /\ UNCHANGED <<sent, delivered, repeated>>

Next ==
  \/ Lose
  \/ lost /\ lost'
  \/ \E k \in Keys : Send(k) \/ Deliver(k)

Spec == Init /\ [][Next]_vars
=============================================================================
