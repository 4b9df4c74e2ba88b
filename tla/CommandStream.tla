--------------------------- MODULE CommandStream ---------------------------
(***************************************************************************)
(* What the receive path of vcv-osc promises to the code that applies      *)
(* commands, whatever threads and sockets it is built from.                *)
(*                                                                         *)
(* Datagrams reach the module through lanes (one lane per listening        *)
(* socket; a lane keeps arrival order).  A datagram is lost or accepted.   *)
(* An accepted one contributes all its messages, contiguously and in       *)
(* order, or none of them when it is malformed.  What was accepted is      *)
(* applied exactly once and in order until the module itself goes away.    *)
(* The receiver may go astray: it then takes one datagram, or bytes that   *)
(* are none, that came by no lane.                                         *)
(***************************************************************************)
EXTENDS Sequences

CONSTANTS Packets,    \* datagrams a client may send
          Malformed,  \* those on which parsePacket returns false
          Body,       \* Body[p]: the messages parsed from p, in order
          Lanes

VARIABLES lane,       \* lane[s]: datagrams arrived on s, not yet accepted
          pipe,       \* messages accepted and not yet applied
          applied,    \* messages applied, in order
          stray,      \* the receiver waits where no lane ends
          open        \* FALSE once the module is gone

streamVars == <<lane, pipe, applied, stray, open>>

Init ==
  /\ lane = [s \in Lanes |-> <<>>]
  /\ pipe = <<>>
  /\ applied = <<>>
  /\ stray = FALSE
  /\ open = TRUE

Arrive(s, p) ==
  /\ lane' = [lane EXCEPT ![s] = Append(@, p)]
  /\ UNCHANGED <<pipe, applied, stray, open>>

(* Lanes are emptied when the socket at their end is replaced.             *)
Drop(ss) ==
  /\ lane' = [s \in Lanes |-> IF s \in ss THEN <<>> ELSE lane[s]]
  /\ UNCHANGED <<pipe, applied, stray, open>>

Messages(p) == IF p \in Malformed THEN <<>> ELSE Body[p]

Accept(s) ==
  /\ open
  /\ lane[s] # <<>>
  /\ lane' = [lane EXCEPT ![s] = Tail(@)]
  /\ pipe' = pipe \o Messages(Head(lane[s]))
  /\ UNCHANGED <<applied, stray, open>>

GoAstray ==
  /\ ~stray
  /\ stray' = TRUE
  /\ UNCHANGED <<lane, pipe, applied, open>>

(* What came by no lane is accepted too, and the receiver is back.         *)
Intrude ==
  /\ open /\ stray
  /\ stray' = FALSE
  /\ \/ UNCHANGED pipe
     \/ \E p \in Packets : pipe' = pipe \o Messages(p)
  /\ UNCHANGED <<lane, applied, open>>

Apply ==
  /\ open
  /\ pipe # <<>>
  /\ applied' = Append(applied, Head(pipe))
  /\ pipe' = Tail(pipe)
  /\ UNCHANGED <<lane, stray, open>>

(* Removing the module discards what it had accepted.                      *)
Discard ==
  /\ open
  /\ open' = FALSE
  /\ pipe' = <<>>
  /\ UNCHANGED <<lane, applied, stray>>

Next ==
  \/ \E s \in Lanes : \/ \E p \in Packets : Arrive(s, p)
                      \/ Accept(s)
  \/ \E ss \in SUBSET Lanes : Drop(ss)
  \/ GoAstray \/ Intrude
  \/ Apply
  \/ Discard

Spec == Init /\ [][Next]_streamVars
=============================================================================
