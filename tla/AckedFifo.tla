----------------------------- MODULE AckedFifo ------------------------------
(***************************************************************************)
(* What a radio link with one bearer promises, with no segments, slots or  *)
(* reassembly: packets come out in the order in which the DU accepted      *)
(* them, each at most once, and only those that have come out are          *)
(* acknowledged.  Packets may be missing.  Packets that left before they   *)
(* had an id may be taken for one another; what comes of it is a 0.        *)
(***************************************************************************)
EXTENDS Naturals, Sequences

VARIABLES
  accepted,  \* the packets 1 .. accepted have been taken in
  out,       \* what came out, in order
  acked      \* the packets known to have come out

vars == <<accepted, out, acked>>

Init ==
  /\ accepted = 0
  /\ out = <<>>
  /\ acked = {}

Accept ==
  /\ accepted' = accepted + 1
  /\ UNCHANGED <<out, acked>>

Deliver(p) ==
  /\ \A k \in DOMAIN out : out[k] < p
  /\ out' = Append(out, p)
  /\ UNCHANGED <<accepted, acked>>

DeliverMixed ==
  /\ out' = Append(out, 0)
  /\ UNCHANGED <<accepted, acked>>

Acknowledge(p) ==
  /\ \E k \in DOMAIN out : out[k] = p
  /\ acked' = acked \cup {p}
  /\ UNCHANGED <<accepted, out>>

Next ==
  \/ Accept
  \/ \E p \in 1..accepted : Deliver(p) \/ Acknowledge(p)
  \/ DeliverMixed

Spec == Init /\ [][Next]_vars
=============================================================================
