--------------------------- MODULE InOrderDelivery ---------------------------
(***************************************************************************)
(* What the PDCP reordering function promises to the layer above it, with  *)
(* no buffer, no threads and no timer: packets come out in the order in    *)
(* which the sender numbered them, each at most once.  A packet that has   *)
(* not come out may be given up, but only in favour of a later packet that *)
(* has already arrived.                                                    *)
(***************************************************************************)
EXTENDS Naturals, Sequences

CONSTANT NumPackets       \* the sender numbers its packets 0 .. NumPackets-1

VARIABLES
  seen,      \* packets of which at least one copy has arrived
  horizon,   \* every packet below this one has come out or was given up
  out        \* the packets handed to the upper layer, in order

vars == <<seen, horizon, out>>

Init ==
  /\ seen = {}
  /\ horizon = 0
  /\ out = <<>>

Arrive(n) ==
  /\ seen' = seen \cup {n}
  /\ UNCHANGED <<horizon, out>>

Deliver ==
  /\ horizon \in seen
  /\ out' = Append(out, horizon)
  /\ horizon' = horizon + 1
  /\ UNCHANGED seen

GiveUpTo(n) ==
  /\ n \in seen
  /\ horizon < n
  /\ horizon' = n
  /\ UNCHANGED <<seen, out>>

Next ==
  \/ Deliver
  \/ \E n \in 0 .. NumPackets - 1 : Arrive(n) \/ GiveUpTo(n)

Spec == Init /\ [][Next]_vars
=============================================================================
