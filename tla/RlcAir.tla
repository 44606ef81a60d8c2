------------------------------- MODULE RlcAir -------------------------------
(***************************************************************************)
(* What the two ends of one emulated radio link share: the segments the    *)
(* DU's Link pushes to the UE, the status PDUs that come back, and the     *)
(* register of the packets the DU accepted.  A packet is known by its      *)
(* place in that register; its bytes are never looked at, only which bytes *)
(* of which packet a segment carries.                                      *)
(***************************************************************************)
EXTENDS Integers, Sequences, FiniteSets

CONSTANTS
  NQ,           \* bearer queues configured on the DU; queue 1 is rlcModules.front()
  Priority,     \* the priority of each queue
  IdMod,        \* packet ids are taken modulo this (RLC_SEQ_NUM_MASK + 1 = 4096)
  MaxPackets,   \* bound: packets the DU accepts
  Sizes,        \* packet sizes in bytes
  Budgets,      \* what a slot's bandwidth can amount to in bytes
  BufferSize,   \* capacity of a queue's packetBuffer
  MaxContexts,  \* RLC_MAX_REASSEMBLY_CONTEXTS
  MayExpire     \* whether a slot can be further away than reassembly_timeout_ms

ASSUME RlcConstants ==
  /\ NQ \in Nat \ {0}
  /\ Priority \in [1..NQ -> Nat]
  /\ IdMod \in Nat \ {0}
  /\ MaxPackets \in Nat
  /\ Sizes \subseteq {s \in Nat : 20 <= s}        \* shorter ones are refused
  /\ Budgets \subseteq Nat \ {0}                  \* an empty slot does nothing
  /\ BufferSize \in Nat \ {0}
  /\ MaxContexts \in Nat
  /\ MayExpire \in BOOLEAN

VARIABLES
  pkts,         \* the packets accepted so far: queue, size and packet_id
  dl,           \* segments on their way to the UE: one sender, one receiver, FIFO
  ul            \* status PDUs on their way to the DU: how many for each id

Queues == 1..NQ
Ids    == 0..(IdMod - 1)

RLC_SEGMENT_HEADER_SIZE == 22
RLC_MAX_SEGMENT_SIZE    == 1500

\* One RlcSegment: which bytes of which packet, and the header fields that are read.
Segment == [pkt : Nat, id : Ids, num : Nat, total : Nat, size : Nat,
            off : Nat, len : Nat, poll : BOOLEAN]

\* serialize(): the header and the data.
WireSize(s) == RLC_SEGMENT_HEADER_SIZE + s.len

Add(bag, ids)   == [i \in Ids |-> IF i \in ids THEN bag[i] + 1 ELSE bag[i]]
Merge(bag, new) == [i \in Ids |-> bag[i] + new[i]]
NoPdus          == [i \in Ids |-> 0]
=============================================================================
