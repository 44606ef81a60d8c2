--------------------------- MODULE MCPdcpReceiver ---------------------------
(***************************************************************************)
(* PdcpReceiver for TLC.  The environments below restrict when packets     *)
(* arrive, when the timer expires and how the threads are scheduled, never *)
(* what the receiver does in a step.                                       *)
(***************************************************************************)
EXTENDS PdcpReceiver

CONSTANT Lead      \* how far ahead of nextExpected an arriving packet may be

Arriving(p) == unseen[p] \ unseen'[p]

(* The sender starts once the receiver's callback is registered.           *)
AfterRegistration == main = "running"

(* The one path in use is FIFO and loses nothing.                          *)
InOrderArrival(p) == \A n \in Arriving(p), m \in unseen'[p] : n < m

(* Path delays differ by less than Lead packets.                           *)
WithinLead(p) == \A n \in Arriving(p) : n < nextExpected + Lead

RegisteredNext ==
  \/ \E p \in Paths : Receive(p) /\ AfterRegistration
  \/ TimerExpired
  \/ Internal

RegisteredSpec == Init /\ [][RegisteredNext]_vars /\ Fairness

(* Packets follow each other within reorderTimeoutMs: no timeout.          *)
InTime == pc'[Timer] # "check"

PromptNext ==
  \/ \E p \in Paths : Receive(p) /\ AfterRegistration /\ InOrderArrival(p)
  \/ (TimerExpired \/ Internal) /\ InTime

PromptSpec == Init /\ [][PromptNext]_vars

LeadNext ==
  \/ \E p \in Paths : Receive(p) /\ AfterRegistration /\ WithinLead(p)
  \/ TimerExpired
  \/ Internal

LeadSpec == Init /\ [][LeadNext]_vars

(***************************************************************************)
(* A stream of any length over the same slots.  Packets arrive less than   *)
(* one usable window ahead of nextExpected, and while a thread is on its   *)
(* way from the duplicate check to its store no other thread moves         *)
(* nextExpected past its packet: the store is never late.                  *)
(***************************************************************************)
WithinWindow(p) == \A n \in Arriving(p) : n < nextExpected + WindowBase

StoresInTime == \A p \in Paths : pc[p] = "buffer" => nextExpected' <= held[p]

StreamNext ==
  \/ \E p \in Paths : Receive(p) /\ AfterRegistration /\ WithinWindow(p)
  \/ (TimerExpired \/ Internal) /\ StoresInTime

StreamSpec == Init /\ [][StreamNext]_vars /\ Fairness
=============================================================================
