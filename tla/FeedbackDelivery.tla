-------------------------- MODULE FeedbackDelivery --------------------------
(***************************************************************************)
(* What the controller promises about a frame the bus has received: it is  *)
(* given to exactly one registered device that accepts it, once, and it is *)
(* dropped only when it is an echo of an own transmission or no registered *)
(* device accepts it.  Nothing is promised about the order.                *)
(***************************************************************************)
EXTENDS Naturals

CONSTANTS Motors, FrameShapes, MaxFrames

VARIABLES devices, arrived, frames,
          pending,   (* received, neither given to a device nor dropped *)
          handled

vars == <<devices, arrived, frames, pending, handled>>

Init ==
  /\ devices = {}
  /\ arrived = 0
  /\ frames = [n \in 1..MaxFrames |-> [rx |-> FALSE, to |-> {}]]
  /\ pending = {}
  /\ handled = [n \in 1..MaxFrames |-> {}]

Takers(n) == IF frames[n].rx THEN frames[n].to \cap devices ELSE {}

Register(m) ==
  /\ devices' = devices \cup {m}
  /\ UNCHANGED <<arrived, frames, pending, handled>>

Receive(f) ==
  /\ arrived < MaxFrames
  /\ arrived' = arrived + 1
  /\ frames' = [frames EXCEPT ![arrived'] = f]
  /\ pending' = pending \cup {arrived'}
  /\ UNCHANGED <<devices, handled>>

Deliver(n, m) ==
  /\ n \in pending /\ m \in Takers(n)
  /\ handled[n] = {}
  /\ handled' = [handled EXCEPT ![n] = {m}]
  /\ pending' = pending \ {n}
  /\ UNCHANGED <<devices, arrived, frames>>

Discard(n) ==
  /\ n \in pending /\ Takers(n) = {}
  /\ pending' = pending \ {n}
  /\ UNCHANGED <<devices, arrived, frames, handled>>

Next ==
  \/ \E m \in Motors : Register(m)
  \/ \E f \in FrameShapes : Receive(f)
  \/ \E n \in pending : Discard(n) \/ \E m \in Motors : Deliver(n, m)

Spec == Init /\ [][Next]_vars
=============================================================================
