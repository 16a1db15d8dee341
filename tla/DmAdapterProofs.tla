--------------------------- MODULE DmAdapterProofs ---------------------------
(***************************************************************************)
(* What every instance of DmAdapter satisfies: the types, and, with one    *)
(* bus at a time, that only the first frame a bus receives is foreign,     *)
(* that it misses only the oldest frames and sends on its own channel.     *)
(***************************************************************************)
EXTENDS DmAdapter, FiniteSetTheorems, TLAPS

USE AdapterAssumption DEF AdapterAssumption

LEMMA NoFrameTyped == NoFrame \in Frames
BY DEF NoFrame, Frames

LEMMA InitType == Init => TypeOK
<1> SUFFICES ASSUME Init PROVE TypeOK
  OBVIOUS
<1>1. inHand \in Frames
  BY NoFrameTyped DEF Init
<1>2. cleared \in [Users -> Nat] /\ opened \in [Users -> Nat]
  BY DEF Init
<1>3. got \in [Users -> Seq(Frames)] /\ sentOn \in [Users -> SUBSET Channels]
  BY DEF Init
<1>4. pc \in [Users -> {"closed", "probe", "register", "persist", "open"} \cup Reopening]
  BY DEF Init
<1>5. /\ queue \in Seq(Frames) /\ Len(queue) <= Limit
      /\ arrived \in Seq(Channels) /\ Len(arrived) <= MaxFrames
  BY DEF Init
<1>6. /\ channel \in [Users -> Channels] /\ selected \in Channels
      /\ device \in BOOLEAN /\ persistent \in BOOLEAN /\ registered \in BOOLEAN
      /\ callback \in {"idle", "lookup", "check", "push"}
  BY DEF Init
<1>7. opens \in Nat /\ opens <= MaxOpens
  BY DEF Init
<1> QED
  BY <1>1, <1>2, <1>3, <1>4, <1>5, <1>6, <1>7 DEF TypeOK

(* A frame filed leaves the queue within its limit. *)
LEMMA FiledFits ==
  ASSUME TypeOK
  PROVE  Filed(inHand) \in Seq(Frames) /\ Len(Filed(inHand)) <= Limit
BY DEF Filed, TypeOK

(* Filing keeps the order: a frame at place k was at k or k + 1, but for   *)
(* the last, which is the one filed.                                       *)
LEMMA FiledFrames ==
  ASSUME TypeOK
  PROVE  \E d \in {0, 1} :
           /\ Len(queue) >= d /\ Len(Filed(inHand)) = Len(queue) - d + 1
           /\ \A k \in 1 .. Len(queue) - d : Filed(inHand)[k] = queue[k + d]
           /\ Filed(inHand)[Len(queue) - d + 1] = inHand
<1> USE DEF TypeOK
<1>1. CASE Len(queue) >= Limit
  <2>1. Len(Tail(queue)) = Len(queue) - 1 /\ Tail(queue) \in Seq(Frames)
    BY <1>1
  <2>2. \A k \in 1 .. Len(queue) - 1 : Tail(queue)[k] = queue[k + 1]
    BY <1>1
  <2> QED
    <3>1. Filed(inHand) = Append(Tail(queue), inHand)
      BY <1>1 DEF Filed
    <3> DEFINE t == Tail(queue)
    <3>2. /\ Len(Append(t, inHand)) = Len(t) + 1
          /\ \A k \in 1 .. Len(t) : Append(t, inHand)[k] = t[k]
          /\ Append(t, inHand)[Len(t) + 1] = inHand
      BY <2>1
    <3> HIDE DEF t
    <3> WITNESS 1 \in {0, 1}
    <3> QED
      BY <1>1, <2>1, <2>2, <3>1, <3>2 DEF t
<1>2. CASE Len(queue) < Limit
  BY <1>2 DEF Filed
<1> QED
  BY <1>1, <1>2

LEMMA TypeInductive == ASSUME TypeOK, [Next]_vars PROVE TypeOK'
<1> USE DEF TypeOK, Goto, Reopening
<1>1. ASSUME NEW u \in Users, Reopen(u) PROVE TypeOK'
  BY <1>1 DEF Reopen, Begin, MayOpen
<1>2. ASSUME NEW u \in Users, ClearQueue(u) PROVE TypeOK'
  BY <1>2 DEF ClearQueue, handle
<1>3. ASSUME NEW u \in Users, Reregister(u) PROVE TypeOK'
  BY <1>3 DEF Reregister
<1>4. ASSUME NEW u \in Users, FirstOpen(u) PROVE TypeOK'
  BY <1>4 DEF FirstOpen, Begin, MayOpen, handle
<1>5. ASSUME NEW u \in Users, Probe(u) PROVE TypeOK'
  BY <1>5 DEF Probe, history
<1>6. ASSUME NEW u \in Users, Register(u) PROVE TypeOK'
  BY <1>6 DEF Register
<1>7. ASSUME NEW u \in Users, Persist(u) PROVE TypeOK'
  BY <1>7 DEF Persist, history
<1>8. ASSUME NEW u \in Users, Send(u) PROVE TypeOK'
  BY <1>8 DEF Send, handle
<1>9. ASSUME NEW u \in Users, Receive(u) PROVE TypeOK'
  BY <1>9 DEF Receive, handle
<1>10. ASSUME NEW u \in Users, Shutdown(u) PROVE TypeOK'
  BY <1>10 DEF Shutdown, history
<1>11. ASSUME NEW ch \in Channels, Arrive(ch) PROVE TypeOK'
  <2>1. arrived' \in Seq(Channels) /\ Len(arrived') = Len(arrived) + 1
    BY <1>11 DEF Arrive
  <2>2. inHand' \in Frames
    BY <1>11, <2>1 DEF Arrive, Frames
  <2> QED
    BY <1>11, <2>1, <2>2 DEF Arrive, handle
<1>12. CASE Lookup \/ CheckChannel
  <2>1. inHand' \in Frames
    BY <1>12, NoFrameTyped DEF Lookup, CheckChannel, Drops
  <2>2. callback' \in {"idle", "lookup", "check", "push"}
    BY <1>12 DEF Lookup, CheckChannel, Drops
  <2>3. UNCHANGED <<pc, channel, device, persistent, selected, registered, queue, arrived, cleared,
                    opened, got, sentOn, opens>>
    BY <1>12 DEF Lookup, CheckChannel, handle, history
  <2> QED
    BY <2>1, <2>2, <2>3
<1>13. CASE Push
  BY <1>13, FiledFits, NoFrameTyped DEF Push, Drops, handle, history
<1>14. CASE Displace
  BY <1>14 DEF Displace, history
<1>15. CASE UNCHANGED vars
  BY <1>15 DEF vars, handle, history
<1> QED
  BY <1>1, <1>2, <1>3, <1>4, <1>5, <1>6, <1>7, <1>8, <1>9, <1>10, <1>11, <1>12, <1>13, <1>14,
     <1>15 DEF Next

(* Every state has the types declared: the queue never holds more than the *)
(* shim's limit, whoever opens and closes buses (recv_callback).           *)
THEOREM AdapterTypes == Spec => []TypeOK
<1>1. TypeOK /\ [Next]_vars => TypeOK'
  BY TypeInductive
<1> QED
  BY InitType, <1>1, PTL DEF Spec

-----------------------------------------------------------------------------
LEMMA FrameNumbers ==
  ASSUME TypeOK
  PROVE  /\ inHand.n \in Nat /\ Len(arrived) \in Nat /\ Len(queue) \in Nat
         /\ \A k \in 1 .. Len(queue) : queue[k] \in Frames /\ queue[k].n \in Nat
         /\ \A u \in Users : /\ got[u] \in Seq(Frames) /\ Len(got[u]) \in Nat
                            /\ cleared[u] \in Nat
                            /\ \A k \in 1 .. Len(got[u]) : got[u][k].n \in Nat
<1> USE DEF TypeOK
<1>1. inHand.n \in Nat /\ Len(arrived) \in Nat /\ Len(queue) \in Nat
  BY DEF Frames
<1>2. \A k \in 1 .. Len(queue) : queue[k] \in Frames
  OBVIOUS
<1>3. \A k \in 1 .. Len(queue) : queue[k].n \in Nat
  BY <1>2 DEF Frames
<1>4. \A u \in Users : got[u] \in Seq(Frames) /\ cleared[u] \in Nat
  OBVIOUS
<1>5. ASSUME NEW u \in Users
      PROVE  Len(got[u]) \in Nat /\ \A k \in 1 .. Len(got[u]) : got[u][k].n \in Nat
  <2>1. \A k \in 1 .. Len(got[u]) : got[u][k] \in Frames
    BY <1>4
  <2> QED
    BY <1>4, <2>1 DEF Frames
<1> QED
  BY <1>1, <1>2, <1>3, <1>4, <1>5

(***************************************************************************)
(* One bus at a time.  The invariant says where the only user that is not  *)
(* closed stands, and that of what it has received, what is queued and     *)
(* what the callback holds, each but the first arrived after it opened,    *)
(* on its channel, and after the one before.                               *)
(***************************************************************************)
OneBus == \A u, v \in Users : pc[u] # "closed" /\ pc[v] # "closed" => u = v

(* The handle: it is on a device the library has opened, whose channel it  *)
(* has, who has registered it, and that nothing is filed before it is      *)
(* first registered.                                                       *)
HandleFacts ==
  /\ persistent => device
  /\ \A u \in Users : pc[u] \notin {"closed", "probe"} => device
  /\ registered => \E u \in Users : pc[u] \in {"persist", "open"}
  /\ \A u \in Users : pc[u] \notin {"closed", "probe"} => selected = channel[u]
  /\ ~device \/ (\E u \in Users : pc[u] = "register") =>
       queue = <<>> /\ callback \in {"idle", "lookup"} /\ ~registered

(* Frames are numbered as they arrive. *)
Numbered ==
  /\ inHand.n <= Len(arrived)
  /\ \A k \in 1 .. Len(queue) : queue[k].n <= Len(arrived)
  /\ \A u \in Users : cleared[u] <= Len(arrived)
  /\ \A u \in Users : \A k \in 1 .. Len(got[u]) : got[u][k].n <= Len(arrived)
  /\ \A u \in Users : pc[u] \notin {"closed", "open"} => got[u] = <<>>

(* Of a bus that has emptied the queue: frame g came after f, and is its own. *)
Follows(u, f, g) == f.n < g.n /\ g.on = channel[u] /\ g.n > cleared[u]
Emptied(u) == pc[u] \in {"reregister", "persist", "open"}

GotInOrder ==
  \A u \in Users : Emptied(u) =>
    \A j, k \in 1 .. Len(got[u]) : j < k => Follows(u, got[u][j], got[u][k])

QueuedAfterGot ==
  \A u \in Users : Emptied(u) =>
    \A j \in 1 .. Len(got[u]), k \in 1 .. Len(queue) : Follows(u, got[u][j], queue[k])

QueueInOrder ==
  \A u \in Users : Emptied(u) =>
    \A j, k \in 1 .. Len(queue) : j < k => Follows(u, queue[j], queue[k])

(* The frame in hand comes after all the bus has; it is the bus's own, or  *)
(* it was in hand when the queue was emptied and the bus has nothing yet.  *)
InHandIsNext ==
  \A u \in Users : Emptied(u) /\ callback # "idle" =>
    /\ \A j \in 1 .. Len(got[u]) : got[u][j].n < inHand.n
    /\ \A j \in 1 .. Len(queue) : queue[j].n < inHand.n
    /\ inHand.n <= cleared[u] => got[u] = <<>> /\ queue = <<>>
    /\ callback = "push" /\ inHand.n > cleared[u] => inHand.on = channel[u]

OrderInv == TypeOK /\ OneBus /\ HandleFacts /\ Numbered
              /\ GotInOrder /\ QueuedAfterGot /\ QueueInOrder /\ InHandIsNext

LEMMA InitOrder == Init => OrderInv
<1> SUFFICES ASSUME Init PROVE OrderInv
  OBVIOUS
<1>1. TypeOK
  BY InitType
<1>2. \A u \in Users : pc[u] = "closed" /\ got[u] = <<>> /\ cleared[u] = 0
  BY DEF Init
<1>3. /\ queue = <<>> /\ callback = "idle" /\ inHand.n = 0 /\ arrived = <<>>
      /\ registered = FALSE /\ device = FALSE /\ persistent = FALSE
  BY DEF Init, NoFrame
<1>4. OneBus /\ HandleFacts
  BY <1>2, <1>3 DEF OneBus, HandleFacts
<1>5. Numbered
  BY <1>2, <1>3 DEF Numbered
<1> QED
  BY <1>1, <1>2, <1>3, <1>4, <1>5 DEF OrderInv, GotInOrder, QueuedAfterGot, QueueInOrder,
     InHandIsNext, Emptied

LEMMA OneBusKept ==
  ASSUME Exclusive, OneBus, TypeOK, [Next]_vars
  PROVE  OneBus'
<1> DEFINE Moves(u, place) ==
      /\ pc' = [pc EXCEPT ![u] = place]
      /\ pc[u] # "closed" \/ \A v \in Users : pc[v] = "closed"
<1>1. pc' = pc \/ \E u \in Users : \E place : Moves(u, place)
  BY DEF Next, vars, Reopen, ClearQueue, Reregister, FirstOpen, Probe, Register, Persist, Displace,
     Send, Receive, Shutdown, Arrive, Lookup, CheckChannel, Push, Begin, MayOpen, Goto
<1>2. CASE pc' = pc
  BY <1>2 DEF OneBus
<1>3. CASE pc' # pc
  <2>1. PICK u \in Users : \E place : Moves(u, place)
    BY <1>1, <1>3
  <2>2. PICK place : Moves(u, place)
    BY <2>1
  <2>3. \A v \in Users \ {u} : pc'[v] = pc[v] /\ pc[v] = "closed"
    BY <2>2 DEF TypeOK, OneBus
  <2> QED
    BY <2>3 DEF OneBus
<1> QED
  BY <1>2, <1>3

LEMMA HandleKept ==
  ASSUME Exclusive, OrderInv, TypeOK', OneBus', [Next]_vars
  PROVE  HandleFacts'
<1> USE DEF OrderInv, TypeOK, OneBus, HandleFacts, Goto, Reopening
<1>1. ASSUME NEW u \in Users, Reopen(u) PROVE HandleFacts'
  BY <1>1 DEF Reopen, Begin, MayOpen
<1>2. ASSUME NEW u \in Users, ClearQueue(u) PROVE HandleFacts'
  BY <1>2 DEF ClearQueue, handle
<1>3. ASSUME NEW u \in Users, Reregister(u) PROVE HandleFacts'
  BY <1>3 DEF Reregister
<1>4. ASSUME NEW u \in Users, FirstOpen(u) PROVE HandleFacts'
  BY <1>4 DEF FirstOpen, Begin, MayOpen, handle
<1>5. ASSUME NEW u \in Users, Probe(u) PROVE HandleFacts'
  BY <1>5 DEF Probe, history
<1>6. ASSUME NEW u \in Users, Register(u) PROVE HandleFacts'
  BY <1>6 DEF Register
<1>7. ASSUME NEW u \in Users, Persist(u) PROVE HandleFacts'
  BY <1>7 DEF Persist, history
<1>8. ASSUME NEW u \in Users, Send(u) PROVE HandleFacts'
  BY <1>8 DEF Send, handle
<1>9. ASSUME NEW u \in Users, Receive(u) PROVE HandleFacts'
  BY <1>9 DEF Receive, handle
<1>10. ASSUME NEW u \in Users, Shutdown(u) PROVE HandleFacts'
  BY <1>10 DEF Shutdown, history
<1>11. ASSUME NEW ch \in Channels, Arrive(ch) PROVE HandleFacts'
  BY <1>11 DEF Arrive, handle
<1>12. CASE Lookup \/ CheckChannel
  BY <1>12 DEF Lookup, CheckChannel, Drops, handle, history
<1>13. CASE Push
  BY <1>13 DEF Push, Drops, handle, history
<1>14. CASE Displace
  BY <1>14 DEF Displace, history
<1>15. CASE UNCHANGED vars
  BY <1>15 DEF vars, handle, history
<1> QED
  BY <1>1, <1>2, <1>3, <1>4, <1>5, <1>6, <1>7, <1>8, <1>9, <1>10, <1>11, <1>12, <1>13, <1>14,
     <1>15 DEF Next

LEMMA NumberedKept ==
  ASSUME Exclusive, OrderInv, TypeOK', [Next]_vars
  PROVE  Numbered'
<1> USE DEF OrderInv, TypeOK, Numbered, Goto, Reopening
<1>1. ASSUME NEW u \in Users, Reopen(u) PROVE Numbered'
  BY <1>1 DEF Reopen, Begin, MayOpen
<1>2. ASSUME NEW u \in Users, ClearQueue(u) PROVE Numbered'
  BY <1>2 DEF ClearQueue, handle
<1>3. ASSUME NEW u \in Users, Reregister(u) PROVE Numbered'
  BY <1>3 DEF Reregister
<1>4. ASSUME NEW u \in Users, FirstOpen(u) PROVE Numbered'
  BY <1>4 DEF FirstOpen, Begin, MayOpen, handle
<1>5. ASSUME NEW u \in Users, Probe(u) PROVE Numbered'
  BY <1>5 DEF Probe, history
<1>6. ASSUME NEW u \in Users, Register(u) PROVE Numbered'
  BY <1>6 DEF Register
<1>7. ASSUME NEW u \in Users, Persist(u) PROVE Numbered'
  BY <1>7 DEF Persist, history
<1>8. ASSUME NEW u \in Users, Send(u) PROVE Numbered'
  BY <1>8 DEF Send, handle
<1>9. ASSUME NEW u \in Users, Receive(u) PROVE Numbered'
  BY <1>9 DEF Receive, handle
<1>10. ASSUME NEW u \in Users, Shutdown(u) PROVE Numbered'
  BY <1>10 DEF Shutdown, history
<1>11. ASSUME NEW ch \in Channels, Arrive(ch) PROVE Numbered'
  <2>1. Len(arrived') = Len(arrived) + 1 /\ inHand'.n = Len(arrived')
    BY <1>11 DEF Arrive
  <2> QED
    <3>1. UNCHANGED <<pc, queue, cleared, got>> /\ Len(arrived) \in Nat
      BY <1>11 DEF Arrive
    <3>2. \A n \in Nat : n <= Len(arrived) => n <= Len(arrived')
      BY <2>1, <3>1
    <3>3. inHand'.n <= Len(arrived')
      BY <2>1, <3>1
    <3>4. \A k \in 1 .. Len(queue') : queue'[k].n <= Len(arrived')
      BY <3>1, <3>2, FrameNumbers
    <3>5. \A v \in Users : cleared'[v] <= Len(arrived')
      BY <3>1, <3>2
    <3>6. \A v \in Users : \A k \in 1 .. Len(got'[v]) : got'[v][k].n <= Len(arrived')
      BY <3>1, <3>2, FrameNumbers
    <3> QED
      BY <3>1, <3>3, <3>4, <3>5, <3>6
<1>12. CASE Lookup \/ CheckChannel
  <2>1. UNCHANGED <<pc, queue, arrived, cleared, got>>
    BY <1>12 DEF Lookup, CheckChannel, history
  <2>2. inHand' \in {inHand, NoFrame}
    BY <1>12 DEF Lookup, CheckChannel, Drops
  <2>3. Len(arrived) \in Nat
    OBVIOUS
  <2>4. inHand'.n <= Len(arrived')
    BY <2>1, <2>2, <2>3 DEF NoFrame
  <2> QED
    BY <2>1, <2>4
<1>13. CASE Push
  <2>1. queue' = Filed(inHand)
    BY <1>13 DEF Push
  <2>2. PICK d \in {0, 1} :
           /\ Len(queue) >= d /\ Len(queue') = Len(queue) - d + 1
           /\ \A k \in 1 .. Len(queue) - d : queue'[k] = queue[k + d]
           /\ queue'[Len(queue) - d + 1] = inHand
    BY <2>1, FiledFrames
  <2>3. \A k \in 1 .. Len(queue') : queue'[k].n <= Len(arrived)
    <3> TAKE k \in 1 .. Len(queue')
    <3>1. CASE k <= Len(queue) - d
      <4>1. queue'[k] = queue[k + d] /\ k + d \in 1 .. Len(queue)
        BY <2>2, <3>1
      <4> QED
        BY <4>1
    <3>2. CASE k = Len(queue) - d + 1
      BY <2>2, <3>2
    <3> QED
      BY <2>2, <3>1, <3>2
  <2>4. UNCHANGED <<pc, arrived, cleared, got>> /\ inHand'.n = 0
    BY <1>13 DEF Push, Drops, NoFrame, history
  <2> QED
    BY <2>3, <2>4
<1>14. CASE Displace
  BY <1>14 DEF Displace, history
<1>15. CASE UNCHANGED vars
  BY <1>15 DEF vars, handle, history
<1> QED
  BY <1>1, <1>2, <1>3, <1>4, <1>5, <1>6, <1>7, <1>8, <1>9, <1>10, <1>11, <1>12, <1>13, <1>14,
     <1>15 DEF Next

-----------------------------------------------------------------------------
InOrder == GotInOrder /\ QueuedAfterGot /\ QueueInOrder /\ InHandIsNext

(* Where no bus has emptied the queue there is nothing to show. *)
LEMMA NobodyEmptied ==
  ASSUME TypeOK', OneBus', NEW u \in Users, pc'[u] \in {"clear", "probe", "register"}
  PROVE  InOrder'
<1>1. \A v \in Users : pc'[v] \in {"closed", "clear", "probe", "register"}
  BY DEF OneBus
<1> QED
  BY <1>1 DEF InOrder, GotInOrder, QueuedAfterGot, QueueInOrder, InHandIsNext, Emptied

LEMMA AllClosed ==
  ASSUME TypeOK', \A v \in Users : pc'[v] = "closed"
  PROVE  InOrder'
BY DEF InOrder, GotInOrder, QueuedAfterGot, QueueInOrder, InHandIsNext, Emptied

(* A bus begins with nothing, and what is in hand then came before. *)
LEMMA BeginsEmpty ==
  ASSUME TypeOK', OneBus', NEW u \in Users, pc'[u] # "closed", queue' = <<>>, got'[u] = <<>>,
         cleared'[u] = Len(arrived'), inHand'.n <= Len(arrived')
  PROVE  InOrder'
<1>1. \A v \in Users : v # u => ~Emptied(v)'
  BY DEF OneBus, Emptied
<1>2. inHand'.n \in Nat /\ cleared'[u] \in Nat
  BY DEF TypeOK, Frames
<1> QED
  BY <1>1, <1>2 DEF InOrder, GotInOrder, QueuedAfterGot, QueueInOrder, InHandIsNext, Follows

(* A step that moves no frame and takes none in hand. *)
LEMMA NothingMoves ==
  ASSUME InOrder, UNCHANGED <<queue, got, cleared, channel>>,
         \A v \in Users : Emptied(v)' => Emptied(v),
         \/ callback' = "idle"
         \/ callback # "idle" /\ inHand' = inHand /\ (callback' = "push" => callback = "push")
  PROVE  InOrder'
BY DEF InOrder, GotInOrder, QueuedAfterGot, QueueInOrder, InHandIsNext, Follows

(* Receiving takes the first of the queue to the end of what the bus got. *)
LEMMA ReceiveMoves ==
  ASSUME TypeOK, NEW u \in Users, Receive(u)
  PROVE  /\ Len(queue) >= 1 /\ Len(queue') = Len(queue) - 1
         /\ \A k \in 1 .. Len(queue') : k + 1 \in 1 .. Len(queue) /\ queue'[k] = queue[k + 1]
         /\ Len(got'[u]) = Len(got[u]) + 1 /\ got'[u][Len(got'[u])] = queue[1]
         /\ \A k \in 1 .. Len(got'[u]) :
              k # Len(got'[u]) => k \in 1 .. Len(got[u]) /\ got'[u][k] = got[u][k]
<1>1. queue # <<>> /\ queue' = Tail(queue) /\ got'[u] = Append(got[u], queue[1])
  BY DEF Receive, TypeOK
<1>3. /\ Len(queue) >= 1 /\ Len(queue') = Len(queue) - 1
      /\ \A k \in 1 .. Len(queue') : k + 1 \in 1 .. Len(queue) /\ queue'[k] = queue[k + 1]
  BY <1>1 DEF TypeOK
<1>4. /\ Len(got'[u]) = Len(got[u]) + 1 /\ got'[u][Len(got'[u])] = queue[1]
      /\ \A k \in 1 .. Len(got'[u]) : k # Len(got'[u]) => k \in 1 .. Len(got[u]) /\ got'[u][k] = got[u][k]
  <2>1. got[u] \in Seq(Frames) /\ queue[1] \in Frames
    BY <1>3, FrameNumbers
  <2> DEFINE g == got[u]  f == queue[1]
  <2>2. /\ Len(Append(g, f)) = Len(g) + 1 /\ Append(g, f)[Len(g) + 1] = f
        /\ \A k \in 1 .. Len(g) : Append(g, f)[k] = g[k]
    BY <2>1
  <2> HIDE DEF g, f
  <2>3. Len(g) \in Nat
    BY <2>1 DEF g
  <2>4. got'[u] = Append(g, f)
    BY <1>1 DEF g, f
  <2>5. \A k \in 1 .. Len(g) + 1 : k # Len(g) + 1 => k \in 1 .. Len(g)
    BY <2>3
  <2> QED
    BY <2>2, <2>4, <2>5 DEF g, f
<1> QED
  BY <1>3, <1>4

LEMMA ReceiveOrder ==
  ASSUME OrderInv, TypeOK', NEW u \in Users, Receive(u)
  PROVE  InOrder'
<1>1. /\ queue # <<>> /\ queue' = Tail(queue) /\ got'[u] = Append(got[u], queue[1])
      /\ \A v \in Users : v # u => got'[v] = got[v]
      /\ UNCHANGED <<pc, channel, cleared, callback, inHand>> /\ pc[u] = "open"
  BY DEF Receive, OrderInv, TypeOK
<1>2. \A v \in Users : v # u => ~Emptied(v)'
  BY <1>1 DEF OrderInv, OneBus, Emptied
<1>3. /\ Len(queue) >= 1 /\ Len(queue') = Len(queue) - 1
      /\ \A k \in 1 .. Len(queue') : k + 1 \in 1 .. Len(queue) /\ queue'[k] = queue[k + 1]
  BY ReceiveMoves DEF OrderInv
<1>4. /\ Len(got'[u]) = Len(got[u]) + 1 /\ got'[u][Len(got'[u])] = queue[1]
      /\ \A k \in 1 .. Len(got'[u]) : k # Len(got'[u]) => k \in 1 .. Len(got[u]) /\ got'[u][k] = got[u][k]
  BY ReceiveMoves DEF OrderInv
<1>5. /\ Emptied(u) /\ Len(got[u]) \in Nat /\ Len(queue) \in Nat /\ 1 \in 1 .. Len(queue)
      /\ cleared[u] \in Nat /\ inHand.n \in Nat
      /\ GotInOrder /\ QueuedAfterGot /\ QueueInOrder /\ InHandIsNext
  BY <1>1, <1>3, FrameNumbers DEF Emptied, OrderInv
<1> DEFINE last == Len(got'[u])
<1>6. ASSUME NEW j \in 1 .. last, NEW k \in 1 .. last, j < k PROVE Follows(u, got'[u][j], got'[u][k])
  <2>1. j # last /\ j \in 1 .. Len(got[u])
    BY <1>4, <1>5, <1>6
  <2>2. CASE k = last
    BY <2>1, <2>2, <1>4, <1>5 DEF QueuedAfterGot
  <2>3. CASE k # last
    BY <2>1, <2>3, <1>4, <1>5, <1>6 DEF GotInOrder
  <2> QED
    BY <2>2, <2>3
<1>7. ASSUME NEW j \in 1 .. last, NEW k \in 1 .. Len(queue') PROVE Follows(u, got'[u][j], queue'[k])
  <2>1. CASE j = last
    <3>1. 1 < k + 1 /\ k + 1 \in 1 .. Len(queue) /\ queue'[k] = queue[k + 1]
      BY <1>3, <1>5
    <3> QED
      BY <2>1, <3>1, <1>4, <1>5 DEF QueueInOrder
  <2>2. CASE j # last
    BY <2>2, <1>3, <1>4, <1>5 DEF QueuedAfterGot
  <2> QED
    BY <2>1, <2>2
<1>8. ASSUME NEW j \in 1 .. Len(queue'), NEW k \in 1 .. Len(queue'), j < k PROVE Follows(u, queue'[j], queue'[k])
  <2>1. j + 1 < k + 1
    BY <1>8
  <2> QED
    BY <2>1, <1>3, <1>5 DEF QueueInOrder
<1>9. ASSUME callback # "idle"
      PROVE  /\ \A j \in 1 .. last : got'[u][j].n < inHand.n
             /\ \A j \in 1 .. Len(queue') : queue'[j].n < inHand.n
             /\ inHand.n > cleared[u]
             /\ callback = "push" => inHand.on = channel[u]
  <2>1. inHand.n > cleared[u]
    BY <1>9, <1>1, <1>5 DEF InHandIsNext
  <2>2. /\ \A j \in 1 .. Len(got[u]) : got[u][j].n < inHand.n
        /\ \A j \in 1 .. Len(queue) : queue[j].n < inHand.n
        /\ callback = "push" => inHand.on = channel[u]
    BY <1>9, <1>5, <2>1 DEF InHandIsNext
  <2> QED
    BY <2>1, <2>2, <1>3, <1>4, <1>5
<1>10. InOrder'
  <2>1. ASSUME NEW v \in Users, Emptied(v)' PROVE v = u
    BY <1>2, <2>1
  <2>2. GotInOrder'
    BY <1>1, <1>6, <2>1 DEF GotInOrder, Follows
  <2>3. QueuedAfterGot'
    BY <1>1, <1>7, <2>1 DEF QueuedAfterGot, Follows
  <2>4. QueueInOrder'
    BY <1>1, <1>8, <2>1 DEF QueueInOrder, Follows
  <2>5. InHandIsNext'
    BY <1>1, <1>5, <1>9, <2>1 DEF InHandIsNext
  <2> QED
    BY <2>2, <2>3, <2>4, <2>5 DEF InOrder
<1> QED
  BY <1>10

LEMMA PushOrder ==
  ASSUME OrderInv, TypeOK', NEW u \in Users, Emptied(u), Push
  PROVE  InOrder'
<1>1. /\ callback = "push" /\ callback' = "idle" /\ queue' = Filed(inHand)
      /\ UNCHANGED <<pc, channel, got, cleared>>
  BY DEF Push, Drops, history
<1>2. \A v \in Users : v # u => ~Emptied(v)'
  BY <1>1 DEF OrderInv, OneBus, Emptied
<1>3. PICK d \in {0, 1} :
           /\ Len(queue) >= d /\ Len(queue') = Len(queue) - d + 1
           /\ \A k \in 1 .. Len(queue) - d : queue'[k] = queue[k + d]
           /\ queue'[Len(queue) - d + 1] = inHand
  BY <1>1, FiledFrames DEF OrderInv
<1>4. /\ Len(queue) \in Nat /\ Len(got[u]) \in Nat /\ cleared[u] \in Nat /\ inHand.n \in Nat
      /\ GotInOrder /\ QueuedAfterGot /\ QueueInOrder /\ InHandIsNext
  BY FrameNumbers DEF OrderInv
<1> DEFINE last == Len(queue')
<1>5. /\ last \in Nat /\ queue'[last] = inHand
      /\ \A k \in 1 .. last : k # last => k + d \in 1 .. Len(queue) /\ queue'[k] = queue[k + d]
  <2>1. last = Len(queue) - d + 1 /\ d \in 0 .. 1 /\ d <= Len(queue)
    BY <1>3
  <2> HIDE DEF last
  <2>2. \A k \in 1 .. last : k # last => k \in 1 .. Len(queue) - d /\ k + d \in 1 .. Len(queue)
    BY <1>4, <2>1
  <2> QED
    BY <1>3, <1>4, <2>1, <2>2
(* What is filed comes after whatever is kept. *)
<1>6. ASSUME got[u] # <<>> \/ queue # <<>> PROVE inHand.on = channel[u] /\ inHand.n > cleared[u]
  BY <1>1, <1>4, <1>6 DEF InHandIsNext
<1>7. ASSUME NEW j \in 1 .. last, NEW k \in 1 .. last, j < k PROVE Follows(u, queue'[j], queue'[k])
  <2>1. j # last /\ j + d \in 1 .. Len(queue) /\ queue'[j] = queue[j + d]
    BY <1>5, <1>7
  <2>2. CASE k = last
    <3>1. queue[j + d].n < inHand.n /\ inHand.on = channel[u] /\ inHand.n > cleared[u]
      BY <2>1, <1>1, <1>4, <1>6 DEF InHandIsNext
    <3> QED
      BY <2>1, <2>2, <3>1, <1>5 DEF Follows
  <2>3. CASE k # last
    <3>1. k + d \in 1 .. Len(queue) /\ queue'[k] = queue[k + d] /\ j + d < k + d
      BY <1>5, <1>7, <2>3
    <3> QED
      BY <2>1, <3>1, <1>4 DEF QueueInOrder
  <2> QED
    BY <2>2, <2>3
<1>8. ASSUME NEW j \in 1 .. Len(got[u]), NEW k \in 1 .. last PROVE Follows(u, got[u][j], queue'[k])
  <2>1. CASE k = last
    <3>1. got[u] # <<>>
      BY <1>8
    <3>2. got[u][j].n < inHand.n /\ inHand.on = channel[u] /\ inHand.n > cleared[u]
      BY <3>1, <1>1, <1>4, <1>6 DEF InHandIsNext
    <3> QED
      BY <2>1, <3>2, <1>5 DEF Follows
  <2>2. CASE k # last
    BY <2>2, <1>4, <1>5 DEF QueuedAfterGot
  <2> QED
    BY <2>1, <2>2
<1>9. ASSUME NEW v \in Users, Emptied(v)' PROVE v = u
  BY <1>2, <1>9
<1>10. GotInOrder' /\ QueuedAfterGot'
  <2>1. GotInOrder'
    BY <1>1, <1>4, <1>9 DEF GotInOrder, Follows, Emptied
  <2>2. QueuedAfterGot'
    BY <1>1, <1>8, <1>9 DEF QueuedAfterGot, Follows
  <2> QED
    BY <2>1, <2>2
<1>11. QueueInOrder' /\ InHandIsNext'
  BY <1>1, <1>7, <1>9 DEF QueueInOrder, InHandIsNext, Follows
<1> QED
  BY <1>10, <1>11 DEF InOrder

LEMMA OrderKept ==
  ASSUME Exclusive, OrderInv, TypeOK', OneBus', [Next]_vars
  PROVE  InOrder'
<1>1. InOrder /\ OneBus /\ TypeOK
  BY DEF OrderInv, InOrder
<1>2. ASSUME NEW u \in Users, Reopen(u) \/ FirstOpen(u) \/ Probe(u) PROVE InOrder'
  <2>1. \/ pc'[u] \in {"clear", "probe", "register"}
        \/ pc'[u] = "closed" /\ pc[u] # "closed" /\ \A v \in Users : v # u => pc'[v] = pc[v]
    BY <1>1, <1>2 DEF Reopen, FirstOpen, Probe, Goto, TypeOK
  <2>2. CASE pc'[u] \in {"clear", "probe", "register"}
    BY <2>2, NobodyEmptied
  <2>3. CASE pc'[u] = "closed" /\ pc[u] # "closed" /\ \A v \in Users : v # u => pc'[v] = pc[v]
    BY <1>1, <2>3, AllClosed DEF OneBus
  <2> QED
    BY <2>1, <2>2, <2>3
<1>3. ASSUME NEW u \in Users, Shutdown(u) PROVE InOrder'
  <2>1. pc'[u] = "closed" /\ pc[u] # "closed" /\ \A v \in Users : v # u => pc'[v] = pc[v]
    BY <1>1, <1>3 DEF Shutdown, Goto, TypeOK
  <2> QED
    BY <1>1, <2>1, AllClosed DEF OneBus
<1>4. ASSUME NEW u \in Users, ClearQueue(u) PROVE InOrder'
  <2>1. /\ pc'[u] = "reregister" /\ queue' = <<>> /\ got'[u] = got[u]
        /\ cleared'[u] = Len(arrived') /\ inHand' = inHand /\ arrived' = arrived
    BY <1>1, <1>4 DEF ClearQueue, Goto, TypeOK
  <2>2. got[u] = <<>> /\ inHand.n <= Len(arrived)
    BY <1>4 DEF ClearQueue, OrderInv, Numbered
  <2> QED
    BY <2>1, <2>2, BeginsEmpty
<1>5. ASSUME NEW u \in Users, Register(u) PROVE InOrder'
  <2>1. /\ pc'[u] = "persist" /\ queue' = queue /\ got'[u] = got[u]
        /\ cleared'[u] = Len(arrived') /\ inHand' = inHand /\ arrived' = arrived /\ pc[u] = "register"
    BY <1>1, <1>5 DEF Register, Goto, TypeOK
  <2>2. got[u] = <<>> /\ inHand.n <= Len(arrived)
    BY <2>1 DEF OrderInv, Numbered
  <2>3. queue = <<>>
    BY <2>1 DEF OrderInv, HandleFacts, OneBus
  <2> QED
    BY <2>1, <2>2, <2>3, BeginsEmpty
<1>6. ASSUME NEW u \in Users, Reregister(u) \/ Persist(u) \/ Send(u) PROVE InOrder'
  <2>1. UNCHANGED <<queue, got, cleared, channel, callback, inHand>>
    BY <1>6 DEF Reregister, Persist, Send, history
  <2>2. \A v \in Users : Emptied(v)' => Emptied(v)
    BY <1>1, <1>6 DEF Reregister, Persist, Send, Emptied, Goto, TypeOK
  <2> QED
    BY <1>1, <2>1, <2>2, NothingMoves
<1>7. ASSUME NEW u \in Users, Receive(u) PROVE InOrder'
  BY <1>7, ReceiveOrder
<1>8. ASSUME NEW ch \in Channels, Arrive(ch) PROVE InOrder'
  <2>1. /\ UNCHANGED <<pc, queue, got, cleared, channel>> /\ callback' = "lookup"
        /\ inHand'.n = Len(arrived) + 1
    BY <1>1, <1>8 DEF Arrive, TypeOK
  <2>2. Numbered
    BY DEF OrderInv
  <2>3. GotInOrder' /\ QueuedAfterGot' /\ QueueInOrder'
    BY <1>1, <2>1 DEF InOrder, GotInOrder, QueuedAfterGot, QueueInOrder, Follows, Emptied
  <2>4. \A k \in 1 .. Len(queue) : queue[k].n < inHand'.n
    BY <1>1, <2>1, <2>2, FrameNumbers DEF Numbered
  <2>5. \A v \in Users : \A k \in 1 .. Len(got[v]) : got[v][k].n < inHand'.n
    BY <1>1, <2>1, <2>2, FrameNumbers DEF Numbered
  <2>6. \A v \in Users : ~(inHand'.n <= cleared[v])
    BY <1>1, <2>1, <2>2, FrameNumbers DEF Numbered
  <2>7. InHandIsNext'
    BY <2>1, <2>4, <2>5, <2>6 DEF InHandIsNext
  <2> QED
    BY <2>3, <2>7 DEF InOrder
<1>9. CASE Lookup
  <2>1. /\ UNCHANGED <<pc, queue, got, cleared, channel>>
        /\ \/ callback' = "idle"
           \/ callback = "lookup" /\ callback' = "check" /\ inHand' = inHand
    BY <1>9 DEF Lookup, Drops, history
  <2>2. \A v \in Users : Emptied(v)' => Emptied(v)
    BY <2>1 DEF Emptied
  <2> QED
    BY <1>1, <2>1, <2>2, NothingMoves
<1>10. CASE CheckChannel
  <2>1. /\ UNCHANGED <<pc, queue, got, cleared, channel>> /\ callback = "check"
        /\ \/ callback' = "idle"
           \/ callback' = "push" /\ inHand' = inHand /\ inHand.on = selected
    BY <1>10 DEF CheckChannel, Drops, history
  <2>2. \A v \in Users : Emptied(v)' => Emptied(v) /\ selected = channel[v]
    BY <2>1 DEF Emptied, OrderInv, HandleFacts
  <2> QED
    BY <1>1, <2>1, <2>2 DEF InOrder, GotInOrder, QueuedAfterGot, QueueInOrder, InHandIsNext, Follows
<1>11. CASE Push
  <2>1. CASE \E u \in Users : Emptied(u)
    BY <1>11, <2>1, PushOrder
  <2>2. CASE ~\E u \in Users : Emptied(u)
    <3>1. \A v \in Users : ~Emptied(v)'
      BY <1>11, <2>2 DEF Push, Emptied
    <3> QED
      BY <3>1 DEF InOrder, GotInOrder, QueuedAfterGot, QueueInOrder, InHandIsNext
  <2> QED
    BY <2>1, <2>2
<1>12. CASE Displace \/ UNCHANGED vars
  BY <1>1, <1>12 DEF Displace, vars, history, InOrder, GotInOrder, QueuedAfterGot, QueueInOrder, InHandIsNext,
     Follows, Emptied
<1> QED
  BY <1>2, <1>3, <1>4, <1>5, <1>6, <1>7, <1>8, <1>9, <1>10, <1>11, <1>12 DEF Next

(* What a bus has seen is what it received and then what is queued. *)
LEMMA OrderImplies == OrderInv => OnlyFirstIsForeign
<1> SUFFICES ASSUME OrderInv, NEW u \in Users, pc[u] = "open",
                    NEW k \in 2 .. Len(Seen(u))
             PROVE  Follows(u, Seen(u)[k - 1], Seen(u)[k])
  BY DEF OnlyFirstIsForeign, Follows
<1> DEFINE m == Len(got[u])
<1>1. /\ m \in Nat /\ Len(queue) \in Nat /\ Emptied(u)
      /\ GotInOrder /\ QueuedAfterGot /\ QueueInOrder
  BY FrameNumbers DEF OrderInv, Emptied
<1>2. got[u] \in Seq(Frames) /\ queue \in Seq(Frames)
  BY DEF OrderInv, TypeOK
<1>3. /\ Len(Seen(u)) = m + Len(queue)
      /\ \A i \in 1 .. m + Len(queue) : Seen(u)[i] = IF i <= m THEN got[u][i] ELSE queue[i - m]
  BY <1>2 DEF Seen
<1> HIDE DEF m
<1>4. CASE k <= m
  <2>1. /\ k - 1 \in 1 .. m /\ k \in 1 .. m /\ k - 1 < k
        /\ Seen(u)[k - 1] = got[u][k - 1] /\ Seen(u)[k] = got[u][k]
    BY <1>1, <1>3, <1>4
  <2> QED
    BY <1>1, <2>1 DEF GotInOrder, m
<1>5. CASE k = m + 1
  <2>1. /\ k - 1 \in 1 .. m /\ 1 \in 1 .. Len(queue)
        /\ Seen(u)[k - 1] = got[u][k - 1] /\ Seen(u)[k] = queue[1]
    BY <1>1, <1>3, <1>5
  <2> QED
    BY <1>1, <2>1 DEF QueuedAfterGot, m
<1>6. CASE k > m + 1
  <2>1. /\ k - 1 - m \in 1 .. Len(queue) /\ k - m \in 1 .. Len(queue) /\ k - 1 - m < k - m
        /\ Seen(u)[k - 1] = queue[k - 1 - m] /\ Seen(u)[k] = queue[k - m]
    BY <1>1, <1>3, <1>6
  <2> QED
    BY <1>1, <2>1 DEF QueueInOrder
<1> QED
  BY <1>1, <1>3, <1>4, <1>5, <1>6

LEMMA OrderCorrect == ASSUME Exclusive PROVE Spec => []OrderInv
<1>1. OrderInv /\ [Next]_vars => OrderInv'
  <2> SUFFICES ASSUME OrderInv, [Next]_vars PROVE OrderInv'
    OBVIOUS
  <2>1. TypeOK'
    BY TypeInductive DEF OrderInv
  <2>2. OneBus'
    BY OneBusKept DEF OrderInv
  <2>3. HandleFacts' /\ Numbered'
    BY <2>1, <2>2, HandleKept, NumberedKept
  <2> QED
    BY <2>1, <2>2, <2>3, OrderKept DEF OrderInv, InOrder
<1> QED
  BY <1>1, InitOrder, PTL DEF Spec

(* With one bus at a time, whatever the callback thread interleaves with   *)
(* closing and reopening the adapter, a bus receives frames of its own     *)
(* channel, of its own time and in order, but for the first of them.       *)
THEOREM OneBusHearsItself == Spec => []OnlyFirstIsForeign
<1>1. CASE Exclusive
  BY <1>1, OrderCorrect, OrderImplies, PTL
<1>2. CASE ~Exclusive
  <2>1. OnlyFirstIsForeign
    BY <1>2 DEF OnlyFirstIsForeign
  <2> QED
    BY <2>1, PTL
<1> QED
  BY <1>1, <1>2

-----------------------------------------------------------------------------
(***************************************************************************)
(* What a bus misses.  While it listens, a frame of its channel that has   *)
(* arrived is in the callback's hand, or the bus has it, or it was the     *)
(* oldest of a full queue when it was pushed out; then the queue is made   *)
(* of Limit newer frames, all of them wanted.                              *)
(***************************************************************************)
Listening(u) == pc[u] \in {"persist", "open"}
Wanted(u) == {n \in opened[u] + 1 .. Len(arrived) : arrived[n] = channel[u] /\ n # inHand.n}
Has(u, n) ==
  \/ \E k \in 1 .. Len(got[u]) : got[u][k].n = n
  \/ \E k \in 1 .. Len(queue) : queue[k].n = n

HandIsLast ==
  IF callback = "idle" THEN inHand.n = 0
  ELSE inHand.n = Len(arrived) /\ Len(arrived) > 0 /\ arrived[Len(arrived)] = inHand.on
Labelled ==
  \A k \in 1 .. Len(queue) : queue[k].n \in 1 .. Len(arrived) /\ arrived[queue[k].n] = queue[k].on
ListenerIsFound == \A u \in Users : Listening(u) => registered
MissedAreOld ==
  \A u \in Users : Listening(u) =>
    \A n \in Wanted(u) : Has(u, n) \/ \A k \in 1 .. Len(queue) : n < queue[k].n
MissedWerePushedOut ==
  \A u \in Users : Listening(u) /\ (\E n \in Wanted(u) : ~Has(u, n))
                    => Cardinality(Wanted(u)) >= Limit

FiledInv == HandIsLast /\ Labelled /\ ListenerIsFound
MissInv == FiledInv /\ MissedAreOld /\ MissedWerePushedOut

LEMMA FiledInvKept ==
  ASSUME OrderInv, OneBus', TypeOK', FiledInv, [Next]_vars
  PROVE  FiledInv'
<1> USE DEF FiledInv
<1>1. OneBus /\ TypeOK
  BY DEF OrderInv
<1>2. HandIsLast'
  <2>1. CASE UNCHANGED <<arrived, callback, inHand>>
    BY <2>1 DEF HandIsLast
  <2>2. ASSUME NEW ch \in Channels, Arrive(ch) PROVE HandIsLast'
    <3>1. /\ arrived' = Append(arrived, ch) /\ Len(arrived') = Len(arrived) + 1
          /\ arrived'[Len(arrived')] = ch /\ Len(arrived) \in Nat
      BY <1>1, <2>2 DEF Arrive, TypeOK
    <3> QED
      BY <2>2, <3>1 DEF Arrive, HandIsLast
  <2>3. CASE Lookup \/ CheckChannel \/ Push
    BY <2>3 DEF Lookup, CheckChannel, Push, Drops, NoFrame, history, HandIsLast
  <2> QED
    BY <2>1, <2>2, <2>3 DEF Next, Reopen, ClearQueue, Reregister, FirstOpen, Probe, Register,
       Persist, Displace, Send, Receive, Shutdown, history, vars
<1>3. Labelled'
  <2>1. CASE UNCHANGED <<queue, arrived>>
    BY <2>1 DEF Labelled
  <2>2. ASSUME NEW u \in Users, ClearQueue(u) PROVE Labelled'
    BY <2>2 DEF ClearQueue, Labelled
  <2>3. ASSUME NEW u \in Users, Receive(u) PROVE Labelled'
    <3>1. /\ arrived' = arrived
          /\ \A k \in 1 .. Len(queue') : k + 1 \in 1 .. Len(queue) /\ queue'[k] = queue[k + 1]
      BY <1>1, <2>3, ReceiveMoves DEF Receive
    <3> QED
      BY <3>1 DEF Labelled
  <2>4. ASSUME NEW ch \in Channels, Arrive(ch) PROVE Labelled'
    <3>1. /\ Len(arrived') = Len(arrived) + 1 /\ Len(arrived) \in Nat /\ queue' = queue
          /\ \A n \in 1 .. Len(arrived) : arrived'[n] = arrived[n]
      BY <1>1, <2>4 DEF Arrive, TypeOK
    <3> QED
      BY <3>1 DEF Labelled
  <2>5. CASE Push
    <3>1. PICK d \in {0, 1} :
           /\ Len(queue) >= d /\ Len(Filed(inHand)) = Len(queue) - d + 1
           /\ \A k \in 1 .. Len(queue) - d : Filed(inHand)[k] = queue[k + d]
           /\ Filed(inHand)[Len(queue) - d + 1] = inHand
      BY <1>1, FiledFrames
    <3>2. queue' = Filed(inHand) /\ arrived' = arrived /\ Len(queue) \in Nat
      BY <1>1, <2>5, FrameNumbers DEF Push, history
    <3>3. inHand.n \in 1 .. Len(arrived) /\ arrived[inHand.n] = inHand.on
      BY <1>1, <2>5, FrameNumbers DEF Push, HandIsLast
    <3>4. ASSUME NEW k \in 1 .. Len(queue')
          PROVE  queue'[k].n \in 1 .. Len(arrived) /\ arrived[queue'[k].n] = queue'[k].on
      <4>1. CASE k = Len(queue) - d + 1
        BY <3>1, <3>2, <3>3, <4>1
      <4>2. CASE k \in 1 .. Len(queue) - d
        <5>1. k + d \in 1 .. Len(queue) /\ queue'[k] = queue[k + d]
          BY <3>1, <3>2, <4>2
        <5> QED
          BY <5>1 DEF Labelled
      <4> QED
        BY <3>1, <3>2, <4>1, <4>2
    <3> QED
      BY <3>2, <3>4 DEF Labelled
  <2> QED
    BY <2>1, <2>2, <2>3, <2>4, <2>5 DEF Next, Reopen, Reregister, FirstOpen, Probe, Register,
       Persist, Displace, Send, Shutdown, Lookup, CheckChannel, history, vars
<1>4. ListenerIsFound'
  <2> USE DEF ListenerIsFound, Listening, Goto, TypeOK
  <2>1. ASSUME NEW u \in Users, Shutdown(u) PROVE ListenerIsFound'
    BY <1>1, <2>1 DEF Shutdown, OneBus
  <2>2. ASSUME NEW u \in Users, Reopen(u) \/ FirstOpen(u) \/ Probe(u) \/ ClearQueue(u)
        PROVE  ListenerIsFound'
    BY <1>1, <2>2 DEF Reopen, FirstOpen, Begin, Probe, ClearQueue, handle, history
  <2>3. ASSUME NEW u \in Users, Register(u) \/ Reregister(u) PROVE ListenerIsFound'
    BY <2>3 DEF Register, Reregister
  <2>4. ASSUME NEW u \in Users, Persist(u) PROVE ListenerIsFound'
    BY <1>1, <2>4 DEF Persist, history
  <2>5. CASE UNCHANGED <<pc, registered>>
    BY <2>5
  <2> QED
    BY <2>1, <2>2, <2>3, <2>4, <2>5 DEF Next, Displace, Send, Receive, Arrive, Lookup, CheckChannel, Push,
       handle, history, vars
<1> QED
  BY <1>2, <1>3, <1>4

(* Numbers that increase are as many as their indices. *)
LEMMA IncreasingCount ==
  ASSUME NEW S \in SUBSET Nat, IsFiniteSet(S), NEW m \in Nat, NEW s \in [1 .. m -> S],
         \A j, k \in 1 .. m : j < k => s[j] < s[k]
  PROVE  Cardinality(S) >= m
<1>1. \A j, k \in 1 .. m : s[j] = s[k] => j = k
  <2> SUFFICES ASSUME NEW j \in 1 .. m, NEW k \in 1 .. m, j # k PROVE s[j] # s[k]
    OBVIOUS
  <2>1. s[j] \in Nat /\ s[k] \in Nat
    OBVIOUS
  <2>2. j < k \/ k < j
    OBVIOUS
  <2> QED
    BY <2>1, <2>2
<1>2. s \in Injection(1 .. m, S)
  BY <1>1 DEF Injection, IsInjective
<1>3. Cardinality(1 .. m) = m
  BY FS_Interval
<1>4. Cardinality(1 .. m) <= Cardinality(S)
  BY <1>2, FS_Injection
<1>5. Cardinality(S) \in Nat
  BY FS_CardinalityType
<1> QED
  BY <1>3, <1>4, <1>5

LEMMA WantedFinite ==
  ASSUME TypeOK, NEW u \in Users
  PROVE  Wanted(u) \in SUBSET Nat /\ IsFiniteSet(Wanted(u)) /\ Cardinality(Wanted(u)) \in Nat
<1>1. opened[u] \in Nat /\ Len(arrived) \in Nat
  BY DEF TypeOK
<1>2. IsFiniteSet(opened[u] + 1 .. Len(arrived))
  BY <1>1, FS_Interval
<1>3. IsFiniteSet(Wanted(u))
  BY <1>2, FS_Subset DEF Wanted
<1> QED
  BY <1>1, <1>3, FS_CardinalityType DEF Wanted

(* A step that changes neither what a bus has nor what it wants. *)
LEMMA NothingMissed ==
  ASSUME MissedAreOld, MissedWerePushedOut, UNCHANGED <<queue, got>>,
         \A v \in Users : Listening(v)' => Listening(v) /\ Wanted(v)' = Wanted(v)
  PROVE  MissedAreOld' /\ MissedWerePushedOut'
BY DEF MissedAreOld, MissedWerePushedOut, Has

(* A bus that begins to listen wants nothing that came before. *)
LEMMA ListensAnew ==
  ASSUME TypeOK', OneBus', NEW u \in Users, pc'[u] # "closed", opened'[u] = Len(arrived')
  PROVE  MissedAreOld' /\ MissedWerePushedOut'
<1>1. \A v \in Users : v # u => ~Listening(v)'
  BY DEF OneBus, Listening
<1>2. Wanted(u)' = {}
  BY DEF Wanted, TypeOK
<1> QED
  BY <1>1, <1>2 DEF MissedAreOld, MissedWerePushedOut

LEMMA ReceiveMissesNothing ==
  ASSUME OrderInv, MissInv, NEW u \in Users, Receive(u)
  PROVE  MissedAreOld' /\ MissedWerePushedOut'
<1>1. /\ UNCHANGED <<pc, channel, arrived, opened, inHand>> /\ pc[u] = "open"
      /\ Len(queue) >= 1 /\ Len(queue') = Len(queue) - 1
      /\ \A k \in 1 .. Len(queue') : k + 1 \in 1 .. Len(queue) /\ queue'[k] = queue[k + 1]
      /\ Len(got'[u]) = Len(got[u]) + 1 /\ got'[u][Len(got'[u])] = queue[1]
      /\ \A k \in 1 .. Len(got'[u]) :
           k # Len(got'[u]) => k \in 1 .. Len(got[u]) /\ got'[u][k] = got[u][k]
      /\ Len(got[u]) \in Nat /\ Len(queue) \in Nat
  BY ReceiveMoves, FrameNumbers DEF Receive, OrderInv
<1>2. \A v \in Users : Listening(v)' => v = u
  BY <1>1 DEF OrderInv, OneBus, Listening
<1>3. Listening(u) /\ Wanted(u)' = Wanted(u)
  BY <1>1 DEF Listening, Wanted
<1>4. ASSUME NEW n, Has(u, n) PROVE Has(u, n)'
  <2>1. CASE \E k \in 1 .. Len(got[u]) : got[u][k].n = n
    <3>1. PICK k \in 1 .. Len(got[u]) : got[u][k].n = n
      BY <2>1
    <3>2. k \in 1 .. Len(got'[u]) /\ k # Len(got'[u])
      BY <1>1
    <3> QED
      BY <1>1, <3>1, <3>2 DEF Has
  <2>2. CASE \E k \in 1 .. Len(queue) : queue[k].n = n
    <3>1. PICK k \in 1 .. Len(queue) : queue[k].n = n
      BY <2>2
    <3>2. CASE k = 1
      <4>1. Len(got'[u]) \in 1 .. Len(got'[u])
        BY <1>1
      <4> QED
        BY <1>1, <3>1, <3>2, <4>1 DEF Has
    <3>3. CASE k # 1
      <4>1. k - 1 \in 1 .. Len(queue') /\ queue'[k - 1] = queue[(k - 1) + 1] /\ (k - 1) + 1 = k
        BY <1>1, <3>3
      <4> QED
        BY <3>1, <4>1 DEF Has
    <3> QED
      BY <3>2, <3>3
  <2> QED
    BY <1>4, <2>1, <2>2 DEF Has
<1>5. MissedAreOld'
  BY <1>1, <1>2, <1>3, <1>4 DEF MissInv, MissedAreOld
<1>6. MissedWerePushedOut'
  BY <1>2, <1>3, <1>4 DEF MissInv, MissedWerePushedOut
<1> QED
  BY <1>5, <1>6

LEMMA PushMissesTheOldest ==
  ASSUME OrderInv, TypeOK', InOrder', MissInv, NEW u \in Users, Listening(u), Push
  PROVE  MissedAreOld' /\ MissedWerePushedOut'
<1>1. /\ callback = "push" /\ inHand'.n = 0 /\ queue' = Filed(inHand)
      /\ UNCHANGED <<pc, channel, got, cleared, arrived, opened>>
  BY DEF Push, Drops, NoFrame, history
<1>2. \A v \in Users : Listening(v)' => v = u
  BY <1>1 DEF OrderInv, OneBus, Listening
<1>3. PICK d \in {0, 1} :
           /\ Len(queue) >= d /\ Len(queue') = Len(queue) - d + 1
           /\ \A k \in 1 .. Len(queue) - d : queue'[k] = queue[k + d]
           /\ queue'[Len(queue) - d + 1] = inHand
  BY <1>1, FiledFrames DEF OrderInv
<1> DEFINE last == Len(queue) - d + 1
<1>4. /\ Len(queue) \in Nat /\ Len(arrived) \in Nat /\ opened[u] \in Nat /\ last \in Nat
      /\ \A k \in 1 .. Len(queue) : queue[k].n \in Nat
      /\ Emptied(u) /\ QueueInOrder /\ InHandIsNext /\ QueueInOrder'
  <2>1. TypeOK /\ QueueInOrder /\ InHandIsNext /\ QueueInOrder'
    BY DEF OrderInv, InOrder
  <2>2. /\ Len(queue) \in Nat /\ Len(arrived) \in Nat
        /\ \A k \in 1 .. Len(queue) : queue[k].n \in Nat
    BY <2>1, FrameNumbers
  <2>3. opened[u] \in Nat
    BY <2>1 DEF TypeOK
  <2>4. last \in Nat
    BY <1>3, <2>2
  <2>5. Emptied(u)
    BY DEF Emptied, Listening
  <2> QED
    BY <2>1, <2>2, <2>3, <2>4, <2>5
<1>5. inHand.n = Len(arrived) /\ inHand.n \in 1 .. Len(arrived) /\ arrived[inHand.n] = inHand.on
  BY <1>1, <1>4 DEF MissInv, FiledInv, HandIsLast
<1>6. Wanted(u)' \subseteq Wanted(u) \cup {inHand.n} /\ Wanted(u) \subseteq Wanted(u)'
  BY <1>1, <1>4 DEF Wanted
<1>7. ASSUME NEW n, n = inHand.n PROVE Has(u, n)'
  <2>1. last \in 1 .. Len(queue') /\ queue'[last].n = n
    BY <1>3, <1>4, <1>7
  <2> QED
    BY <2>1 DEF Has
(* A frame the bus has is still there, but for the head of a full queue. *)
<1>8. ASSUME NEW n, Has(u, n), ~Has(u, n)'
      PROVE  d = 1 /\ Len(queue) >= Limit /\ n = queue[1].n
  <2>1. PICK k \in 1 .. Len(queue) : queue[k].n = n
    BY <1>1, <1>8 DEF Has
  <2>2. k <= d
    <3> SUFFICES ASSUME k > d PROVE FALSE
      BY <1>3
    <3>1. k - d \in 1 .. Len(queue) - d /\ k - d \in 1 .. Len(queue') /\ (k - d) + d = k
      BY <1>3, <1>4
    <3> QED
      BY <1>3, <1>8, <2>1, <3>1 DEF Has
  <2>3. d = 1 /\ k = 1
    BY <1>3, <2>2
  <2>4. Len(queue) >= Limit
    <3> SUFFICES ASSUME Len(queue) < Limit PROVE FALSE
      BY <1>4
    <3>1. Filed(inHand) = Append(queue, inHand)
      BY <1>4 DEF Filed
    <3>2. Len(Append(queue, inHand)) = Len(queue) + 1
      BY DEF OrderInv, TypeOK
    <3> QED
      BY <1>1, <1>3, <1>4, <2>3, <3>1, <3>2
  <2> QED
    BY <2>1, <2>3, <2>4
<1>9. ASSUME NEW k \in 1 .. Len(queue') PROVE queue'[k] = inHand \/ \E j \in 1 .. Len(queue) : j > d /\ queue'[k] = queue[j]
  <2>1. CASE k = last
    BY <1>3, <2>1
  <2>2. CASE k # last
    <3>1. k \in 1 .. Len(queue) - d /\ k + d \in 1 .. Len(queue) /\ k + d > d
      BY <1>3, <1>4, <2>2
    <3> QED
      BY <1>3, <3>1
  <2> QED
    BY <2>1, <2>2
(* The frame pushed out, and what was missed before, is older than the rest. *)
<1>10. ASSUME NEW n \in Wanted(u)', ~Has(u, n)', NEW k \in 1 .. Len(queue') PROVE n < queue'[k].n
  <2>1. n \in Wanted(u) /\ n \in Nat /\ n < inHand.n
    <3>1. n # inHand.n
      BY <1>7, <1>10
    <3>2. n \in Wanted(u)
      BY <1>6, <1>10, <3>1
    <3>3. n \in opened[u] + 1 .. Len(arrived)
      BY <3>2 DEF Wanted
    <3>4. n \in Nat /\ n <= Len(arrived)
      BY <1>4, <3>3
    <3> QED
      BY <1>4, <1>5, <3>1, <3>2, <3>4
  <2>2. ASSUME NEW j \in 1 .. Len(queue), j > d PROVE n < queue[j].n
    <3>1. CASE Has(u, n)
      <4>1. d = 1 /\ n = queue[1].n /\ 1 \in 1 .. Len(queue) /\ 1 < j
        BY <1>3, <1>8, <1>10, <2>2, <3>1
      <4> QED
        BY <1>4, <4>1 DEF QueueInOrder, Follows
    <3>2. CASE ~Has(u, n)
      BY <2>1, <3>2 DEF MissInv, MissedAreOld
    <3> QED
      BY <3>1, <3>2
  <2> QED
    BY <1>9, <2>1, <2>2
<1>11. MissedAreOld'
  BY <1>2, <1>10 DEF MissedAreOld
<1>12. ASSUME NEW n \in Wanted(u)', ~Has(u, n)' PROVE Cardinality(Wanted(u)') >= Limit
  <2>1. IsFiniteSet(Wanted(u)') /\ Wanted(u)' \in SUBSET Nat /\ Cardinality(Wanted(u)') \in Nat
    <3>1. Wanted(u)' \subseteq opened[u] + 1 .. Len(arrived)
      BY <1>1 DEF Wanted
    <3>2. IsFiniteSet(opened[u] + 1 .. Len(arrived))
      <4>1. opened[u] + 1 \in Int /\ Len(arrived) \in Int
        BY <1>4
      <4> QED
        BY <4>1, FS_Interval
    <3>3. IsFiniteSet(Wanted(u)')
      BY <3>1, <3>2, FS_Subset
    <3>4. opened[u] + 1 .. Len(arrived) \subseteq Nat
      BY <1>4
    <3> QED
      BY <3>1, <3>3, <3>4, FS_CardinalityType
  <2>2. n \in Wanted(u)
    BY <1>6, <1>7, <1>12
  <2>3. CASE ~Has(u, n)
    <3>1. Cardinality(Wanted(u)) >= Limit
      BY <2>2, <2>3 DEF MissInv, MissedWerePushedOut
    <3>2. Cardinality(Wanted(u)) <= Cardinality(Wanted(u)')
      BY <1>6, <2>1, FS_Subset
    <3>3. Cardinality(Wanted(u)) \in Nat
      BY WantedFinite DEF OrderInv
    <3> QED
      BY <2>1, <3>1, <3>2, <3>3
  <2>4. CASE Has(u, n)
    <3>1. d = 1 /\ Len(queue) >= Limit /\ n = queue[1].n
      BY <1>8, <1>12, <2>4
    <3>2. Len(queue') = Limit
      BY <1>3, <1>4, <3>1 DEF OrderInv, TypeOK
    <3>4. ASSUME NEW k \in 1 .. Limit PROVE queue'[k].n \in Wanted(u)'
      <4>1. n < queue'[k].n /\ n > opened[u] /\ n \in Nat
        BY <1>4, <1>10, <1>12, <2>2, <3>2 DEF Wanted
      <4>2. queue'[k].on = channel[u]
        <5>1. CASE queue'[k] = inHand
          <6>1. queue # <<>>
            BY <1>4, <3>1 DEF OrderInv, TypeOK
          <6> QED
            BY <1>1, <1>4, <5>1, <6>1 DEF InHandIsNext, OrderInv, TypeOK, Frames
        <5>2. ASSUME NEW j \in 1 .. Len(queue), j > d, queue'[k] = queue[j]
              PROVE  queue'[k].on = channel[u]
          <6>1. 1 \in 1 .. Len(queue) /\ 1 < j
            BY <3>1, <5>2
          <6> QED
            BY <1>4, <5>2, <6>1 DEF QueueInOrder, Follows
        <5> QED
          BY <1>9, <3>2, <5>1, <5>2
      <4>3. queue'[k].n \in 1 .. Len(arrived) /\ arrived[queue'[k].n] = queue'[k].on
        <5>1. CASE queue'[k] = inHand
          BY <1>5, <5>1
        <5>2. CASE \E j \in 1 .. Len(queue) : queue'[k] = queue[j]
          BY <5>2 DEF MissInv, FiledInv, Labelled
        <5> QED
          BY <1>9, <3>2, <5>1, <5>2
      <4> QED
        BY <1>1, <1>4, <4>1, <4>2, <4>3 DEF Wanted
    <3> DEFINE s == [k \in 1 .. Limit |-> queue'[k].n]
    <3>5. s \in [1 .. Limit -> Wanted(u)']
      BY <3>4
    <3>6. \A j, k \in 1 .. Limit : j < k => s[j] < s[k]
      <4>1. Emptied(u)'
        BY <1>1, <1>4 DEF Emptied
      <4> QED
        BY <1>4, <3>2, <4>1 DEF QueueInOrder, Follows
    <3>7. Limit \in Nat
      OBVIOUS
    <3> HIDE DEF s
    <3> QED
      BY <2>1, <3>5, <3>6, <3>7, IncreasingCount
  <2> QED
    BY <2>3, <2>4
<1>13. MissedWerePushedOut'
  BY <1>2, <1>12 DEF MissedWerePushedOut
<1> QED
  BY <1>11, <1>13

LEMMA NobodyListens ==
  ASSUME \A v \in Users : ~Listening(v)'
  PROVE  MissedAreOld' /\ MissedWerePushedOut'
BY DEF MissedAreOld, MissedWerePushedOut

LEMMA MissKept ==
  ASSUME Exclusive, OrderInv, OneBus', TypeOK', InOrder', MissInv, [Next]_vars
  PROVE  MissInv'
<1>1. OneBus /\ TypeOK /\ HandleFacts /\ FiledInv /\ MissedAreOld /\ MissedWerePushedOut
  BY DEF OrderInv, MissInv
<1>2. FiledInv'
  BY <1>1, FiledInvKept
<1>3. ASSUME NEW u \in Users, Reopen(u) \/ FirstOpen(u) \/ Probe(u) \/ ClearQueue(u) \/ Shutdown(u)
      PROVE  MissedAreOld' /\ MissedWerePushedOut'
  <2>1. /\ pc'[u] \in {"closed", "clear", "probe", "register", "reregister"}
        /\ \A v \in Users : v # u => pc'[v] = pc[v]
        /\ pc[u] # "closed" \/ pc'[u] # "closed"
    BY <1>1, <1>3 DEF Reopen, FirstOpen, Probe, ClearQueue, Shutdown, Goto, TypeOK
  <2>2. \A v \in Users : ~Listening(v)'
    BY <1>1, <2>1 DEF OneBus, Listening
  <2> QED
    BY <2>2, NobodyListens
<1>4. ASSUME NEW u \in Users, Register(u) \/ Reregister(u)
      PROVE  MissedAreOld' /\ MissedWerePushedOut'
  <2>1. pc'[u] # "closed" /\ opened'[u] = Len(arrived')
    BY <1>1, <1>4 DEF Register, Reregister, Goto, TypeOK
  <2> QED
    BY <2>1, ListensAnew
<1>5. ASSUME NEW u \in Users, Persist(u) \/ Send(u)
      PROVE  MissedAreOld' /\ MissedWerePushedOut'
  <2>1. UNCHANGED <<channel, queue, inHand, arrived, opened, got>>
    BY <1>5 DEF Persist, Send, history
  <2>2. \A v \in Users : Listening(v)' => Listening(v)
    BY <1>1, <1>5 DEF Persist, Send, Listening, Goto, TypeOK
  <2> QED
    BY <1>1, <2>1, <2>2, NothingMissed DEF Wanted
<1>6. ASSUME NEW u \in Users, Receive(u) PROVE MissedAreOld' /\ MissedWerePushedOut'
  BY <1>6, ReceiveMissesNothing
<1>7. ASSUME NEW ch \in Channels, Arrive(ch) PROVE MissedAreOld' /\ MissedWerePushedOut'
  <2>1. /\ UNCHANGED <<pc, channel, queue, opened, got>> /\ callback = "idle"
        /\ Len(arrived') = Len(arrived) + 1 /\ inHand'.n = Len(arrived') /\ Len(arrived) \in Nat
        /\ \A n \in 1 .. Len(arrived) : arrived'[n] = arrived[n]
    BY <1>1, <1>7 DEF Arrive, TypeOK
  <2>2. inHand.n = 0
    BY <1>1, <2>1 DEF FiledInv, HandIsLast
  <2>3. ASSUME NEW v \in Users PROVE Wanted(v)' = Wanted(v)
    <3>1. opened[v] \in Nat
      BY <1>1 DEF TypeOK
    <3> QED
      BY <2>1, <2>2, <3>1 DEF Wanted
  <2> QED
    BY <1>1, <2>1, <2>3, NothingMissed DEF Listening
<1>8. ASSUME Lookup PROVE MissedAreOld' /\ MissedWerePushedOut'
  <2>1. /\ UNCHANGED <<pc, channel, queue, arrived, opened, got>>
        /\ registered => inHand' = inHand
    BY <1>8 DEF Lookup, history
  <2>2. \A v \in Users : Listening(v)' => Listening(v) /\ inHand' = inHand
    BY <1>1, <2>1 DEF Listening, FiledInv, ListenerIsFound
  <2>3. \A v \in Users : Listening(v)' => Listening(v) /\ Wanted(v)' = Wanted(v)
    BY <2>1, <2>2 DEF Wanted
  <2> QED
    BY <1>1, <2>1, <2>3, NothingMissed
<1>9. ASSUME CheckChannel PROVE MissedAreOld' /\ MissedWerePushedOut'
  <2>1. /\ UNCHANGED <<pc, channel, queue, arrived, opened, got>> /\ callback = "check"
        /\ inHand' = inHand \/ (inHand'.n = 0 /\ inHand.on # selected)
    BY <1>9 DEF CheckChannel, Drops, NoFrame, history
  <2>2. arrived[inHand.n] = inHand.on
    BY <1>1, <2>1 DEF FiledInv, HandIsLast
  <2>3. ASSUME NEW v \in Users, Listening(v) PROVE Wanted(v)' = Wanted(v)
    <3>0. pc[v] \notin {"closed", "probe"}
      BY <2>3 DEF Listening
    <3>1. selected = channel[v] /\ opened[v] \in Nat /\ Len(arrived) \in Nat
      BY <1>1, <3>0 DEF HandleFacts, TypeOK
    <3>2. CASE inHand' = inHand
      BY <2>1, <3>2 DEF Wanted
    <3>3. CASE inHand'.n = 0 /\ inHand.on # selected
      <4>1. \A n \in opened[v] + 1 .. Len(arrived) : n # 0 /\ n # inHand'.n
        BY <3>1, <3>3
      <4>2. \A n \in opened[v] + 1 .. Len(arrived) : arrived[n] = channel[v] => n # inHand.n
        BY <2>2, <3>1, <3>3
      <4> QED
        BY <2>1, <4>1, <4>2 DEF Wanted
    <3> QED
      BY <2>1, <3>2, <3>3
  <2>4. \A v \in Users : Listening(v)' => Listening(v) /\ Wanted(v)' = Wanted(v)
    BY <2>1, <2>3 DEF Listening
  <2> QED
    BY <1>1, <2>1, <2>4, NothingMissed
<1>10. ASSUME Push PROVE MissedAreOld' /\ MissedWerePushedOut'
  <2>1. ASSUME NEW u \in Users, Listening(u) PROVE MissedAreOld' /\ MissedWerePushedOut'
    BY <1>10, <2>1, PushMissesTheOldest
  <2>2. CASE \A u \in Users : ~Listening(u)
    <3>1. \A v \in Users : ~Listening(v)'
      BY <1>10, <2>2 DEF Push, Listening
    <3> QED
      BY <3>1, NobodyListens
  <2> QED
    BY <2>1, <2>2
<1>11. ASSUME Displace \/ UNCHANGED vars PROVE MissedAreOld' /\ MissedWerePushedOut'
  <2>1. \A v \in Users : Listening(v)' => Listening(v) /\ Wanted(v)' = Wanted(v)
    BY <1>11 DEF Displace, vars, history, Wanted, Listening
  <2>2. UNCHANGED <<queue, got>>
    BY <1>11 DEF Displace, vars, history
  <2> QED
    BY <1>1, <2>1, <2>2, NothingMissed
<1>12. MissedAreOld' /\ MissedWerePushedOut'
  BY <1>3, <1>4, <1>5, <1>6, <1>7, <1>8, <1>9, <1>10, <1>11 DEF Next
<1> QED
  BY <1>2, <1>12 DEF MissInv

LEMMA InitMiss == Init => MissInv
<1> SUFFICES ASSUME Init PROVE MissInv
  OBVIOUS
<1>1. callback = "idle" /\ inHand.n = 0 /\ queue = <<>> /\ \A u \in Users : pc[u] = "closed"
  BY DEF Init, NoFrame
<1> QED
  BY <1>1 DEF MissInv, FiledInv, HandIsLast, Labelled, ListenerIsFound, Listening, MissedAreOld,
     MissedWerePushedOut

(* What the bus has, counted in the property as the set of what it has seen. *)
LEMMA MissImplies == TypeOK /\ MissInv => MissesOnlyTheOldest
<1> SUFFICES ASSUME TypeOK, MissInv, NEW u \in Users, pc[u] = "open"
             PROVE  LET missed == Wanted(u) \ {f.n : f \in ToSet(Seen(u))}
                    IN  /\ \A n \in missed : \A f \in ToSet(queue) : n < f.n
                        /\ missed # {} => Cardinality(Wanted(u)) >= Limit
  BY DEF MissesOnlyTheOldest, Wanted
<1> DEFINE g == got[u]  q == queue
           missed == Wanted(u) \ {f.n : f \in ToSet(Seen(u))}
<1>1. g \in Seq(Frames) /\ q \in Seq(Frames)
  BY DEF TypeOK
<1>2. Seen(u) = g \o q
  BY DEF Seen
<1>3. ASSUME NEW n, Has(u, n) PROVE n \in {f.n : f \in ToSet(Seen(u))}
  <2>1. /\ Len(g \o q) = Len(g) + Len(q) /\ Len(g) \in Nat /\ Len(q) \in Nat
        /\ DOMAIN (g \o q) = 1 .. Len(g) + Len(q)
        /\ \A k \in 1 .. Len(g) : (g \o q)[k] = g[k]
        /\ \A k \in 1 .. Len(q) : (g \o q)[Len(g) + k] = q[k]
    <3> HIDE DEF g, q
    <3> QED
      BY <1>1
  <2>2. (\E k \in 1 .. Len(g) : g[k].n = n) \/ (\E k \in 1 .. Len(q) : q[k].n = n)
    BY <1>3 DEF Has
  <2> HIDE DEF g, q
  <2>3. \E k \in DOMAIN (g \o q) : (g \o q)[k].n = n
    <3>1. CASE \E k \in 1 .. Len(g) : g[k].n = n
      <4>1. PICK k \in 1 .. Len(g) : g[k].n = n
        BY <3>1
      <4>2. k \in DOMAIN (g \o q) /\ (g \o q)[k].n = n
        BY <2>1, <4>1
      <4> QED
        BY <4>2
    <3>2. CASE \E k \in 1 .. Len(q) : q[k].n = n
      <4>1. PICK k \in 1 .. Len(q) : q[k].n = n
        BY <3>2
      <4>2. Len(g) + k \in DOMAIN (g \o q) /\ (g \o q)[Len(g) + k].n = n
        BY <2>1, <4>1
      <4> QED
        BY <4>2
    <3> QED
      BY <2>2, <3>1, <3>2
  <2> QED
    BY <1>2, <2>3 DEF ToSet
<1>4. ASSUME NEW n \in missed PROVE n \in Wanted(u) /\ ~Has(u, n)
  BY <1>3
<1>5. Listening(u)
  BY DEF Listening
<1>6. ASSUME NEW n \in missed, NEW f \in ToSet(queue) PROVE n < f.n
  <2>1. PICK k \in 1 .. Len(queue) : queue[k] = f
    BY <1>1 DEF ToSet
  <2> QED
    BY <1>4, <1>5, <2>1 DEF MissInv, MissedAreOld
<1>7. missed # {} => Cardinality(Wanted(u)) >= Limit
  BY <1>4, <1>5 DEF MissInv, MissedWerePushedOut
<1> QED
  BY <1>6, <1>7

(* With one bus at a time, for any queue limit, number of users and        *)
(* channels: whatever an open bus has missed of its channel is older than  *)
(* all it has queued, and the bus wanted at least as many frames as fit in *)
(* the queue; short of a full queue nothing is lost (recv_callback,        *)
(* push_frame and the handle's registration).                              *)
THEOREM OneBusMissesOnlyTheOldest == Spec => []MissesOnlyTheOldest
<1>1. CASE Exclusive
  <2>1. OrderInv /\ OrderInv' /\ MissInv /\ [Next]_vars => MissInv'
    BY <1>1, MissKept DEF OrderInv, InOrder
  <2>2. OrderInv /\ MissInv => MissesOnlyTheOldest
    BY MissImplies DEF OrderInv
  <2> QED
    BY <1>1, OrderCorrect, InitMiss, <2>1, <2>2, PTL DEF Spec
<1>2. CASE ~Exclusive
  <2>1. MissesOnlyTheOldest
    BY <1>2 DEF MissesOnlyTheOldest
  <2> QED
    BY <2>1, PTL
<1> QED
  BY <1>1, <1>2

-----------------------------------------------------------------------------
(***************************************************************************)
(* Where frames go out.  A bus sends on the handle's channel, which is its *)
(* own as long as no other bus is opened beside it; the run                *)
(* `dm_adapter_shared' shows what happens otherwise.                       *)
(***************************************************************************)

(* With one bus at a time, the frames a bus sends go out on the channel it *)
(* was opened for, however often buses are opened, closed and reopened     *)
(* (open_channel, which redirects the one handle the adapter has).         *)
THEOREM OneBusSendsOnItsChannel ==
  ASSUME Exclusive
  PROVE  Spec => []SendsOnItsChannel
<1>1. Init => SendsOnItsChannel
  BY DEF Init, SendsOnItsChannel
<1>2. ASSUME OrderInv, SendsOnItsChannel, [Next]_vars PROVE SendsOnItsChannel'
  <2> USE DEF SendsOnItsChannel
  <2>1. TypeOK /\ HandleFacts
    BY <1>2 DEF OrderInv
  <2>2. ASSUME NEW u \in Users, Reopen(u) \/ FirstOpen(u) PROVE SendsOnItsChannel'
    BY <1>2, <2>1, <2>2 DEF Reopen, FirstOpen, Begin, TypeOK
  <2>3. ASSUME NEW u \in Users, Send(u) PROVE SendsOnItsChannel'
    <3>1. selected = channel[u]
      BY <2>1, <2>3 DEF Send, HandleFacts
    <3> QED
      BY <1>2, <2>1, <2>3, <3>1 DEF Send, TypeOK
  <2>4. CASE UNCHANGED <<channel, sentOn>>
    BY <1>2, <2>4
  <2> QED
    BY <1>2, <2>2, <2>3, <2>4 DEF Next, ClearQueue, Reregister, Probe, Register, Persist,
       Displace, Receive, Shutdown, Arrive, Lookup, CheckChannel, Push, history, vars
<1>3. OrderInv /\ SendsOnItsChannel /\ [Next]_vars => SendsOnItsChannel'
  BY <1>2
<1> QED
  BY OrderCorrect, <1>1, <1>3, PTL DEF Spec
=============================================================================
