--------------------------- MODULE CoreController ---------------------------
(***************************************************************************)
(* motor_core's CoreController: one CAN bus, the registered devices, the   *)
(* background polling thread and the calls a program makes on it.          *)
(*                                                                         *)
(* A caller is a thread of the program inside one of the controller's      *)
(* methods; a worker is a polling thread started by                        *)
(* start_polling_if_needed.  Every step is the code between two points     *)
(* where another thread can observe or change the shared state: a lock     *)
(* acquisition, an atomic load or store, a receive, a device call.         *)
(*                                                                         *)
(* The bus delivers frames numbered in arrival order and hands them out    *)
(* first in first out, so the receive queue is the interval of numbers     *)
(* that have arrived and have not been popped.                             *)
(***************************************************************************)
EXTENDS Naturals, FiniteSets

CONSTANTS
  Motors,       (* motor ids, in the order sorted_devices uses             *)
  Callers,      (* threads of the program                                  *)
  Workers,      (* polling threads that can be spawned                     *)
  NoOne,        (* a lock nobody holds, a handle that is None              *)
  Calls,        (* Calls[c]: the methods caller c may invoke               *)
  FrameShapes,  (* what a frame can be: received or an echo, accepted by   *)
  MaxFrames,    (* bound: frames the bus delivers in a behaviour           *)
  GapPinned,    (* MOTORBRIDGE_TX_GAP_US is set                            *)
  Faults,       (* which calls may fail, of FaultKinds                     *)
  Serialized    (* calls are serialized, as motor_abi's controller lock does *)

Methods == {"add_device", "poll_feedback_once", "enable_all", "disable_all",
            "shutdown", "close_bus", "drop"}

(* A receive, a device's handler, its enable or disable, the bus's         *)
(* shutdown.                                                               *)
FaultKinds == {"recv", "handler", "op", "close"}

FrameNo == 1..MaxFrames
Frame == [rx : BOOLEAN, to : SUBSET Motors]
NoFrame == [rx |-> FALSE, to |-> {}]

ASSUME CoreAssumption ==
  /\ Motors \subseteq Nat /\ IsFiniteSet(Motors)
  /\ NoOne \notin Callers \cup Workers
  /\ Callers \cap Workers = {}
  /\ Calls \in [Callers -> SUBSET Methods]
  /\ FrameShapes \subseteq Frame
  /\ MaxFrames \in Nat
  /\ Faults \subseteq FaultKinds
  /\ {GapPinned, Serialized} \subseteq BOOLEAN

VARIABLES
  devices,     (* ids registered in the devices map                        *)
  txGap,       (* the automatic transmit gap is in force                   *)
  active,      (* polling_active                                           *)
  handle,      (* polling_thread                                           *)
  startLock,   (* holder of polling_start_lock                             *)
  threadLock,  (* holder of the polling_thread mutex                       *)
  recvLock,    (* caller holding recv_lock (a worker holds it within a step) *)
  wpc,         (* where each worker is in its loop                         *)
  pc,          (* where each caller is                                     *)
  method,      (* the method each caller is in                             *)
  mine,        (* the worker a caller has spawned or is joining            *)
  todo,        (* devices a bulk operation has still to visit              *)
  hand,        (* the frame a thread has popped and not yet routed, or 0   *)
  arrived, popped,   (* frames received by the bus, frames taken from it   *)
  frames,      (* what each arrived frame is                               *)
  handled,     (* history: the devices whose handler was given the frame   *)
  cached,      (* the frame each device's cached state comes from          *)
  enabled,     (* motors last told to enable                               *)
  busOpen,     (* the backend has not been shut down                       *)
  dropped,     (* the controller has been dropped                          *)
  calledAt,    (* history: frames arrived when each caller's call began    *)
  abandoned    (* history: the devices each caller's bulk operation left   *)
               (* when one of them failed, that one among them             *)

lifecycleVars == <<active, handle, startLock, threadLock, mine>>
frameVars == <<arrived, popped, frames, handled, cached>>
callVars == <<method, calledAt, abandoned, dropped>>
vars == <<devices, txGap, lifecycleVars, recvLock, wpc, pc, todo, hand,
          frameVars, enabled, busOpen, callVars>>

Threads == Callers \cup Workers
WorkerStates == {"unborn", "check", "recv", "route", "exited"}
CallerStates == {"idle", "start", "store", "take", "join", "bulk", "drain",
                 "route", "close"}
Live == {w \in Workers : wpc[w] \in {"check", "recv", "route"}}
Queued == (popped + 1) .. arrived
InHand == {hand[t] : t \in Threads} \ {0}

Init ==
  /\ devices = {} /\ txGap = FALSE
  /\ active = FALSE /\ handle = NoOne
  /\ startLock = NoOne /\ threadLock = NoOne /\ recvLock = NoOne
  /\ wpc = [w \in Workers |-> "unborn"]
  /\ pc = [c \in Callers |-> "idle"]
  /\ method = [c \in Callers |-> "close_bus"]
  /\ mine = [c \in Callers |-> NoOne]
  /\ todo = [c \in Callers |-> {}]
  /\ hand = [t \in Threads |-> 0]
  /\ arrived = 0 /\ popped = 0
  /\ frames = [n \in FrameNo |-> NoFrame]
  /\ handled = [n \in FrameNo |-> {}]
  /\ cached = [m \in Motors |-> 0]
  /\ enabled \in SUBSET Motors
  /\ busOpen = TRUE /\ dropped = FALSE
  /\ calledAt = [c \in Callers |-> 0] /\ abandoned = [c \in Callers |-> {}]

(***************************************************************************)
(* Calls.  Drop needs exclusive access to the controller.                  *)
(***************************************************************************)
Begin(c, m) ==
  /\ m \in Calls[c] /\ ~dropped
  /\ pc[c] = "idle"
  /\ (Serialized \/ m = "drop") => \A o \in Callers : pc[o] = "idle"
  /\ method' = [method EXCEPT ![c] = m]
  /\ calledAt' = [calledAt EXCEPT ![c] = IF m = "poll_feedback_once" THEN arrived ELSE 0]
  /\ abandoned' = [abandoned EXCEPT ![c] = {}]
  /\ dropped' = (m = "drop")

Goto(c, label) == pc' = [pc EXCEPT ![c] = label]

(***************************************************************************)
(* add_device.  A duplicate id is refused and changes nothing.  The gap is *)
(* stored after the devices lock is released; nothing in this module reads *)
(* it, so the store is part of the step that inserts.                      *)
(***************************************************************************)
AddDevice(c, m) ==
  /\ Begin(c, "add_device")
  /\ m \notin devices
  /\ devices' = devices \cup {m}
  /\ txGap' = (txGap \/ (~GapPinned /\ Cardinality(devices') >= 2))
  /\ Goto(c, "start")
  /\ UNCHANGED <<lifecycleVars, recvLock, wpc, todo, hand, frameVars, enabled, busOpen>>

NotActive == ~active

(* start_polling_if_needed up to thread::spawn: already active means there *)
(* is nothing to do, otherwise the flag is set and a worker is spawned     *)
(* while the start lock is held.                                           *)

PollingAlreadyActive(c) ==
  /\ pc[c] = "start" /\ startLock = NoOne
  /\ ~NotActive
  /\ Goto(c, "idle")
  /\ UNCHANGED <<devices, txGap, lifecycleVars, recvLock, wpc, todo, hand,
                 frameVars, enabled, busOpen, callVars>>

SpawnWorker(c) ==
  /\ pc[c] = "start" /\ startLock = NoOne
  /\ NotActive
  /\ \E w \in Workers :
       /\ wpc[w] = "unborn"
       /\ wpc' = [wpc EXCEPT ![w] = "check"]
       /\ mine' = [mine EXCEPT ![c] = w]
  /\ active' = TRUE
  /\ startLock' = c
  /\ Goto(c, "store")
  /\ UNCHANGED <<devices, txGap, handle, threadLock, recvLock, todo, hand,
                 frameVars, enabled, busOpen, callVars>>

(* polling_thread.replace(handle): an older handle is dropped, which       *)
(* detaches its thread.                                                    *)
StoreHandle(c) ==
  /\ pc[c] = "store" /\ threadLock = NoOne
  /\ handle' = mine[c]
  /\ mine' = [mine EXCEPT ![c] = NoOne]
  /\ startLock' = NoOne
  /\ Goto(c, "idle")
  /\ UNCHANGED <<devices, txGap, active, threadLock, recvLock, wpc, todo, hand,
                 frameVars, enabled, busOpen, callVars>>

(***************************************************************************)
(* Routing one popped frame: the first device of the snapshot that accepts *)
(* it gets it; the snapshot comes out of a HashMap in any order.           *)
(***************************************************************************)
Takers(n) == {m \in devices : m \in frames[n].to}

Handle(m, n) ==
  /\ handled' = [handled EXCEPT ![n] = @ \cup {m}]
  /\ cached' = [cached EXCEPT ![m] = n]

(* The device's handler failed before it stored anything. *)
HandleFails(m, n) ==
  /\ "handler" \in Faults
  /\ handled' = [handled EXCEPT ![n] = @ \cup {m}]
  /\ UNCHANGED cached

RouteWithoutBreak(n) ==   \* mutant of Route: the break is missing
  /\ handled' = [handled EXCEPT ![n] = @ \cup Takers(n)]
  /\ cached' = [m \in Motors |-> IF m \in Takers(n) THEN n ELSE cached[m]]

Route(n) ==
  \/ \E m \in Takers(n) : Handle(m, n)
  \/ Takers(n) = {} /\ UNCHANGED <<handled, cached>>

PopTwice(t) ==   \* mutant of Pop: one frame is received and thrown away
  /\ popped' = popped + 2
  /\ hand' = [hand EXCEPT ![t] = IF frames[popped + 1].rx THEN popped + 1 ELSE 0]

Pop(t) ==
  /\ popped' = popped + 1
  /\ hand' = [hand EXCEPT ![t] = IF frames[popped + 1].rx THEN popped + 1 ELSE 0]

(***************************************************************************)
(* poll_feedback_once_internal: recv_lock is held from the first receive   *)
(* until the queue is empty, a receive fails or a device fails.            *)
(***************************************************************************)
PollFeedbackOnce(c) ==
  /\ Begin(c, "poll_feedback_once")
  /\ Goto(c, "drain")
  /\ UNCHANGED <<devices, txGap, lifecycleVars, recvLock, wpc, todo, hand,
                 frameVars, enabled, busOpen>>

ReceiveUnlocked(c) == pc[c] = "drain"   \* mutant of MayReceive: no recv_lock
MayReceive(c) == pc[c] = "drain" /\ recvLock \in {NoOne, c}

DrainPop(c) ==
  /\ MayReceive(c)
  /\ busOpen /\ Queued # {}
  /\ Pop(c)
  /\ recvLock' = c
  /\ Goto(c, IF frames[popped + 1].rx THEN "route" ELSE "drain")
  /\ UNCHANGED <<devices, txGap, lifecycleVars, wpc, todo, arrived, frames, handled,
                 cached, enabled, busOpen, callVars>>

(* Where a bulk operation, and a drain, continue. *)
AfterBulk(c) == IF method[c] = "shutdown" THEN "close" ELSE "idle"
AfterFirstDrain(c) ==   \* mutant of AfterDrain: the bulk loop ends after one device
  IF method[c] = "poll_feedback_once" THEN "idle" ELSE AfterBulk(c)
AfterDrain(c) ==
  IF method[c] = "poll_feedback_once" THEN "idle"
  ELSE IF todo[c] = {} THEN AfterBulk(c) ELSE "bulk"

DrainEnd(c) ==
  /\ MayReceive(c)
  /\ Queued = {} \/ ~busOpen \/ "recv" \in Faults
  /\ recvLock' = NoOne
  /\ Goto(c, AfterDrain(c))
  /\ UNCHANGED <<devices, txGap, lifecycleVars, wpc, todo, hand, frameVars, enabled,
                 busOpen, callVars>>

DrainRoute(c) ==
  /\ pc[c] = "route"
  /\ \/ Route(hand[c]) /\ Goto(c, "drain") /\ UNCHANGED recvLock
     \/ /\ \E m \in Takers(hand[c]) : HandleFails(m, hand[c])
        /\ recvLock' = NoOne
        /\ Goto(c, AfterDrain(c))
  /\ hand' = [hand EXCEPT ![c] = 0]
  /\ UNCHANGED <<devices, txGap, lifecycleVars, wpc, todo, arrived, popped, frames,
                 enabled, busOpen, callVars>>

(***************************************************************************)
(* apply_bulk_device_op: the devices of a snapshot in id order; the first  *)
(* failure abandons the rest, each success is followed by a drain whose    *)
(* result is ignored.                                                      *)
(***************************************************************************)
BulkDeviceOp(c) ==
  /\ Begin(c, "enable_all") \/ Begin(c, "disable_all")
  /\ todo' = [todo EXCEPT ![c] = devices]
  /\ Goto(c, IF devices = {} THEN "idle" ELSE "bulk")
  /\ UNCHANGED <<devices, txGap, lifecycleVars, recvLock, wpc, hand, frameVars,
                 enabled, busOpen>>

BulkStep(c) ==
  /\ pc[c] = "bulk" /\ busOpen
  /\ \E m \in todo[c] :
        /\ \A o \in todo[c] : m <= o
        /\ enabled' = IF method[c] = "enable_all" THEN enabled \cup {m} ELSE enabled \ {m}
        /\ todo' = [todo EXCEPT ![c] = @ \ {m}]
  /\ Goto(c, "drain")
  /\ UNCHANGED <<devices, txGap, lifecycleVars, recvLock, wpc, hand, frameVars,
                 busOpen, callVars>>

BulkFails(c) ==
  /\ pc[c] = "bulk" /\ ("op" \in Faults \/ ~busOpen)
  /\ abandoned' = [abandoned EXCEPT ![c] = todo[c]]
  /\ todo' = [todo EXCEPT ![c] = {}]
  /\ Goto(c, AfterBulk(c))
  /\ UNCHANGED <<devices, txGap, lifecycleVars, recvLock, wpc, hand, frameVars,
                 enabled, busOpen, method, calledAt, dropped>>

(***************************************************************************)
(* shutdown, close_bus and Drop all begin with stop_polling_thread: the    *)
(* flag is cleared, the handle taken, and the thread joined while the      *)
(* polling_thread mutex is still held (the guard of the if-let lives to    *)
(* the end of the statement).                                              *)
(***************************************************************************)
StopFlag(c) ==
  /\ \E m \in {"shutdown", "close_bus", "drop"} : Begin(c, m)
  /\ active' = FALSE
  /\ Goto(c, "take")
  /\ UNCHANGED <<devices, txGap, handle, startLock, threadLock, mine, recvLock, wpc,
                 todo, hand, frameVars, enabled, busOpen>>

(* What follows the stop: shutdown snapshots the devices to disable. *)
AfterStop(c) ==
  LET disabling == method[c] = "shutdown" /\ devices # {}
  IN /\ todo' = [todo EXCEPT ![c] = IF disabling THEN devices ELSE {}]
     /\ Goto(c, IF disabling THEN "bulk"
                ELSE IF method[c] = "drop" THEN "idle" ELSE "close")

NothingToJoin(c) ==
  /\ pc[c] = "take" /\ threadLock = NoOne
  /\ handle = NoOne
  /\ AfterStop(c)
  /\ UNCHANGED <<devices, txGap, lifecycleVars, recvLock, wpc, hand, frameVars,
                 enabled, busOpen, callVars>>

TakeHandle(c) ==
  /\ pc[c] = "take" /\ threadLock = NoOne
  /\ handle # NoOne
  /\ mine' = [mine EXCEPT ![c] = handle]
  /\ handle' = NoOne
  /\ threadLock' = c
  /\ Goto(c, "join")
  /\ UNCHANGED <<devices, txGap, active, startLock, recvLock, wpc, todo, hand,
                 frameVars, enabled, busOpen, callVars>>

JoinsNothing(c) == TRUE   \* mutant of Finished: the handle is dropped, not joined
Finished(c) == wpc[mine[c]] = "exited"

StaysLocked == UNCHANGED threadLock   \* mutant of UnlockThread
UnlockThread == threadLock' = NoOne

JoinWorker(c) ==
  /\ pc[c] = "join" /\ Finished(c)
  /\ UnlockThread
  /\ mine' = [mine EXCEPT ![c] = NoOne]
  /\ AfterStop(c)
  /\ UNCHANGED <<devices, txGap, active, handle, startLock, recvLock, wpc, hand,
                 frameVars, enabled, busOpen, callVars>>

CloseBus(c) ==
  /\ pc[c] = "close"
  /\ busOpen' \in (IF "close" \in Faults THEN {busOpen, FALSE} ELSE {FALSE})
  /\ Goto(c, "idle")
  /\ UNCHANGED <<devices, txGap, lifecycleVars, recvLock, wpc, todo, hand, frameVars,
                 enabled, callVars>>

(***************************************************************************)
(* The polling worker.  recv_lock covers the receive only, not the routing *)
(* of what was received.                                                   *)
(***************************************************************************)
AfterCheck == IF active THEN "recv" ELSE "exited"

WorkerCheck(w) ==
  /\ wpc[w] = "check"
  /\ wpc' = [wpc EXCEPT ![w] = AfterCheck]
  /\ UNCHANGED <<devices, txGap, lifecycleVars, recvLock, pc, todo, hand, frameVars,
                 enabled, busOpen, callVars>>

WorkerPop(w) ==
  /\ wpc[w] = "recv" /\ recvLock = NoOne
  /\ busOpen /\ Queued # {}
  /\ Pop(w)
  /\ wpc' = [wpc EXCEPT ![w] = IF frames[popped + 1].rx THEN "route" ELSE "check"]
  /\ UNCHANGED <<devices, txGap, lifecycleVars, recvLock, pc, todo, arrived, frames,
                 handled, cached, enabled, busOpen, callVars>>

GivesUp == "exited"   \* mutant of AfterIdle: the loop ends when nothing is received
AfterIdle == "check"

(* Nothing received, or the receive failed: sleep and look at the flag again. *)
WorkerIdle(w) ==
  /\ wpc[w] = "recv" /\ recvLock = NoOne
  /\ Queued = {} \/ ~busOpen \/ "recv" \in Faults
  /\ wpc' = [wpc EXCEPT ![w] = AfterIdle]
  /\ UNCHANGED <<devices, txGap, lifecycleVars, recvLock, pc, todo, hand, frameVars,
                 enabled, busOpen, callVars>>

WorkerRoute(w) ==
  /\ wpc[w] = "route"
  /\ \/ Route(hand[w])
     \/ \E m \in Takers(hand[w]) : HandleFails(m, hand[w])
  /\ hand' = [hand EXCEPT ![w] = 0]
  /\ wpc' = [wpc EXCEPT ![w] = "check"]
  /\ UNCHANGED <<devices, txGap, lifecycleVars, recvLock, pc, todo, arrived, popped,
                 frames, enabled, busOpen, callVars>>

(* The bus queues one more frame. *)
Arrive ==
  /\ busOpen /\ arrived < MaxFrames
  /\ arrived' = arrived + 1
  /\ \E f \in FrameShapes : frames' = [frames EXCEPT ![arrived + 1] = f]
  /\ UNCHANGED <<devices, txGap, lifecycleVars, recvLock, wpc, pc, todo, hand, popped,
                 handled, cached, enabled, busOpen, callVars>>

NewCall(c) ==
  \/ \E m \in Motors : AddDevice(c, m)
  \/ PollFeedbackOnce(c)
  \/ BulkDeviceOp(c)
  \/ StopFlag(c)

CallerStep(c) ==
  \/ PollingAlreadyActive(c) \/ SpawnWorker(c) \/ StoreHandle(c)
  \/ DrainPop(c) \/ DrainEnd(c) \/ DrainRoute(c)
  \/ BulkStep(c) \/ BulkFails(c)
  \/ NothingToJoin(c) \/ TakeHandle(c) \/ JoinWorker(c) \/ CloseBus(c)

WorkerStep(w) == WorkerCheck(w) \/ WorkerPop(w) \/ WorkerIdle(w) \/ WorkerRoute(w)

Next ==
  \/ \E c \in Callers : NewCall(c) \/ CallerStep(c)
  \/ \E w \in Workers : WorkerStep(w)
  \/ Arrive

(* The scheduler runs every thread that can take a step: a caller inside a *)
(* method and a worker are never suspended for ever.  Nobody has to call,  *)
(* and no frame has to arrive.                                             *)
Fairness ==
  /\ \A c \in Callers : WF_vars(CallerStep(c))
  /\ \A w \in Workers : WF_vars(WorkerStep(w))

SafeSpec == Init /\ [][Next]_vars
Spec == SafeSpec /\ Fairness

TypeOK ==
  /\ devices \in SUBSET Motors /\ txGap \in BOOLEAN
  /\ active \in BOOLEAN /\ handle \in Workers \cup {NoOne}
  /\ startLock \in Callers \cup {NoOne}
  /\ threadLock \in Callers \cup {NoOne}
  /\ recvLock \in Callers \cup {NoOne}
  /\ wpc \in [Workers -> WorkerStates]
  /\ pc \in [Callers -> CallerStates]
  /\ method \in [Callers -> Methods]
  /\ mine \in [Callers -> Workers \cup {NoOne}]
  /\ todo \in [Callers -> SUBSET Motors]
  /\ hand \in [Threads -> 0..MaxFrames]
  /\ arrived \in 0..MaxFrames /\ popped \in 0..MaxFrames /\ popped <= arrived
  /\ frames \in [FrameNo -> Frame]
  /\ handled \in [FrameNo -> SUBSET Motors]
  /\ cached \in [Motors -> 0..MaxFrames]
  /\ enabled \in SUBSET Motors
  /\ busOpen \in BOOLEAN /\ dropped \in BOOLEAN
  /\ calledAt \in [Callers -> 0..MaxFrames] /\ abandoned \in [Callers -> SUBSET Motors]

-----------------------------------------------------------------------------
(***************************************************************************)
(* Properties.                                                             *)
(***************************************************************************)

(* Frame routing implements the delivery promise: whichever thread pops a  *)
(* frame, one accepting registered device is given it, once, and only an   *)
(* echo or a frame nobody accepts is dropped.                              *)
Delivery == INSTANCE FeedbackDelivery WITH pending <- Queued \cup InHand
DeliversEachFrameOnce == Delivery!Spec

(* The start lock and the join keep polling to one thread: two workers     *)
(* draining one bus would route frames of one device out of order.  Once   *)
(* drop has returned, not even one is left behind holding the bus          *)
(* (drop_stops_background_polling_thread).                                 *)
Idle == \A c \in Callers : pc[c] = "idle"
OneWorker ==
  /\ Cardinality(Live) <= 1
  /\ dropped /\ Idle => Live = {}

(* The bus is closed only after the polling thread has been joined, so no  *)
(* worker receives from a backend that is being torn down.                 *)
ClosesBusQuietly == [][busOpen /\ ~busOpen' => Live = {}]_vars

(* When shutdown reaches the bus close, every registered motor has been    *)
(* told to disable over a bus that was still open, however its drains      *)
(* ended; but a device that fails takes those after it along, for the      *)
(* first failure ends the loop and close_inner ignores it.                 *)
ShutdownDisablesAll ==
  \A c \in Callers :
    (pc[c] = "close" /\ method[c] = "shutdown" /\ busOpen) =>
      devices \cap enabled \subseteq abandoned[c]

(* Callers keep recv_lock until they have routed, so of any number that    *)
(* poll by hand or drain, none takes a device's cached state back to an    *)
(* older frame.  Only a worker does, which routes after it has released    *)
(* the lock, when somebody else has routed a newer frame in between.       *)
CallersKeepOrder ==
  [][\A m \in Motors : cached'[m] < cached[m] => \E w \in Workers : cached'[m] = hand[w]]_vars

(* From the join in shutdown to the bus close nobody does: the last state  *)
(* a device reports is the newest, although shutdown drains the queue      *)
(* between the disables.                                                   *)
Stopped(c) == method[c] = "shutdown" /\ pc[c] \in {"bulk", "drain", "route", "close"}
ShutdownKeepsOrder ==
  [][(\E c \in Callers : Stopped(c)) => \A m \in Motors : cached'[m] >= cached[m]]_vars

PollEnds(c) ==
  pc[c] = "drain" /\ pc'[c] = "idle" /\ method[c] = "poll_feedback_once" /\ Queued = {}
Earlier(c) == {n \in InHand : n <= calledAt[c]}

(* When poll_feedback_once returns because the queue is empty, of the      *)
(* frames that had arrived when it was called only those a worker has      *)
(* popped can be unrouted: no other caller that polls still holds one.     *)
PollLeavesOnlyTheWorkers ==
  [][\A c \in Callers : PollEnds(c) => Earlier(c) \subseteq {hand[w] : w \in Workers}]_vars

(* All of them have been routed, as the test                               *)
(* poll_feedback_once_works_in_background_mode_without_errors asserts      *)
(* beside a worker.                                                        *)
PollSeesEarlierFrames == [][\A c \in Callers : PollEnds(c) => Earlier(c) = {}]_vars

(* Every call returns: no lock is kept and every join ends. *)
EveryCallReturns == \A c \in Callers : pc[c] # "idle" ~> pc[c] = "idle"

(* While polling is active, a frame does not stay in the receive queue,    *)
(* unless the worker's receives fail again and again.                      *)
ReceiveFails == busOpen /\ Queued # {} /\ \E w \in Workers : WorkerIdle(w)
QueueIsDrained ==
  <>[][~ReceiveFails]_vars =>
    \A n \in FrameNo : n \in Queued ~> (n \notin Queued \/ ~active \/ ~busOpen)

=============================================================================
