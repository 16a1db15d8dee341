----------------------------- MODULE DmAdapter -----------------------------
(***************************************************************************)
(* The DM_Device bus: controllers of one process (`users') that open buses *)
(* on the channels of one USB adapter.  The shim never closes an adapter's *)
(* handle; it keeps the last one made and lends it to every further bus on *)
(* an adapter of that type, so opening a bus redirects the handle to its   *)
(* channel.  An adapter of another type gets a handle, a queue and a place *)
(* in the registry of its own: of its buses only what they do to this      *)
(* adapter is modelled, the keeping of its handle in place of this one's.  *)
(* The vendor's library calls back from a thread of its own for each frame *)
(* received.                                                               *)
(*                                                                         *)
(* A step is the code between two of the shim's locks.  The callback looks *)
(* the handle up, reads its channel without a lock and files the frame,    *)
(* and anything may happen in between.  Waiting is left out: a receive     *)
(* that comes back empty-handed changes nothing, and CoreController joins  *)
(* its worker before it closes the bus, so no receive overlaps a shutdown. *)
(* Assumed of the library: it opens an adapter once in a process and calls *)
(* back for one frame at a time.  Bounds: MaxFrames frames, MaxOpens       *)
(* openings of this adapter.                                               *)
(***************************************************************************)
EXTENDS Naturals, FiniteSets, SequencesExt

CONSTANTS Users, Channels,
          Limit,       (* frames the queue holds: 512 in the code *)
          Exclusive,   (* a bus is opened only when the others are closed *)
          MaxFrames, MaxOpens

ASSUME AdapterAssumption ==
  Limit \in Nat \ {0} /\ Exclusive \in BOOLEAN /\ MaxFrames \in Nat /\ MaxOpens \in Nat

VARIABLES pc, channel,          (* of each user: where it is, the channel it asked for *)
          device,               (* the library has opened the adapter *)
          persistent,           (* the handle kept for later openings is this adapter's *)
          selected,             (* the handle's channel *)
          registered,           (* the callback finds the handle *)
          queue,
          callback, inHand,     (* the callback thread and its frame *)
          arrived,              (* channel of each frame so far *)
          cleared, opened,      (* frames before its opening emptied the queue, and before it ended *)
          got,                  (* frames the user received *)
          sentOn,               (* channels the user's frames went out on *)
          opens

handle  == <<device, persistent, selected, registered>>
history == <<arrived, cleared, opened, got, sentOn>>
vars == <<pc, channel, handle, queue, callback, inHand, history, opens>>

NoFrame == [n |-> 0, on |-> 0]
Reopening == {"clear", "reregister"}

Frames == [n : Nat, on : Channels \cup {0}]

TypeOK ==
  /\ pc \in [Users -> {"closed", "probe", "register", "persist", "open"} \cup Reopening]
  /\ channel \in [Users -> Channels] /\ selected \in Channels
  /\ device \in BOOLEAN /\ persistent \in BOOLEAN /\ registered \in BOOLEAN
  /\ queue \in Seq(Frames) /\ Len(queue) <= Limit
  /\ callback \in {"idle", "lookup", "check", "push"} /\ inHand \in Frames
  /\ arrived \in Seq(Channels) /\ Len(arrived) <= MaxFrames
  /\ cleared \in [Users -> Nat] /\ opened \in [Users -> Nat]
  /\ got \in [Users -> Seq(Frames)] /\ sentOn \in [Users -> SUBSET Channels]
  /\ opens \in Nat /\ opens <= MaxOpens

Init ==
  /\ pc = [u \in Users |-> "closed"] /\ channel \in [Users -> Channels]
  /\ device = FALSE /\ persistent = FALSE /\ selected \in Channels /\ registered = FALSE
  /\ queue = <<>> /\ callback = "idle" /\ inHand = NoFrame
  /\ arrived = <<>> /\ cleared = [u \in Users |-> 0] /\ opened = cleared /\ got = [u \in Users |-> <<>>]
  /\ sentOn = [u \in Users |-> {}] /\ opens = 0

(***************************************************************************)
(* Opening.                                                                *)
(***************************************************************************)
MayOpen(u) ==
  /\ pc[u] = "closed" /\ opens < MaxOpens
  /\ Exclusive => \A v \in Users : pc[v] = "closed"

(* g_persistent_mutex is held until the handle is registered again.        *)
Unlocked == \A v \in Users : pc[v] \notin Reopening

Goto(u, place) == pc' = [pc EXCEPT ![u] = place]

Begin(u, ch) ==
  /\ MayOpen(u)
  /\ opens' = opens + 1 /\ channel' = [channel EXCEPT ![u] = ch]
  /\ got' = [got EXCEPT ![u] = <<>>] /\ sentOn' = [sentOn EXCEPT ![u] = {}]

(* Reuses the handle, when the one kept is of this adapter's type: its     *)
(* channel changes before the queue is emptied.                            *)
Reopen(u) ==
  /\ \E ch \in Channels : Begin(u, ch) /\ selected' = ch
  /\ persistent /\ Unlocked
  /\ Goto(u, "clear")
  /\ UNCHANGED <<device, persistent, registered, queue, callback, inHand, arrived, cleared, opened>>

(* Mutant: reopening keeps what is queued.                                 *)
KeepsQueue(u) ==
  /\ pc[u] = "clear"
  /\ cleared' = [cleared EXCEPT ![u] = Len(arrived)] /\ Goto(u, "reregister")
  /\ UNCHANGED <<channel, handle, queue, callback, inHand, arrived, opened, got, sentOn, opens>>

ClearQueue(u) ==
  /\ pc[u] = "clear"
  /\ queue' = <<>> /\ cleared' = [cleared EXCEPT ![u] = Len(arrived)]
  /\ Goto(u, "reregister")
  /\ UNCHANGED <<channel, handle, callback, inHand, arrived, opened, got, sentOn, opens>>

Reregister(u) ==
  /\ pc[u] = "reregister"
  /\ registered' = TRUE /\ opened' = [opened EXCEPT ![u] = Len(arrived)]
  /\ Goto(u, "open")
  /\ UNCHANGED <<channel, device, persistent, selected, queue, callback, inHand, arrived, cleared,
                 got, sentOn, opens>>

(* With no handle of the type kept, works on a new one, without a lock.    *)
FirstOpen(u) ==
  /\ ~persistent /\ Unlocked
  /\ \E ch \in Channels : Begin(u, ch)
  /\ Goto(u, "probe")
  /\ UNCHANGED <<handle, queue, callback, inHand, arrived, cleared, opened>>

(* Finds, opens and configures the device; any of it may fail, before the  *)
(* library has opened the adapter or after, and what fails closes nothing. *)
Probe(u) ==
  /\ pc[u] = "probe"
  /\ \/ /\ ~device /\ device' = TRUE
        /\ selected' = channel[u] /\ Goto(u, "register")
     \/ device' \in {device, TRUE} /\ Goto(u, "closed") /\ UNCHANGED selected
  /\ UNCHANGED <<channel, persistent, registered, queue, callback, inHand, history, opens>>

Register(u) ==
  /\ pc[u] = "register"
  /\ registered' = TRUE
  /\ cleared' = [cleared EXCEPT ![u] = Len(arrived)] /\ opened' = [opened EXCEPT ![u] = Len(arrived)]
  /\ Goto(u, "persist")
  /\ UNCHANGED <<channel, device, persistent, selected, queue, callback, inHand, arrived, got,
                 sentOn, opens>>

Persist(u) ==
  /\ pc[u] = "persist" /\ Unlocked
  /\ persistent' = TRUE /\ Goto(u, "open")
  /\ UNCHANGED <<channel, device, selected, registered, queue, callback, inHand, history, opens>>

(* An adapter of another type is opened: its handle is the one kept.       *)
Displace ==
  /\ persistent /\ Unlocked
  /\ persistent' = FALSE
  /\ UNCHANGED <<pc, channel, device, selected, registered, queue, callback, inHand, history, opens>>

(***************************************************************************)
(* Sending, receiving and closing.                                         *)
(***************************************************************************)
Send(u) ==
  /\ pc[u] = "open"
  /\ sentOn' = [sentOn EXCEPT ![u] = @ \cup {selected}]
  /\ UNCHANGED <<pc, channel, handle, queue, callback, inHand, arrived, cleared, opened, got, opens>>

Receive(u) ==
  /\ pc[u] = "open" /\ queue # <<>>
  /\ got' = [got EXCEPT ![u] = Append(@, Head(queue))] /\ queue' = Tail(queue)
  /\ UNCHANGED <<pc, channel, handle, callback, inHand, arrived, cleared, opened, sentOn, opens>>

Shutdown(u) ==
  /\ pc[u] = "open"
  /\ registered' = FALSE /\ Goto(u, "closed")
  /\ UNCHANGED <<channel, device, persistent, selected, queue, callback, inHand, history, opens>>

(***************************************************************************)
(* The callback thread.                                                    *)
(***************************************************************************)
Arrive(ch) ==
  /\ callback = "idle" /\ Len(arrived) < MaxFrames
  /\ arrived' = Append(arrived, ch) /\ inHand' = [n |-> Len(arrived'), on |-> ch]
  /\ callback' = "lookup"
  /\ UNCHANGED <<pc, channel, handle, queue, cleared, opened, got, sentOn, opens>>

Drops == callback' = "idle" /\ inHand' = NoFrame

Lookup ==
  /\ callback = "lookup"
  /\ IF registered THEN callback' = "check" /\ UNCHANGED inHand ELSE Drops
  /\ UNCHANGED <<pc, channel, handle, queue, history, opens>>

CheckChannel ==
  /\ callback = "check"
  /\ IF inHand.on = selected THEN callback' = "push" /\ UNCHANGED inHand ELSE Drops
  /\ UNCHANGED <<pc, channel, handle, queue, history, opens>>

(* Mutant: a full queue drops the newest frame.                            *)
DropsNewest(frame) == IF Len(queue) >= Limit THEN queue ELSE Append(queue, frame)

(* A full queue drops its oldest frame.                                    *)
Filed(frame) == Append(IF Len(queue) >= Limit THEN Tail(queue) ELSE queue, frame)

Push ==
  /\ callback = "push"
  /\ queue' = Filed(inHand) /\ Drops
  /\ UNCHANGED <<pc, channel, handle, history, opens>>

Next ==
  \/ \E u \in Users :
       \/ Reopen(u) \/ ClearQueue(u) \/ Reregister(u)
       \/ FirstOpen(u) \/ Probe(u) \/ Register(u) \/ Persist(u)
       \/ Send(u) \/ Receive(u) \/ Shutdown(u)
  \/ Displace
  \/ \E ch \in Channels : Arrive(ch)
  \/ Lookup \/ CheckChannel \/ Push

Spec == Init /\ [][Next]_vars

(***************************************************************************)
(* Properties.                                                             *)
(***************************************************************************)
Seen(u) == got[u] \o queue

(* With one bus at a time, all that a bus receives arrived on its channel  *)
(* after it was opened, in that order, but for its first frame: the        *)
(* callback may have held that one while the bus was being opened.         *)
OnlyFirstIsForeign ==
  \A u \in Users : Exclusive /\ pc[u] = "open" =>
    LET seen == Seen(u)
    IN  \A k \in 2..Len(seen) :
          seen[k].on = channel[u] /\ seen[k].n > cleared[u] /\ seen[k].n > seen[k - 1].n

(* With one bus at a time, what an open bus has missed of its channel was  *)
(* pushed out of the queue by newer frames: it is older than all that is   *)
(* queued, and the queue has been full.                                    *)
MissesOnlyTheOldest ==
  \A u \in Users : Exclusive /\ pc[u] = "open" =>
    LET wanted == {n \in opened[u] + 1 .. Len(arrived) : arrived[n] = channel[u] /\ n # inHand.n}
        missed == wanted \ {f.n : f \in ToSet(Seen(u))}
    IN  /\ \A n \in missed : \A f \in ToSet(queue) : n < f.n
        /\ missed # {} => Cardinality(wanted) >= Limit

(* The frames a bus sends go out on the channel it was opened for.         *)
SendsOnItsChannel == \A u \in Users : sentOn[u] \subseteq {channel[u]}

=============================================================================
