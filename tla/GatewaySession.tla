--------------------------- MODULE GatewaySession ---------------------------
(***************************************************************************)
(* ws_gateway: what a WebSocket session holds (SessionCtx and the two      *)
(* streams) and what each message and each tick of handle_socket does to   *)
(* it.  A session is one task: its messages and ticks never overlap, while *)
(* different sessions interleave freely, also during a scan.               *)
(*                                                                         *)
(* connect, retarget and the handlers are written as the set of sessions   *)
(* they can leave behind: opening a bus, adding a motor and every motor    *)
(* command may fail.                                                       *)
(***************************************************************************)
EXTENDS FiniteSets

CONSTANTS
  Sessions,    (* WebSocket connections                                    *)
  Motors,      (* motor ids                                                *)
  Buses,       (* transport and channel                                    *)
  Unnamed,     (* a field the message leaves out                           *)
  None,        (* Option::None                                             *)
  ScanForms    (* scan requests: the vendor of the message and, in a       *)
               (*   batch, those of its items                              *)

Vendors == {"damiao", "robstride", "other"}

Target == [vendor : Vendors, bus : Buses, motor : Motors]
Controller == [vendor : Vendors, bus : Buses, open : BOOLEAN]
ActiveCommand == [motor : Motors, controller : Controller]
Context == [target : Target, controller : Controller \cup {None}, motor : Motors \cup {None},
            active : ActiveCommand \cup {None}, stateStream : BOOLEAN, paramStream : BOOLEAN]

ASSUME GatewayAssumption ==
  /\ Unnamed \notin Motors \cup Vendors
  /\ None \notin Controller \cup Motors \cup ActiveCommand
  /\ ScanForms \subseteq [vendor : Vendors \cup {Unnamed},
                           items : SUBSET (Vendors \cup {Unnamed})]

VARIABLES
  sess,      (* SessionCtx and the streams of each connected session       *)
  scanning,  (* the vendors each session is scanning for                   *)
  ended,     (* sessions whose handle_socket has returned                  *)
  stoppers   (* history: the sessions that have stopped the motor each     *)
             (*   session drives since that session last asked to move it  *)

vars == <<sess, scanning, ended, stoppers>>

Fresh(t) == [target |-> t, controller |-> None, motor |-> None, active |-> None,
             stateStream |-> FALSE, paramStream |-> FALSE]

Init ==
  /\ \E t \in Target : sess = [s \in Sessions |-> Fresh(t)]
  /\ scanning = [s \in Sessions |-> {}]
  /\ ended = {}
  /\ stoppers = [s \in Sessions |-> {}]

(***************************************************************************)
(* SessionCtx.                                                             *)
(***************************************************************************)
KeepsActive(x) ==   \* mutant of Disconnected: the active command survives
  [x EXCEPT !.controller = None, !.motor = None]
Disconnected(x) == [x EXCEPT !.controller = None, !.motor = None, !.active = None]

(* connect: the bus may not open; a Damiao controller stays without a      *)
(* motor when the model is auto or add_motor is refused, the other vendors *)
(* store both or nothing.                                                  *)
Connect(x) ==
  LET y == Disconnected(x)
      c == [vendor |-> x.target.vendor, bus |-> x.target.bus, open |-> TRUE]
      opened == [y EXCEPT !.controller = c]
  IN {y, [opened EXCEPT !.motor = x.target.motor]} \cup
     {z \in {opened} : x.target.vendor = "damiao"}

EnsureConnected(x) == IF x.controller = None THEN Connect(x) ELSE {x}

(* retarget_from_request_if_present: a named motor becomes the target, of  *)
(* the named vendor if there is one, over a new connection.                *)
Named(x, v, m) == [x.target EXCEPT !.motor = m, !.vendor = IF v = Unnamed THEN @ ELSE v]

StaysConnected(x, v, m) ==   \* mutant of Retarget: the old controller is kept
  IF m = Unnamed THEN x ELSE [x EXCEPT !.target = Named(x, v, m)]
Retarget(x, v, m) ==
  IF m = Unnamed \/ Named(x, v, m) = x.target THEN x
  ELSE [Disconnected(x) EXCEPT !.target = Named(x, v, m)]

Reach(x, v, m) == EnsureConnected(Retarget(x, v, m))

Usable(x) == x.motor # None /\ x.controller.open

(***************************************************************************)
(* Messages.                                                               *)
(***************************************************************************)
Serving(s) == s \notin ended /\ scanning[s] = {}
Becomes(s, x) == sess' = [sess EXCEPT ![s] = x]
Undisturbed == UNCHANGED <<scanning, ended, stoppers>>

(* The motor a session's commands go to, and whether its ticker drives d:  *)
(* an id on a bus, of a vendor.                                            *)
Driven(x) == [vendor |-> x.controller.vendor, bus |-> x.controller.bus, motor |-> x.motor]
Drives(x, d) == x.active # None /\ Driven(x) = d

(* A stop counts for the session itself and for every session that drives  *)
(* the motor it is connected to, a disable for the session itself.         *)
Stopped(s, others) ==
  stoppers' = [o \in Sessions |->
                 IF o \in {s} \cup others THEN stoppers[o] \cup {s} ELSE stoppers[o]]
DriveToo(x) == {o \in Sessions : x.motor # None /\ Drives(sess[o], Driven(x))}

SetTarget(s, t) ==
  /\ Serving(s)
  /\ Becomes(s, [Disconnected(sess[s]) EXCEPT !.target = t])
  /\ Undisturbed

(* enable and disable disarm only after the motor command succeeded. *)
Enable(s, v, m) ==
  /\ Serving(s)
  /\ \E y \in Reach(sess[s], v, m) :
       \/ Becomes(s, y)
       \/ Usable(y) /\ Becomes(s, [y EXCEPT !.active = None])
  /\ Undisturbed

Disable(s, v, m) ==
  /\ Serving(s)
  /\ \E y \in Reach(sess[s], v, m) :
       \/ Becomes(s, y) /\ UNCHANGED stoppers
       \/ /\ Usable(y)
          /\ Becomes(s, [y EXCEPT !.active = None])
          /\ Stopped(s, {})
  /\ UNCHANGED <<scanning, ended>>

(* stop disarms first, whatever becomes of the motor command. *)
DisarmsIfStopped(x, ok) ==   \* mutant of Disarmed: the vendor stop decides
  IF ok THEN [x EXCEPT !.active = None] ELSE x
Disarmed(x, ok) == [x EXCEPT !.active = None]

Stop(s) ==
  /\ Serving(s)
  /\ \E ok \in BOOLEAN :
       /\ ok => sess[s].motor = None \/ Usable(sess[s])
       /\ Becomes(s, Disarmed(sess[s], ok))
  /\ Stopped(s, DriveToo(sess[s]))
  /\ UNCHANGED <<scanning, ended>>

(* mit, pos_vel, vel, force_pos: the active command changes only when the  *)
(* mode switch and the command have succeeded.                             *)
Armed(x) == [motor |-> x.motor, controller |-> x.controller]

Control(s, continuous) ==
  /\ Serving(s)
  /\ \E y \in EnsureConnected(sess[s]) :
       \/ Becomes(s, y) /\ UNCHANGED stoppers
       \/ /\ Usable(y)
          /\ Becomes(s, [y EXCEPT !.active = IF continuous THEN Armed(y) ELSE None])
          /\ stoppers' = [stoppers EXCEPT ![s] = {}]
  /\ UNCHANGED <<scanning, ended>>

(* Every other motor operation connects, some after a retarget, and leaves *)
(* the rest of the session alone; only a Damiao store_parameters disarms,  *)
(* before it sends anything.                                               *)
MotorOp(s, v, m) ==
  /\ Serving(s)
  /\ \E y \in Reach(sess[s], v, m) : Becomes(s, y)
  /\ Undisturbed

StoreParameters(s, v, m) ==
  /\ Serving(s)
  /\ \E y \in Reach(sess[s], v, m) :
       Becomes(s, IF y.motor # None /\ y.controller.vendor = "damiao"
                  THEN [y EXCEPT !.active = None] ELSE y)
  /\ Undisturbed

(* damiao_state_many takes over vendor and bus from the message, but only  *)
(* a change of vendor drops the connection.                                *)
DamiaoStateMany(s, b) ==
  /\ Serving(s)
  /\ LET x == IF sess[s].target.vendor # "damiao" THEN Disconnected(sess[s]) ELSE sess[s]
     IN \E y \in EnsureConnected([x EXCEPT !.target.vendor = "damiao", !.target.bus = b]) :
          Becomes(s, y)
  /\ Undisturbed

StateStream(s, enabled) ==
  /\ Serving(s)
  /\ Becomes(s, [sess[s] EXCEPT !.stateStream = enabled])
  /\ Undisturbed

ParamStream(s, enabled) ==
  /\ Serving(s)
  /\ IF enabled
     THEN \E y \in EnsureConnected(sess[s]) :
            Becomes(s, [y EXCEPT !.paramStream =
                          @ \/ (y.motor # None /\ y.controller.vendor # "other")])
     ELSE Becomes(s, [sess[s] EXCEPT !.paramStream = FALSE])
  /\ Undisturbed

(* shutdown keeps the controller, whose bus is now closed; if it fails the *)
(* active command stays.                                                   *)
Shutdown(s) ==
  /\ Serving(s)
  /\ LET x == sess[s]
         closed == IF x.controller = None THEN x ELSE [x EXCEPT !.controller.open = FALSE]
     IN \/ Becomes(s, [closed EXCEPT !.active = None])
        \/ x.controller # None /\ Becomes(s, closed)
  /\ Undisturbed

CloseBus(s) == Serving(s) /\ Becomes(s, Disconnected(sess[s])) /\ Undisturbed

(***************************************************************************)
(* Scans.  An item of a batch that names no vendor is scanned for the      *)
(* message's, or else the target's.  release_session_before_scan looks for *)
(* the vendor of the open controller among those the items name, and at    *)
(* the message's only when there are no items.                             *)
(***************************************************************************)
MessageVendor(x, f) == IF f.vendor = Unnamed THEN x.target.vendor ELSE f.vendor
Scanned(x, f) ==
  IF f.items = {} THEN {MessageVendor(x, f)}
  ELSE {IF v = Unnamed THEN MessageVendor(x, f) ELSE v : v \in f.items}

MustRelease(x, f) ==
  /\ x.controller # None
  /\ x.controller.vendor \in {"damiao", "robstride"}
  /\ x.controller.vendor \in (IF f.items = {} THEN {MessageVendor(x, f)} ELSE f.items)

StartScan(s, f) ==
  /\ Serving(s)
  /\ Becomes(s, IF MustRelease(sess[s], f)
                THEN [Disconnected(sess[s]) EXCEPT !.stateStream = FALSE, !.paramStream = FALSE]
                ELSE sess[s])
  /\ scanning' = [scanning EXCEPT ![s] = Scanned(sess[s], f)]
  /\ UNCHANGED <<ended, stoppers>>

EndScan(s) ==
  /\ scanning[s] # {}
  /\ scanning' = [scanning EXCEPT ![s] = {}]
  /\ UNCHANGED <<sess, ended, stoppers>>

(***************************************************************************)
(* The ticker sends the active command; one failure disarms it.            *)
(***************************************************************************)
Tick(s) ==
  /\ Serving(s) /\ sess[s].active # None
  /\ \/ Usable(sess[s]) /\ UNCHANGED sess
     \/ Becomes(s, [sess[s] EXCEPT !.active = None])
  /\ Undisturbed

(* The client leaves, or a send to it fails: the context is disconnected   *)
(* or dropped, and either way the bus is closed.  A RobStride scan reports *)
(* progress to the client, so it can lose it while its blocking task scans *)
(* on.                                                                     *)
End(s) ==
  /\ s \notin ended /\ scanning[s] \in {{}, {"robstride"}}
  /\ Becomes(s, [Disconnected(sess[s]) EXCEPT !.stateStream = FALSE, !.paramStream = FALSE])
  /\ ended' = ended \cup {s}
  /\ UNCHANGED <<scanning, stoppers>>

Message(s) ==
  \/ \E t \in Target : SetTarget(s, t)
  \/ \E v \in Vendors \cup {Unnamed}, m \in Motors \cup {Unnamed} :
       Enable(s, v, m) \/ Disable(s, v, m) \/ MotorOp(s, v, m) \/ StoreParameters(s, v, m)
  \/ Stop(s)
  \/ \E b \in BOOLEAN : Control(s, b) \/ StateStream(s, b) \/ ParamStream(s, b)
  \/ \E b \in Buses : DamiaoStateMany(s, b)
  \/ Shutdown(s) \/ CloseBus(s)
  \/ \E f \in ScanForms : StartScan(s, f)

Next == \E s \in Sessions : Message(s) \/ Tick(s) \/ EndScan(s) \/ End(s)

Spec == Init /\ [][Next]_vars

TypeOK ==
  /\ sess \in [Sessions -> Context]
  /\ scanning \in [Sessions -> SUBSET Vendors]
  /\ ended \subseteq Sessions
  /\ stoppers \in [Sessions -> SUBSET Sessions]

-----------------------------------------------------------------------------
(***************************************************************************)
(* Properties.                                                             *)
(***************************************************************************)

(* From a stop or an acknowledged disable on, until it asks for motion     *)
(* again, the session's ticker has nothing to send: neither a vendor stop  *)
(* that fails, nor a retarget, a reconnection or a scan in between leaves  *)
(* or puts back an armed command.                                          *)
StopEndsOwnDriving == \A s \in Sessions : sess[s].active # None => s \notin stoppers[s]

(* The contract handle_stop's comment states, the gateway stops driving    *)
(* the motor from this moment on: no session's ticker drives a motor that  *)
(* any session has stopped since.                                          *)
StopEndsDriving == \A s \in Sessions : sess[s].active # None => stoppers[s] = {}

(* The active command belongs to the motor and the controller it was       *)
(* accepted for: no reconnection, retarget or scan leaves it armed for     *)
(* another one.                                                            *)
ActiveIsForThisMotor ==
  \A s \in Sessions :
    sess[s].active # None =>
      /\ sess[s].motor = sess[s].active.motor
      /\ sess[s].controller # None
      /\ sess[s].controller.vendor = sess[s].active.controller.vendor
      /\ sess[s].controller.bus = sess[s].active.controller.bus

(* What is connected is the target's vendor and motor, so an operation     *)
(* that names a motor acts on that motor.                                  *)
ConnectedToTarget ==
  \A s \in Sessions :
    sess[s].controller # None =>
      /\ sess[s].controller.vendor = sess[s].target.vendor
      /\ sess[s].motor \in {None, sess[s].target.motor}

(* The README's promise: a scan or batch scan for Damiao starts with the   *)
(* session's own Damiao controller released.                               *)
ScanHasTheBus ==
  \A s \in Sessions :
    "damiao" \in scanning[s] => sess[s].controller = None \/ sess[s].controller.vendor # "damiao"
=============================================================================
