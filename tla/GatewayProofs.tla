---------------------------- MODULE GatewayProofs ----------------------------
(***************************************************************************)
(* What a WebSocket session of ws_gateway can hold, for any sessions,      *)
(* motors and buses.  The invariant is one of each session by itself:      *)
(* every handler replaces the session's context by a coherent one.         *)
(***************************************************************************)
EXTENDS GatewaySession, TLAPS

(* Nothing is connected or armed without a controller; the controller and  *)
(* the motor are the target's; what is armed was armed on this connection. *)
Coherent(x) ==
  /\ x.controller = None => x.motor = None /\ x.active = None
  /\ x.controller # None => x.controller.vendor = x.target.vendor
  /\ x.motor \in {None, x.target.motor}
  /\ x.active # None =>
       /\ x.motor = x.active.motor
       /\ x.controller.vendor = x.active.controller.vendor
       /\ x.controller.bus = x.active.controller.bus

Good == {x \in Context : Coherent(x)}

CoherentInv == sess \in [Sessions -> Good]

USE GatewayAssumption DEF GatewayAssumption

(* The vendor an operation may name. *)
VendorName == Vendors \cup {Unnamed}
MotorName == Motors \cup {Unnamed}

-----------------------------------------------------------------------------
(* disconnect leaves a coherent context, of the same target. *)
LEMMA DisconnectedGood ==
  ASSUME NEW x \in Context
  PROVE  /\ Disconnected(x) \in Good
         /\ Disconnected(x).target = x.target
         /\ Disconnected(x).controller = None
         /\ Disconnected(x).active = None
         /\ Disconnected(x).motor = None
  BY DEF Disconnected, Good, Context, Coherent

(* So does disconnecting and then aiming at another target. *)
LEMMA RetargetedGood ==
  ASSUME NEW x \in Context, NEW t \in Target
  PROVE  /\ [Disconnected(x) EXCEPT !.target = t] \in Good
         /\ [Disconnected(x) EXCEPT !.target = t].active = None
  BY DEF Disconnected, Good, Context, Coherent

(* connect may fail at any point and leaves a coherent, disarmed context. *)
LEMMA ConnectGood ==
  ASSUME NEW x \in Context, NEW y \in Connect(x)
  PROVE  y \in Good /\ y.active = None
<1> DEFINE d == Disconnected(x)
           c == [vendor |-> x.target.vendor, bus |-> x.target.bus, open |-> TRUE]
           opened == [d EXCEPT !.controller = c]
<1>1. d \in Good /\ d.active = None /\ d.target = x.target /\ d.motor = None
  BY DisconnectedGood
<1>2. x.target \in Target /\ c \in Controller
  BY DEF Context, Target, Controller
<1>3. c # None
  BY <1>2
<1>4. opened \in Good /\ opened.active = None
  BY <1>1, <1>2, <1>3 DEF Good, Context, Coherent
<1>5. x.target.motor \in Motors
  BY <1>2 DEF Target
<1>6. [opened EXCEPT !.motor = x.target.motor] \in Good
      /\ [opened EXCEPT !.motor = x.target.motor].active = None
  BY <1>1, <1>2, <1>3, <1>5 DEF Good, Context, Coherent
<1>7. y \in {d, [opened EXCEPT !.motor = x.target.motor], opened}
  BY DEF Connect
<1> QED
  BY <1>1, <1>4, <1>6, <1>7

LEMMA EnsureConnectedGood ==
  ASSUME NEW x \in Good, NEW y \in EnsureConnected(x)
  PROVE  y \in Good /\ (y.active = None \/ y = x)
  BY ConnectGood DEF EnsureConnected, Good

(* A named motor is reached over a coherent context; whatever stays armed  *)
(* was armed before, on the same connection.                               *)
LEMMA ReachGood ==
  ASSUME NEW x \in Good, NEW v \in VendorName, NEW m \in MotorName, NEW y \in Reach(x, v, m)
  PROVE  y \in Good /\ (y.active = None \/ y = x)
<1>1. x \in Context
  BY DEF Good
<1>2. CASE Retarget(x, v, m) = x
  BY <1>2, EnsureConnectedGood DEF Reach
<1>3. CASE Retarget(x, v, m) # x
  <2>1. m # Unnamed
    BY <1>3 DEF Retarget
  <2>2. Named(x, v, m) \in Target
    BY <1>1, <2>1 DEF Named, Target, Context, VendorName, MotorName
  <2>3. Retarget(x, v, m) = [Disconnected(x) EXCEPT !.target = Named(x, v, m)]
    BY <1>3 DEF Retarget
  <2> DEFINE z == [Disconnected(x) EXCEPT !.target = Named(x, v, m)]
  <2>4. z \in Good /\ z.active = None
    BY <1>1, <2>2, RetargetedGood
  <2>5. y \in EnsureConnected(z)
    BY <2>3 DEF Reach
  <2> QED
    BY <2>4, <2>5, EnsureConnectedGood
<1> QED
  BY <1>2, <1>3

-----------------------------------------------------------------------------
(* What the steps of a session do to it: keep or drop the armed command,   *)
(* stop, arm.                                                              *)
Keeps(s) ==
  /\ \E y \in Good : /\ sess' = [sess EXCEPT ![s] = y]
                     /\ y.active = None \/ y.active = sess[s].active
  /\ UNCHANGED stoppers

Stops(s) ==
  /\ \E y \in Good : sess' = [sess EXCEPT ![s] = y] /\ y.active = None
  /\ \E others \in SUBSET Sessions : Stopped(s, others)

Arms(s) ==
  /\ \E y \in Good : sess' = [sess EXCEPT ![s] = y]
  /\ stoppers' = [stoppers EXCEPT ![s] = {}]

(* A context whose armed command is dropped stays coherent. *)
LEMMA DisarmedGood ==
  ASSUME NEW x \in Good
  PROVE  [x EXCEPT !.active = None] \in Good /\ [x EXCEPT !.active = None].active = None
  BY DEF Good, Context, Coherent

(* Switching the streams does not touch the connection. *)
LEMMA StreamsGood ==
  ASSUME NEW x \in Good, NEW b \in BOOLEAN
  PROVE  /\ [x EXCEPT !.stateStream = b] \in Good
         /\ [x EXCEPT !.stateStream = b].active = x.active
         /\ [x EXCEPT !.paramStream = b] \in Good
         /\ [x EXCEPT !.paramStream = b].active = x.active
  BY DEF Good, Context, Coherent

(* Ending a session, and releasing it for a scan. *)
LEMMA ReleasedGood ==
  ASSUME NEW x \in Good
  PROVE  LET y == [Disconnected(x) EXCEPT !.stateStream = FALSE, !.paramStream = FALSE]
         IN y \in Good /\ y.active = None
  BY DEF Disconnected, Good, Context, Coherent

LEMMA GoodContext == ASSUME CoherentInv, NEW s \in Sessions PROVE sess[s] \in Good /\ sess[s] \in Context
  BY DEF CoherentInv, Good

LEMMA ConnectionSteps ==
  ASSUME CoherentInv, NEW s \in Sessions, NEW v \in VendorName, NEW m \in MotorName
  PROVE  /\ Enable(s, v, m) => Keeps(s)
         /\ Disable(s, v, m) => Keeps(s) \/ Stops(s)
         /\ MotorOp(s, v, m) => Keeps(s)
         /\ StoreParameters(s, v, m) => Keeps(s)
<1> DEFINE x == sess[s]
<1>1. x \in Good
  BY GoodContext
<1>2. \A y \in Reach(x, v, m) :
        /\ y \in Good
        /\ y.active = None \/ y.active = x.active
        /\ [y EXCEPT !.active = None] \in Good /\ [y EXCEPT !.active = None].active = None
  BY <1>1, ReachGood, DisarmedGood
<1>3. Enable(s, v, m) => Keeps(s)
  BY <1>2 DEF Enable, Becomes, Undisturbed, Keeps
<1>4. ASSUME Disable(s, v, m) PROVE Keeps(s) \/ Stops(s)
  <2>1. PICK y \in Reach(x, v, m) :
          \/ Becomes(s, y) /\ UNCHANGED stoppers
          \/ Becomes(s, [y EXCEPT !.active = None]) /\ Stopped(s, {})
    BY <1>4 DEF Disable
  <2>2. CASE Becomes(s, y) /\ UNCHANGED stoppers
    BY <1>2, <2>2 DEF Becomes, Keeps
  <2>3. CASE Becomes(s, [y EXCEPT !.active = None]) /\ Stopped(s, {})
    BY <1>2, <2>3 DEF Becomes, Stops
  <2> QED
    BY <2>1, <2>2, <2>3
<1>5. MotorOp(s, v, m) => Keeps(s)
  BY <1>2 DEF MotorOp, Becomes, Undisturbed, Keeps
<1>6. StoreParameters(s, v, m) => Keeps(s)
  BY <1>2 DEF StoreParameters, Becomes, Undisturbed, Keeps
<1> QED
  BY <1>3, <1>4, <1>5, <1>6

LEMMA TargetSteps ==
  ASSUME CoherentInv, NEW s \in Sessions
  PROVE  /\ \A t \in Target : SetTarget(s, t) => Keeps(s)
         /\ \A b \in Buses : DamiaoStateMany(s, b) => Keeps(s)
<1> DEFINE x == sess[s]
<1>1. x \in Good /\ x \in Context
  BY GoodContext
<1>2. ASSUME NEW t \in Target, SetTarget(s, t) PROVE Keeps(s)
  <2>1. /\ [Disconnected(x) EXCEPT !.target = t] \in Good
        /\ [Disconnected(x) EXCEPT !.target = t].active = None
    BY <1>1, RetargetedGood
  <2> QED
    BY <1>2, <2>1 DEF SetTarget, Becomes, Undisturbed, Keeps
<1>3. ASSUME NEW b \in Buses, DamiaoStateMany(s, b) PROVE Keeps(s)
  <2> DEFINE d == IF x.target.vendor # "damiao" THEN Disconnected(x) ELSE x
             z == [d EXCEPT !.target.vendor = "damiao", !.target.bus = b]
  <2>1. d \in Good /\ (d.active = None \/ d.active = x.active)
    BY <1>1, DisconnectedGood
  <2>2. d.controller # None => d.controller.vendor = "damiao"
    <3>1. CASE x.target.vendor # "damiao"
      BY <1>1, <3>1, DisconnectedGood
    <3>2. CASE x.target.vendor = "damiao"
      BY <1>1, <3>2 DEF Good, Coherent
    <3> QED
      BY <3>1, <3>2
  <2>3. z \in Context
    BY <2>1 DEF Good, Context, Target, Vendors
  <2>4. /\ z.controller = d.controller /\ z.motor = d.motor /\ z.active = d.active
        /\ z.target.vendor = "damiao" /\ z.target.motor = d.target.motor
    BY <2>1 DEF Good, Context, Target
  <2> HIDE DEF d, z
  <2>5. z \in Good /\ (z.active = None \/ z.active = x.active)
    BY <2>1, <2>2, <2>3, <2>4 DEF Good, Coherent
  <2>6. PICK y \in EnsureConnected(z) : Becomes(s, y)
    BY <1>3 DEF DamiaoStateMany, d, z
  <2>7. y \in Good /\ (y.active = None \/ y.active = x.active)
    BY <2>5, <2>6, EnsureConnectedGood
  <2> QED
    BY <1>3, <2>6, <2>7 DEF DamiaoStateMany, Becomes, Undisturbed, Keeps
<1> QED
  BY <1>2, <1>3

LEMMA DrivingSteps ==
  ASSUME CoherentInv, NEW s \in Sessions
  PROVE  /\ Stop(s) => Stops(s)
         /\ \A b \in BOOLEAN : Control(s, b) => Keeps(s) \/ Arms(s)
         /\ Tick(s) => Keeps(s)
<1> DEFINE x == sess[s]
<1>1. x \in Good /\ x \in Context
  BY GoodContext
<1>2. ASSUME Stop(s) PROVE Stops(s)
  <2>1. sess' = [sess EXCEPT ![s] = [x EXCEPT !.active = None]]
    BY <1>2 DEF Stop, Becomes, Disarmed
  <2>2. DriveToo(x) \in SUBSET Sessions
    BY DEF DriveToo
  <2>3. Stopped(s, DriveToo(x))
    BY <1>2 DEF Stop
  <2> QED
    BY <1>1, <2>1, <2>2, <2>3, DisarmedGood DEF Stops
<1>3. ASSUME NEW b \in BOOLEAN, Control(s, b) PROVE Keeps(s) \/ Arms(s)
  <2>1. PICK y \in EnsureConnected(x) :
          \/ Becomes(s, y) /\ UNCHANGED stoppers
          \/ /\ Usable(y)
             /\ Becomes(s, [y EXCEPT !.active = IF b THEN Armed(y) ELSE None])
             /\ stoppers' = [stoppers EXCEPT ![s] = {}]
    BY <1>3 DEF Control
  <2>2. y \in Good /\ (y.active = None \/ y.active = x.active)
    BY <1>1, <2>1, EnsureConnectedGood
  <2>3. CASE Becomes(s, y) /\ UNCHANGED stoppers
    BY <2>2, <2>3 DEF Becomes, Keeps
  <2>4. CASE /\ Usable(y)
             /\ Becomes(s, [y EXCEPT !.active = IF b THEN Armed(y) ELSE None])
             /\ stoppers' = [stoppers EXCEPT ![s] = {}]
    <3> DEFINE z == [y EXCEPT !.active = IF b THEN Armed(y) ELSE None]
    <3>1. y \in Context /\ Coherent(y) /\ y.motor # None /\ y.motor \in Motors
      BY <2>2, <2>4 DEF Usable, Good, Context
    <3>2. y.controller # None /\ y.controller \in Controller
      BY <3>1 DEF Coherent, Context
    <3>3. Armed(y) \in ActiveCommand /\ Armed(y).motor = y.motor
          /\ Armed(y).controller = y.controller
      BY <3>1, <3>2 DEF Armed, ActiveCommand
    <3>4. z \in Good
      <4>1. CASE b
        <5>1. z = [y EXCEPT !.active = Armed(y)]
          BY <4>1
        <5>2. [y EXCEPT !.active = Armed(y)] \in Context
          BY <3>1, <3>3 DEF Context
        <5> QED
          BY <3>1, <3>2, <3>3, <5>1, <5>2 DEF Good, Coherent, Context
      <4>2. CASE ~b
        BY <2>2, <4>2, DisarmedGood
      <4> QED
        BY <4>1, <4>2
    <3> QED
      BY <2>4, <3>4 DEF Becomes, Arms
  <2> QED
    BY <2>1, <2>3, <2>4
<1>4. ASSUME Tick(s) PROVE Keeps(s)
  <2>1. UNCHANGED stoppers
    BY <1>4 DEF Tick, Undisturbed
  <2>2. CASE Becomes(s, [x EXCEPT !.active = None])
    BY <1>1, <2>1, <2>2, DisarmedGood DEF Becomes, Keeps
  <2>3. CASE UNCHANGED sess
    <3>1. sess' = [sess EXCEPT ![s] = x]
      BY <2>3 DEF CoherentInv
    <3> QED
      BY <1>1, <2>1, <3>1 DEF Keeps
  <2> QED
    BY <1>4, <2>2, <2>3 DEF Tick
<1> QED
  BY <1>2, <1>3, <1>4

LEMMA OtherSteps ==
  ASSUME CoherentInv, NEW s \in Sessions
  PROVE  /\ \A b \in BOOLEAN : StateStream(s, b) \/ ParamStream(s, b) => Keeps(s)
         /\ Shutdown(s) \/ CloseBus(s) \/ End(s) => Keeps(s)
         /\ \A f \in ScanForms : StartScan(s, f) => Keeps(s)
<1> DEFINE x == sess[s]
<1>1. x \in Good /\ x \in Context
  BY GoodContext
<1>2. ASSUME NEW b \in BOOLEAN, StateStream(s, b) PROVE Keeps(s)
  BY <1>1, <1>2, StreamsGood DEF StateStream, Becomes, Undisturbed, Keeps
<1>3. ASSUME NEW b \in BOOLEAN, ParamStream(s, b) PROVE Keeps(s)
  <2>1. CASE b
    <3>1. PICK y \in EnsureConnected(x) :
            Becomes(s, [y EXCEPT !.paramStream =
                          @ \/ (y.motor # None /\ y.controller.vendor # "other")])
      BY <1>3, <2>1 DEF ParamStream
    <3>2. y \in Good /\ (y.active = None \/ y.active = x.active)
      BY <1>1, <3>1, EnsureConnectedGood
    <3> DEFINE p == y.paramStream \/ (y.motor # None /\ y.controller.vendor # "other")
    <3>3. p \in BOOLEAN
      OBVIOUS
    <3>4. [y EXCEPT !.paramStream = p] \in Good /\ [y EXCEPT !.paramStream = p].active = y.active
      BY <3>2, <3>3, StreamsGood
    <3>5. sess' = [sess EXCEPT ![s] = [y EXCEPT !.paramStream = p]]
      BY <3>1 DEF Becomes
    <3> QED
      BY <1>3, <3>2, <3>4, <3>5 DEF ParamStream, Undisturbed, Keeps
  <2>2. CASE ~b
    BY <1>1, <1>3, <2>2, StreamsGood DEF ParamStream, Becomes, Undisturbed, Keeps
  <2> QED
    BY <2>1, <2>2
<1>4. ASSUME Shutdown(s) PROVE Keeps(s)
  <2> DEFINE c == IF x.controller = None THEN x ELSE [x EXCEPT !.controller.open = FALSE]
  <2>1. c \in Good /\ c.active = x.active
    <3>1. CASE x.controller = None
      BY <1>1, <3>1
    <3>2. CASE x.controller # None
      <4>1. x.controller \in Controller /\ [x.controller EXCEPT !.open = FALSE] \in Controller
        BY <1>1, <3>2 DEF Context, Controller
      <4>2. /\ [x.controller EXCEPT !.open = FALSE].vendor = x.controller.vendor
            /\ [x.controller EXCEPT !.open = FALSE].bus = x.controller.bus
            /\ [x.controller EXCEPT !.open = FALSE] # None
        BY <4>1 DEF Controller
      <4>3. c = [x EXCEPT !.controller = [x.controller EXCEPT !.open = FALSE]]
        BY <3>2
      <4> QED
        BY <1>1, <3>2, <4>1, <4>2, <4>3 DEF Good, Context, Coherent
    <3> QED
      BY <3>1, <3>2
  <2> HIDE DEF c
  <2>2. [c EXCEPT !.active = None] \in Good /\ [c EXCEPT !.active = None].active = None
    BY <2>1, DisarmedGood
  <2>3. Becomes(s, [c EXCEPT !.active = None]) \/ Becomes(s, c)
    BY <1>4 DEF Shutdown, c
  <2> QED
    BY <1>4, <2>1, <2>2, <2>3 DEF Shutdown, Becomes, Undisturbed, Keeps
<1>5. ASSUME CloseBus(s) PROVE Keeps(s)
  BY <1>1, <1>5, DisconnectedGood DEF CloseBus, Becomes, Undisturbed, Keeps
<1>6. ASSUME End(s) PROVE Keeps(s)
  BY <1>1, <1>6, ReleasedGood DEF End, Becomes, Keeps
<1>7. ASSUME NEW f \in ScanForms, StartScan(s, f) PROVE Keeps(s)
  BY <1>1, <1>7, ReleasedGood DEF StartScan, Becomes, Keeps
<1> QED
  BY <1>2, <1>3, <1>4, <1>5, <1>6, <1>7

(* Every step is one session's, and of one of the three kinds, or leaves    *)
(* all sessions alone.                                                     *)
LEMMA StepKinds ==
  ASSUME CoherentInv, Next
  PROVE  \/ UNCHANGED <<sess, stoppers>>
         \/ \E s \in Sessions : Keeps(s) \/ Stops(s) \/ Arms(s)
<1>1. PICK s \in Sessions : Message(s) \/ Tick(s) \/ EndScan(s) \/ End(s)
  BY DEF Next
<1>2. CASE Message(s)
  BY <1>2, ConnectionSteps, TargetSteps, DrivingSteps, OtherSteps
  DEF Message, VendorName, MotorName
<1>3. CASE Tick(s)
  BY <1>3, DrivingSteps
<1>4. CASE EndScan(s)
  BY <1>4 DEF EndScan
<1>5. CASE End(s)
  BY <1>5, OtherSteps
<1> QED
  BY <1>1, <1>2, <1>3, <1>4, <1>5

-----------------------------------------------------------------------------
LEMMA CoherentInductive == ASSUME CoherentInv, [Next]_vars PROVE CoherentInv'
<1>1. CASE UNCHANGED vars
  BY <1>1 DEF vars, CoherentInv
<1>2. CASE Next
  <2>1. CASE UNCHANGED <<sess, stoppers>>
    BY <2>1 DEF CoherentInv
  <2>2. CASE \E s \in Sessions : Keeps(s) \/ Stops(s) \/ Arms(s)
    <3>1. \/ \E s \in Sessions, y \in Good : sess' = [sess EXCEPT ![s] = y]
          \/ UNCHANGED sess
      BY <2>2 DEF Keeps, Stops, Arms
    <3> QED
      BY <3>1 DEF CoherentInv
  <2> QED
    BY <1>2, <2>1, <2>2, StepKinds
<1> QED
  BY <1>1, <1>2

LEMMA CoherentInit == Init => CoherentInv
<1> SUFFICES ASSUME Init PROVE CoherentInv
  OBVIOUS
<1>1. PICK t \in Target : sess = [s \in Sessions |-> Fresh(t)]
  BY DEF Init
<1>2. Fresh(t) \in Good
  BY DEF Fresh, Good, Context, Coherent
<1> QED
  BY <1>1, <1>2 DEF CoherentInv

LEMMA CoherentCorrect == Spec => []CoherentInv
<1> QED
  BY CoherentInit, CoherentInductive, PTL DEF Spec

(* What is connected is the target's vendor and motor: no interleaving of  *)
(* connecting, retargeting and failing leaves a session attached to        *)
(* another one.                                                            *)
THEOREM ConnectionMatchesTarget == Spec => []ConnectedToTarget
<1>1. CoherentInv => ConnectedToTarget
  BY DEF CoherentInv, Good, Coherent, ConnectedToTarget
<1> QED
  BY <1>1, CoherentCorrect, PTL

(* The active command is always for the connected motor and controller.    *)
THEOREM ActiveMatchesConnection == Spec => []ActiveIsForThisMotor
<1>1. CoherentInv => ActiveIsForThisMotor
  BY DEF CoherentInv, Good, Coherent, ActiveIsForThisMotor
<1> QED
  BY <1>1, CoherentCorrect, PTL

-----------------------------------------------------------------------------
LEMMA ArmedInductive ==
  ASSUME CoherentInv, StopEndsOwnDriving, TypeOK, [Next]_vars
  PROVE  StopEndsOwnDriving'
<1>1. CASE UNCHANGED <<sess, stoppers>>
  BY <1>1 DEF StopEndsOwnDriving
<1>2. ASSUME NEW s \in Sessions, Keeps(s) PROVE StopEndsOwnDriving'
  <2>1. PICK y \in Good :
          /\ sess' = [sess EXCEPT ![s] = y]
          /\ y.active = None \/ y.active = sess[s].active
    BY <1>2 DEF Keeps
  <2>2. sess'[s] = y
    BY <2>1 DEF TypeOK
  <2> QED
    BY <1>2, <2>1, <2>2 DEF Keeps, StopEndsOwnDriving, TypeOK
<1>3. ASSUME NEW s \in Sessions, Stops(s) PROVE StopEndsOwnDriving'
  <2>1. PICK y \in Good : sess' = [sess EXCEPT ![s] = y] /\ y.active = None
    BY <1>3 DEF Stops
  <2>2. PICK others \in SUBSET Sessions : Stopped(s, others)
    BY <1>3 DEF Stops
  <2>3. sess'[s].active = None
    BY <2>1 DEF TypeOK
  <2>4. ASSUME NEW o \in Sessions \ {s} PROVE sess'[o] = sess[o]
    BY <2>1 DEF TypeOK
  <2>5. ASSUME NEW o \in Sessions \ {s}, o \in stoppers'[o] PROVE o \in stoppers[o]
    BY <2>2, <2>5 DEF Stopped
  <2> QED
    BY <2>3, <2>4, <2>5 DEF StopEndsOwnDriving
<1>4. ASSUME NEW s \in Sessions, Arms(s) PROVE StopEndsOwnDriving'
  <2>1. stoppers'[s] = {}
    BY <1>4 DEF Arms, TypeOK
  <2>2. ASSUME NEW o \in Sessions \ {s} PROVE sess'[o] = sess[o] /\ stoppers'[o] = stoppers[o]
    BY <1>4 DEF Arms, TypeOK
  <2> QED
    BY <2>1, <2>2 DEF StopEndsOwnDriving
<1> QED
  BY <1>1, <1>2, <1>3, <1>4, StepKinds DEF vars

(* Scans: a message is handled only while its session scans for nothing,   *)
(* and a step is one session's alone.                                      *)
Scans(s) ==
  /\ Serving(s)
  /\ \E f \in ScanForms : StartScan(s, f)

LEMMA ScanningSteps ==
  ASSUME NEW s \in Sessions, Message(s) \/ Tick(s) \/ EndScan(s) \/ End(s)
  PROVE  \/ scanning[s] = {} /\ scanning' = scanning
         \/ Scans(s)
         \/ EndScan(s)
         \/ End(s)
<1>1. CASE Message(s)
  BY <1>1 DEF Message, Scans, Serving, Undisturbed, SetTarget, Enable, Disable, MotorOp, StoreParameters,
     Stop, Control, StateStream, ParamStream, DamiaoStateMany, Shutdown, CloseBus, StartScan
<1>2. CASE Tick(s)
  BY <1>2 DEF Tick, Serving, Undisturbed
<1> QED
  BY <1>1, <1>2

(* Sessions keep their types, and so do the histories.                     *)
TypeInv == CoherentInv /\ TypeOK

LEMMA HistoryTypes ==
  ASSUME TypeInv, Next
  PROVE  stoppers' \in [Sessions -> SUBSET Sessions]
<1>1. CASE UNCHANGED <<sess, stoppers>>
  BY <1>1 DEF TypeInv, TypeOK
<1>2. ASSUME NEW s \in Sessions, Keeps(s) \/ Stops(s) \/ Arms(s)
      PROVE  stoppers' \in [Sessions -> SUBSET Sessions]
  BY <1>2 DEF Keeps, Stops, Arms, Stopped, TypeInv, TypeOK
<1> QED
  BY <1>1, <1>2, StepKinds DEF TypeInv

LEMMA ScanningTypes ==
  ASSUME TypeInv, NEW s \in Sessions, Message(s) \/ Tick(s) \/ EndScan(s) \/ End(s)
  PROVE  scanning' \in [Sessions -> SUBSET Vendors]
<1>1. scanning \in [Sessions -> SUBSET Vendors] /\ sess[s] \in Context
  BY GoodContext DEF TypeInv, TypeOK
<1>2. CASE Scans(s)
  <2>1. PICK f \in ScanForms : scanning' = [scanning EXCEPT ![s] = Scanned(sess[s], f)]
    BY <1>2 DEF Scans, StartScan
  <2>2. Scanned(sess[s], f) \subseteq Vendors
    <3>1. MessageVendor(sess[s], f) \in Vendors
      BY <1>1 DEF MessageVendor, Context, Target
    <3>2. f.items \subseteq Vendors \cup {Unnamed}
      OBVIOUS
    <3> QED
      BY <3>1, <3>2 DEF Scanned
  <2> QED
    BY <1>1, <2>1, <2>2
<1>3. CASE EndScan(s)
  BY <1>1, <1>3 DEF EndScan
<1>4. CASE End(s)
  BY <1>1, <1>4 DEF End
<1> QED
  BY <1>1, <1>2, <1>3, <1>4, ScanningSteps

LEMMA EndedTypes ==
  ASSUME TypeInv, NEW s \in Sessions, Message(s) \/ Tick(s) \/ EndScan(s) \/ End(s)
  PROVE  ended' \subseteq Sessions
BY DEF TypeInv, TypeOK, Message, Undisturbed, SetTarget, Enable, Disable, MotorOp, StoreParameters,
   Stop, Control, StateStream, ParamStream, DamiaoStateMany, Shutdown, CloseBus, StartScan, Tick, EndScan, End

LEMMA TypeInductive == ASSUME TypeInv, [Next]_vars PROVE TypeInv'
<1>1. CoherentInv'
  BY CoherentInductive DEF TypeInv
<1>2. sess' \in [Sessions -> Context]
  BY <1>1 DEF CoherentInv, Good
<1>3. CASE UNCHANGED vars
  BY <1>3, <1>1, <1>2 DEF TypeInv, TypeOK, vars
<1>4. CASE Next
  <2>1. PICK s \in Sessions : Message(s) \/ Tick(s) \/ EndScan(s) \/ End(s)
    BY <1>4 DEF Next
  <2> QED
    BY <1>1, <1>2, <1>4, <2>1, HistoryTypes, ScanningTypes, EndedTypes DEF TypeInv, TypeOK
<1> QED
  BY <1>3, <1>4

(* A session's context, the scans and the histories keep their types,      *)
(* whatever is sent and whatever fails.                                    *)
THEOREM SessionTypes == Spec => []TypeOK
<1>1. Init => TypeInv
  <2> SUFFICES ASSUME Init PROVE TypeInv
    OBVIOUS
  <2>1. CoherentInv
    BY CoherentInit
  <2> QED
    BY <2>1 DEF TypeInv, TypeOK, Init, CoherentInv, Good
<1>2. TypeInv => TypeOK
  BY DEF TypeInv
<1> QED
  BY <1>1, <1>2, TypeInductive, PTL DEF Spec

(* After its own stop, a session of a gateway that serves any number of    *)
(* them drives nothing until it asks for motion again.                     *)
THEOREM OwnStopIsFinal == Spec => []StopEndsOwnDriving
<1>1. Init => StopEndsOwnDriving
  BY DEF Init, Fresh, StopEndsOwnDriving
<1>2. TypeInv => CoherentInv /\ TypeOK
  BY DEF TypeInv
<1>3. Init => TypeInv
  <2> SUFFICES ASSUME Init PROVE TypeInv
    OBVIOUS
  <2>1. CoherentInv
    BY CoherentInit
  <2> QED
    BY <2>1 DEF TypeInv, TypeOK, Init, CoherentInv, Good
<1> QED
  BY <1>1, <1>2, <1>3, TypeInductive, ArmedInductive, PTL DEF Spec
=============================================================================
