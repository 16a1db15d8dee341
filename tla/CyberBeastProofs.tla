--------------------------- MODULE CyberBeastProofs ---------------------------
(***************************************************************************)
(* What every instance of CyberBeastMotor satisfies: the types; while the  *)
(* device keeps its descriptor, that the endpoint map is that descriptor,  *)
(* whatever is lost, late, repeated or asked again; and, where the threads *)
(* that exchange parameters use distinct endpoints, that a read or a write *)
(* that ends well was one.  Where at most one thread transfers the         *)
(* descriptor, one mishap does not end a call, nor mix two descriptors.    *)
(***************************************************************************)
EXTENDS CyberBeastMotor, TLAPS

USE CyberBeastAssumption DEF CyberBeastAssumption

-----------------------------------------------------------------------------
(***************************************************************************)
(* Types.                                                                  *)
(***************************************************************************)
LEMMA InitTypes == Init => TypeOK
<1> SUFFICES ASSUME Init PROVE TypeOK
  OBVIOUS
<1>1. DeviceTypes
  BY DEF Init, DeviceTypes, SetupType
<1>2. CacheTypes
  <2>1. Empty \in [total : Nat, bytes : Seq(Nat), conflict : BOOLEAN]
    BY DEF Empty
  <2>2. desc \in [total : Nat, bytes : Seq(Nat), conflict : BOOLEAN] /\ map \in Seq(Nat)
    BY <2>1 DEF Init
  <2>3. raw \in [Endpoints -> Seq(Nat)] /\ shape \in [Endpoints -> {None, "more", "last"}]
    BY DEF Init
  <2>4. floats \subseteq Endpoints /\ acks \subseteq Endpoints
    BY DEF Init
  <2> QED
    BY <2>2, <2>3, <2>4 DEF CacheTypes
<1>3. MotorTypes
  BY DEF Init, MotorTypes
<1>4. CallTypes
  <2>1. Zero \in Counters
    BY DEF Zero, Counters
  <2>2. pc \in [Callers -> {"idle", "ask", "wait", "collect"}] /\ op \in [Callers -> Methods]
    BY DEF Init, Methods
  <2>3. todo \in [Callers -> Seq(Phases)] /\ \A c \in Callers : pc[c] = "idle"
    BY DEF Init
  <2>4. local \in [Callers -> Counters] /\ answered \in [Callers -> BOOLEAN]
    BY <2>1 DEF Init
  <2>5. result \in [Callers -> {None, "ok", "err"}] /\ before \in [Callers -> {0, 1}]
    BY DEF Init
  <2> QED
    BY <2>2, <2>3, <2>4, <2>5 DEF CallTypes
<1> QED
  BY <1>1, <1>2, <1>3, <1>4 DEF TypeOK

(* What a caller inside a call is at. *)
LEMMA AtPhase ==
  ASSUME TypeOK, NEW c \in Callers, pc[c] # "idle"
  PROVE  /\ Head(todo[c]) \in Phases /\ Tail(todo[c]) \in Seq(Phases)
         /\ Len(todo[c]) # 1 => Tail(todo[c]) # <<>>
         /\ Kind(c) \in {"desc", "read", "get", "write", "warm_up"}
         /\ Kind(c) # "desc" => On(c) \in Endpoints
<1>1. todo[c] \in Seq(Phases) /\ todo[c] # <<>>
  BY DEF TypeOK, CallTypes
<1>2. Head(todo[c]) \in Phases /\ Tail(todo[c]) \in Seq(Phases)
  BY <1>1
<1>3. \A s \in Seq(Phases) : s # <<>> => Len(s) \in Nat /\ Len(Tail(s)) = Len(s) - 1
  OBVIOUS
<1>4. \A t : t = <<>> => Len(t) = 0
  OBVIOUS
<1>5. ASSUME Len(todo[c]) # 1 PROVE Tail(todo[c]) # <<>>
  <2>1. Len(Tail(todo[c])) # 0
    BY <1>1, <1>3, <1>5
  <2> DEFINE t == Tail(todo[c])
  <2>2. Len(t) # 0
    BY <2>1
  <2> HIDE DEF t
  <2>3. t # <<>>
    BY <2>2, <1>4
  <2> QED
    BY <2>3 DEF t
<1> QED
  BY <1>2, <1>5 DEF Phases, Kind, On

(* The frames of the descriptor that a request starts. *)
ChunkFrame(v, k) == Frame("chunk", None, k, Content(v, k))
Rest(v, from) == [k \in 1 .. (Length(v) - from) |-> ChunkFrame(v, from + k)]

LEMMA StreamIs == \A from : Stream(from) = <<Frame("meta", None, 0, version)>> \o Rest(version, from)
BY DEF Stream, Rest, ChunkFrame

LEMMA FrameTypes ==
  ASSUME NEW v \in Versions, NEW k \in Nat
  PROVE  /\ Frame("meta", None, 0, v) \in Frames /\ ChunkFrame(v, k) \in Frames
         /\ Frame("pos_vel", None, 0, 0) \in Frames
         /\ \A e \in Endpoints, n \in Nat : /\ Frame("param", e, k, n) \in Frames
                                           /\ Frame("ack", e, k, n) \in Frames
BY DEF Frame, ChunkFrame, Frames, Content, Versions

LEMMA StreamTypes ==
  ASSUME version \in Versions, NEW from \in Nat
  PROVE  Stream(from) \in Seq(Frames)
<1> DEFINE n == IF from <= Length(version) THEN Length(version) - from ELSE 0
<1>1. n \in Nat /\ 1 .. (Length(version) - from) = 1 .. n
  BY DEF Length, Versions
<1>2. \A k \in 1 .. n : ChunkFrame(version, from + k) \in Frames
  BY <1>1, FrameTypes
<1>3. Rest(version, from) \in Seq(Frames)
  <2> HIDE DEF n
  <2>1. Rest(version, from) = [k \in 1 .. n |-> ChunkFrame(version, from + k)]
    BY <1>1 DEF Rest
  <2> QED
    BY <1>1, <1>2, <2>1
<1>4. <<Frame("meta", None, 0, version)>> \in Seq(Frames)
  BY FrameTypes
<1>5. \A s, t \in Seq(Frames) : s \o t \in Seq(Frames)
  OBVIOUS
<1> QED
  BY <1>3, <1>4, <1>5, StreamIs

LEMMA AppendFrame ==
  ASSUME NEW s \in Seq(Frames), NEW f \in Frames
  PROVE  Append(s, f) \in Seq(Frames)
OBVIOUS

LEMMA RequestTypes ==
  ASSUME TypeOK, setup' = setup, NEW c \in Callers, pc[c] # "idle", NEW from \in Nat,
         Request(Kind(c), On(c), from)
  PROVE  DeviceTypes'
<1> USE DEF TypeOK, DeviceTypes
<1>1. mishaps' \in Nat
  BY DEF Request
<1>2. CASE UNCHANGED <<deviceVars, toHost>>
  BY <1>1, <1>2 DEF deviceVars
<1>3. CASE Obeys(Kind(c), On(c), from) /\ Kind(c) = "desc"
  <2>1. stream' = Stream(from) /\ UNCHANGED <<version, value, toHost>>
    BY <1>3 DEF Obeys
  <2> QED
    BY <1>1, <1>3, <2>1, StreamTypes
<1>4. CASE Obeys(Kind(c), On(c), from) /\ Kind(c) \in {"read", "get"}
  <2>1. On(c) \in Endpoints
    BY <1>4, AtPhase
  <2>2. Frame("param", On(c), from + 1, Chunk(On(c), from + 1)) \in Frames
    BY <2>1, FrameTypes DEF Chunk
  <2>3. /\ \/ toHost' = Append(toHost, Frame("param", On(c), from + 1, Chunk(On(c), from + 1)))
           \/ toHost' = toHost
        /\ UNCHANGED deviceVars
    BY <1>4 DEF Obeys
  <2> QED
    BY <1>1, <2>2, <2>3, AppendFrame DEF deviceVars
<1>5. CASE Obeys(Kind(c), On(c), from) /\ Kind(c) = "write"
  <2>1. On(c) \in Endpoints
    BY <1>5, AtPhase
  <2>2. Frame("ack", On(c), 0, 0) \in Frames
    BY <2>1, FrameTypes
  <2>3. /\ toHost' = Append(toHost, Frame("ack", On(c), 0, 0))
        /\ value' = 1 - value /\ UNCHANGED <<version, stream>>
    BY <1>5 DEF Obeys
  <2> QED
    BY <1>1, <2>2, <2>3, AppendFrame
<1>6. CASE Obeys(Kind(c), On(c), from) /\ Kind(c) = "warm_up"
  <2>1. Frame("pos_vel", None, 0, 0) \in Frames
    BY FrameTypes
  <2>2. toHost' = Append(toHost, Frame("pos_vel", None, 0, 0)) /\ UNCHANGED deviceVars
    BY <1>6 DEF Obeys
  <2> QED
    BY <1>1, <2>1, <2>2, AppendFrame DEF deviceVars
<1> QED
  BY <1>2, <1>3, <1>4, <1>5, <1>6, AtPhase DEF Request

LEMMA ForgetsTypes ==
  ASSUME TypeOK, NEW c \in Callers, pc[c] # "idle", NEW from, Forgets(c, from),
         map' = map, desc' \in [total : Nat, bytes : Seq(Nat), conflict : BOOLEAN]
  PROVE  CacheTypes'
<1>1. /\ \/ /\ raw' = [raw EXCEPT ![On(c)] = <<>>] /\ shape' = [shape EXCEPT ![On(c)] = None]
           /\ floats' = floats \ {On(c)}
        \/ UNCHANGED <<raw, shape, floats>>
      /\ acks' = IF Kind(c) = "write" THEN acks \ {On(c)} ELSE acks
  BY DEF Forgets
<1>2. raw' \in [Endpoints -> Seq(Nat)]
  <2>1. raw \in [Endpoints -> Seq(Nat)]
    BY DEF TypeOK, CacheTypes
  <2>2. <<>> \in Seq(Nat)
    OBVIOUS
  <2> DEFINE none == <<>>  S == Seq(Nat)
  <2>3. none \in S /\ raw \in [Endpoints -> S]
    BY <2>1, <2>2
  <2>4. raw' = [raw EXCEPT ![On(c)] = none] \/ raw' = raw
    BY <1>1
  <2> HIDE DEF none, S
  <2>5. raw' \in [Endpoints -> S]
    BY <2>3, <2>4
  <2> QED
    BY <2>5 DEF S
<1>3. shape' \in [Endpoints -> {None, "more", "last"}]
  BY <1>1 DEF TypeOK, CacheTypes
<1>4. floats' \subseteq Endpoints /\ acks' \subseteq Endpoints
  BY <1>1 DEF TypeOK, CacheTypes
<1> QED
  BY <1>2, <1>3, <1>4 DEF TypeOK, CacheTypes

LEMMA AskTypes ==
  ASSUME TypeOK, setup' = setup, map' = map, NEW c \in Callers, pc[c] # "idle", NEW from \in Nat,
         Ask(c, from), desc' \in [total : Nat, bytes : Seq(Nat), conflict : BOOLEAN]
  PROVE  DeviceTypes' /\ CacheTypes' /\ answered' \in [Callers -> BOOLEAN]
<1>1. answered' \in [Callers -> BOOLEAN]
  BY DEF Ask, TypeOK, CallTypes
<1> QED
  BY <1>1, RequestTypes, ForgetsTypes DEF Ask

LEMMA ReturnsTypes ==
  ASSUME TypeOK, NEW c \in Callers, NEW r \in {"ok", "err"}, Returns(c, r),
         answered' \in [Callers -> BOOLEAN]
  PROVE  CallTypes'
<1>1. Zero \in Counters
  BY DEF Zero, Counters
<1>2. local' \in [Callers -> Counters]
  BY <1>1 DEF Returns, TypeOK, CallTypes
<1>3. todo' \in [Callers -> Seq(Phases)] /\ \A o \in Callers : pc'[o] # "idle" => todo'[o] # <<>>
  BY DEF Returns, TypeOK, CallTypes
<1>4. pc' \in [Callers -> {"idle", "ask", "wait", "collect"}] /\ op' \in [Callers -> Methods]
  BY DEF Returns, TypeOK, CallTypes, Methods
<1>5. result' \in [Callers -> {None, "ok", "err"}] /\ before' \in [Callers -> {0, 1}]
  BY DEF Returns, TypeOK, CallTypes
<1> QED
  BY <1>2, <1>3, <1>4, <1>5 DEF CallTypes

LEMMA ContinuesTypes ==
  ASSUME TypeOK, NEW c \in Callers, NEW rest \in Seq(Phases), rest # <<>>, Continues(c, rest),
         answered' \in [Callers -> BOOLEAN]
  PROVE  CallTypes'
<1>1. Zero \in Counters
  BY DEF Zero, Counters
<1>2. local' \in [Callers -> Counters]
  BY <1>1 DEF Continues, TypeOK, CallTypes
<1>3. todo' \in [Callers -> Seq(Phases)] /\ \A o \in Callers : pc'[o] # "idle" => todo'[o] # <<>>
  BY DEF Continues, TypeOK, CallTypes
<1>4. pc' \in [Callers -> {"idle", "ask", "wait", "collect"}]
  BY DEF Continues, TypeOK, CallTypes
<1> QED
  BY <1>2, <1>3, <1>4 DEF Continues, TypeOK, CallTypes

LEMMA GearPhaseTypes == GearPhase \in Seq(Phases) /\ GearPhase # <<>>
<1>1. Phase("read", "gear") \in Phases
  BY DEF Phase, Phases, Endpoints, Declared
<1> QED
  BY <1>1 DEF GearPhase

LEMMA FailsTypes ==
  ASSUME TypeOK, NEW c \in Callers, PhaseFails(c), answered' \in [Callers -> BOOLEAN]
  PROVE  CallTypes' /\ MotorTypes'
<1>1. MotorTypes'
  BY DEF PhaseFails, TypeOK, MotorTypes
<1>2. Returns(c, "err") \/ Returns(c, "ok") \/ Continues(c, GearPhase)
  BY DEF PhaseFails
<1> QED
  BY <1>1, <1>2, ReturnsTypes, ContinuesTypes, GearPhaseTypes

LEMMA SucceedsTypes ==
  ASSUME TypeOK, NEW c \in Callers, pc[c] # "idle", PhaseSucceeds(c),
         answered' \in [Callers -> BOOLEAN]
  PROVE  CallTypes' /\ MotorTypes'
<1>1. MotorTypes'
  BY DEF PhaseSucceeds, TypeOK, MotorTypes
<1>2. Returns(c, "ok") \/ (Len(todo[c]) # 1 /\ Continues(c, Tail(todo[c])))
  BY DEF PhaseSucceeds
<1> QED
  BY <1>1, <1>2, ReturnsTypes, ContinuesTypes, AtPhase

DescType == [total : Nat, bytes : Seq(Nat), conflict : BOOLEAN]

LEMMA RecordTypes ==
  ASSUME TypeOK, NEW f \in Frames
  PROVE  RecordMeta(f) \in DescType /\ RecordChunk(f) \in DescType
<1> USE DEF DescType
<1>1. desc \in DescType /\ f.v \in Nat
  BY DEF TypeOK, CacheTypes, Frames
<1>2. RecordMeta(f) \in DescType
  <2>1. Length(f.v) \in Nat
    BY <1>1 DEF Length
  <2> QED
    BY <1>1, <2>1 DEF RecordMeta
<1>3. RecordChunk(f) \in DescType
  <2>1. Append(desc.bytes, f.v) \in Seq(Nat)
    BY <1>1
  <2> QED
    BY <1>1, <2>1 DEF RecordChunk
<1> QED
  BY <1>2, <1>3

LEMMA FeedbackTypes == ASSUME TypeOK, ProcessFeedbackFrame PROVE TypeOK'
<1> DEFINE f == Head(toHost)
<1>1. f \in Frames /\ toHost' \in Seq(Frames)
  BY DEF ProcessFeedbackFrame, TypeOK, DeviceTypes
<1>2. f.kind = "param" \/ f.kind = "ack" => f.e \in Endpoints
  BY <1>1 DEF Frames
<1>3. f.v \in Nat
  BY <1>1 DEF Frames
<1>4. desc' \in DescType
  <2>1. desc' \in {RecordMeta(f), RecordChunk(f), desc}
    BY DEF ProcessFeedbackFrame
  <2> HIDE DEF f
  <2> QED
    BY <1>1, <2>1, RecordTypes DEF DescType, TypeOK, CacheTypes
<1>5. /\ \/ /\ f.kind = "param" /\ raw' = [raw EXCEPT ![f.e] = Append(@, f.v)]
            /\ shape' = [shape EXCEPT ![f.e] = IF f.i < Width(f.e) THEN "more" ELSE "last"]
            /\ floats' = floats \/ floats' = floats \cup {f.e}
         \/ UNCHANGED <<raw, shape, floats>>
      /\ acks' = acks \/ (f.kind = "ack" /\ acks' = acks \cup {f.e})
  BY DEF ProcessFeedbackFrame
<1>6. answered' \in [Callers -> BOOLEAN]
  <2>1. \A c \in Callers : Answers(c, f) \in BOOLEAN
    BY DEF Answers, TypeOK, CallTypes
  <2> QED
    BY <2>1 DEF ProcessFeedbackFrame
<1>7. UNCHANGED <<setup, deviceVars, mishaps, map, motor, calls>>
  BY DEF ProcessFeedbackFrame
<1> HIDE DEF f
<1>8. CacheTypes'
  <2>1. raw' \in [Endpoints -> Seq(Nat)]
    <3>1. raw \in [Endpoints -> Seq(Nat)]
      BY DEF TypeOK, CacheTypes
    <3>2. \A e \in Endpoints : Append(raw[e], f.v) \in Seq(Nat)
      BY <1>3, <3>1
    <3> QED
      BY <1>2, <1>5, <3>1, <3>2
  <2>2. shape' \in [Endpoints -> {None, "more", "last"}]
    BY <1>5 DEF TypeOK, CacheTypes
  <2>3. floats' \subseteq Endpoints /\ acks' \subseteq Endpoints
    BY <1>2, <1>5 DEF TypeOK, CacheTypes
  <2> QED
    BY <1>4, <1>7, <2>1, <2>2, <2>3 DEF CacheTypes, TypeOK, DescType
<1> QED
  BY <1>1, <1>6, <1>7, <1>8 DEF TypeOK, DeviceTypes, MotorTypes, CallTypes, deviceVars, motor, calls

LEMMA ScriptTypes ==
  ASSUME NEW m \in Methods, NEW e \in {"narrow", "wide"}, m = "load" => Load # <<>>
  PROVE  Script(m, e) \in Seq(Phases) /\ Script(m, e) # <<>>
<1>1. /\ Phase("desc", None) \in Phases /\ Phase("read", "range") \in Phases
      /\ Phase("read", "last_range") \in Phases /\ Phase("read", "gear") \in Phases
      /\ m \notin {"connect", "load"} => Phase(m, e) \in Phases
  BY DEF Phase, Phases, Endpoints, Declared, Methods
<1>2. CASE m = "connect"
  <2>1. Script(m, e) = <<Phase("desc", None), Phase("read", "range"), Phase("read", "last_range"),
                         Phase("read", "gear")>>
    BY <1>2 DEF Script
  <2> QED
    BY <1>1, <2>1
<1>3. CASE m = "load"
  <2>1. Script(m, e) = <<Phase("desc", None)>>
    BY <1>3 DEF Script, Load
  <2> QED
    BY <1>1, <2>1
<1>4. CASE m \notin {"connect", "load"}
  <2>1. Script(m, e) = <<Phase(m, e)>>
    BY <1>4 DEF Script
  <2> QED
    BY <1>1, <1>4, <2>1
<1> QED
  BY <1>2, <1>3, <1>4

LEMMA NewCallTypes == ASSUME TypeOK, NEW c \in Callers, NewCall(c) PROVE TypeOK'
<1>1. PICK m \in setup.calls[c] :
        /\ UNCHANGED <<setup, deviceVars, toHost, mishaps, desc, map, params, answered>>
        /\ UNCHANGED <<warmed, ranges, from_device, gear, before>>
        /\ registered' = (registered \/ m = "connect")
        /\ \/ /\ result' = [result EXCEPT ![c] = IF m = "connect" THEN "err" ELSE "ok"]
              /\ UNCHANGED <<pc, op, todo, local>>
           \/ /\ ~(m = "load" /\ Load = <<>>)
              /\ pc' = [pc EXCEPT ![c] = "ask"] /\ op' = [op EXCEPT ![c] = m]
              /\ todo' = [todo EXCEPT ![c] = Script(m, setup.on[c])]
              /\ result' = [result EXCEPT ![c] = None]
              /\ UNCHANGED local
  BY DEF NewCall
<1>2. m \in Methods /\ setup.on[c] \in {"narrow", "wide"}
  BY DEF TypeOK, DeviceTypes, SetupType
<1>3. DeviceTypes' /\ CacheTypes' /\ MotorTypes'
  BY <1>1 DEF TypeOK, DeviceTypes, CacheTypes, MotorTypes, deviceVars, params
<1>4. CallTypes'
  <2>1. CASE UNCHANGED <<pc, op, todo, local>> /\ \E r \in {"ok", "err"} : result' = [result EXCEPT ![c] = r]
    BY <1>1, <2>1 DEF TypeOK, CallTypes
  <2>2. CASE /\ ~(m = "load" /\ Load = <<>>)
             /\ pc' = [pc EXCEPT ![c] = "ask"] /\ op' = [op EXCEPT ![c] = m]
             /\ todo' = [todo EXCEPT ![c] = Script(m, setup.on[c])]
             /\ result' = [result EXCEPT ![c] = None] /\ UNCHANGED local
    <3> DEFINE s == Script(m, setup.on[c])
    <3>1. s \in Seq(Phases) /\ s # <<>>
      BY <1>2, <2>2, ScriptTypes
    <3> HIDE DEF s
    <3>2. todo' = [todo EXCEPT ![c] = s]
      BY <2>2 DEF s
    <3>3. todo' \in [Callers -> Seq(Phases)] /\ \A o \in Callers : pc'[o] # "idle" => todo'[o] # <<>>
      BY <2>2, <3>1, <3>2 DEF TypeOK, CallTypes
    <3>4. /\ pc' \in [Callers -> {"idle", "ask", "wait", "collect"}] /\ op' \in [Callers -> Methods]
          /\ result' \in [Callers -> {None, "ok", "err"}]
      BY <1>2, <2>2 DEF TypeOK, CallTypes
    <3> QED
      BY <1>1, <2>2, <3>3, <3>4 DEF TypeOK, CallTypes
  <2> QED
    BY <1>1, <2>1, <2>2
<1> QED
  BY <1>3, <1>4 DEF TypeOK

(* A step that only counts for its caller. *)
LEMMA CountsTypes ==
  ASSUME TypeOK, NEW c \in Callers, pc[c] # "idle", NEW l \in Counters,
         local' = [local EXCEPT ![c] = l],
         pc' = pc \/ pc' = [pc EXCEPT ![c] = "wait"] \/ pc' = [pc EXCEPT ![c] = "collect"],
         UNCHANGED <<op, todo, result>>, answered' \in [Callers -> BOOLEAN],
         before' \in [Callers -> {0, 1}]
  PROVE  CallTypes'
<1>1. local' \in [Callers -> Counters]
  BY DEF TypeOK, CallTypes
<1>2. /\ pc' \in [Callers -> {"idle", "ask", "wait", "collect"}]
      /\ \A o \in Callers : pc'[o] # "idle" => pc[o] # "idle"
  BY DEF TypeOK, CallTypes
<1> QED
  BY <1>1, <1>2 DEF TypeOK, CallTypes

LEMMA CountersTypes ==
  ASSUME NEW l \in Counters, NEW n \in Nat, NEW k \in Nat
  PROVE  /\ [l EXCEPT !.tries = 1, !.requests = 1] \in Counters
         /\ [l EXCEPT !.tries = @ + 1] \in Counters /\ [l EXCEPT !.asked = n] \in Counters
         /\ [l EXCEPT !.tries = @ + 1, !.asked = n] \in Counters
         /\ [l EXCEPT !.seen = n, !.stuck = 0] \in Counters
         /\ [l EXCEPT !.requests = @ + 1, !.stuck = k, !.asked = n] \in Counters
         /\ [Zero EXCEPT !.tries = 1, !.requests = 1, !.restarts = k, !.seen = n] \in Counters
<1>1. /\ l.tries \in Nat /\ l.requests \in Nat /\ l.restarts \in Nat /\ l.stuck \in Nat
      /\ l.seen \in Nat /\ l.asked \in Nat
  BY DEF Counters
<1>2. [l EXCEPT !.tries = 1, !.requests = 1] \in Counters
  BY DEF Counters
<1>3. [l EXCEPT !.tries = @ + 1] \in Counters /\ [l EXCEPT !.asked = n] \in Counters
  BY <1>1 DEF Counters
<1>4. [l EXCEPT !.tries = @ + 1, !.asked = n] \in Counters
  <2>1. [l EXCEPT !.tries = @ + 1, !.asked = n] = [[l EXCEPT !.tries = @ + 1] EXCEPT !.asked = n]
    OBVIOUS
  <2> QED
    BY <1>3, <2>1 DEF Counters
<1>5. [l EXCEPT !.seen = n, !.stuck = 0] \in Counters
  BY DEF Counters
<1>6. [l EXCEPT !.requests = @ + 1, !.stuck = k, !.asked = n] \in Counters
  <2>1. [l EXCEPT !.requests = @ + 1] \in Counters
    BY <1>1 DEF Counters
  <2>2. [[l EXCEPT !.requests = @ + 1] EXCEPT !.stuck = k] \in Counters
    BY <2>1 DEF Counters
  <2>3. [l EXCEPT !.requests = @ + 1, !.stuck = k, !.asked = n]
          = [[[l EXCEPT !.requests = @ + 1] EXCEPT !.stuck = k] EXCEPT !.asked = n]
    OBVIOUS
  <2> QED
    BY <2>2, <2>3 DEF Counters
<1>7. [Zero EXCEPT !.tries = 1, !.requests = 1, !.restarts = k, !.seen = n] \in Counters
  BY DEF Counters, Zero
<1> QED
  BY <1>2, <1>3, <1>4, <1>5, <1>6, <1>7

(* The caller's counters, and what the transfer has received. *)
LEMMA Counts ==
  ASSUME TypeOK, NEW c \in Callers
  PROVE  /\ local[c] \in Counters /\ Received \in Nat /\ desc.total \in Nat
         /\ \A e \in Endpoints : Len(raw[e]) \in Nat
         /\ desc \in [total : Nat, bytes : Seq(Nat), conflict : BOOLEAN]
         /\ answered \in [Callers -> BOOLEAN] /\ before \in [Callers -> {0, 1}]
<1>1. desc \in [total : Nat, bytes : Seq(Nat), conflict : BOOLEAN] /\ desc.bytes \in Seq(Nat)
  BY DEF TypeOK, CacheTypes
<1>2. \A e \in Endpoints : raw[e] \in Seq(Nat)
  BY DEF TypeOK, CacheTypes
<1> QED
  BY <1>1, <1>2 DEF Received, TypeOK, CallTypes

LEMMA EmptyTypes == Empty \in [total : Nat, bytes : Seq(Nat), conflict : BOOLEAN]
BY DEF Empty

LEMMA FirstAskTypes == ASSUME TypeOK, NEW c \in Callers, FirstAsk(c) PROVE TypeOK'
<1>1. /\ pc[c] # "idle" /\ Ask(c, 0) /\ setup' = setup /\ map' = map
      /\ desc' = Empty \/ desc' = desc
      /\ local' = [local EXCEPT ![c] = [local[c] EXCEPT !.tries = 1, !.requests = 1]]
      /\ pc' = [pc EXCEPT ![c] = "wait"] /\ before' = [before EXCEPT ![c] = value]
      /\ UNCHANGED <<motor, op, todo, result>>
  BY DEF FirstAsk, TypeOK, CallTypes
<1>2. DeviceTypes' /\ CacheTypes' /\ answered' \in [Callers -> BOOLEAN]
  BY <1>1, AskTypes, EmptyTypes, Counts
<1>3. before' \in [Callers -> {0, 1}]
  BY <1>1 DEF TypeOK, CallTypes, DeviceTypes
<1>4. CallTypes'
  BY <1>1, <1>2, <1>3, Counts, CountersTypes, CountsTypes
<1> QED
  BY <1>1, <1>2, <1>4 DEF TypeOK, MotorTypes, motor

LEMMA FailingTypes ==
  ASSUME TypeOK, NEW c \in Callers, PhaseFails(c),
         UNCHANGED <<setup, deviceVars, toHost, mishaps, desc, map, params, answered>>
  PROVE  TypeOK'
<1>1. DeviceTypes' /\ CacheTypes'
  BY DEF TypeOK, DeviceTypes, CacheTypes, deviceVars, params
<1>2. answered' \in [Callers -> BOOLEAN]
  BY Counts
<1> QED
  BY <1>1, <1>2, FailsTypes DEF TypeOK

LEMMA CollectTypes == ASSUME TypeOK, NEW c \in Callers, Collect(c) PROVE TypeOK'
<1>1. pc[c] # "idle" /\ UNCHANGED <<setup, deviceVars, toHost, mishaps, desc, params, answered>>
  BY DEF Collect
<1>2. CASE UNCHANGED map /\ PhaseFails(c)
  BY <1>1, <1>2, FailingTypes
<1>3. CASE map' = desc.bytes /\ PhaseSucceeds(c)
  <2>1. DeviceTypes' /\ CacheTypes'
    BY <1>1, <1>3 DEF TypeOK, DeviceTypes, CacheTypes, deviceVars, params
  <2>2. answered' \in [Callers -> BOOLEAN]
    BY <1>1, Counts
  <2> QED
    BY <1>1, <1>3, <2>1, <2>2, SucceedsTypes DEF TypeOK
<1> QED
  BY <1>2, <1>3 DEF Collect

LEMMA ConflictTypes == ASSUME TypeOK, NEW c \in Callers, DescConflict(c) PROVE TypeOK'
<1>1. CASE local[c].restarts >= MaxRestarts
  BY <1>1, FailingTypes DEF DescConflict
<1>2. CASE ~(local[c].restarts >= MaxRestarts)
  <2>1. /\ pc[c] # "idle" /\ Ask(c, 0) /\ setup' = setup /\ map' = map /\ desc' = Empty
        /\ local' = [local EXCEPT ![c] = [Zero EXCEPT !.tries = 1, !.requests = 1,
                       !.restarts = local[c].restarts + 1, !.seen = local[c].seen]]
        /\ UNCHANGED <<motor, pc, op, todo, result, before>>
    BY <1>2 DEF DescConflict, Receiving
  <2>2. local[c].restarts + 1 \in Nat /\ local[c].seen \in Nat
    BY Counts DEF Counters
  <2>3. DeviceTypes' /\ CacheTypes' /\ answered' \in [Callers -> BOOLEAN]
    BY <2>1, AskTypes, EmptyTypes
  <2>4. CallTypes'
    <3> DEFINE l == [Zero EXCEPT !.tries = 1, !.requests = 1,
                       !.restarts = local[c].restarts + 1, !.seen = local[c].seen]
    <3>1. l \in Counters
      BY <2>2, Counts, CountersTypes
    <3> HIDE DEF l
    <3>2. local' = [local EXCEPT ![c] = l]
      BY <2>1 DEF l
    <3> QED
      BY <2>1, <2>3, <3>1, <3>2, Counts, CountsTypes
  <2> QED
    BY <2>1, <2>3, <2>4 DEF TypeOK, MotorTypes, motor
<1> QED
  BY <1>1, <1>2

LEMMA GrowsTypes ==
  ASSUME TypeOK, NEW c \in Callers, DescGrows(c) \/ DescComplete(c)
  PROVE  TypeOK'
<1>1. /\ pc[c] # "idle"
      /\ UNCHANGED <<setup, deviceVars, toHost, mishaps, desc, map, params, motor, op, todo, result,
                      before, answered>>
      /\ pc' = [pc EXCEPT ![c] = "wait"] \/ pc' = [pc EXCEPT ![c] = "collect"]
      /\ \/ local' = [local EXCEPT ![c] = [local[c] EXCEPT !.seen = Received, !.stuck = 0]]
         \/ local' = [local EXCEPT ![c] = local[c]]
  BY DEF DescGrows, DescComplete, Receiving, TypeOK, CallTypes
<1>2. \E l \in Counters : local' = [local EXCEPT ![c] = l]
  BY <1>1, Counts, CountersTypes
<1>3. CallTypes'
  BY <1>1, <1>2, Counts, CountsTypes
<1> QED
  BY <1>1, <1>3 DEF TypeOK, DeviceTypes, CacheTypes, MotorTypes, deviceVars, params, motor

LEMMA AsksTypes == ASSUME TypeOK, NEW c \in Callers, DescAsks(c) PROVE TypeOK'
<1> DEFINE stuck == IF Received = local[c].asked THEN local[c].stuck + 1 ELSE 0
           gives_up == IF desc.total = 0 THEN local[c].tries >= MaxStart
                       ELSE stuck >= MaxStuck \/ local[c].requests >= MaxRequests
<1>1. CASE gives_up
  BY <1>1, FailingTypes DEF DescAsks
<1>2. CASE ~gives_up
  <2>1. stuck \in Nat
    BY Counts DEF Counters
  <2>2. /\ pc[c] # "idle" /\ Ask(c, IF desc.total = 0 THEN 0 ELSE Missing(c))
        /\ \/ local' = [local EXCEPT ![c] = [local[c] EXCEPT !.tries = @ + 1, !.asked = Received]]
           \/ local' = [local EXCEPT ![c] =
                         [local[c] EXCEPT !.requests = @ + 1, !.stuck = stuck, !.asked = Received]]
        /\ pc' = [pc EXCEPT ![c] = "wait"] \/ pc' = [pc EXCEPT ![c] = "collect"]
        /\ UNCHANGED <<motor, op, todo, result, before>> /\ UNCHANGED <<setup, desc, map>>
    BY <1>2 DEF DescAsks, Receiving
  <2> HIDE DEF stuck, gives_up
  <2>3. \E l \in Counters : local' = [local EXCEPT ![c] = l]
    BY <2>1, <2>2, Counts, CountersTypes
  <2>4. (IF desc.total = 0 THEN 0 ELSE Missing(c)) \in Nat
    BY Counts DEF Missing
  <2>5. DeviceTypes' /\ CacheTypes' /\ answered' \in [Callers -> BOOLEAN]
    BY <2>2, <2>4, AskTypes, Counts
  <2>6. CallTypes'
    BY <2>2, <2>3, <2>5, Counts, CountsTypes
  <2> QED
    BY <2>2, <2>5, <2>6 DEF TypeOK, MotorTypes, motor
<1> QED
  BY <1>1, <1>2

LEMMA WaitsTypes ==
  ASSUME TypeOK, NEW c \in Callers, ReadContinues(c) \/ AskAgain(c)
  PROVE  TypeOK'
<1>1. PICK from \in {Len(raw[On(c)]), local[c].asked} :
        /\ pc[c] # "idle" /\ Kind(c) \in {"read", "warm_up"} /\ Ask(c, from)
        /\ \/ Kind(c) = "read" /\ local' = [local EXCEPT ![c] = [local[c] EXCEPT !.asked = Len(raw[On(c)])]]
           \/ from = local[c].asked /\ local' = [local EXCEPT ![c] = [local[c] EXCEPT !.tries = @ + 1]]
        /\ Kind(c) = "read" \/ from = local[c].asked
        /\ UNCHANGED <<setup, desc, map, motor, pc, op, todo, result, before>>
  BY DEF ReadContinues, HasMore, AskAgain, Waiting, TypeOK, CallTypes
<1>2. Kind(c) = "read" => Len(raw[On(c)]) \in Nat
  BY <1>1, AtPhase, Counts
<1>3. from \in Nat
  BY <1>1, <1>2, Counts DEF Counters
<1>4. \E l \in Counters : local' = [local EXCEPT ![c] = l]
  BY <1>1, <1>2, Counts, CountersTypes
<1>5. DeviceTypes' /\ CacheTypes' /\ answered' \in [Callers -> BOOLEAN]
  BY <1>1, <1>3, AskTypes, Counts
<1>6. CallTypes'
  BY <1>1, <1>4, <1>5, Counts, CountsTypes
<1> QED
  BY <1>1, <1>5, <1>6 DEF TypeOK, MotorTypes, motor

LEMMA GotAnswerTypes == ASSUME TypeOK, NEW c \in Callers, GotAnswer(c) PROVE TypeOK'
<1>1. /\ pc[c] # "idle" /\ PhaseSucceeds(c)
      /\ UNCHANGED <<setup, deviceVars, toHost, mishaps, desc, map, params, answered>>
  BY DEF GotAnswer, Waiting
<1>2. DeviceTypes' /\ CacheTypes' /\ answered' \in [Callers -> BOOLEAN]
  BY <1>1 DEF TypeOK, DeviceTypes, CacheTypes, CallTypes, deviceVars, params
<1> QED
  BY <1>1, <1>2, SucceedsTypes DEF TypeOK

LEMMA TypeInductive == ASSUME TypeOK, [Next]_vars PROVE TypeOK'
<1>1. ASSUME NEW c \in Callers, NewCall(c) \/ Step(c) PROVE TypeOK'
  <2>1. CASE Skips(c) \/ SendFails(c) \/ TimesOut(c)
    BY <2>1, FailingTypes DEF Skips, SendFails, TimesOut
  <2> QED
    BY <1>1, <2>1, NewCallTypes, FirstAskTypes, ConflictTypes, GrowsTypes, AsksTypes, CollectTypes,
       GotAnswerTypes, WaitsTypes DEF Step
<1>2. CASE DeviceStreams
  <2>1. toHost' \in Seq(Frames) /\ stream' \in Seq(Frames)
    BY <1>2 DEF DeviceStreams, TypeOK, DeviceTypes
  <2> QED
    BY <1>2, <2>1 DEF DeviceStreams, TypeOK, DeviceTypes, CacheTypes, MotorTypes, CallTypes,
       params, motor, calls
<1>3. CASE LoseFrame
  <2>1. toHost' \in Seq(Frames)
    BY <1>3 DEF LoseFrame, TypeOK, DeviceTypes
  <2> QED
    BY <1>3, <2>1 DEF LoseFrame, TypeOK, DeviceTypes, CacheTypes, MotorTypes, CallTypes,
       deviceVars, params, motor, calls
<1>4. CASE Reflash
  <2>1. stream' \in Seq(Frames)
    BY <1>4 DEF Reflash
  <2> QED
    BY <1>4, <2>1 DEF Reflash, TypeOK, DeviceTypes, CacheTypes, MotorTypes, CallTypes,
       params, motor, calls
<1>5. CASE UNCHANGED vars
  BY <1>5 DEF vars, TypeOK, DeviceTypes, CacheTypes, MotorTypes, CallTypes, deviceVars, params,
     motor, calls
<1> QED
  BY <1>1, <1>2, <1>3, <1>4, <1>5, FeedbackTypes DEF Next

(* Every state has the types declared, whatever the device sends: frames   *)
(* that are late, repeated, lost or of another descriptor put nothing else *)
(* into the caches (record_response, JsonDescCache, ParamCache).           *)
THEOREM MotorHasTypes == SafeSpec => []TypeOK
<1>1. TypeOK /\ [Next]_vars => TypeOK'
  BY TypeInductive
<1> QED
  BY InitTypes, <1>1, PTL DEF SafeSpec

-----------------------------------------------------------------------------
(***************************************************************************)
(* The descriptor.  As long as the device keeps one, each frame on its way *)
(* tells part of it, so what is recorded is a beginning of it, and what    *)
(* counts as complete is all of it.                                        *)
(***************************************************************************)
Sound(f) ==
  /\ f.kind = "meta" => f.v = version
  /\ f.kind = "chunk" => f.i \in 1 .. Length(version) /\ f.v = Content(version, f.i)

WireSound ==
  /\ \A k \in 1 .. Len(toHost) : Sound(toHost[k])
  /\ \A k \in 1 .. Len(stream) : Sound(stream[k])

DescSound ==
  /\ desc.total \in {0, Length(version)} /\ Len(desc.bytes) <= Length(version)
  /\ \A k \in 1 .. Len(desc.bytes) : desc.bytes[k] = Content(version, k)

MapSound == map = <<>> \/ map = Descriptor(version)

WholeInv == TypeOK /\ WireSound /\ DescSound /\ MapSound

LEMMA InitWhole == Init => WholeInv
<1> SUFFICES ASSUME Init PROVE WholeInv
  OBVIOUS
<1>1. toHost = <<>> /\ stream = <<>> /\ desc.total = 0 /\ desc.bytes = <<>> /\ map = <<>>
  BY DEF Init, Empty
<1>2. TypeOK
  BY InitTypes
<1>3. Length(version) \in Nat
  BY <1>2 DEF TypeOK, DeviceTypes, Length, Versions
<1> QED
  BY <1>1, <1>2, <1>3 DEF WholeInv, WireSound, DescSound, MapSound

LEMMA SoundFrames ==
  ASSUME NEW k \in 1 .. Length(version)
  PROVE  /\ Sound(Frame("meta", None, 0, version)) /\ Sound(ChunkFrame(version, k))
         /\ Sound(Frame("pos_vel", None, 0, 0))
         /\ \A e, i, n : Sound(Frame("param", e, i, n)) /\ Sound(Frame("ack", e, i, n))
BY DEF Sound, Frame, ChunkFrame

LEMMA StreamParts ==
  ASSUME version \in Versions, NEW from \in Nat, NEW k \in 1 .. Len(Stream(from))
  PROVE  \/ Stream(from)[k] = Frame("meta", None, 0, version)
         \/ \E i \in 1 .. Length(version) : Stream(from)[k] = ChunkFrame(version, i)
<1> DEFINE n == IF from <= Length(version) THEN Length(version) - from ELSE 0
           r == Rest(version, from)
           m == <<Frame("meta", None, 0, version)>>
<1>1. n \in Nat /\ 1 .. (Length(version) - from) = 1 .. n /\ Length(version) \in Nat
      /\ \A i \in 1 .. n : from + i \in 1 .. Length(version)
  BY DEF Length, Versions
<1>2. \A i \in 1 .. n : ChunkFrame(version, from + i) \in Frames
  BY <1>1, FrameTypes
<1> HIDE DEF n
<1>3. r = [i \in 1 .. n |-> ChunkFrame(version, from + i)]
  BY <1>1 DEF Rest
<1>4. r \in Seq(Frames) /\ Len(r) = n /\ \A i \in 1 .. n : r[i] = ChunkFrame(version, from + i)
  BY <1>1, <1>2, <1>3
<1>5. m \in Seq(Frames) /\ Len(m) = 1 /\ m[1] = Frame("meta", None, 0, version)
  BY FrameTypes
<1>6. Stream(from) = m \o r
  BY StreamIs
<1> HIDE DEF m, r
<1>7. Len(m \o r) = 1 + n /\ \A i \in 1 .. 1 + n : (m \o r)[i] = IF i <= 1 THEN m[i] ELSE r[i - 1]
  <2>1. \A s, t \in Seq(Frames) :
          /\ Len(s \o t) = Len(s) + Len(t)
          /\ \A i \in 1 .. Len(s) + Len(t) : (s \o t)[i] = IF i <= Len(s) THEN s[i] ELSE t[i - Len(s)]
    OBVIOUS
  <2>2. /\ Len(m \o r) = Len(m) + Len(r)
        /\ \A i \in 1 .. Len(m) + Len(r) : (m \o r)[i] = IF i <= Len(m) THEN m[i] ELSE r[i - Len(m)]
    BY <1>4, <1>5, <2>1
  <2> QED
    BY <1>4, <1>5, <2>2
<1>8. CASE k = 1
  BY <1>1, <1>5, <1>6, <1>7, <1>8
<1>9. CASE k # 1
  <2>1. k \in 1 .. 1 + n
    BY <1>6, <1>7
  <2>2. k - 1 \in 1 .. n /\ Stream(from)[k] = r[k - 1]
    <3>1. n \in Nat
      BY <1>1
    <3>2. k \in Nat /\ ~(k <= 1) /\ k - 1 \in 1 .. n
      BY <3>1, <1>9, <2>1
    <3>3. Stream(from)[k] = IF k <= 1 THEN m[k] ELSE r[k - 1]
      BY <1>6, <1>7, <2>1
    <3> QED
      BY <3>2, <3>3
  <2> QED
    BY <1>1, <1>4, <2>2
<1> QED
  BY <1>8, <1>9

LEMMA StreamSound ==
  ASSUME version \in Versions, NEW from \in Nat, NEW k \in 1 .. Len(Stream(from))
  PROVE  Sound(Stream(from)[k])
<1>1. \/ Stream(from)[k] = Frame("meta", None, 0, version)
      \/ \E i \in 1 .. Length(version) : Stream(from)[k] = ChunkFrame(version, i)
  BY StreamParts
<1>2. 1 \in 1 .. Length(version)
  BY DEF Length, Versions
<1> QED
  BY <1>1, <1>2, SoundFrames

LEMMA AppendSound ==
  ASSUME NEW s \in Seq(Frames), NEW f \in Frames, Sound(f), \A k \in 1 .. Len(s) : Sound(s[k])
  PROVE  \A k \in 1 .. Len(Append(s, f)) : Sound(Append(s, f)[k])
<1>1. /\ Len(Append(s, f)) = Len(s) + 1 /\ Len(s) \in Nat
      /\ \A k \in 1 .. Len(s) + 1 : Append(s, f)[k] = IF k <= Len(s) THEN s[k] ELSE f
  OBVIOUS
<1> QED
  BY <1>1

LEMMA TailSound ==
  ASSUME NEW s \in Seq(Frames), s # <<>>, \A k \in 1 .. Len(s) : Sound(s[k])
  PROVE  Sound(Head(s)) /\ \A k \in 1 .. Len(Tail(s)) : Sound(Tail(s)[k])
<1>1. /\ Len(Tail(s)) = Len(s) - 1 /\ Len(s) \in Nat /\ Len(s) >= 1 /\ Head(s) = s[1]
      /\ \A k \in 1 .. Len(s) - 1 : Tail(s)[k] = s[k + 1]
  OBVIOUS
<1> QED
  BY <1>1

LEMMA AskSound ==
  ASSUME WholeInv, version' = version, NEW c \in Callers, pc[c] # "idle", NEW from \in Nat, Ask(c, from)
  PROVE  WireSound'
<1> SUFFICES /\ \A k \in 1 .. Len(toHost') : Sound(toHost'[k])
             /\ \A k \in 1 .. Len(stream') : Sound(stream'[k])
  BY DEF WireSound, Sound
<1>1. TypeOK /\ version \in Versions /\ toHost \in Seq(Frames)
      /\ (\A k \in 1 .. Len(toHost) : Sound(toHost[k])) /\ (\A k \in 1 .. Len(stream) : Sound(stream[k]))
  BY DEF WholeInv, WireSound, TypeOK, DeviceTypes
<1>2. CASE UNCHANGED <<deviceVars, toHost>>
  BY <1>1, <1>2 DEF deviceVars
<1>3. CASE Obeys(Kind(c), On(c), from) /\ Kind(c) = "desc"
  <2>1. stream' = Stream(from) /\ toHost' = toHost
    BY <1>3 DEF Obeys
  <2> QED
    BY <1>1, <2>1, StreamSound
<1>4. CASE Obeys(Kind(c), On(c), from) /\ Kind(c) # "desc"
  <2>1. stream' = stream
    BY <1>1, <1>4, AtPhase DEF Obeys, deviceVars
  <2>2. \/ toHost' = toHost
        \/ \E f \in Frames : f.kind \notin {"meta", "chunk"} /\ toHost' = Append(toHost, f)
    <3>1. CASE Kind(c) \in {"read", "get"}
      <4> DEFINE f == Frame("param", On(c), from + 1, Chunk(On(c), from + 1))
      <4>1. toHost' = Append(toHost, f) \/ toHost' = toHost
        BY <1>4, <3>1 DEF Obeys
      <4>2. f \in Frames
        BY <1>1, <3>1, AtPhase, FrameTypes DEF Chunk, TypeOK, DeviceTypes
      <4>3. f.kind = "param"
        BY DEF Frame
      <4> HIDE DEF f
      <4> QED
        BY <4>1, <4>2, <4>3
    <3>2. CASE Kind(c) = "write"
      <4> DEFINE f == Frame("ack", On(c), 0, 0)
      <4>1. toHost' = Append(toHost, f)
        BY <1>4, <3>2 DEF Obeys
      <4>2. f \in Frames
        BY <1>1, <3>2, AtPhase, FrameTypes
      <4>3. f.kind = "ack"
        BY DEF Frame
      <4> HIDE DEF f
      <4> QED
        BY <4>1, <4>2, <4>3
    <3>3. CASE Kind(c) = "warm_up"
      <4> DEFINE f == Frame("pos_vel", None, 0, 0)
      <4>1. toHost' = Append(toHost, f)
        BY <1>4, <3>3 DEF Obeys
      <4>2. f \in Frames
        BY <1>1, FrameTypes
      <4>3. f.kind = "pos_vel"
        BY DEF Frame
      <4> HIDE DEF f
      <4> QED
        BY <4>1, <4>2, <4>3
    <3> QED
      BY <1>1, <1>4, <3>1, <3>2, <3>3, AtPhase
  <2>3. ASSUME NEW f \in Frames, f.kind \notin {"meta", "chunk"}, toHost' = Append(toHost, f)
        PROVE  \A k \in 1 .. Len(toHost') : Sound(toHost'[k])
    <3>1. Sound(f)
      BY <2>3 DEF Sound
    <3> QED
      BY <1>1, <2>3, <3>1, AppendSound
  <2> QED
    BY <1>1, <2>1, <2>2, <2>3
<1> QED
  BY <1>2, <1>3, <1>4 DEF Ask, Request

LEMMA RecordSound ==
  ASSUME WholeInv, NEW f \in Frames, Sound(f), NEW d,
         \/ d = desc
         \/ f.kind = "meta" /\ d = RecordMeta(f)
         \/ f.kind = "chunk" /\ d = RecordChunk(f)
  PROVE  /\ d.total \in {0, Length(version)} /\ Len(d.bytes) <= Length(version)
         /\ \A k \in 1 .. Len(d.bytes) : d.bytes[k] = Content(version, k)
<1>1. /\ DescSound /\ desc \in DescType /\ desc.bytes \in Seq(Nat) /\ Len(desc.bytes) \in Nat
      /\ Length(version) \in Nat /\ f.v \in Nat
  BY DEF WholeInv, TypeOK, CacheTypes, DeviceTypes, DescType, Length, Versions, Frames
<1>2. CASE d = desc
  BY <1>1, <1>2 DEF DescSound
<1>3. CASE f.kind = "meta" /\ d = RecordMeta(f)
  <2>1. d.bytes = desc.bytes /\ d.total \in {desc.total, Length(f.v)}
    BY <1>1, <1>3 DEF RecordMeta, DescType
  <2> QED
    BY <1>1, <1>3, <2>1 DEF DescSound, Sound
<1>4. CASE f.kind = "chunk" /\ d = RecordChunk(f)
  <2>1. f.i \in 1 .. Length(version) /\ f.v = Content(version, f.i)
    BY <1>4 DEF Sound
  <2>2. \/ d.bytes = desc.bytes /\ d.total = desc.total
        \/ /\ f.i > Len(desc.bytes) /\ f.i <= Len(desc.bytes) + 1
           /\ d.bytes = Append(desc.bytes, f.v) /\ d.total = desc.total
    BY <1>1, <1>4, <2>1 DEF RecordChunk, DescType
  <2>3. CASE d.bytes = desc.bytes /\ d.total = desc.total
    BY <1>1, <2>3 DEF DescSound
  <2>4. CASE /\ f.i > Len(desc.bytes) /\ f.i <= Len(desc.bytes) + 1
             /\ d.bytes = Append(desc.bytes, f.v) /\ d.total = desc.total
    <3>1. f.i = Len(desc.bytes) + 1
      BY <1>1, <2>1, <2>4
    <3> DEFINE b == desc.bytes
    <3>2. b \in Seq(Nat) /\ Len(b) \in Nat
      BY <1>1
    <3>3. d.bytes = Append(b, f.v)
      BY <2>4
    <3>4. \A k \in 1 .. Len(b) : b[k] = Content(version, k)
      BY <1>1 DEF DescSound
    <3> HIDE DEF b
    <3>5. /\ Len(d.bytes) = Len(b) + 1
          /\ \A k \in 1 .. Len(b) + 1 : d.bytes[k] = IF k <= Len(b) THEN b[k] ELSE f.v
      BY <1>1, <3>2, <3>3
    <3>6. \A k \in 1 .. Len(b) + 1 : d.bytes[k] = Content(version, k)
      <4> TAKE k \in 1 .. Len(b) + 1
      <4>0. d.bytes[k] = IF k <= Len(b) THEN b[k] ELSE f.v
        BY <3>5
      <4>1. CASE k <= Len(b)
        <5>1. k \in 1 .. Len(b)
          BY <3>2, <4>1
        <5> QED
          BY <3>4, <4>0, <4>1, <5>1
      <4>2. CASE k = Len(b) + 1
        <5>1. d.bytes[k] = f.v
          <6>1. ~(k <= Len(b))
            BY <3>2, <4>2
          <6> QED
            BY <4>0, <6>1
        <5>2. k = f.i
          BY <3>1, <4>2 DEF b
        <5> QED
          BY <2>1, <5>1, <5>2
      <4> QED
        BY <3>2, <4>1, <4>2
    <3>7. Len(b) + 1 <= Length(version)
      BY <2>1, <3>1 DEF b
    <3> QED
      BY <1>1, <2>4, <3>5, <3>6, <3>7 DEF DescSound
  <2> QED
    BY <2>2, <2>3, <2>4
<1> QED
  BY <1>2, <1>3, <1>4

(* What is neither sent nor processed leaves all as it is. *)
LEMMA KeepsSound ==
  ASSUME WholeInv, TypeOK', UNCHANGED <<version, toHost, stream, map>>, desc' = desc \/ desc' = Empty
  PROVE  WholeInv'
<1>1. WireSound' /\ MapSound'
  BY DEF WholeInv, WireSound, MapSound, Sound
<1>2. Length(version) \in Nat
  BY DEF WholeInv, TypeOK, DeviceTypes, Length, Versions
<1>3. DescSound'
  BY <1>2 DEF WholeInv, DescSound, Empty
<1> QED
  BY <1>1, <1>3 DEF WholeInv

LEMMA AskKeeps ==
  ASSUME WholeInv, TypeOK', version' = version, map' = map, desc' = desc \/ desc' = Empty,
         NEW c \in Callers, pc[c] # "idle", NEW from \in Nat, Ask(c, from)
  PROVE  WholeInv'
<1>1. WireSound'
  BY AskSound
<1>2. Length(version) \in Nat
  BY DEF WholeInv, TypeOK, DeviceTypes, Length, Versions
<1>3. DescSound' /\ MapSound'
  BY <1>2 DEF WholeInv, DescSound, MapSound, Empty
<1> QED
  BY <1>1, <1>3 DEF WholeInv

LEMMA CollectKeeps ==
  ASSUME WholeInv, TypeOK', NEW c \in Callers, Collect(c)
  PROVE  WholeInv'
<1>1. UNCHANGED <<version, toHost, stream, desc>>
  BY DEF Collect, deviceVars
<1>2. MapSound'
  <2>1. CASE map' = map
    BY <1>1, <2>1 DEF WholeInv, MapSound
  <2>2. CASE Received = desc.total /\ desc.bytes # <<>> /\ map' = desc.bytes
    <3> DEFINE b == desc.bytes  n == Length(version)
    <3>1. b \in Seq(Nat) /\ b # <<>> /\ n \in Nat
      BY <2>2 DEF WholeInv, TypeOK, CacheTypes, DeviceTypes, Length, Versions
    <3>2. Len(b) \in {0, n} /\ \A k \in 1 .. Len(b) : b[k] = Content(version, k)
      BY <2>2 DEF WholeInv, DescSound, Received
    <3> HIDE DEF b, n
    <3>3. Len(b) = n
      BY <3>1, <3>2
    <3>4. b = [k \in 1 .. n |-> b[k]]
      BY <3>1, <3>3
    <3>5. b = [k \in 1 .. n |-> Content(version, k)]
      BY <3>2, <3>3, <3>4
    <3> QED
      BY <1>1, <2>2, <3>5 DEF MapSound, Descriptor, b, n
  <2> QED
    BY <2>1, <2>2 DEF Collect
<1> QED
  BY <1>1, <1>2 DEF WholeInv, WireSound, DescSound, Sound

LEMMA FeedbackKeeps == ASSUME WholeInv, TypeOK', ProcessFeedbackFrame PROVE WholeInv'
<1> DEFINE f == Head(toHost)
<1>1. /\ toHost # <<>> /\ toHost' = Tail(toHost) /\ UNCHANGED <<version, stream, map>>
      /\ \/ desc' = desc
         \/ f.kind = "meta" /\ desc' = RecordMeta(f)
         \/ f.kind = "chunk" /\ desc' = RecordChunk(f)
  BY DEF ProcessFeedbackFrame, deviceVars
<1>2. toHost \in Seq(Frames) /\ \A k \in 1 .. Len(toHost) : Sound(toHost[k])
  BY DEF WholeInv, WireSound, TypeOK, DeviceTypes
<1>3. f \in Frames /\ Sound(f) /\ \A k \in 1 .. Len(toHost') : Sound(toHost'[k])
  BY <1>1, <1>2, TailSound
<1> HIDE DEF f
<1>4. DescSound'
  BY <1>1, <1>3, RecordSound DEF DescSound
<1>5. WireSound' /\ MapSound'
  BY <1>1, <1>3 DEF WholeInv, WireSound, MapSound, Sound
<1> QED
  BY <1>4, <1>5 DEF WholeInv

LEMMA StepKeeps ==
  ASSUME WholeInv, TypeOK', NEW c \in Callers, Step(c), version' = version
  PROVE  WholeInv'
<1>1. CASE Skips(c) \/ SendFails(c) \/ TimesOut(c) \/ DescGrows(c) \/ DescComplete(c) \/ GotAnswer(c)
  BY <1>1, KeepsSound DEF Skips, SendFails, TimesOut, DescGrows, DescComplete, GotAnswer, deviceVars
<1>2. CASE FirstAsk(c)
  BY <1>2, AskKeeps DEF FirstAsk
<1>3. CASE DescConflict(c)
  <2>1. CASE Ask(c, 0) /\ desc' = Empty
    BY <1>3, <2>1, AskKeeps DEF DescConflict, Receiving
  <2>2. CASE UNCHANGED <<deviceVars, toHost, desc>>
    BY <1>3, <2>2, KeepsSound DEF DescConflict, deviceVars
  <2> QED
    BY <1>3, <2>1, <2>2 DEF DescConflict
<1>4. CASE DescAsks(c)
  <2>1. UNCHANGED <<desc, map>> /\ pc[c] # "idle"
    BY <1>4 DEF DescAsks, Receiving
  <2>2. CASE UNCHANGED <<deviceVars, toHost>>
    BY <2>1, <2>2, KeepsSound DEF deviceVars
  <2>3. CASE Ask(c, IF desc.total = 0 THEN 0 ELSE Missing(c))
    <3>1. (IF desc.total = 0 THEN 0 ELSE Missing(c)) \in Nat
      BY Counts DEF Missing, WholeInv
    <3> QED
      BY <2>1, <2>3, <3>1, AskKeeps
  <2> QED
    BY <1>4, <2>2, <2>3 DEF DescAsks
<1>5. CASE ReadContinues(c) \/ AskAgain(c)
  <2>1. PICK from \in {Len(raw[On(c)]), local[c].asked} :
          /\ pc[c] # "idle" /\ Ask(c, from) /\ UNCHANGED <<desc, map>>
          /\ Kind(c) = "read" \/ from = local[c].asked
    BY <1>5 DEF ReadContinues, HasMore, AskAgain, Waiting
  <2>2. from \in Nat
    <3>1. TypeOK
      BY DEF WholeInv
    <3>2. Kind(c) = "read" => Len(raw[On(c)]) \in Nat
      BY <2>1, <3>1, AtPhase, Counts
    <3> QED
      BY <2>1, <3>1, <3>2, Counts DEF Counters
  <2> QED
    BY <2>1, <2>2, AskKeeps
<1> QED
  BY <1>1, <1>2, <1>3, <1>4, <1>5, CollectKeeps DEF Step

LEMMA WholeInductive ==
  ASSUME WholeInv, [Next]_vars, [version' = version]_vars
  PROVE  WholeInv'
<1>1. TypeOK'
  BY TypeInductive DEF WholeInv
<1>2. version' = version
  BY DEF vars, deviceVars
<1>3. ASSUME NEW c \in Callers, NewCall(c) PROVE WholeInv'
  BY <1>1, <1>3, KeepsSound DEF NewCall, deviceVars
<1>4. CASE DeviceStreams
  <2>1. /\ toHost \in Seq(Frames) /\ stream \in Seq(Frames) /\ stream # <<>>
        /\ (\A k \in 1 .. Len(toHost) : Sound(toHost[k])) /\ (\A k \in 1 .. Len(stream) : Sound(stream[k]))
        /\ toHost' = Append(toHost, Head(stream)) /\ stream' = Tail(stream) /\ UNCHANGED <<desc, map>>
    BY <1>4 DEF DeviceStreams, WholeInv, WireSound, TypeOK, DeviceTypes
  <2>2. Head(stream) \in Frames
    BY <2>1
  <2>3. /\ \A k \in 1 .. Len(toHost') : Sound(toHost'[k])
        /\ \A k \in 1 .. Len(stream') : Sound(stream'[k])
    BY <2>1, <2>2, AppendSound, TailSound
  <2> QED
    BY <1>1, <1>2, <2>1, <2>3 DEF WholeInv, WireSound, DescSound, MapSound, Sound
<1>5. CASE LoseFrame
  <2>1. /\ toHost \in Seq(Frames) /\ toHost # <<>> /\ toHost' = Tail(toHost)
        /\ (\A k \in 1 .. Len(toHost) : Sound(toHost[k])) /\ (\A k \in 1 .. Len(stream) : Sound(stream[k]))
        /\ UNCHANGED <<stream, desc, map>>
    BY <1>5 DEF LoseFrame, WholeInv, WireSound, TypeOK, DeviceTypes, deviceVars
  <2>2. \A k \in 1 .. Len(toHost') : Sound(toHost'[k])
    BY <2>1, TailSound
  <2> QED
    BY <1>1, <1>2, <2>1, <2>2 DEF WholeInv, WireSound, DescSound, MapSound, Sound
<1>6. CASE Reflash
  BY <1>2, <1>6 DEF Reflash
<1>7. CASE UNCHANGED vars
  BY <1>1, <1>7, KeepsSound DEF vars, deviceVars
<1> QED
  BY <1>1, <1>2, <1>3, <1>4, <1>5, <1>6, <1>7, FeedbackKeeps, StepKeeps DEF Next

(* As long as the device keeps its descriptor, the endpoint map is that    *)
(* descriptor, whole, whatever number of frames is lost, late, repeated or *)
(* left over from an earlier transfer, and whoever else transfers it at    *)
(* the same time (read_endpoint_descriptor_raw, JsonDescCache::record).    *)
THEOREM MapStaysWhole == SafeSpec /\ [][version' = version]_vars => []MapIsWhole
<1>1. WholeInv /\ [Next]_vars /\ [version' = version]_vars => WholeInv'
  BY WholeInductive
<1>2. WholeInv => MapIsWhole
  BY DEF WholeInv, MapSound, MapIsWhole, TypeOK, DeviceTypes
<1> QED
  BY InitWhole, <1>1, <1>2, PTL DEF SafeSpec


-----------------------------------------------------------------------------
(***************************************************************************)
(* Parameters.  A frame about an endpoint does not say which request it    *)
(* answers, and the cache keeps one list of frames for each endpoint, so   *)
(* what a call finds there is its own only if no other thread uses the     *)
(* endpoint: Apart.  The model keeps the value of one endpoint that is     *)
(* written, "narrow".                                                      *)
(***************************************************************************)
Exchanged == {"read", "get", "write"}

Apart ==
  \A s \in Setups :
    /\ \A c \in Callers : "write" \in s.calls[c] => s.on[c] = "narrow"
    /\ \A c, d \in Callers : c # d =>
         \/ s.calls[c] \cap Exchanged = {} \/ s.calls[d] \cap Exchanged = {}
         \/ s.on[c] # s.on[d]

(* Set-ups in which an answer can outlive the call that asked for it. *)
Outlived == setup.late \/ setup.faults

About(f, e) == f.kind \in {"param", "ack"} /\ f.e = e
Quiet(q, e) == \A i \in 1 .. Len(q) : ~About(q[i], e)
Single(q, e) == \A i, j \in 1 .. Len(q) : About(q[i], e) /\ About(q[j], e) => i = j

(* The one frame under way is the one the call still lacks. *)
Lacks(c, e, f) ==
  /\ op[c] = "read" =>
       /\ f.kind = "param" /\ f.i = Len(raw[e]) + 1 /\ local[c].asked = Len(raw[e])
       /\ f.i <= Width(e) /\ f.v = Chunk(e, f.i)
  /\ op[c] = "get" => f.kind = "param" /\ e \notin floats
  /\ op[c] = "write" => f.kind = "ack" /\ e \notin acks /\ value # before[c]

(* What has come so far are the first frames of the value. *)
ShapeOf(e, n) == IF n = 0 THEN None ELSE IF n < Width(e) THEN "more" ELSE "last"
HasSoFar(c, e) ==
  /\ op[c] = "read" =>
       /\ Len(raw[e]) <= Width(e) /\ \A k \in 1 .. Len(raw[e]) : raw[e][k] = Chunk(e, k)
       /\ shape[e] = ShapeOf(e, Len(raw[e]))
       /\ local[c].asked <= Len(raw[e]) /\ (local[c].asked < Len(raw[e]) => answered[c])
  /\ op[c] = "write" /\ e \in acks => value # before[c]

Busy(c) == pc[c] = "wait" /\ op[c] \in Exchanged
ParamHolds(c, e) ==
  IF Busy(c)
  THEN /\ Single(toHost, e) /\ HasSoFar(c, e)
       /\ \A i \in 1 .. Len(toHost) : About(toHost[i], e) => Lacks(c, e, toHost[i])
  ELSE Quiet(toHost, e)

(* What a call may be at. *)
Fits(c) ==
  /\ pc[c] # "idle" =>
       /\ op[c] \in setup.calls[c]
       /\ op[c] \in Exchanged => todo[c] = <<Phase(op[c], setup.on[c])>>
       /\ op[c] = "warm_up" => \A k \in 1 .. Len(todo[c]) : todo[c][k].kind = "warm_up"
       /\ op[c] \in {"connect", "load"} =>
            \A k \in 1 .. Len(todo[c]) :
              todo[c][k].kind = "desc" \/ (todo[c][k].kind = "read" /\ todo[c][k].e \in Declared)
  /\ pc[c] = "collect" => op[c] \notin Exchanged
  /\ pc[c] \in {"idle", "ask"} => local[c].asked = 0

ParamInv ==
  /\ TypeOK /\ \A c \in Callers : Fits(c)
  /\ \A k \in 1 .. Len(stream) : stream[k].kind \in {"meta", "chunk"}
  /\ ~Outlived => \A c \in Callers :
       setup.calls[c] \cap Exchanged # {} => ParamHolds(c, setup.on[c])

(* Between q and t no frame about e was added. *)
NoMore(q, t, e) ==
  /\ Quiet(q, e) => Quiet(t, e)
  /\ Single(q, e) => Single(t, e)
  /\ \A j \in 1 .. Len(t) : About(t[j], e) => \E i \in 1 .. Len(q) : t[j] = q[i]

LEMMA NoMoreSame == ASSUME NEW q, NEW e PROVE NoMore(q, q, e)
  BY DEF NoMore

LEMMA Appended ==
  ASSUME NEW q \in Seq(Frames), NEW f \in Frames, NEW t, t = Append(q, f)
  PROVE  /\ Len(q) \in Nat /\ Len(t) = Len(q) + 1 /\ t[Len(q) + 1] = f
         /\ \A i \in 1 .. Len(q) : t[i] = q[i]
         /\ \A j \in 1 .. Len(t) : j \in 1 .. Len(q) \/ j = Len(q) + 1
  OBVIOUS

LEMMA NoMoreAppend ==
  ASSUME NEW q \in Seq(Frames), NEW f \in Frames, NEW t, t = Append(q, f), NEW e, ~About(f, e)
  PROVE  NoMore(q, t, e)
<1>1. \A j \in 1 .. Len(t) : About(t[j], e) => j \in 1 .. Len(q) /\ t[j] = q[j]
  BY Appended
<1> QED
  BY <1>1 DEF NoMore, Quiet, Single

(* There is one frame about e at most, and it is f. *)
Only(t, e, f) == Single(t, e) /\ \A j \in 1 .. Len(t) : About(t[j], e) => t[j] = f

LEMMA FirstAbout ==
  ASSUME NEW q \in Seq(Frames), NEW f \in Frames, NEW t, t = Append(q, f), NEW e, Quiet(q, e)
  PROVE  Only(t, e, f)
<1>1. \A j \in 1 .. Len(t) : About(t[j], e) => j = Len(q) + 1 /\ t[j] = f
  BY Appended DEF Quiet
<1> QED
  BY <1>1 DEF Single, Only

LEMMA Removed ==
  ASSUME NEW q \in Seq(Frames), q # <<>>, NEW t, t = Tail(q)
  PROVE  /\ 1 \in 1 .. Len(q) /\ Head(q) = q[1]
         /\ \A j \in 1 .. Len(t) : j \in Nat /\ j + 1 \in 1 .. Len(q) /\ j + 1 # 1 /\ t[j] = q[j + 1]
<1>1. /\ Len(t) = Len(q) - 1 /\ Len(q) \in Nat /\ Len(q) >= 1 /\ Head(q) = q[1]
      /\ \A k \in 1 .. Len(q) - 1 : t[k] = q[k + 1]
  OBVIOUS
<1> QED
  BY <1>1

LEMMA NoMoreTail ==
  ASSUME NEW q \in Seq(Frames), q # <<>>, NEW t, t = Tail(q), NEW e
  PROVE  NoMore(q, t, e) /\ (Single(q, e) /\ About(Head(q), e) => Quiet(t, e))
<1>1. /\ 1 \in 1 .. Len(q) /\ Head(q) = q[1]
      /\ \A j \in 1 .. Len(t) : j \in Nat /\ j + 1 \in 1 .. Len(q) /\ j + 1 # 1 /\ t[j] = q[j + 1]
  BY Removed
<1>2. Quiet(q, e) => Quiet(t, e)
  BY <1>1 DEF Quiet
<1>3. Single(q, e) => Single(t, e)
  <2>1. ASSUME Single(q, e), NEW i \in 1 .. Len(t), NEW j \in 1 .. Len(t), About(t[i], e), About(t[j], e)
        PROVE  i = j
    <3>1. i + 1 = j + 1 /\ i \in Nat /\ j \in Nat
      BY <1>1, <2>1 DEF Single
    <3> QED
      BY <3>1
  <2> QED
    BY <2>1 DEF Single
<1>4. \A j \in 1 .. Len(t) : About(t[j], e) => \E i \in 1 .. Len(q) : t[j] = q[i]
  BY <1>1
<1>5. Single(q, e) /\ About(Head(q), e) => Quiet(t, e)
  BY <1>1 DEF Single, Quiet
<1> QED
  BY <1>2, <1>3, <1>4, <1>5 DEF NoMore

-----------------------------------------------------------------------------
(***************************************************************************)
(* What a step leaves alone.                                               *)
(***************************************************************************)
(* The endpoint e: its frames under way, its cache, and its value. *)
SameCache(e) ==
  /\ raw'[e] = raw[e] /\ shape'[e] = shape[e]
  /\ (e \in floats') = (e \in floats) /\ (e \in acks') = (e \in acks)
Elsewhere(e, m) ==
  NoMore(toHost, toHost', e) /\ SameCache(e) /\ (value' = value \/ m = "write")

LEMMA AskElsewhere ==
  ASSUME TypeOK, NEW d \in Callers, pc[d] # "idle", NEW from \in Nat, Ask(d, from),
         NEW e \in Endpoints, Kind(d) \in Exchanged => On(d) # e
  PROVE  Elsewhere(e, Kind(d))
<1>1. /\ Kind(d) \in {"desc", "read", "get", "write", "warm_up"}
      /\ Kind(d) # "desc" => On(d) \in Endpoints
  BY AtPhase
<1>2. toHost \in Seq(Frames) /\ value \in {0, 1}
  BY DEF TypeOK, DeviceTypes
<1>3. SameCache(e)
  BY <1>1 DEF Ask, Forgets, SameCache, Exchanged, TypeOK, CacheTypes
<1>4. CASE UNCHANGED <<value, toHost>>
  BY <1>3, <1>4, NoMoreSame DEF Elsewhere
<1>5. ASSUME NEW f \in Frames, toHost' = Append(toHost, f), ~About(f, e),
             value' = value \/ Kind(d) = "write"
      PROVE  Elsewhere(e, Kind(d))
  BY <1>2, <1>3, <1>5, NoMoreAppend DEF Elsewhere
<1>6. CASE ~UNCHANGED <<value, toHost>>
  <2>1. Obeys(Kind(d), On(d), from)
    BY <1>6 DEF Ask, Request, deviceVars
  <2>2. CASE Kind(d) = "desc"
    BY <1>6, <2>1, <2>2 DEF Obeys
  <2>3. CASE Kind(d) \in {"read", "get"}
    <3> PICK f : f = Frame("param", On(d), from + 1, Chunk(On(d), from + 1))
      OBVIOUS
    <3>1. toHost' = Append(toHost, f) /\ value' = value
      BY <1>6, <2>1, <2>3 DEF Obeys, deviceVars
    <3>2. f \in Frames
      BY <1>1, <1>2, <2>3 DEF Frame, Frames, Chunk
    <3>3. ~About(f, e)
      BY <2>3 DEF About, Frame, Exchanged
    <3> QED
      BY <1>5, <3>1, <3>2, <3>3
  <2>4. CASE Kind(d) = "write"
    <3> PICK f : f = Frame("ack", On(d), 0, 0)
      OBVIOUS
    <3>1. toHost' = Append(toHost, f)
      BY <2>1, <2>4 DEF Obeys
    <3>2. f \in Frames
      BY <1>1, <2>4 DEF Frame, Frames
    <3>3. ~About(f, e)
      BY <2>4 DEF About, Frame, Exchanged
    <3> QED
      BY <1>5, <2>4, <3>1, <3>2, <3>3
  <2>5. CASE Kind(d) = "warm_up"
    <3> PICK f : f = Frame("pos_vel", None, 0, 0)
      OBVIOUS
    <3>1. toHost' = Append(toHost, f) /\ value' = value
      BY <2>1, <2>5 DEF Obeys, deviceVars
    <3>2. f \in Frames
      BY DEF Frame, Frames
    <3>3. ~About(f, e)
      BY DEF About, Frame
    <3> QED
      BY <1>5, <3>1, <3>2, <3>3
  <2> QED
    BY <1>1, <2>2, <2>3, <2>4, <2>5
<1> QED
  BY <1>4, <1>6

(* A thread o beside the one that steps. *)
Beside(o) ==
  /\ pc'[o] = pc[o] /\ op'[o] = op[o] /\ todo'[o] = todo[o] /\ local'[o] = local[o]
  /\ before'[o] = before[o] /\ result'[o] = result[o] /\ answered'[o] = answered[o]

(* The call is over, or goes on with another phase. *)
Over(c, r) == pc'[c] = "idle" /\ local'[c] = Zero /\ result'[c] = r
Onward(c, rest) == pc'[c] = "ask" /\ todo'[c] = rest /\ local'[c] = Zero /\ op'[c] = op[c]

LEMMA ReturnsCase ==
  ASSUME TypeOK, NEW c \in Callers, NEW r, Returns(c, r)
  PROVE  Over(c, r) /\ \A o \in Callers : o # c /\ answered'[o] = answered[o] => Beside(o)
  BY DEF Returns, Over, Beside, TypeOK, CallTypes

LEMMA ContinuesCase ==
  ASSUME TypeOK, NEW c \in Callers, NEW rest, Continues(c, rest)
  PROVE  Onward(c, rest) /\ \A o \in Callers : o # c /\ answered'[o] = answered[o] => Beside(o)
  BY DEF Continues, Onward, Beside, TypeOK, CallTypes

(* The ends of a phase, of which a parameter's has only one. *)
PhaseOver(c) ==
  /\ Over(c, "ok") \/ Over(c, "err")
     \/ (op[c] = "connect" /\ Onward(c, GearPhase))
     \/ (Len(todo[c]) # 1 /\ Onward(c, Tail(todo[c])))
  /\ \A o \in Callers : o # c /\ answered'[o] = answered[o] => Beside(o)

LEMMA FailsCase ==
  ASSUME TypeOK, NEW c \in Callers, PhaseFails(c)
  PROVE  PhaseOver(c) /\ (op[c] # "connect" => Over(c, "err"))
<1>1. ASSUME NEW r \in {"ok", "err"}, Returns(c, r) PROVE PhaseOver(c) /\ Over(c, r)
  BY <1>1, ReturnsCase DEF PhaseOver
<1>2. ASSUME op[c] = "connect", Continues(c, GearPhase) PROVE PhaseOver(c)
  BY <1>2, ContinuesCase DEF PhaseOver
<1> QED
  BY <1>1, <1>2 DEF PhaseFails

LEMMA SucceedsCase ==
  ASSUME TypeOK, NEW c \in Callers, PhaseSucceeds(c)
  PROVE  PhaseOver(c) /\ (Len(todo[c]) = 1 => Over(c, "ok"))
<1>1. CASE Len(todo[c]) = 1
  BY <1>1, ReturnsCase DEF PhaseSucceeds, PhaseOver
<1>2. CASE Len(todo[c]) # 1
  <2>1. Continues(c, Tail(todo[c]))
    BY <1>2 DEF PhaseSucceeds
  <2> QED
    BY <1>2, <2>1, ContinuesCase DEF PhaseOver
<1> QED
  BY <1>1, <1>2

(* A call that waits on. *)
Stays(c) == op'[c] = op[c] /\ todo'[c] = todo[c] /\ pc'[c] \in {"wait", "collect"} /\ pc[c] # "idle"

LEMMA AsksBeside ==
  ASSUME TypeOK, NEW c \in Callers, NEW from, Ask(c, from)
  PROVE  answered'[c] = FALSE /\ \A o \in Callers : o # c => answered'[o] = answered[o]
  BY DEF Ask, TypeOK, CallTypes

(* What a step does to the calls. *)
LEMMA StepCases ==
  ASSUME TypeOK, NEW c \in Callers, Step(c)
  PROVE  /\ PhaseOver(c) \/ Stays(c)
         /\ Stays(c) /\ pc'[c] = "collect" => Kind(c) = "desc"
         /\ \A o \in Callers : o # c => Beside(o)
<1>1. CASE Skips(c) \/ SendFails(c) \/ TimesOut(c)
  <2>1. PhaseFails(c) /\ answered' = answered
    BY <1>1 DEF Skips, SendFails, TimesOut
  <2>2. ~Stays(c)
    BY <2>1, FailsCase DEF PhaseOver, Stays, Over, Onward
  <2> QED
    BY <2>1, <2>2, FailsCase DEF PhaseOver
<1>2. CASE GotAnswer(c)
  <2>1. PhaseSucceeds(c) /\ answered' = answered
    BY <1>2 DEF GotAnswer
  <2>2. ~Stays(c)
    BY <2>1, SucceedsCase DEF PhaseOver, Stays, Over, Onward
  <2> QED
    BY <2>1, <2>2, SucceedsCase DEF PhaseOver
<1>3. CASE Collect(c)
  <2>1. (PhaseSucceeds(c) \/ PhaseFails(c)) /\ answered' = answered
    BY <1>3 DEF Collect
  <2>2. ~Stays(c)
    BY <2>1, SucceedsCase, FailsCase DEF PhaseOver, Stays, Over, Onward
  <2> QED
    BY <2>1, <2>2, SucceedsCase, FailsCase DEF PhaseOver
<1>4. CASE FirstAsk(c)
  <2>1. /\ pc' = [pc EXCEPT ![c] = "wait"]
        /\ local' = [local EXCEPT ![c].tries = 1, ![c].requests = 1]
        /\ before' = [before EXCEPT ![c] = value]
        /\ UNCHANGED <<op, todo, result>> /\ Ask(c, 0) /\ pc[c] = "ask"
    BY <1>4 DEF FirstAsk
  <2> QED
    BY <2>1, AsksBeside DEF Stays, Beside, TypeOK, CallTypes
<1>5. CASE DescConflict(c)
  <2>1. CASE PhaseFails(c) /\ answered' = answered
    <3>1. ~Stays(c)
      BY <2>1, FailsCase DEF PhaseOver, Stays, Over, Onward
    <3> QED
      BY <2>1, <3>1, FailsCase DEF PhaseOver
  <2>2. CASE ~(PhaseFails(c) /\ answered' = answered)
    <3>1. /\ Ask(c, 0) /\ UNCHANGED <<pc, op, todo, result, before>> /\ pc[c] = "wait"
          /\ local' = [local EXCEPT ![c] = [Zero EXCEPT !.tries = 1, !.requests = 1,
                         !.restarts = local[c].restarts + 1, !.seen = local[c].seen]]
      BY <1>5, <2>2 DEF DescConflict, Receiving
    <3> QED
      BY <3>1, AsksBeside DEF Stays, Beside, TypeOK, CallTypes
  <2> QED
    BY <2>1, <2>2
<1>6. CASE DescGrows(c) \/ DescComplete(c)
  <2>1. /\ UNCHANGED <<op, todo, result, before, answered>> /\ Receiving(c)
        /\ \/ local' = local
           \/ local' = [local EXCEPT ![c].seen = Received, ![c].stuck = 0]
        /\ \E p \in {"wait", "collect"} : pc' = [pc EXCEPT ![c] = p]
    BY <1>6 DEF DescGrows, DescComplete
  <2> QED
    BY <2>1 DEF Stays, Beside, Receiving, TypeOK, CallTypes
<1>7. CASE DescAsks(c)
  <2>1. CASE PhaseFails(c) /\ answered' = answered
    <3>1. ~Stays(c)
      BY <2>1, FailsCase DEF PhaseOver, Stays, Over, Onward
    <3> QED
      BY <2>1, <3>1, FailsCase DEF PhaseOver
  <2>2. CASE ~(PhaseFails(c) /\ answered' = answered)
    <3>1. PICK from : Ask(c, from)
      BY <1>7, <2>2 DEF DescAsks
    <3>2. /\ UNCHANGED <<op, todo, result, before>> /\ Receiving(c)
          /\ \E l : local' = [local EXCEPT ![c] = l]
          /\ \E p \in {"wait", "collect"} : pc' = [pc EXCEPT ![c] = p]
      BY <1>7, <2>2 DEF DescAsks
    <3> QED
      BY <3>1, <3>2, AsksBeside DEF Stays, Beside, Receiving, TypeOK, CallTypes
  <2> QED
    BY <2>1, <2>2
<1>8. CASE ReadContinues(c) \/ AskAgain(c)
  <2>1. PICK from : Ask(c, from)
    BY <1>8 DEF ReadContinues, AskAgain
  <2>2. /\ UNCHANGED <<pc, op, todo, result, before>> /\ pc[c] = "wait"
        /\ \/ local' = [local EXCEPT ![c].asked = Len(raw[On(c)])]
           \/ local' = [local EXCEPT ![c].tries = @ + 1]
    BY <1>8 DEF ReadContinues, AskAgain, HasMore, Waiting
  <2> QED
    BY <2>1, <2>2, AsksBeside DEF Stays, Beside, TypeOK, CallTypes
<1> QED
  BY <1>1, <1>2, <1>3, <1>4, <1>5, <1>6, <1>7, <1>8 DEF Step

-----------------------------------------------------------------------------
(***************************************************************************)
(* What a call may be at stays so.                                         *)
(***************************************************************************)
LEMMA Front ==
  ASSUME NEW s \in Seq(Phases), s # <<>>, NEW t, t = Tail(s)
  PROVE  /\ 1 \in 1 .. Len(s) /\ Head(s) = s[1]
         /\ \A k \in 1 .. Len(t) : k + 1 \in 1 .. Len(s) /\ t[k] = s[k + 1]
<1>1. /\ Len(t) = Len(s) - 1 /\ Len(s) \in Nat /\ Len(s) >= 1 /\ Head(s) = s[1]
      /\ \A k \in 1 .. Len(s) - 1 : t[k] = s[k + 1]
  OBVIOUS
<1> QED
  BY <1>1

LEMMA PhaseAt ==
  ASSUME TypeOK, NEW c \in Callers, Fits(c), pc[c] # "idle"
  PROVE  /\ op[c] \in Exchanged => Kind(c) = op[c] /\ On(c) = setup.on[c] /\ Len(todo[c]) = 1
         /\ op[c] \notin Exchanged /\ Kind(c) \in Exchanged => Kind(c) = "read" /\ On(c) \in Declared
<1>1. todo[c] \in Seq(Phases) /\ todo[c] # <<>> /\ op[c] \in Methods
  BY DEF TypeOK, CallTypes
<1>2. CASE op[c] \in Exchanged
  <2>1. todo[c] = <<Phase(op[c], setup.on[c])>>
    BY <1>2 DEF Fits
  <2>2. Head(todo[c]) = Phase(op[c], setup.on[c]) /\ Len(todo[c]) = 1
    BY <2>1
  <2> QED
    BY <1>2, <2>2 DEF Kind, On, Phase
<1>3. CASE op[c] \notin Exchanged
  <2>1. 1 \in 1 .. Len(todo[c]) /\ Head(todo[c]) = todo[c][1]
    BY <1>1, Front
  <2>2. op[c] \in {"connect", "load", "warm_up"}
    BY <1>1, <1>3 DEF Methods, Exchanged
  <2> QED
    BY <1>3, <2>1, <2>2 DEF Fits, Kind, On, Exchanged
<1> QED
  BY <1>2, <1>3

LEMMA StepFits ==
  ASSUME TypeOK, TypeOK', NEW c \in Callers, Fits(c), Step(c), setup' = setup
  PROVE  Fits(c)'
<1>1. todo[c] \in Seq(Phases) /\ todo[c] # <<>> /\ pc[c] # "idle"
  <2>1. pc[c] # "idle"
    BY DEF Step, FirstAsk, Skips, SendFails, DescConflict, DescGrows, DescAsks, DescComplete, Collect,
           GotAnswer, ReadContinues, HasMore, AskAgain, TimesOut, Receiving, Waiting
  <2> QED
    BY <2>1 DEF TypeOK, CallTypes
<1>2. PhaseOver(c) \/ Stays(c)
  BY StepCases
<1>3. CASE Over(c, "ok") \/ Over(c, "err")
  BY <1>3 DEF Over, Fits, Zero
<1>4. CASE op[c] = "connect" /\ Onward(c, GearPhase)
  <2>1. \A k \in 1 .. Len(GearPhase) : GearPhase[k] = Phase("read", "gear")
    BY DEF GearPhase
  <2> QED
    BY <1>1, <1>4, <2>1 DEF Onward, Fits, Zero, Phase, Declared, Exchanged
<1>5. CASE Len(todo[c]) # 1 /\ Onward(c, Tail(todo[c]))
  <2>1. op[c] \notin Exchanged
    BY <1>1, <1>5, PhaseAt
  <2>2. \A k \in 1 .. Len(todo'[c]) : k + 1 \in 1 .. Len(todo[c]) /\ todo'[c][k] = todo[c][k + 1]
    BY <1>1, <1>5, Front DEF Onward
  <2> QED
    BY <1>1, <1>5, <2>1, <2>2 DEF Onward, Fits, Zero
<1>6. CASE Stays(c)
  <2>1. pc'[c] = "collect" => op[c] \notin Exchanged
    <3>1. pc'[c] = "collect" => Kind(c) = "desc"
      BY <1>6, StepCases
    <3> QED
      BY <1>1, <3>1, PhaseAt DEF Exchanged
  <2> QED
    BY <1>1, <1>6, <2>1 DEF Stays, Fits
<1> QED
  BY <1>2, <1>3, <1>4, <1>5, <1>6 DEF PhaseOver

LEMMA ScriptFits ==
  ASSUME TypeOK, NEW m \in Methods, NEW e \in {"narrow", "wide"}, NEW s, s = Script(m, e)
  PROVE  /\ m \in Exchanged => s = <<Phase(m, e)>>
         /\ m = "warm_up" => \A k \in 1 .. Len(s) : s[k].kind = "warm_up"
         /\ m \in {"connect", "load"} =>
              \A k \in 1 .. Len(s) :
                s[k].kind = "desc" \/ (s[k].kind = "read" /\ s[k].e \in Declared)
<1>1. CASE m \in Exchanged
  BY <1>1 DEF Script, Exchanged
<1>2. CASE m = "warm_up"
  BY <1>2 DEF Script, Phase, Exchanged
<1>3. CASE m = "load"
  <2>1. s = <<Phase("desc", None)>> \/ s = <<>>
    BY <1>3 DEF Script, Load
  <2> QED
    BY <1>3, <2>1 DEF Phase, Exchanged
<1>4. CASE m = "connect"
  <2>1. s = <<Phase("desc", None), Phase("read", "range"), Phase("read", "last_range"), Phase("read", "gear")>>
    BY <1>4 DEF Script
  <2>2. \A k \in 1 .. Len(s) :
          s[k] \in {Phase("desc", None), Phase("read", "range"), Phase("read", "last_range"), Phase("read", "gear")}
    BY <2>1
  <2> QED
    BY <1>4, <2>2 DEF Phase, Declared, Exchanged
<1> QED
  BY <1>1, <1>2, <1>3, <1>4 DEF Methods, Exchanged

LEMMA NewCallCases ==
  ASSUME TypeOK, NEW c \in Callers, NewCall(c)
  PROVE  /\ pc[c] = "idle" /\ UNCHANGED <<setup, stream, toHost, value, params, local, before, answered>>
         /\ \/ pc'[c] = "idle"
            \/ /\ pc'[c] = "ask" /\ op'[c] \in setup.calls[c] /\ op'[c] \in Methods
               /\ todo'[c] = Script(op'[c], setup.on[c]) /\ setup.on[c] \in {"narrow", "wide"}
         /\ \A o \in Callers : o # c => Beside(o)
<1>1. /\ pc[c] = "idle" /\ UNCHANGED <<setup, deviceVars, toHost, params, local, before, answered>>
  BY DEF NewCall
<1>2. PICK m \in setup.calls[c] :
        IF (m = "connect" /\ registered) \/ (m = "load" /\ Load = <<>>) \/ (m = "warm_up" /\ warmed)
        THEN /\ result' = [result EXCEPT ![c] = IF m = "connect" THEN "err" ELSE "ok"]
             /\ UNCHANGED <<pc, op, todo, local>>
        ELSE /\ pc' = [pc EXCEPT ![c] = "ask"] /\ op' = [op EXCEPT ![c] = m]
             /\ todo' = [todo EXCEPT ![c] = Script(m, setup.on[c])]
             /\ result' = [result EXCEPT ![c] = None]
  BY DEF NewCall
<1>3. m \in Methods /\ setup.on[c] \in {"narrow", "wide"}
  BY DEF TypeOK, DeviceTypes, SetupType
<1> QED
  BY <1>1, <1>2, <1>3 DEF deviceVars, Beside, TypeOK, CallTypes

LEMMA NewCallFits ==
  ASSUME TypeOK, NEW c \in Callers, Fits(c), NewCall(c)
  PROVE  Fits(c)'
<1>1. /\ pc[c] = "idle" /\ setup' = setup /\ local' = local
      /\ \/ pc'[c] = "idle"
         \/ /\ pc'[c] = "ask" /\ op'[c] \in setup.calls[c] /\ op'[c] \in Methods
            /\ todo'[c] = Script(op'[c], setup.on[c]) /\ setup.on[c] \in {"narrow", "wide"}
  BY NewCallCases
<1>2. CASE pc'[c] = "idle"
  BY <1>1, <1>2 DEF Fits
<1>3. CASE pc'[c] # "idle"
  <2> PICK m, e, s : m = op'[c] /\ e = setup.on[c] /\ s = Script(m, e)
    OBVIOUS
  <2>1. /\ m \in Exchanged => s = <<Phase(m, e)>>
        /\ m = "warm_up" => \A k \in 1 .. Len(s) : s[k].kind = "warm_up"
        /\ m \in {"connect", "load"} =>
             \A k \in 1 .. Len(s) :
               s[k].kind = "desc" \/ (s[k].kind = "read" /\ s[k].e \in Declared)
    BY <1>1, <1>3, ScriptFits
  <2>2. local[c].asked = 0
    BY <1>1 DEF Fits
  <2> QED
    BY <1>1, <1>3, <2>1, <2>2 DEF Fits
<1> QED
  BY <1>2, <1>3

-----------------------------------------------------------------------------
(***************************************************************************)
(* A step of a call, as it looks from elsewhere.                           *)
(***************************************************************************)
Plain(s) == \A k \in 1 .. Len(s) : s[k].kind \in {"meta", "chunk"}

LEMMA StreamPlain ==
  ASSUME version \in Versions, NEW from \in Nat
  PROVE  Plain(Stream(from))
<1>1. SUFFICES ASSUME NEW k \in 1 .. Len(Stream(from)) PROVE Stream(from)[k].kind \in {"meta", "chunk"}
  BY DEF Plain
<1>2. \/ Stream(from)[k] = Frame("meta", None, 0, version)
      \/ \E i \in 1 .. Length(version) : Stream(from)[k] = ChunkFrame(version, i)
  BY StreamParts
<1> PICK f : f = Stream(from)[k]
  OBVIOUS
<1>3. CASE f = Frame("meta", None, 0, version)
  BY <1>3 DEF Frame
<1>4. ASSUME NEW i, f = ChunkFrame(version, i) PROVE f.kind = "chunk"
  BY <1>4 DEF Frame, ChunkFrame
<1> QED
  BY <1>2, <1>3, <1>4

LEMMA StepSends ==
  ASSUME TypeOK, NEW c \in Callers, Step(c)
  PROVE  /\ pc[c] # "idle" /\ setup' = setup
         /\ (\E from \in Nat : Ask(c, from)) \/ UNCHANGED <<toHost, params, value, stream, crossed>>
<1>1. CASE Skips(c) \/ SendFails(c) \/ TimesOut(c) \/ DescGrows(c) \/ DescComplete(c) \/ GotAnswer(c)
           \/ Collect(c)
  BY <1>1 DEF Skips, SendFails, TimesOut, DescGrows, DescComplete, GotAnswer, Collect, deviceVars,
              Receiving, Waiting
<1>2. CASE FirstAsk(c)
  BY <1>2 DEF FirstAsk
<1>3. CASE DescConflict(c)
  BY <1>3 DEF DescConflict, Receiving, deviceVars
<1>4. CASE DescAsks(c)
  <2>1. (IF desc.total = 0 THEN 0 ELSE Missing(c)) \in Nat
    BY Counts DEF Missing
  <2> QED
    BY <1>4, <2>1 DEF DescAsks, Receiving, deviceVars
<1>5. CASE ReadContinues(c) \/ AskAgain(c)
  <2>1. PICK from \in {Len(raw[On(c)]), local[c].asked} :
          /\ pc[c] # "idle" /\ Ask(c, from) /\ setup' = setup
          /\ Kind(c) = "read" \/ from = local[c].asked
    BY <1>5 DEF ReadContinues, HasMore, AskAgain, Waiting
  <2>2. Kind(c) = "read" => Len(raw[On(c)]) \in Nat
    BY <2>1, AtPhase, Counts
  <2>3. from \in Nat
    BY <2>1, <2>2, Counts DEF Counters
  <2> QED
    BY <2>1, <2>3
<1> QED
  BY <1>1, <1>2, <1>3, <1>4, <1>5 DEF Step

LEMMA StepPlain ==
  ASSUME TypeOK, NEW c \in Callers, Step(c), Plain(stream)
  PROVE  Plain(stream')
<1>1. version \in Versions
  BY DEF TypeOK, DeviceTypes
<1>2. ASSUME NEW from \in Nat, Ask(c, from) PROVE stream' = stream \/ stream' = Stream(from)
  BY <1>2 DEF Ask, Request, Obeys, deviceVars
<1> QED
  BY <1>1, <1>2, StepSends, StreamPlain

LEMMA StepElsewhere ==
  ASSUME TypeOK, NEW d \in Callers, Fits(d), Step(d), NEW e \in {"narrow", "wide"},
         op[d] \in Exchanged => setup.on[d] # e
  PROVE  Elsewhere(e, op[d])
<1>1. pc[d] # "idle" /\ e \in Endpoints /\ e \notin Declared
  BY StepSends DEF Endpoints, Declared
<1>2. CASE UNCHANGED <<toHost, params, value>>
  BY <1>2, NoMoreSame DEF Elsewhere, SameCache, params
<1>3. ASSUME NEW from \in Nat, Ask(d, from) PROVE Elsewhere(e, op[d])
  <2>1. Kind(d) \in Exchanged => On(d) # e
    BY <1>1, PhaseAt
  <2>2. Elsewhere(e, Kind(d))
    BY <1>1, <1>3, <2>1, AskElsewhere
  <2>3. Kind(d) = "write" => op[d] = "write"
    BY <1>1, PhaseAt DEF Exchanged
  <2> QED
    BY <2>2, <2>3 DEF Elsewhere
<1> QED
  BY <1>2, <1>3, StepSends

(* Nothing under way, and no exchange begun. *)
LEMMA QuietHolds ==
  ASSUME NEW c, NEW e, Quiet(toHost, e), NoMore(toHost, toHost', e),
         ~(pc'[c] = "wait" /\ op'[c] \in Exchanged)
  PROVE  ParamHolds(c, e)'
<1>1. Quiet(toHost', e)
  BY DEF NoMore
<1> QED
  BY <1>1 DEF ParamHolds, Busy, Quiet, About

(* An exchange that the step does not touch. *)
LEMMA AsideHolds ==
  ASSUME NEW c, NEW e, ParamHolds(c, e), NoMore(toHost, toHost', e), SameCache(e),
         pc'[c] = pc[c], op'[c] = op[c], local'[c] = local[c], before'[c] = before[c],
         answered[c] => answered'[c],
         value' = value \/ (e = "wide" /\ op[c] # "write")
  PROVE  ParamHolds(c, e)'
<1>1. CASE ~Busy(c)
  <2>1. Quiet(toHost, e) /\ ~(pc'[c] = "wait" /\ op'[c] \in Exchanged)
    BY <1>1 DEF ParamHolds, Busy
  <2> QED
    BY <2>1, QuietHolds
<1>2. CASE Busy(c)
  <2>1. /\ Single(toHost, e) /\ HasSoFar(c, e)
        /\ \A i \in 1 .. Len(toHost) : About(toHost[i], e) => Lacks(c, e, toHost[i])
    BY <1>2 DEF ParamHolds
  <2>2. Single(toHost', e)
    BY <2>1 DEF NoMore
  <2>3. \A i : Chunk(e, i)' = Chunk(e, i)
    BY DEF Chunk
  <2>4. HasSoFar(c, e)'
    BY <2>1, <2>3 DEF HasSoFar, SameCache, ShapeOf, Width
  <2>5. ASSUME NEW f, Lacks(c, e, f) PROVE Lacks(c, e, f)'
    <3>1. Chunk(e, f.i)' = Chunk(e, f.i)
      BY <2>3
    <3> QED
      BY <2>5, <3>1 DEF Lacks, SameCache, Width
  <2>6. \A j \in 1 .. Len(toHost') : About(toHost'[j], e) => \E i \in 1 .. Len(toHost) : toHost'[j] = toHost[i]
    BY DEF NoMore
  <2>7. ASSUME NEW j \in 1 .. Len(toHost'), About(toHost'[j], e) PROVE Lacks(c, e, toHost[j])'
    <3>1. PICK f : f = toHost'[j]
      OBVIOUS
    <3>2. Lacks(c, e, f)
      BY <2>1, <2>6, <2>7, <3>1
    <3>3. Lacks(c, e, f)'
      BY <2>5, <3>2
    <3> QED
      BY <3>1, <3>3 DEF Lacks
  <2>8. Busy(c)'
    BY <1>2 DEF Busy
  <2> QED
    BY <2>2, <2>4, <2>7, <2>8 DEF ParamHolds, Single, About
<1> QED
  BY <1>1, <1>2

(* The frames of e are those of the one thread that uses it. *)
Owner(c) == setup.calls[c] \cap Exchanged # {}

LEMMA BesideHolds ==
  ASSUME TypeOK, Apart, NEW c \in Callers, NEW d \in Callers, c # d, Owner(c),
         Fits(c), Fits(d), ParamHolds(c, setup.on[c]), Step(d)
  PROVE  ParamHolds(c, setup.on[c])'
<1> PICK e : e = setup.on[c]
  OBVIOUS
<1>1. setup \in Setups /\ e \in {"narrow", "wide"}
  BY DEF TypeOK, DeviceTypes, SetupType
<1>2. pc[d] # "idle" /\ setup' = setup /\ Beside(c)
  BY StepSends, StepCases
<1>3. op[d] \in Exchanged => setup.on[d] # e
  BY <1>1, <1>2 DEF Apart, Owner, Fits
<1>4. Elsewhere(e, op[d])
  BY <1>1, <1>3, StepElsewhere
<1>5. value' = value \/ (e = "wide" /\ op[c] # "write") \/ pc[c] = "idle"
  <2>1. CASE op[d] # "write"
    BY <1>4, <2>1 DEF Elsewhere
  <2>2. CASE op[d] = "write"
    <3>1. "write" \in setup.calls[d] /\ setup.on[d] = "narrow"
      BY <1>1, <1>2, <2>2 DEF Fits, Apart
    <3>2. e # "narrow"
      BY <1>3, <2>2, <3>1 DEF Exchanged
    <3>3. op[c] = "write" /\ pc[c] # "idle" => e = "narrow"
      BY <1>1 DEF Fits, Apart
    <3> QED
      BY <1>1, <3>2, <3>3
  <2> QED
    BY <2>1, <2>2
<1>6. NoMore(toHost, toHost', e) /\ SameCache(e)
  BY <1>4 DEF Elsewhere
<1>7. CASE pc[c] = "idle"
  <2>1. Quiet(toHost, e) /\ ~(pc'[c] = "wait" /\ op'[c] \in Exchanged)
    BY <1>2, <1>7 DEF ParamHolds, Busy, Beside
  <2>2. ParamHolds(c, e)'
    BY <1>6, <2>1, QuietHolds
  <2> QED
    BY <1>2, <2>2
<1>8. CASE pc[c] # "idle"
  <2>1. ParamHolds(c, e)'
    BY <1>2, <1>5, <1>6, <1>8, AsideHolds DEF Beside
  <2> QED
    BY <1>2, <2>1
<1> QED
  BY <1>7, <1>8

-----------------------------------------------------------------------------
(***************************************************************************)
(* The steps of an exchange.                                               *)
(***************************************************************************)
(* A first read frame, or the next one. *)
LEMMA ReadAsks ==
  ASSUME TypeOK, NEW c \in Callers, NEW e \in Endpoints, NEW n \in Nat, n < Width(e),
         Kind(c) = "read", On(c) = e, Ask(c, n), Quiet(toHost, e),
         pc'[c] = "wait", op'[c] = "read", local'[c].asked = n,
         n = 0 \/ (/\ n = Len(raw[e]) /\ shape[e] = ShapeOf(e, n)
                   /\ \A k \in 1 .. Len(raw[e]) : raw[e][k] = Chunk(e, k))
  PROVE  ParamHolds(c, e)'
<1>1. toHost \in Seq(Frames) /\ value \in {0, 1} /\ raw[e] \in Seq(Nat)
  BY DEF TypeOK, DeviceTypes, CacheTypes
<1>2. value' = value
  BY DEF Ask, Request, Obeys, deviceVars
<1>3. n = 0 => raw'[e] = <<>> /\ shape'[e] = None
  BY DEF Ask, Forgets, TypeOK, CacheTypes
<1>4. n # 0 => raw'[e] = raw[e] /\ shape'[e] = shape[e]
  BY DEF Ask, Forgets
<1>5. \A k : Chunk(e, k)' = Chunk(e, k)
  BY <1>2 DEF Chunk
<1>6. n = Len(raw'[e]) /\ shape'[e] = ShapeOf(e, n)
  <2>1. CASE n = 0
    BY <1>3, <2>1 DEF ShapeOf
  <2>2. CASE n # 0
    BY <1>4, <2>2
  <2> QED
    BY <2>1, <2>2
<1>7. \A k \in 1 .. Len(raw'[e]) : raw'[e][k] = Chunk(e, k)
  <2>1. CASE n = 0
    BY <1>3, <2>1
  <2>2. CASE n # 0
    BY <1>4, <2>2
  <2> QED
    BY <2>1, <2>2
<1>8. HasSoFar(c, e)'
  <2>1. Len(raw'[e]) <= Width(e) /\ Len(raw'[e]) \in Nat
    BY <1>6 DEF Width
  <2> QED
    BY <1>5, <1>6, <1>7, <2>1 DEF HasSoFar, ShapeOf, Width
<1> PICK f : f = Frame("param", e, n + 1, Chunk(e, n + 1))
  OBVIOUS
<1>9. f \in Frames
  BY <1>1 DEF Frame, Frames, Chunk
<1>10. Lacks(c, e, f)'
  <2>1. f.kind = "param" /\ f.i = n + 1 /\ f.v = Chunk(e, f.i)
    BY DEF Frame
  <2>2. f.i <= Width(e)
    BY <2>1 DEF Width
  <2> QED
    BY <1>5, <1>6, <2>1, <2>2 DEF Lacks, Width
<1>11. toHost' = toHost \/ toHost' = Append(toHost, f)
  BY DEF Ask, Request, Obeys
<1>12. Single(toHost', e) /\ \A j \in 1 .. Len(toHost') : About(toHost'[j], e) => toHost'[j] = f
  <2>1. CASE toHost' = toHost
    BY <2>1 DEF Quiet, Single
  <2>2. CASE toHost' = Append(toHost, f)
    <3> PICK t : t = Append(toHost, f)
      OBVIOUS
    <3>1. Only(t, e, f)
      BY <1>1, <1>9, FirstAbout
    <3> QED
      BY <2>2, <3>1 DEF Only
  <2> QED
    BY <1>11, <2>1, <2>2
<1>13. ASSUME NEW j \in 1 .. Len(toHost'), About(toHost'[j], e) PROVE Lacks(c, e, toHost[j])'
  <2>1. toHost'[j] = f
    BY <1>12, <1>13
  <2> QED
    BY <1>10, <2>1 DEF Lacks
<1>14. Busy(c)'
  BY DEF Busy, Exchanged
<1> QED
  BY <1>8, <1>12, <1>13, <1>14 DEF ParamHolds, Single, About

(* get_param_f32 and a write ask once. *)
LEMMA OnceAsks ==
  ASSUME TypeOK, NEW c \in Callers, NEW e \in Endpoints, NEW m \in {"get", "write"},
         Kind(c) = m, On(c) = e, Ask(c, 0), Quiet(toHost, e),
         pc'[c] = "wait", op'[c] = m, before'[c] = value
  PROVE  ParamHolds(c, e)'
<1>1. toHost \in Seq(Frames) /\ value \in {0, 1}
  BY DEF TypeOK, DeviceTypes
<1>2. (m = "get" => e \notin floats') /\ (m = "write" => e \notin acks')
  BY DEF Ask, Forgets
<1>3. HasSoFar(c, e)'
  BY <1>2 DEF HasSoFar
<1>4. CASE toHost' = toHost
  <2>1. Quiet(toHost', e)
    BY <1>4
  <2> QED
    BY <1>3, <2>1 DEF ParamHolds, Busy, Quiet, Single, About, Exchanged
<1>5. CASE toHost' # toHost
  <2>1. Obeys(m, e, 0)
    BY <1>5 DEF Ask, Request
  <2>2. PICK f \in Frames : toHost' = Append(toHost, f) /\ Lacks(c, e, f)'
    <3>1. CASE m = "get"
      <4> PICK f : f = Frame("param", e, 1, Chunk(e, 1))
        OBVIOUS
      <4>1. toHost' = Append(toHost, f)
        BY <1>5, <2>1, <3>1 DEF Obeys
      <4>2. f \in Frames
        BY <1>1 DEF Frame, Frames, Chunk
      <4>3. Lacks(c, e, f)'
        BY <1>2, <3>1 DEF Lacks, Frame
      <4> QED
        BY <4>1, <4>2, <4>3
    <3>2. CASE m = "write"
      <4> PICK f : f = Frame("ack", e, 0, 0)
        OBVIOUS
      <4>1. toHost' = Append(toHost, f) /\ value' = 1 - value
        BY <2>1, <3>2 DEF Obeys
      <4>2. f \in Frames
        BY DEF Frame, Frames
      <4>3. value' # before'[c]
        BY <1>1, <4>1
      <4>4. Lacks(c, e, f)'
        BY <1>2, <3>2, <4>3 DEF Lacks, Frame
      <4> QED
        BY <4>1, <4>2, <4>4
    <3> QED
      BY <3>1, <3>2
  <2>3. Single(toHost', e) /\ \A j \in 1 .. Len(toHost') : About(toHost'[j], e) => toHost'[j] = f
    <3> PICK t : t = Append(toHost, f)
      OBVIOUS
    <3>1. Only(t, e, f)
      BY <1>1, FirstAbout
    <3> QED
      BY <2>2, <3>1 DEF Only
  <2>4. ASSUME NEW j \in 1 .. Len(toHost'), About(toHost'[j], e) PROVE Lacks(c, e, toHost[j])'
    <3>1. toHost'[j] = f
      BY <2>3, <2>4
    <3> QED
      BY <2>2, <3>1 DEF Lacks
  <2>5. Busy(c)'
    BY DEF Busy, Exchanged
  <2> QED
    BY <1>3, <2>3, <2>4, <2>5 DEF ParamHolds, Single, About
<1> QED
  BY <1>4, <1>5

(* An exchange that ends leaves nothing under way. *)
LEMMA EndsQuiet ==
  ASSUME TypeOK, ~Outlived, NEW c \in Callers, Fits(c), op[c] \in Exchanged,
         NEW e \in {"narrow", "wide"}, e = setup.on[c], ParamHolds(c, e),
         GotAnswer(c) \/ TimesOut(c)
  PROVE  Quiet(toHost, e)
<1>1. /\ pc[c] = "wait" /\ Kind(c) = op[c] /\ On(c) = e /\ ~setup.late
      /\ op[c] \in {"read", "get", "write"}
  BY PhaseAt DEF GotAnswer, TimesOut, Waiting, Outlived, Exchanged
<1>2. CASE TimesOut(c)
  <2>1. \A i \in DOMAIN toHost : ~For(c, toHost[i])
    BY <1>1, <1>2 DEF TimesOut, Expired
  <2>2. DOMAIN toHost = 1 .. Len(toHost)
    BY DEF TypeOK, DeviceTypes
  <2> QED
    BY <1>1, <2>1, <2>2 DEF For, Quiet, About
<1>3. CASE GotAnswer(c)
  <2>1. Ready(c)
    BY <1>3 DEF GotAnswer
  <2>2. /\ HasSoFar(c, e)
        /\ \A i \in 1 .. Len(toHost) : About(toHost[i], e) => Lacks(c, e, toHost[i])
    BY <1>1 DEF ParamHolds, Busy
  <2>3. \A f : ~Lacks(c, e, f)
    <3>1. CASE op[c] = "read"
      <4>1. Len(raw[e]) \in Nat
        BY DEF TypeOK, CacheTypes, Endpoints
      <4>2. shape[e] = "last"
        BY <1>1, <2>1, <3>1 DEF Ready
      <4>3. ~(Len(raw[e]) + 1 <= Width(e))
        BY <2>2, <3>1, <4>1, <4>2 DEF HasSoFar, ShapeOf, Width, None
      <4> QED
        BY <3>1, <4>3 DEF Lacks
    <3>2. CASE op[c] \in {"get", "write"}
      BY <1>1, <2>1, <3>2 DEF Ready, Lacks
    <3> QED
      BY <1>1, <3>1, <3>2
  <2> QED
    BY <2>2, <2>3 DEF Quiet
<1> QED
  BY <1>2, <1>3

LEMMA OwnHolds ==
  ASSUME TypeOK, Apart, ~Outlived, NEW c \in Callers, Owner(c), Fits(c), Fits(c)',
         ParamHolds(c, setup.on[c]), Step(c)
  PROVE  ParamHolds(c, setup.on[c])'
<1> PICK e : e = setup.on[c]
  OBVIOUS
<1>1. setup \in Setups /\ ~setup.late /\ ~setup.faults /\ e \in {"narrow", "wide"} /\ e \in Endpoints
  BY DEF Outlived, TypeOK, DeviceTypes, SetupType, Endpoints
<1>2. pc[c] # "idle" /\ setup' = setup /\ (PhaseOver(c) \/ Stays(c))
  BY StepSends, StepCases
<1> SUFFICES ParamHolds(c, e)'
  BY <1>2
<1>3. CASE op[c] \notin Exchanged
  <2>1. Elsewhere(e, op[c])
    BY <1>1, <1>3, StepElsewhere
  <2>2. Quiet(toHost, e)
    BY <1>3 DEF ParamHolds, Busy
  <2>3. ~(pc'[c] = "wait" /\ op'[c] \in Exchanged)
    BY <1>2, <1>3 DEF PhaseOver, Over, Onward, Stays
  <2> QED
    BY <2>1, <2>2, <2>3, QuietHolds DEF Elsewhere
<1>4. CASE op[c] \in Exchanged
  <2>1. /\ Kind(c) = op[c] /\ On(c) = e /\ Len(todo[c]) = 1 /\ op[c] \in {"read", "get", "write"}
        /\ pc[c] # "collect"
    BY <1>2, <1>4, PhaseAt DEF Exchanged, Fits
  <2>2. Len(raw[e]) \in Nat /\ local[c] \in Counters
    BY <1>1 DEF TypeOK, CacheTypes, CallTypes
  <2>3. FirstAsk(c) \/ GotAnswer(c) \/ ReadContinues(c) \/ AskAgain(c) \/ TimesOut(c)
    BY <1>1, <2>1 DEF Step, Skips, Unusable, SendFails, DescConflict, DescGrows, DescAsks, DescComplete,
                      Collect, Receiving
  <2>4. CASE GotAnswer(c) \/ TimesOut(c)
    <3>1. Quiet(toHost, e)
      BY <1>1, <1>4, <2>4, EndsQuiet
    <3>2. toHost' = toHost
      BY <2>4 DEF GotAnswer, TimesOut
    <3>3. PhaseFails(c) \/ PhaseSucceeds(c)
      BY <2>4 DEF GotAnswer, TimesOut
    <3>4. pc'[c] = "idle"
      BY <2>1, <3>3, FailsCase, SucceedsCase DEF Over
    <3> QED
      BY <3>1, <3>2, <3>4, QuietHolds, NoMoreSame
  <2>5. CASE FirstAsk(c)
    <3>1. /\ pc[c] = "ask" /\ Ask(c, 0) /\ pc' = [pc EXCEPT ![c] = "wait"] /\ op' = op
          /\ local' = [local EXCEPT ![c].tries = 1, ![c].requests = 1]
          /\ before' = [before EXCEPT ![c] = value]
      BY <2>5 DEF FirstAsk
    <3>2. Quiet(toHost, e)
      BY <3>1 DEF ParamHolds, Busy
    <3>3. local[c].asked = 0
      BY <3>1 DEF Fits
    <3>4. pc'[c] = "wait" /\ op'[c] = op[c] /\ local'[c].asked = 0 /\ before'[c] = value
      BY <2>2, <3>1, <3>3 DEF TypeOK, CallTypes, Counters
    <3>5. 0 < Width(e)
      BY DEF Width
    <3>6. CASE op[c] = "read"
      BY <1>1, <2>1, <3>1, <3>2, <3>4, <3>5, <3>6, ReadAsks
    <3>7. CASE op[c] \in {"get", "write"}
      BY <1>1, <2>1, <3>1, <3>2, <3>4, <3>7, OnceAsks
    <3> QED
      BY <2>1, <3>6, <3>7
  <2>6. CASE ReadContinues(c) \/ AskAgain(c)
    <3>1. /\ Kind(c) = "read" /\ op[c] = "read" /\ pc[c] = "wait" /\ pc' = pc /\ op' = op
      BY <1>4, <2>1, <2>6 DEF ReadContinues, HasMore, AskAgain, Waiting, Exchanged
    <3>2. /\ HasSoFar(c, e)
          /\ \A i \in 1 .. Len(toHost) : About(toHost[i], e) => Lacks(c, e, toHost[i])
      BY <1>4, <3>1 DEF ParamHolds, Busy
    <3> PICK n : n = Len(raw[e])
      OBVIOUS
    <3>3. /\ n <= Width(e) /\ \A k \in 1 .. n : raw[e][k] = Chunk(e, k)
          /\ shape[e] = ShapeOf(e, n)
          /\ local[c].asked <= n /\ (local[c].asked < n => answered[c])
      BY <3>1, <3>2 DEF HasSoFar
    <3>4. CASE ReadContinues(c)
      <4>1. Ask(c, n) /\ local' = [local EXCEPT ![c].asked = n] /\ shape[e] = "more" /\ n > local[c].asked
        BY <2>1, <3>4 DEF ReadContinues, HasMore
      <4>2. \A f : ~Lacks(c, e, f)
        BY <2>2, <3>1, <4>1 DEF Lacks, Counters
      <4>3. Quiet(toHost, e)
        BY <3>2, <4>2 DEF Quiet
      <4>4. local'[c].asked = n
        BY <4>1 DEF TypeOK, CallTypes, Counters
      <4>5. n < Width(e) /\ n \in Nat
        BY <2>2, <3>3, <4>1 DEF ShapeOf, None
      <4> QED
        BY <1>1, <2>1, <3>1, <3>3, <4>1, <4>3, <4>4, <4>5, ReadAsks
    <3>5. CASE AskAgain(c)
      <4>1. /\ Ask(c, local[c].asked) /\ local' = [local EXCEPT ![c].tries = @ + 1]
            /\ ~Ready(c) /\ ~AnsweredSince(c) /\ Expired(c)
        BY <3>5 DEF AskAgain
      <4>2. shape[e] # "last"
        BY <2>1, <3>1, <4>1 DEF Ready
      <4>3. answered[c] => shape[e] = None
        <5>1. Kind(c) = "read" /\ On(c) = e /\ answered[c] \in BOOLEAN
          BY <2>1, <3>1 DEF TypeOK, CallTypes
        <5> QED
          BY <4>1, <5>1 DEF AnsweredSince
      <4>4. local[c].asked = n
        <5>1. local[c].asked \in Nat /\ n \in Nat
          BY <2>2 DEF Counters
        <5>2. n # 0 => shape[e] # None
          BY <3>3 DEF ShapeOf, None
        <5> QED
          BY <3>3, <4>3, <5>1, <5>2
      <4>5. n < Width(e) /\ n \in Nat
        BY <2>2, <3>3, <4>2 DEF ShapeOf, None, Width
      <4>6. Quiet(toHost, e)
        <5>1. \A i \in DOMAIN toHost : ~For(c, toHost[i])
          BY <1>1, <4>1 DEF Expired
        <5>2. DOMAIN toHost = 1 .. Len(toHost)
          BY DEF TypeOK, DeviceTypes
        <5> QED
          BY <2>1, <3>1, <5>1, <5>2 DEF For, Quiet, About
      <4>7. local'[c].asked = n
        BY <2>2, <4>1, <4>4 DEF TypeOK, CallTypes, Counters
      <4> QED
        BY <1>1, <2>1, <3>1, <3>3, <4>1, <4>4, <4>5, <4>6, <4>7, ReadAsks
    <3> QED
      BY <2>6, <3>4, <3>5
  <2> QED
    BY <2>3, <2>4, <2>5, <2>6
<1> QED
  BY <1>3, <1>4

-----------------------------------------------------------------------------
(***************************************************************************)
(* The other actions.                                                      *)
(***************************************************************************)
(* The calls stay where they are, and so do the caches. *)
LEMMA WireHolds ==
  ASSUME NEW c \in Callers, NEW e, ParamHolds(c, e), NoMore(toHost, toHost', e),
         UNCHANGED <<params, value, calls, answered>>
  PROVE  ParamHolds(c, e)'
<1>1. SameCache(e)
  BY DEF SameCache, params
<1>2. /\ pc'[c] = pc[c] /\ op'[c] = op[c] /\ local'[c] = local[c] /\ before'[c] = before[c]
      /\ answered'[c] = answered[c]
  BY DEF calls
<1> QED
  BY <1>1, <1>2, AsideHolds

LEMMA StreamsHolds ==
  ASSUME TypeOK, NEW c \in Callers, NEW e, ParamHolds(c, e), Plain(stream),
         DeviceStreams \/ LoseFrame \/ Reflash
  PROVE  ParamHolds(c, e)' /\ Plain(stream')
<1>1. toHost \in Seq(Frames) /\ stream \in Seq(Frames)
  BY DEF TypeOK, DeviceTypes
<1>2. UNCHANGED <<params, value, calls, answered>>
  BY DEF DeviceStreams, LoseFrame, Reflash, deviceVars
<1>3. NoMore(toHost, toHost', e) /\ Plain(stream')
  <2>1. CASE DeviceStreams
    <3> PICK f, t : f = Head(stream) /\ t = Append(toHost, f)
      OBVIOUS
    <3>1. toHost' = t /\ stream' = Tail(stream) /\ stream # <<>>
      BY <2>1 DEF DeviceStreams
    <3>2. 1 \in 1 .. Len(stream) /\ f = stream[1]
      BY <1>1, <3>1
    <3>3. f \in Frames /\ ~About(f, e)
      BY <1>1, <3>1, <3>2 DEF Plain, About
    <3>4. NoMore(toHost, t, e)
      BY <1>1, <3>3, NoMoreAppend
    <3>5. \A k \in 1 .. Len(stream') : k + 1 \in 1 .. Len(stream) /\ stream'[k] = stream[k + 1]
      BY <1>1, <3>1
    <3>6. Plain(stream')
      BY <3>5 DEF Plain
    <3> QED
      BY <3>1, <3>4, <3>6
  <2>2. CASE LoseFrame
    <3> PICK t : t = Tail(toHost)
      OBVIOUS
    <3>1. toHost' = t /\ stream' = stream /\ toHost # <<>>
      BY <2>2 DEF LoseFrame, deviceVars
    <3>2. NoMore(toHost, t, e)
      BY <1>1, <3>1, NoMoreTail
    <3> QED
      BY <3>1, <3>2
  <2>3. CASE Reflash
    <3>1. toHost' = toHost /\ stream' = <<>>
      BY <2>3 DEF Reflash
    <3> QED
      BY <3>1, NoMoreSame DEF Plain
  <2> QED
    BY <2>1, <2>2, <2>3
<1> QED
  BY <1>2, <1>3, WireHolds

LEMMA NewCallHolds ==
  ASSUME TypeOK, NEW c \in Callers, NEW d \in Callers, NEW e, ParamHolds(c, e), NewCall(d)
  PROVE  ParamHolds(c, e)'
<1>1. /\ pc[d] = "idle" /\ UNCHANGED <<setup, stream, toHost, value, params, local, before, answered>>
      /\ pc'[d] \in {"idle", "ask"}
      /\ \A o \in Callers : o # d => Beside(o)
  BY NewCallCases
<1>2. NoMore(toHost, toHost', e) /\ SameCache(e)
  BY <1>1, NoMoreSame DEF SameCache, params
<1>3. CASE c = d
  <2>1. Quiet(toHost, e) /\ ~(pc'[c] = "wait" /\ op'[c] \in Exchanged)
    BY <1>1, <1>3 DEF ParamHolds, Busy
  <2> QED
    BY <1>2, <2>1, QuietHolds
<1>4. CASE c # d
  BY <1>1, <1>2, <1>4, AsideHolds DEF Beside
<1> QED
  BY <1>3, <1>4

LEMMA UpTo == \A n \in Nat : \A k \in 1 .. n + 1 : k \in 1 .. n \/ k = n + 1
  OBVIOUS

(* The frame that is taken is the one the call lacked. *)
LEMMA TakenHolds ==
  ASSUME TypeOK, NEW c \in Callers, Fits(c), NEW e \in Endpoints, e = setup.on[c], Busy(c),
         HasSoFar(c, e), ProcessFeedbackFrame, About(Head(toHost), e), Lacks(c, e, Head(toHost))
  PROVE  HasSoFar(c, e)'
<1> PICK f, n : f = Head(toHost) /\ n = Len(raw[e])
  OBVIOUS
<1>1. f.e = e /\ n \in Nat /\ raw[e] \in Seq(Nat) /\ value' = value /\ calls' = calls
  BY DEF About, ProcessFeedbackFrame, deviceVars, TypeOK, CacheTypes
<1>2. op' = op /\ local' = local /\ before' = before
  BY <1>1 DEF calls
<1>3. \A k : Chunk(e, k)' = Chunk(e, k)
  BY <1>1 DEF Chunk
<1>4. CASE op[c] = "read"
  <2>1. /\ f.kind = "param" /\ f.i = n + 1 /\ local[c].asked = n /\ n + 1 <= Width(e) /\ f.v = Chunk(e, n + 1)
        /\ \A k \in 1 .. n : raw[e][k] = Chunk(e, k)
    BY <1>4 DEF Lacks, HasSoFar
  <2>2. f.v \in Nat
    BY <2>1 DEF Chunk, TypeOK, DeviceTypes
  <2>3. /\ raw' = [raw EXCEPT ![f.e] = Append(@, f.v)]
        /\ shape' = [shape EXCEPT ![f.e] = IF f.i < Width(f.e) THEN "more" ELSE "last"]
        /\ answered' = [d \in Callers |-> Answers(d, f)]
    BY <2>1 DEF ProcessFeedbackFrame
  <2>4. raw'[e] = Append(raw[e], f.v) /\ shape'[e] = IF f.i < Width(e) THEN "more" ELSE "last"
    BY <1>1, <2>3 DEF TypeOK, CacheTypes
  <2>5. /\ Len(raw'[e]) = n + 1 /\ raw'[e][n + 1] = f.v
        /\ \A k \in 1 .. n : raw'[e][k] = raw[e][k]
    BY <1>1, <2>2, <2>4
  <2>6. \A k \in 1 .. Len(raw'[e]) : raw'[e][k] = Chunk(e, k)
    <3>1. \A k \in 1 .. n + 1 : k \in 1 .. n \/ k = n + 1
      BY <1>1, UpTo
    <3> QED
      BY <2>1, <2>5, <3>1
  <2>7. shape'[e] = ShapeOf(e, n + 1)
    BY <1>1, <2>1, <2>4 DEF ShapeOf
  <2>8. answered'[c]
    <3>1. Kind(c) = "read" /\ On(c) = e /\ todo[c] # <<>>
      BY <1>4, PhaseAt DEF Busy, Exchanged, TypeOK, CallTypes
    <3> QED
      BY <1>1, <2>1, <2>3, <3>1 DEF Answers, Kind, On
  <2> QED
    BY <1>1, <1>2, <1>3, <1>4, <2>1, <2>5, <2>6, <2>7, <2>8 DEF HasSoFar, ShapeOf, Width
<1>5. CASE op[c] # "read"
  <2>1. op[c] = "write" => value # before[c]
    BY DEF Lacks
  <2> QED
    BY <1>1, <1>2, <1>5, <2>1 DEF HasSoFar
<1> QED
  BY <1>4, <1>5

LEMMA FeedbackHolds ==
  ASSUME TypeOK, NEW c \in Callers, Fits(c), NEW e \in Endpoints, e = setup.on[c],
         ParamHolds(c, e), ProcessFeedbackFrame
  PROVE  ParamHolds(c, e)'
<1> PICK f, t : f = Head(toHost) /\ t = Tail(toHost)
  OBVIOUS
<1>1. toHost \in Seq(Frames) /\ toHost # <<>> /\ toHost' = t /\ value' = value /\ calls' = calls
  BY DEF ProcessFeedbackFrame, deviceVars, TypeOK, DeviceTypes
<1>2. pc' = pc /\ op' = op /\ todo' = todo /\ local' = local /\ before' = before
  BY <1>1 DEF calls
<1>3. NoMore(toHost, t, e) /\ (Single(toHost, e) /\ About(f, e) => Quiet(t, e))
  BY <1>1, NoMoreTail
<1>4. f = toHost[1] /\ 1 \in 1 .. Len(toHost) /\ f \in Frames
  BY <1>1
<1>5. CASE ~Busy(c)
  <2>1. Quiet(toHost, e) /\ ~(pc'[c] = "wait" /\ op'[c] \in Exchanged)
    BY <1>2, <1>5 DEF ParamHolds, Busy
  <2> QED
    BY <1>1, <1>3, <2>1, QuietHolds
<1>6. CASE Busy(c) /\ About(f, e)
  <2>1. /\ Single(toHost, e) /\ HasSoFar(c, e) /\ Lacks(c, e, f)
    BY <1>4, <1>6 DEF ParamHolds
  <2>2. Quiet(toHost', e)
    BY <1>1, <1>3, <1>6, <2>1
  <2>3. HasSoFar(c, e)'
    BY <1>6, <2>1, TakenHolds
  <2> QED
    BY <2>2, <2>3 DEF ParamHolds, Quiet, Single, About
<1>7. CASE Busy(c) /\ ~About(f, e)
  <2>1. SameCache(e)
    <3>1. f.kind = "param" => f.e # e /\ f.e \in Endpoints
      BY <1>4, <1>7 DEF About, Frames
    <3>2. f.kind = "ack" => f.e # e
      BY <1>7 DEF About
    <3>3. CASE f.kind = "param"
      <4>1. /\ raw' = [raw EXCEPT ![f.e] = Append(@, f.v)]
            /\ shape' = [shape EXCEPT ![f.e] = IF f.i < Width(f.e) THEN "more" ELSE "last"]
            /\ floats' = IF f.i < Width(f.e) THEN floats ELSE floats \cup {f.e}
            /\ acks' = acks
        BY <3>3 DEF ProcessFeedbackFrame
      <4>2. raw'[e] = raw[e] /\ shape'[e] = shape[e]
        BY <3>1, <3>3, <4>1 DEF TypeOK, CacheTypes
      <4>3. (e \in floats') = (e \in floats)
        BY <3>1, <3>3, <4>1
      <4> QED
        BY <4>1, <4>2, <4>3 DEF SameCache
    <3>4. CASE f.kind # "param"
      <4>1. UNCHANGED <<raw, shape, floats>> /\ acks' = IF f.kind = "ack" THEN acks \cup {f.e} ELSE acks
        BY <3>4 DEF ProcessFeedbackFrame
      <4> QED
        BY <3>2, <4>1 DEF SameCache
    <3> QED
      BY <3>3, <3>4
  <2>2. answered[c] => answered'[c]
    <3>1. Kind(c) \in Exchanged /\ todo[c] # <<>>
      BY <1>7, PhaseAt DEF Busy, TypeOK, CallTypes
    <3>2. answered'[c] = Answers(c, f)
      BY DEF ProcessFeedbackFrame
    <3> QED
      BY <3>1, <3>2 DEF Answers, Kind, Exchanged
  <2> QED
    BY <1>1, <1>2, <1>3, <2>1, <2>2, AsideHolds
<1> QED
  BY <1>5, <1>6, <1>7

-----------------------------------------------------------------------------
(***************************************************************************)
(* The invariant.                                                          *)
(***************************************************************************)
LEMMA InitParam == ASSUME Init PROVE ParamInv
<1>1. TypeOK
  BY InitTypes
<1>2. /\ stream = <<>> /\ toHost = <<>> /\ pc = [c \in Callers |-> "idle"]
      /\ local = [c \in Callers |-> Zero]
  BY DEF Init
<1>3. \A c \in Callers : Fits(c)
  BY <1>2 DEF Fits, Zero
<1>4. ASSUME NEW c \in Callers PROVE ParamHolds(c, setup.on[c])
  <2>1. Quiet(toHost, setup.on[c])
    BY <1>2 DEF Quiet
  <2> QED
    BY <1>2, <2>1 DEF ParamHolds, Busy
<1> QED
  BY <1>1, <1>2, <1>3, <1>4 DEF ParamInv

LEMMA AllFit ==
  ASSUME TypeOK, TypeOK', \A c \in Callers : Fits(c), [Next]_vars
  PROVE  \A c \in Callers : Fits(c)'
<1> SUFFICES ASSUME NEW c \in Callers PROVE Fits(c)'
  OBVIOUS
<1>1. Fits(c)
  OBVIOUS
<1>2. ASSUME setup' = setup, pc'[c] = pc[c], op'[c] = op[c], todo'[c] = todo[c], local'[c] = local[c]
      PROVE  Fits(c)'
  BY <1>1, <1>2 DEF Fits
<1>3. CASE \E d \in Callers : NewCall(d)
  <2>1. PICK d \in Callers : NewCall(d)
    BY <1>3
  <2>2. CASE d = c
    BY <1>1, <2>1, <2>2, NewCallFits
  <2>3. CASE d # c
    BY <1>2, <2>1, <2>3, NewCallCases DEF Beside
  <2> QED
    BY <2>2, <2>3
<1>4. CASE \E d \in Callers : Step(d)
  <2>1. PICK d \in Callers : Step(d)
    BY <1>4
  <2>2. setup' = setup
    BY <2>1, StepSends
  <2>3. CASE d = c
    BY <1>1, <2>1, <2>2, <2>3, StepFits
  <2>4. CASE d # c
    BY <1>2, <2>1, <2>2, <2>4, StepCases DEF Beside
  <2> QED
    BY <2>3, <2>4
<1>5. CASE ProcessFeedbackFrame \/ DeviceStreams \/ LoseFrame \/ Reflash \/ UNCHANGED vars
  BY <1>2, <1>5 DEF ProcessFeedbackFrame, DeviceStreams, LoseFrame, Reflash, vars, calls
<1> QED
  BY <1>3, <1>4, <1>5 DEF Next

LEMMA OwnersHold ==
  ASSUME ParamInv, Apart, TypeOK', \A c \in Callers : Fits(c)', ~Outlived, [Next]_vars,
         NEW c \in Callers, Owner(c)
  PROVE  ParamHolds(c, setup.on[c])' /\ setup' = setup
<1>1. TypeOK /\ Plain(stream) /\ Fits(c) /\ Fits(c)' /\ ParamHolds(c, setup.on[c])
  BY DEF ParamInv, Owner, Plain
<1> PICK e : e = setup.on[c]
  OBVIOUS
<1>2. e \in Endpoints
  BY <1>1 DEF TypeOK, DeviceTypes, SetupType, Endpoints
<1>3. ASSUME setup' = setup, ParamHolds(c, e)' PROVE ParamHolds(c, setup.on[c])' /\ setup' = setup
  BY <1>3
<1>4. CASE \E d \in Callers : NewCall(d)
  <2>1. PICK d \in Callers : NewCall(d)
    BY <1>4
  <2>2. setup' = setup
    BY <1>1, <2>1, NewCallCases
  <2>3. ParamHolds(c, e)'
    BY <1>1, <2>1, NewCallHolds
  <2> QED
    BY <1>3, <2>2, <2>3
<1>5. CASE \E d \in Callers : Step(d)
  <2>1. PICK d \in Callers : Step(d)
    BY <1>5
  <2>2. setup' = setup /\ Fits(d)
    BY <1>1, <2>1, StepSends DEF ParamInv
  <2>3. CASE d = c
    BY <1>1, <2>1, <2>2, <2>3, OwnHolds
  <2>4. CASE d # c
    BY <1>1, <2>1, <2>2, <2>4, BesideHolds
  <2> QED
    BY <2>2, <2>3, <2>4
<1>6. CASE ProcessFeedbackFrame
  <2>1. setup' = setup
    BY <1>6 DEF ProcessFeedbackFrame
  <2>2. ParamHolds(c, e)'
    BY <1>1, <1>2, <1>6, FeedbackHolds
  <2> QED
    BY <1>3, <2>1, <2>2
<1>7. CASE DeviceStreams \/ LoseFrame \/ Reflash
  <2>1. setup' = setup
    BY <1>7 DEF DeviceStreams, LoseFrame, Reflash
  <2>2. ParamHolds(c, e)'
    BY <1>1, <1>7, StreamsHolds
  <2> QED
    BY <1>3, <2>1, <2>2
<1>8. CASE UNCHANGED vars
  <2>1. setup' = setup /\ toHost' = toHost /\ UNCHANGED <<params, value, calls, answered>>
    BY <1>8 DEF vars, deviceVars
  <2>2. NoMore(toHost, toHost', e)
    BY <2>1, NoMoreSame
  <2>3. ParamHolds(c, e)'
    BY <1>1, <2>1, <2>2, WireHolds
  <2> QED
    BY <1>3, <2>1, <2>3
<1> QED
  BY <1>4, <1>5, <1>6, <1>7, <1>8 DEF Next

LEMMA StreamStaysPlain ==
  ASSUME TypeOK, Plain(stream), [Next]_vars
  PROVE  Plain(stream') /\ setup' = setup
<1>1. CASE \E d \in Callers : NewCall(d)
  <2>1. setup' = setup /\ stream' = stream
    BY <1>1 DEF NewCall, deviceVars
  <2> QED
    BY <2>1
<1>2. CASE \E d \in Callers : Step(d)
  BY <1>2, StepPlain, StepSends
<1>3. CASE ProcessFeedbackFrame \/ UNCHANGED vars
  <2>1. setup' = setup /\ stream' = stream
    BY <1>3 DEF ProcessFeedbackFrame, deviceVars, vars
  <2> QED
    BY <2>1
<1>4. CASE DeviceStreams \/ LoseFrame \/ Reflash
  <2>1. setup' = setup
    BY <1>4 DEF DeviceStreams, LoseFrame, Reflash
  <2>2. stream' \in {stream, <<>>} \/ (stream # <<>> /\ stream' = Tail(stream))
    BY <1>4 DEF DeviceStreams, LoseFrame, Reflash, deviceVars
  <2>3. CASE stream' = stream
    BY <2>1, <2>3
  <2>4. CASE stream' = <<>>
    BY <2>1, <2>4 DEF Plain
  <2>5. CASE stream # <<>> /\ stream' = Tail(stream)
    <3>1. stream \in Seq(Frames)
      BY DEF TypeOK, DeviceTypes
    <3>2. \A k \in 1 .. Len(stream') : k + 1 \in 1 .. Len(stream) /\ stream'[k] = stream[k + 1]
      BY <2>5, <3>1
    <3> QED
      BY <2>1, <3>2 DEF Plain
  <2> QED
    BY <2>2, <2>3, <2>4, <2>5
<1> QED
  BY <1>1, <1>2, <1>3, <1>4 DEF Next

LEMMA ParamInductive == ASSUME ParamInv, Apart, [Next]_vars PROVE ParamInv'
<1>1. TypeOK /\ Plain(stream) /\ \A c \in Callers : Fits(c)
  BY DEF ParamInv, Plain
<1>2. TypeOK'
  BY <1>1, TypeInductive
<1>3. \A c \in Callers : Fits(c)'
  BY <1>1, <1>2, AllFit
<1>4. Plain(stream') /\ setup' = setup
  BY <1>1, StreamStaysPlain
<1>5. ASSUME ~Outlived', NEW c \in Callers, (setup.calls[c] \cap Exchanged # {})'
      PROVE  ParamHolds(c, setup.on[c])'
  <2>1. ~Outlived /\ Owner(c)
    BY <1>4, <1>5 DEF Outlived, Owner
  <2> QED
    BY <1>2, <1>3, <2>1, OwnersHold
<1> QED
  BY <1>2, <1>3, <1>4, <1>5 DEF ParamInv, Plain

LEMMA ParamAlways == ASSUME Apart PROVE SafeSpec => []ParamInv
<1>1. Init => ParamInv
  BY InitParam
<1>2. ParamInv /\ [Next]_vars => ParamInv'
  BY ParamInductive
<1> QED
  BY <1>1, <1>2, PTL DEF SafeSpec

-----------------------------------------------------------------------------
(***************************************************************************)
(* Late answers and failing sends.  Where an answer can outlive its call,  *)
(* an exchange is only known to be in order while none of its requests     *)
(* crossed an answer about its endpoint.                                   *)
(***************************************************************************)
Straight(c) == Owner(c) /\ Busy(c) /\ crossed[c] = None

StraightInv ==
  /\ TypeOK /\ HistoryTypes /\ Plain(stream) /\ \A c \in Callers : Fits(c)
  /\ \A c \in Callers : Straight(c) => ParamHolds(c, setup.on[c])

LEMMA StepCrosses ==
  ASSUME TypeOK, HistoryTypes, NEW d \in Callers, Step(d)
  PROVE  HistoryTypes' /\ \A c \in Callers : c # d => crossed'[c] = crossed[c]
<1>1. CASE crossed' = crossed
  BY <1>1 DEF HistoryTypes
<1>2. ASSUME NEW from \in Nat, Ask(d, from)
      PROVE  HistoryTypes' /\ \A c \in Callers : c # d => crossed'[c] = crossed[c]
  <2>1. crossed' = [crossed EXCEPT ![d] = Crossing(d)]
    BY <1>2 DEF Ask
  <2>2. Crossing(d) \in {None, "earlier", "own"}
    BY DEF Crossing, HistoryTypes
  <2> QED
    BY <2>1, <2>2 DEF HistoryTypes
<1> QED
  BY <1>1, <1>2, StepSends

(* A request that crosses nothing is sent while nothing is under way. *)
LEMMA StraightAsks ==
  ASSUME TypeOK, HistoryTypes, NEW c \in Callers, NEW from, Ask(c, from), crossed'[c] = None,
         Kind(c) \in Exchanged, NEW e, On(c) = e
  PROVE  Quiet(toHost, e) /\ (pc[c] = "wait" => crossed[c] = None)
<1>1. Crossing(c) = None
  BY DEF Ask, HistoryTypes
<1>2. \A i \in DOMAIN toHost : ~For(c, toHost[i])
  BY <1>1 DEF Crossing, None
<1>3. DOMAIN toHost = 1 .. Len(toHost)
  BY DEF TypeOK, DeviceTypes
<1>4. Quiet(toHost, e)
  BY <1>2, <1>3 DEF For, Quiet, About, Exchanged
<1>5. pc[c] = "wait" => crossed[c] = None
  BY <1>1 DEF Crossing
<1> QED
  BY <1>4, <1>5

LEMMA OwnStraight ==
  ASSUME TypeOK, HistoryTypes, NEW c \in Callers, Fits(c), Step(c), Busy(c)', crossed'[c] = None,
         Straight(c) => ParamHolds(c, setup.on[c]), Owner(c)
  PROVE  ParamHolds(c, setup.on[c])'
<1> PICK e : e = setup.on[c]
  OBVIOUS
<1>1. e \in {"narrow", "wide"} /\ e \in Endpoints
  BY DEF TypeOK, DeviceTypes, SetupType, Endpoints
<1>2. pc[c] # "idle" /\ setup' = setup /\ pc'[c] = "wait" /\ op'[c] \in Exchanged /\ Stays(c)
  BY StepSends, StepCases DEF Busy, PhaseOver, Over, Onward
<1>3. op[c] \in Exchanged /\ op'[c] = op[c]
  BY <1>2 DEF Stays
<1>4. /\ Kind(c) = op[c] /\ On(c) = e /\ op[c] \in {"read", "get", "write"} /\ pc[c] # "collect"
  BY <1>2, <1>3, PhaseAt DEF Exchanged, Fits
<1>5. Len(raw[e]) \in Nat /\ local[c] \in Counters
  BY <1>1 DEF TypeOK, CacheTypes, CallTypes
<1>6. ~PhaseFails(c) /\ ~PhaseSucceeds(c)
  BY <1>2, FailsCase, SucceedsCase DEF PhaseOver, Over, Onward
<1>7. FirstAsk(c) \/ ReadContinues(c) \/ AskAgain(c)
  BY <1>4, <1>6 DEF Step, Skips, SendFails, GotAnswer, TimesOut, DescConflict, DescGrows, DescAsks,
                    DescComplete, Collect, Receiving
<1> SUFFICES ParamHolds(c, e)'
  BY <1>2
<1>8. CASE FirstAsk(c)
  <2>1. /\ pc[c] = "ask" /\ Ask(c, 0) /\ pc' = [pc EXCEPT ![c] = "wait"] /\ op' = op
        /\ local' = [local EXCEPT ![c].tries = 1, ![c].requests = 1]
        /\ before' = [before EXCEPT ![c] = value]
    BY <1>8 DEF FirstAsk
  <2>2. Quiet(toHost, e)
    BY <1>3, <1>4, <2>1, StraightAsks
  <2>3. local[c].asked = 0
    BY <2>1 DEF Fits
  <2>4. pc'[c] = "wait" /\ op'[c] = op[c] /\ local'[c].asked = 0 /\ before'[c] = value
    BY <1>5, <2>1, <2>3 DEF TypeOK, CallTypes, Counters
  <2>5. 0 < Width(e)
    BY DEF Width
  <2>6. CASE op[c] = "read"
    BY <1>1, <1>4, <2>1, <2>2, <2>4, <2>5, <2>6, ReadAsks
  <2>7. CASE op[c] \in {"get", "write"}
    BY <1>1, <1>4, <2>1, <2>2, <2>4, <2>7, OnceAsks
  <2> QED
    BY <1>4, <2>6, <2>7
<1>9. CASE ReadContinues(c) \/ AskAgain(c)
  <2>1. /\ Kind(c) = "read" /\ op[c] = "read" /\ pc[c] = "wait" /\ pc' = pc /\ op' = op
    BY <1>3, <1>4, <1>9 DEF ReadContinues, HasMore, AskAgain, Waiting, Exchanged
  <2>2. PICK from : Ask(c, from)
    BY <1>9 DEF ReadContinues, AskAgain
  <2>3. Quiet(toHost, e) /\ crossed[c] = None
    BY <1>3, <1>4, <2>1, <2>2, StraightAsks
  <2>4. Busy(c)
    BY <1>3, <2>1 DEF Busy
  <2>5. HasSoFar(c, e)
    BY <2>3, <2>4 DEF Straight, ParamHolds
  <2> PICK n : n = Len(raw[e])
    OBVIOUS
  <2>6. /\ n <= Width(e) /\ \A k \in 1 .. n : raw[e][k] = Chunk(e, k)
        /\ shape[e] = ShapeOf(e, n)
        /\ local[c].asked <= n /\ (local[c].asked < n => answered[c])
    BY <2>1, <2>5 DEF HasSoFar
  <2>7. CASE ReadContinues(c)
    <3>1. Ask(c, n) /\ local' = [local EXCEPT ![c].asked = n] /\ shape[e] = "more"
      BY <1>4, <2>7 DEF ReadContinues, HasMore
    <3>2. local'[c].asked = n
      BY <3>1 DEF TypeOK, CallTypes, Counters
    <3>3. n < Width(e) /\ n \in Nat
      BY <1>5, <2>6, <3>1 DEF ShapeOf, None
    <3> QED
      BY <1>1, <1>4, <2>1, <2>3, <2>6, <3>1, <3>2, <3>3, ReadAsks
  <2>8. CASE AskAgain(c)
    <3>1. /\ Ask(c, local[c].asked) /\ local' = [local EXCEPT ![c].tries = @ + 1]
          /\ ~Ready(c) /\ ~AnsweredSince(c)
      BY <2>8 DEF AskAgain
    <3>2. shape[e] # "last"
      BY <1>4, <2>1, <3>1 DEF Ready
    <3>3. answered[c] => shape[e] = None
      <4>1. Kind(c) = "read" /\ On(c) = e /\ answered[c] \in BOOLEAN
        BY <1>4, <2>1 DEF TypeOK, CallTypes
      <4> QED
        BY <3>1, <4>1 DEF AnsweredSince
    <3>4. local[c].asked = n
      <4>1. local[c].asked \in Nat /\ n \in Nat
        BY <1>5 DEF Counters
      <4>2. n # 0 => shape[e] # None
        BY <2>6 DEF ShapeOf, None
      <4> QED
        BY <2>6, <3>3, <4>1, <4>2
    <3>5. n < Width(e) /\ n \in Nat
      BY <1>5, <2>6, <3>2 DEF ShapeOf, None, Width
    <3>6. local'[c].asked = n
      BY <1>5, <3>1, <3>4 DEF TypeOK, CallTypes, Counters
    <3> QED
      BY <1>1, <1>4, <2>1, <2>3, <2>6, <3>1, <3>4, <3>5, <3>6, ReadAsks
  <2> QED
    BY <1>9, <2>7, <2>8
<1> QED
  BY <1>7, <1>8, <1>9

LEMMA InitStraight == ASSUME Init PROVE StraightInv
<1>1. ParamInv
  BY InitParam
<1>2. HistoryTypes
  BY DEF Init, HistoryTypes
<1>3. \A c \in Callers : ~Busy(c)
  BY DEF Init, Busy
<1> QED
  BY <1>1, <1>2, <1>3 DEF StraightInv, ParamInv, Plain, Straight

LEMMA StraightHolds ==
  ASSUME StraightInv, Apart, [Next]_vars, setup' = setup, NEW c \in Callers, Straight(c)'
  PROVE  ParamHolds(c, setup.on[c])' /\ HistoryTypes'
<1>1. TypeOK /\ HistoryTypes /\ Plain(stream) /\ Fits(c)
  BY DEF StraightInv
<1> PICK e : e = setup.on[c]
  OBVIOUS
<1>2. e \in Endpoints
  BY <1>1 DEF TypeOK, DeviceTypes, SetupType, Endpoints
<1>3. Owner(c) /\ Busy(c)' /\ crossed'[c] = None
  BY DEF Straight, Owner
<1>4. Straight(c) => ParamHolds(c, e)
  BY DEF StraightInv
<1> SUFFICES ParamHolds(c, e)' /\ HistoryTypes'
  OBVIOUS
<1>5. ASSUME Busy(c), crossed' = crossed PROVE ParamHolds(c, e) /\ HistoryTypes'
  BY <1>1, <1>3, <1>4, <1>5 DEF Straight, HistoryTypes
<1>6. CASE \E d \in Callers : NewCall(d)
  <2>1. PICK d \in Callers : NewCall(d)
    BY <1>6
  <2>2. d # c
    BY <1>1, <1>3, <2>1, NewCallCases DEF Busy
  <2>3. Beside(c) /\ crossed' = crossed
    BY <1>1, <2>1, <2>2, NewCallCases DEF NewCall
  <2>4. Busy(c)
    BY <1>3, <2>3 DEF Busy, Beside
  <2> QED
    BY <1>1, <1>5, <2>1, <2>3, <2>4, NewCallHolds
<1>7. CASE \E d \in Callers : Step(d)
  <2>1. PICK d \in Callers : Step(d)
    BY <1>7
  <2>2. HistoryTypes' /\ Fits(d)
    BY <1>1, <2>1, StepCrosses DEF StraightInv
  <2>3. CASE d = c
    <3>1. ParamHolds(c, setup.on[c])'
      BY <1>1, <1>3, <1>4, <2>1, <2>3, OwnStraight
    <3> QED
      BY <2>2, <3>1
  <2>4. CASE d # c
    <3>1. Beside(c) /\ crossed'[c] = crossed[c]
      BY <1>1, <2>1, <2>4, StepCases, StepCrosses
    <3>2. Straight(c)
      BY <1>3, <3>1 DEF Straight, Busy, Beside
    <3>3. ParamHolds(c, setup.on[c])
      BY <1>4, <3>2
    <3>4. ParamHolds(c, setup.on[c])'
      BY <1>1, <1>3, <2>1, <2>2, <2>4, <3>3, BesideHolds
    <3> QED
      BY <2>2, <3>4
  <2> QED
    BY <2>3, <2>4
<1>8. CASE ProcessFeedbackFrame
  <2>1. Busy(c) /\ crossed' = crossed
    BY <1>3, <1>8 DEF ProcessFeedbackFrame, Busy, calls
  <2> QED
    BY <1>1, <1>2, <1>5, <1>8, <2>1, FeedbackHolds
<1>9. CASE DeviceStreams \/ LoseFrame \/ Reflash
  <2>1. Busy(c) /\ crossed' = crossed
    BY <1>3, <1>9 DEF DeviceStreams, LoseFrame, Reflash, Busy, calls
  <2> QED
    BY <1>1, <1>5, <1>9, <2>1, StreamsHolds
<1>10. CASE UNCHANGED vars
  <2>1. Busy(c) /\ crossed' = crossed /\ toHost' = toHost /\ UNCHANGED <<params, value, calls, answered>>
    BY <1>3, <1>10 DEF vars, deviceVars, calls, Busy
  <2>2. NoMore(toHost, toHost', e)
    BY <2>1, NoMoreSame
  <2> QED
    BY <1>5, <2>1, <2>2, WireHolds
<1> QED
  BY <1>6, <1>7, <1>8, <1>9, <1>10 DEF Next

LEMMA HistoryInductive == ASSUME TypeOK, HistoryTypes, [Next]_vars PROVE HistoryTypes'
<1>1. ASSUME NEW d \in Callers, Step(d) PROVE HistoryTypes'
  BY <1>1, StepCrosses
<1>2. CASE crossed' = crossed
  BY <1>2 DEF HistoryTypes
<1>3. ASSUME NEW d \in Callers, NewCall(d) PROVE crossed' = crossed
  BY <1>3 DEF NewCall
<1>4. CASE ProcessFeedbackFrame \/ DeviceStreams \/ LoseFrame \/ Reflash \/ UNCHANGED vars
  BY <1>2, <1>4 DEF ProcessFeedbackFrame, DeviceStreams, LoseFrame, Reflash, vars
<1> QED
  BY <1>1, <1>2, <1>3, <1>4 DEF Next

LEMMA StraightInductive == ASSUME StraightInv, Apart, [Next]_vars PROVE StraightInv'
<1>1. TypeOK /\ HistoryTypes /\ Plain(stream) /\ \A c \in Callers : Fits(c)
  BY DEF StraightInv
<1>2. TypeOK' /\ HistoryTypes'
  BY <1>1, TypeInductive, HistoryInductive
<1>3. \A c \in Callers : Fits(c)'
  BY <1>1, <1>2, AllFit
<1>4. Plain(stream') /\ setup' = setup
  BY <1>1, StreamStaysPlain
<1>5. ASSUME NEW c \in Callers, Straight(c)' PROVE ParamHolds(c, setup.on[c])'
  BY <1>4, <1>5, StraightHolds
<1> QED
  BY <1>2, <1>3, <1>4, <1>5 DEF StraightInv, Plain

LEMMA StraightAlways == ASSUME Apart PROVE SafeSpec => []StraightInv
<1>1. Init => StraightInv
  BY InitStraight
<1>2. StraightInv /\ [Next]_vars => StraightInv'
  BY StraightInductive
<1> QED
  BY <1>1, <1>2, PTL DEF SafeSpec

(* Of the steps of an exchange only one ends it well. *)
LEMMA OnlyGotAnswer ==
  ASSUME TypeOK, NEW c \in Callers, Fits(c), op[c] \in Exchanged, Step(c), Ends(c, "ok")
  PROVE  GotAnswer(c)
<1>1. /\ Kind(c) = op[c] /\ Len(todo[c]) = 1 /\ pc[c] # "collect" /\ pc[c] # "idle"
      /\ op[c] \in {"read", "get", "write"}
  BY PhaseAt DEF Fits, Ends, Exchanged
<1>2. pc'[c] = "idle" /\ result'[c] = "ok"
  BY DEF Ends
<1>3. ~PhaseFails(c)
  BY <1>1, <1>2, FailsCase DEF Over
<1>4. ~FirstAsk(c)
  BY <1>2 DEF FirstAsk, TypeOK, CallTypes
<1>5. ~ReadContinues(c) /\ ~AskAgain(c)
  BY <1>1, <1>2 DEF ReadContinues, AskAgain
<1> QED
  BY <1>1, <1>3, <1>4, <1>5
     DEF Step, Skips, SendFails, TimesOut, DescConflict, DescGrows, DescAsks, DescComplete, Collect, Receiving

LEMMA EndsOnlyItself ==
  ASSUME TypeOK, NEW c \in Callers, Ends(c, "ok"), [Next]_vars
  PROVE  Step(c)
<1>1. pc'[c] # pc[c] /\ pc[c] # "idle"
  BY DEF Ends
<1>2. ~(ProcessFeedbackFrame \/ DeviceStreams \/ LoseFrame \/ Reflash \/ UNCHANGED vars)
  BY <1>1 DEF ProcessFeedbackFrame, DeviceStreams, LoseFrame, Reflash, vars, calls
<1>3. ASSUME NEW d \in Callers, NewCall(d) PROVE FALSE
  BY <1>1, <1>3, NewCallCases DEF Beside
<1>4. ASSUME NEW d \in Callers, Step(d) PROVE d = c
  BY <1>1, <1>4, StepCases DEF Beside
<1> QED
  BY <1>2, <1>3, <1>4 DEF Next

LEMMA EndsExchanged ==
  ASSUME StraightInv, NEW c \in Callers, crossed[c] = None, op[c] \in {"read", "write"}, Ends(c, "ok"),
         [Next]_vars
  PROVE  /\ op[c] = "read" => raw[On(c)] = Whole(On(c))
         /\ op[c] = "write" => value # before[c]
<1>1. TypeOK /\ Fits(c) /\ op[c] \in Exchanged
  BY DEF StraightInv, Exchanged
<1>2. GotAnswer(c)
  BY <1>1, EndsOnlyItself, OnlyGotAnswer
<1> PICK e : e = setup.on[c]
  OBVIOUS
<1>3. pc[c] = "wait" /\ Ready(c) /\ Kind(c) = op[c] /\ On(c) = e
  BY <1>1, <1>2, PhaseAt DEF GotAnswer, Waiting
<1>4. e \in Endpoints /\ setup.calls[c] \cap Exchanged # {}
  BY <1>1, <1>3 DEF Fits, TypeOK, DeviceTypes, SetupType, Endpoints
<1>5. ParamHolds(c, e)
  BY <1>1, <1>3, <1>4 DEF StraightInv, Straight, Owner, Busy
<1>6. HasSoFar(c, e)
  BY <1>1, <1>3, <1>5 DEF ParamHolds, Busy
<1>7. ASSUME op[c] = "read" PROVE raw[e] = Whole(e)
  <2>1. raw[e] \in Seq(Nat) /\ Len(raw[e]) \in Nat
    BY <1>1, <1>4 DEF TypeOK, CacheTypes
  <2>2. shape[e] = "last"
    BY <1>3, <1>7 DEF Ready
  <2>3. Len(raw[e]) = Width(e)
    BY <1>6, <1>7, <2>1, <2>2 DEF HasSoFar, ShapeOf, Width, None
  <2>4. \A k \in 1 .. Width(e) : raw[e][k] = Chunk(e, k)
    BY <1>6, <1>7, <2>3 DEF HasSoFar
  <2>5. \A s \in Seq(Nat) : s = [k \in 1 .. Len(s) |-> s[k]]
    OBVIOUS
  <2>6. raw[e] = [k \in 1 .. Len(raw[e]) |-> raw[e][k]]
    BY <2>1, <2>5
  <2> QED
    BY <2>3, <2>4, <2>6 DEF Whole
<1>8. ASSUME op[c] = "write" PROVE value # before[c]
  BY <1>3, <1>6, <1>8 DEF Ready, HasSoFar
<1> QED
  BY <1>3, <1>7, <1>8

(* The property OkMeansExchanged, of read_param_raw and wait_for_write_ack *)
(* where the threads that exchange parameters use distinct endpoints, with *)
(* late answers and failing sends too.                                     *)
THEOREM OkIsExchanged == ASSUME Apart PROVE SafeSpec => OkMeansExchanged
<1>1. ASSUME StraightInv, [Next]_vars
      PROVE  [\A c \in Callers : Ends(c, "ok") /\ crossed[c] = None =>
                /\ op[c] = "read" => raw[On(c)] = Whole(On(c))
                /\ op[c] = "write" => value # before[c]]_vars
  BY <1>1, EndsExchanged
<1>2. SafeSpec => []StraightInv
  BY StraightAlways
<1> QED
  BY <1>1, <1>2, PTL DEF SafeSpec, OkMeansExchanged

-----------------------------------------------------------------------------
(***************************************************************************)
(* One mishap.  Losing a frame or a request, or restarting the device with *)
(* another descriptor, does not end a call of read_param_raw, warm_up or   *)
(* read_endpoint_descriptor_raw, and what a transfer collects is still one *)
(* descriptor. The proof begins with the wire: the frames of the           *)
(* descriptor that are on it, in which order, and what of them the cache   *)
(* takes.                                                                  *)
(***************************************************************************)
(* The proofs below name what they use of the constants. *)
HIDE CyberBeastAssumption DEF CyberBeastAssumption

(* Frames of the descriptor. *)
OfDesc(f) == f.kind \in {"meta", "chunk"}
IsChunk(f, n) == f.kind = "chunk" /\ f.i = n

(* The frame f tells of the descriptor v, and so do all those of a wire. *)
Of(f, v) ==
  /\ f.kind = "meta" => f.i = 0 /\ f.v = v
  /\ f.kind = "chunk" => f.i \in 1 .. Length(v) /\ f.v = Content(v, f.i)
WireOf(q, s, v) == (\A k \in 1 .. Len(q) : Of(q[k], v)) /\ (\A k \in 1 .. Len(s) : Of(s[k], v))
DescOf(d, v) ==
  /\ ~d.conflict /\ d.total \in {0, Length(v)}
  /\ \A k \in 1 .. Len(d.bytes) : d.bytes[k] = Content(v, k)

(* Chunk n comes after the first i frames of q, the frames of s after q's. *)
Comes(q, s, n, i) ==
  \/ \E j \in 1 .. Len(q) : i < j /\ IsChunk(q[j], n)
  \/ \E j \in 1 .. Len(s) : IsChunk(s[j], n)

(* A chunk is followed by the next. *)
InOrder(q, s, v) ==
  /\ \A i \in 1 .. Len(q), n \in Nat : IsChunk(q[i], n) /\ n < Length(v) => Comes(q, s, n + 1, i)
  /\ \A i \in 1 .. Len(s), n \in Nat :
       IsChunk(s[i], n) /\ n < Length(v) => i + 1 \in 1 .. Len(s) /\ IsChunk(s[i + 1], n + 1)

(* All that d lacks is on its way. *)
Begins(q, s) ==
  \/ \E i \in 1 .. Len(q) : q[i].kind = "meta" /\ Comes(q, s, 1, i)
  \/ \E i \in 1 .. Len(s) : s[i].kind = "meta" /\ i + 1 \in 1 .. Len(s) /\ IsChunk(s[i + 1], 1)
Coming(q, s, d, v) ==
  IF d.total = 0 THEN Begins(q, s) ELSE Len(d.bytes) = Length(v) \/ Comes(q, s, Len(d.bytes) + 1, 0)

(* Nothing comes twice. *)
Low(d) == IF d.total = 0 THEN 0 ELSE Len(d.bytes) + 1
Tight(q, s, low) ==
  /\ \A i, j \in 1 .. Len(q) : i < j /\ OfDesc(q[i]) /\ OfDesc(q[j]) => q[i].i < q[j].i
  /\ \A i \in 1 .. Len(q), j \in 1 .. Len(s) : OfDesc(q[i]) => q[i].i < s[j].i
  /\ \A i, j \in 1 .. Len(s) : i < j => s[i].i < s[j].i
  /\ \A i \in 1 .. Len(q) : OfDesc(q[i]) => low <= q[i].i
  /\ \A i \in 1 .. Len(s) : low <= s[i].i

(* Nothing of the descriptor is on its way; a meta frame before any chunk. *)
NoDesc(q, s) == s = <<>> /\ \A i \in 1 .. Len(q) : ~OfDesc(q[i])
MetaFirst(q, s) ==
  \/ \E i \in 1 .. Len(q) : q[i].kind = "meta" /\ \A j \in 1 .. Len(q) : j < i => q[j].kind # "chunk"
  \/ /\ \A j \in 1 .. Len(q) : q[j].kind # "chunk"
     /\ s # <<>> /\ s[1].kind = "meta"

(* Descriptors and frames are bounded by their types. *)
LEMMA LengthIs == \A v \in Versions : Length(v) \in Nat /\ Length(v) >= 2
BY DEF Length, Versions

LEMMA FrameIs == \A f \in Frames : f.i \in Nat /\ f.v \in Nat
BY DEF Frames

LEMMA Taken ==
  ASSUME NEW q \in Seq(Frames), q # <<>>, NEW t, t = Tail(q)
  PROVE  /\ 1 \in 1 .. Len(q) /\ Head(q) = q[1] /\ q[1] \in Frames /\ t \in Seq(Frames)
         /\ \A j \in 1 .. Len(t) : j \in Nat /\ j >= 1 /\ j + 1 \in 1 .. Len(q) /\ t[j] = q[j + 1]
         /\ \A i \in 1 .. Len(q) : i \in Nat /\ i >= 1 /\ (i # 1 => i - 1 \in 1 .. Len(t) /\ t[i - 1] = q[i])
<1>1. /\ Len(t) = Len(q) - 1 /\ Len(q) \in Nat /\ Len(q) >= 1 /\ Head(q) = q[1] /\ t \in Seq(Frames)
      /\ \A k \in 1 .. Len(q) - 1 : t[k] = q[k + 1]
  OBVIOUS
<1>2. q[1] \in Frames
  BY <1>1
<1>3. ASSUME NEW i \in 1 .. Len(q), i # 1 PROVE i - 1 \in 1 .. Len(t) /\ t[i - 1] = q[i]
  <2>1. i - 1 \in 1 .. Len(q) - 1 /\ (i - 1) + 1 = i
    BY <1>1, <1>3
  <2> QED
    BY <1>1, <2>1
<1> QED
  BY <1>1, <1>2, <1>3

-----------------------------------------------------------------------------
(* A frame of something else changes nothing. *)
LEMMA ComesAdds ==
  ASSUME NEW q \in Seq(Frames), NEW f \in Frames, NEW t, t = Append(q, f), NEW s, NEW n, NEW i,
         Comes(q, s, n, i)
  PROVE  Comes(t, s, n, i)
BY Appended DEF Comes

LEMMA WireAdds ==
  ASSUME NEW q \in Seq(Frames), NEW s \in Seq(Frames), NEW f \in Frames, ~OfDesc(f), NEW t, t = Append(q, f)
  PROVE  /\ \A v : WireOf(q, s, v) => WireOf(t, s, v)
         /\ \A v : InOrder(q, s, v) => InOrder(t, s, v)
         /\ \A d, v : Coming(q, s, d, v) => Coming(t, s, d, v)
         /\ \A low : Tight(q, s, low) => Tight(t, s, low)
         /\ NoDesc(q, s) => NoDesc(t, s)
         /\ MetaFirst(q, s) => MetaFirst(t, s)
<1>1. /\ Len(q) \in Nat /\ Len(t) = Len(q) + 1 /\ t[Len(q) + 1] = f
      /\ \A i \in 1 .. Len(q) : t[i] = q[i] /\ i \in 1 .. Len(t)
      /\ \A j \in 1 .. Len(t) : j \in 1 .. Len(q) \/ j = Len(q) + 1
  BY Appended
<1>2. f.kind # "meta" /\ f.kind # "chunk"
  BY DEF OfDesc
<1>3. \A v : WireOf(q, s, v) => WireOf(t, s, v)
  BY <1>1, <1>2 DEF WireOf, Of
<1>4. ASSUME NEW v, InOrder(q, s, v) PROVE InOrder(t, s, v)
  <2>1. ASSUME NEW i \in 1 .. Len(t), NEW n \in Nat, IsChunk(t[i], n), n < Length(v)
        PROVE  Comes(t, s, n + 1, i)
    <3>1. i \in 1 .. Len(q) /\ t[i] = q[i]
      BY <1>1, <1>2, <2>1 DEF IsChunk
    <3>2. Comes(q, s, n + 1, i)
      BY <1>4, <2>1, <3>1 DEF InOrder
    <3> QED
      BY <3>2, ComesAdds
  <2> QED
    BY <1>4, <2>1 DEF InOrder
<1>5. ASSUME NEW d, NEW v, Coming(q, s, d, v) PROVE Coming(t, s, d, v)
  <2>1. Begins(q, s) => Begins(t, s)
    BY <1>1, ComesAdds DEF Begins
  <2>2. \A n, i : Comes(q, s, n, i) => Comes(t, s, n, i)
    BY ComesAdds
  <2> QED
    BY <1>5, <2>1, <2>2 DEF Coming
<1>6. \A low : Tight(q, s, low) => Tight(t, s, low)
  BY <1>1, <1>2 DEF Tight, OfDesc
<1>7. NoDesc(q, s) => NoDesc(t, s)
  BY <1>1 DEF NoDesc
<1>8. MetaFirst(q, s) => MetaFirst(t, s)
  BY <1>1, <1>2 DEF MetaFirst
<1> QED
  BY <1>3, <1>4, <1>5, <1>6, <1>7, <1>8

(* The device sends the next frame of its stream. *)
LEMMA WireStreams ==
  ASSUME NEW q \in Seq(Frames), NEW s \in Seq(Frames), s # <<>>, Plain(s),
         NEW t, t = Append(q, Head(s)), NEW r, r = Tail(s)
  PROVE  /\ \A v : WireOf(q, s, v) => WireOf(t, r, v)
         /\ \A v : InOrder(q, s, v) => InOrder(t, r, v)
         /\ \A d, v : Coming(q, s, d, v) => Coming(t, r, d, v)
         /\ \A low : Tight(q, s, low) => Tight(t, r, low)
         /\ MetaFirst(q, s) => MetaFirst(t, r)
<1>1. /\ 1 \in 1 .. Len(s) /\ Head(s) = s[1] /\ s[1] \in Frames /\ r \in Seq(Frames)
      /\ \A j \in 1 .. Len(r) : j \in Nat /\ j >= 1 /\ j + 1 \in 1 .. Len(s) /\ r[j] = s[j + 1]
      /\ \A i \in 1 .. Len(s) : i \in Nat /\ i >= 1 /\ (i # 1 => i - 1 \in 1 .. Len(r) /\ r[i - 1] = s[i])
  BY Taken
<1>2. /\ Len(q) \in Nat /\ Len(t) = Len(q) + 1 /\ t[Len(q) + 1] = s[1]
      /\ \A i \in 1 .. Len(q) : t[i] = q[i] /\ i \in 1 .. Len(t) /\ i <= Len(q) /\ i \in Nat
      /\ \A j \in 1 .. Len(t) : j \in 1 .. Len(q) \/ j = Len(q) + 1
      /\ Len(q) + 1 \in 1 .. Len(t)
  BY <1>1, Appended
<1>3. \A v : WireOf(q, s, v) => WireOf(t, r, v)
  BY <1>1, <1>2 DEF WireOf
<1>4. ASSUME NEW n, NEW i \in Nat, i <= Len(q), Comes(q, s, n, i) PROVE Comes(t, r, n, i)
  <2>1. CASE \E j \in 1 .. Len(q) : i < j /\ IsChunk(q[j], n)
    BY <1>2, <2>1 DEF Comes
  <2>2. CASE \E j \in 1 .. Len(s) : IsChunk(s[j], n)
    <3>1. PICK j \in 1 .. Len(s) : IsChunk(s[j], n)
      BY <2>2
    <3>2. CASE j = 1
      <4>1. IsChunk(t[Len(q) + 1], n) /\ Len(q) + 1 \in 1 .. Len(t)
        BY <1>2, <3>1, <3>2
      <4>2. CASE i < Len(q) + 1
        BY <4>1, <4>2 DEF Comes
      <4> QED
        BY <1>2, <1>4, <4>2
    <3>3. CASE j # 1
      BY <1>1, <3>1, <3>3 DEF Comes
    <3> QED
      BY <3>2, <3>3
  <2> QED
    BY <1>4, <2>1, <2>2 DEF Comes
<1>5. ASSUME NEW v, InOrder(q, s, v) PROVE InOrder(t, r, v)
  <2>1. ASSUME NEW i \in 1 .. Len(t), NEW n \in Nat, IsChunk(t[i], n), n < Length(v)
        PROVE  Comes(t, r, n + 1, i)
    <3>1. CASE i \in 1 .. Len(q)
      <4>1. Comes(q, s, n + 1, i)
        BY <1>2, <1>5, <2>1, <3>1 DEF InOrder
      <4> QED
        BY <1>2, <1>4, <3>1, <4>1
    <3>2. CASE i = Len(q) + 1
      <4>1. IsChunk(s[1], n)
        BY <1>2, <2>1, <3>2
      <4>2. 1 + 1 \in 1 .. Len(s) /\ IsChunk(s[1 + 1], n + 1)
        BY <1>1, <1>5, <2>1, <4>1 DEF InOrder
      <4>3. 1 \in 1 .. Len(r) /\ r[1] = s[1 + 1]
        <5>1. (1 + 1) - 1 = 1 /\ 1 + 1 # 1
          OBVIOUS
        <5>2. (1 + 1) - 1 \in 1 .. Len(r) /\ r[(1 + 1) - 1] = s[1 + 1]
          BY <1>1, <4>2
        <5> QED
          BY <5>1, <5>2
      <4> QED
        BY <4>2, <4>3 DEF Comes
    <3> QED
      BY <1>2, <3>1, <3>2
  <2>2. ASSUME NEW i \in 1 .. Len(r), NEW n \in Nat, IsChunk(r[i], n), n < Length(v)
        PROVE  i + 1 \in 1 .. Len(r) /\ IsChunk(r[i + 1], n + 1)
    <3>1. i + 1 \in 1 .. Len(s) /\ r[i] = s[i + 1] /\ i \in Nat /\ i >= 1
      BY <1>1
    <3>2. (i + 1) + 1 \in 1 .. Len(s) /\ IsChunk(s[(i + 1) + 1], n + 1)
      BY <1>5, <2>2, <3>1 DEF InOrder
    <3>3. (i + 1) + 1 # 1 /\ ((i + 1) + 1) - 1 = i + 1
      BY <3>1
    <3>4. ((i + 1) + 1) - 1 \in 1 .. Len(r) /\ r[((i + 1) + 1) - 1] = s[(i + 1) + 1]
      BY <1>1, <3>2, <3>3
    <3> QED
      BY <3>2, <3>3, <3>4
  <2> QED
    BY <2>1, <2>2 DEF InOrder
<1>6. ASSUME Begins(q, s) PROVE Begins(t, r)
  <2>1. CASE \E i \in 1 .. Len(q) : q[i].kind = "meta" /\ Comes(q, s, 1, i)
    <3>1. PICK i \in 1 .. Len(q) : q[i].kind = "meta" /\ Comes(q, s, 1, i)
      BY <2>1
    <3>2. Comes(t, r, 1, i) /\ i \in 1 .. Len(t) /\ t[i].kind = "meta"
      BY <1>2, <1>4, <3>1
    <3> QED
      BY <3>2 DEF Begins
  <2>2. CASE \E i \in 1 .. Len(s) : s[i].kind = "meta" /\ i + 1 \in 1 .. Len(s) /\ IsChunk(s[i + 1], 1)
    <3>1. PICK i \in 1 .. Len(s) : s[i].kind = "meta" /\ i + 1 \in 1 .. Len(s) /\ IsChunk(s[i + 1], 1)
      BY <2>2
    <3>2. i \in Nat /\ i >= 1 /\ i + 1 # 1 /\ (i + 1) - 1 = i
      BY <1>1
    <3>3. i \in 1 .. Len(r) /\ r[i] = s[i + 1]
      BY <1>1, <3>1, <3>2
    <3>4. CASE i = 1
      <4>1. Comes(t, r, 1, Len(q) + 1)
        BY <3>1, <3>3 DEF Comes
      <4> QED
        BY <1>2, <3>1, <3>4, <4>1 DEF Begins
    <3>5. CASE i # 1
      <4>1. i - 1 \in 1 .. Len(r) /\ r[i - 1].kind = "meta" /\ (i - 1) + 1 = i
        BY <1>1, <3>1, <3>2, <3>5
      <4>2. (i - 1) + 1 \in 1 .. Len(r) /\ IsChunk(r[(i - 1) + 1], 1)
        BY <3>1, <3>3, <4>1
      <4> QED
        BY <4>1, <4>2 DEF Begins
    <3> QED
      BY <3>4, <3>5
  <2> QED
    BY <1>6, <2>1, <2>2 DEF Begins
<1>7. \A d, v : Coming(q, s, d, v) => Coming(t, r, d, v)
  <2>1. \A n : Comes(q, s, n, 0) => Comes(t, r, n, 0)
    BY <1>2, <1>4
  <2> QED
    BY <1>6, <2>1 DEF Coming
<1>8. ASSUME NEW low, Tight(q, s, low) PROVE Tight(t, r, low)
  <2>1. OfDesc(s[1])
    BY <1>1 DEF Plain, OfDesc
  <2>2. ASSUME NEW i \in 1 .. Len(t), NEW j \in 1 .. Len(t), i < j, OfDesc(t[i]), OfDesc(t[j])
        PROVE  t[i].i < t[j].i
    <3>1. CASE j \in 1 .. Len(q)
      <4>1. i \in 1 .. Len(q)
        BY <1>2, <2>2, <3>1
      <4> QED
        BY <1>2, <1>8, <2>2, <3>1, <4>1 DEF Tight
    <3>2. CASE j = Len(q) + 1
      <4>1. i \in 1 .. Len(q)
        BY <1>2, <2>2, <3>2
      <4> QED
        BY <1>1, <1>2, <1>8, <2>2, <3>2, <4>1 DEF Tight
    <3> QED
      BY <1>2, <3>1, <3>2
  <2>3. ASSUME NEW i \in 1 .. Len(t), NEW j \in 1 .. Len(r), OfDesc(t[i])
        PROVE  t[i].i < r[j].i
    <3>1. j + 1 \in 1 .. Len(s) /\ r[j] = s[j + 1] /\ 1 < j + 1
      BY <1>1
    <3>2. CASE i \in 1 .. Len(q)
      BY <1>2, <1>8, <2>3, <3>1, <3>2 DEF Tight
    <3>3. CASE i = Len(q) + 1
      BY <1>1, <1>2, <1>8, <3>1, <3>3 DEF Tight
    <3> QED
      BY <1>2, <3>2, <3>3
  <2>4. ASSUME NEW i \in 1 .. Len(r), NEW j \in 1 .. Len(r), i < j PROVE r[i].i < r[j].i
    <3>1. i + 1 \in 1 .. Len(s) /\ j + 1 \in 1 .. Len(s) /\ r[i] = s[i + 1] /\ r[j] = s[j + 1] /\ i + 1 < j + 1
      BY <1>1, <2>4
    <3> QED
      BY <1>8, <3>1 DEF Tight
  <2>5. \A i \in 1 .. Len(t) : OfDesc(t[i]) => low <= t[i].i
    BY <1>1, <1>2, <1>8 DEF Tight
  <2>6. \A i \in 1 .. Len(r) : low <= r[i].i
    BY <1>1, <1>8 DEF Tight
  <2> QED
    BY <2>2, <2>3, <2>4, <2>5, <2>6 DEF Tight
<1>9. ASSUME MetaFirst(q, s) PROVE MetaFirst(t, r)
  <2>1. CASE \E i \in 1 .. Len(q) : q[i].kind = "meta" /\ \A j \in 1 .. Len(q) : j < i => q[j].kind # "chunk"
    <3>1. PICK i \in 1 .. Len(q) : q[i].kind = "meta" /\ \A j \in 1 .. Len(q) : j < i => q[j].kind # "chunk"
      BY <2>1
    <3>2. i \in 1 .. Len(t) /\ t[i].kind = "meta" /\ i <= Len(q) /\ i \in Nat
      BY <1>2, <3>1
    <3>3. \A j \in 1 .. Len(t) : j < i => j \in 1 .. Len(q)
      BY <1>2, <3>2
    <3>4. \A j \in 1 .. Len(t) : j < i => t[j].kind # "chunk"
      BY <1>2, <3>1, <3>3
    <3> QED
      BY <3>2, <3>4 DEF MetaFirst
  <2>2. CASE (\A j \in 1 .. Len(q) : q[j].kind # "chunk") /\ s[1].kind = "meta"
    <3>1. Len(q) + 1 \in 1 .. Len(t) /\ t[Len(q) + 1].kind = "meta"
      BY <1>2, <2>2
    <3>2. \A j \in 1 .. Len(t) : j < Len(q) + 1 => j \in 1 .. Len(q)
      BY <1>2
    <3>3. \A j \in 1 .. Len(t) : j < Len(q) + 1 => t[j].kind # "chunk"
      BY <1>2, <2>2, <3>2
    <3> QED
      BY <3>1, <3>3 DEF MetaFirst
  <2> QED
    BY <1>9, <2>1, <2>2 DEF MetaFirst
<1> QED
  BY <1>3, <1>5, <1>7, <1>8, <1>9

-----------------------------------------------------------------------------
(* The first frame of the wire is gone. *)
LEMMA ComesTail ==
  ASSUME NEW q \in Seq(Frames), q # <<>>, NEW t, t = Tail(q), NEW s, NEW n
  PROVE  /\ \A i \in Nat : i >= 1 /\ Comes(q, s, n, i) => Comes(t, s, n, i - 1)
         /\ Comes(q, s, n, 0) /\ ~IsChunk(q[1], n) => Comes(t, s, n, 0)
<1>1. \A i \in 1 .. Len(q) : i \in Nat /\ i >= 1 /\ (i # 1 => i - 1 \in 1 .. Len(t) /\ t[i - 1] = q[i])
  BY Taken
<1>2. ASSUME NEW i \in Nat, NEW k \in Nat, Comes(q, s, n, i),
             \A j \in 1 .. Len(q) : i < j /\ IsChunk(q[j], n) => j # 1 /\ k < j - 1
      PROVE  Comes(t, s, n, k)
  <2>1. CASE \E j \in 1 .. Len(q) : i < j /\ IsChunk(q[j], n)
    <3>1. PICK j \in 1 .. Len(q) : i < j /\ IsChunk(q[j], n)
      BY <2>1
    <3>2. j # 1 /\ k < j - 1 /\ j - 1 \in 1 .. Len(t) /\ IsChunk(t[j - 1], n)
      BY <1>1, <1>2, <3>1
    <3> QED
      BY <3>2 DEF Comes
  <2>2. CASE \E j \in 1 .. Len(s) : IsChunk(s[j], n)
    BY <2>2 DEF Comes
  <2> QED
    BY <1>2, <2>1, <2>2 DEF Comes
<1>3. ASSUME NEW i \in Nat, i >= 1, Comes(q, s, n, i) PROVE Comes(t, s, n, i - 1)
  <2>1. i - 1 \in Nat
    BY <1>3
  <2>2. \A j \in 1 .. Len(q) : i < j => j # 1 /\ i - 1 < j - 1
    BY <1>1, <1>3
  <2> QED
    BY <1>2, <1>3, <2>1, <2>2
<1>4. ASSUME Comes(q, s, n, 0), ~IsChunk(q[1], n) PROVE Comes(t, s, n, 0)
  <2>1. \A j \in 1 .. Len(q) : j # 1 => 0 < j - 1
    BY <1>1
  <2>2. \A j \in 1 .. Len(q) : IsChunk(q[j], n) => j # 1
    BY <1>4
  <2> QED
    BY <1>2, <1>4, <2>1, <2>2
<1> QED
  BY <1>3, <1>4

LEMMA WireTail ==
  ASSUME NEW q \in Seq(Frames), q # <<>>, NEW t, t = Tail(q), NEW s
  PROVE  /\ \A v : WireOf(q, s, v) => WireOf(t, s, v) /\ Of(q[1], v)
         /\ \A v : InOrder(q, s, v) => InOrder(t, s, v)
         /\ NoDesc(q, s) => NoDesc(t, s) /\ ~OfDesc(q[1])
         /\ MetaFirst(q, s) /\ q[1].kind # "meta" => MetaFirst(t, s) /\ q[1].kind # "chunk"
<1>1. /\ 1 \in 1 .. Len(q) /\ q[1] \in Frames /\ t \in Seq(Frames)
      /\ \A j \in 1 .. Len(t) : j \in Nat /\ j >= 1 /\ j + 1 \in 1 .. Len(q) /\ t[j] = q[j + 1]
      /\ \A i \in 1 .. Len(q) : i \in Nat /\ i >= 1 /\ (i # 1 => i - 1 \in 1 .. Len(t) /\ t[i - 1] = q[i])
  BY Taken
<1>2. \A v : WireOf(q, s, v) => WireOf(t, s, v) /\ Of(q[1], v)
  BY <1>1 DEF WireOf
<1>3. ASSUME NEW v, InOrder(q, s, v) PROVE InOrder(t, s, v)
  <2>1. ASSUME NEW i \in 1 .. Len(t), NEW n \in Nat, IsChunk(t[i], n), n < Length(v)
        PROVE  Comes(t, s, n + 1, i)
    <3>1. i + 1 \in 1 .. Len(q) /\ t[i] = q[i + 1] /\ i \in Nat /\ (i + 1) - 1 = i /\ i + 1 >= 1 /\ i + 1 \in Nat
      BY <1>1
    <3>2. Comes(q, s, n + 1, i + 1)
      BY <1>3, <2>1, <3>1 DEF InOrder
    <3>3. Comes(t, s, n + 1, (i + 1) - 1)
      BY <3>1, <3>2, ComesTail
    <3> QED
      BY <3>1, <3>3
  <2> QED
    BY <1>3, <2>1 DEF InOrder
<1>4. NoDesc(q, s) => NoDesc(t, s) /\ ~OfDesc(q[1])
  BY <1>1 DEF NoDesc
<1>5. ASSUME MetaFirst(q, s), q[1].kind # "meta" PROVE MetaFirst(t, s) /\ q[1].kind # "chunk"
  <2>1. CASE \E i \in 1 .. Len(q) : q[i].kind = "meta" /\ \A j \in 1 .. Len(q) : j < i => q[j].kind # "chunk"
    <3>1. PICK i \in 1 .. Len(q) : q[i].kind = "meta" /\ \A j \in 1 .. Len(q) : j < i => q[j].kind # "chunk"
      BY <2>1
    <3>2. i # 1 /\ i \in Nat /\ i >= 1 /\ i - 1 \in 1 .. Len(t) /\ t[i - 1].kind = "meta" /\ 1 < i
      BY <1>1, <1>5, <3>1
    <3>3. \A j \in 1 .. Len(t) : j < i - 1 => j + 1 \in 1 .. Len(q) /\ j + 1 < i /\ t[j] = q[j + 1]
      BY <1>1, <3>2
    <3>4. \A j \in 1 .. Len(t) : j < i - 1 => t[j].kind # "chunk"
      BY <3>1, <3>3
    <3> QED
      BY <1>1, <3>1, <3>2, <3>4 DEF MetaFirst
  <2>2. CASE (\A j \in 1 .. Len(q) : q[j].kind # "chunk") /\ s # <<>> /\ s[1].kind = "meta"
    BY <1>1, <2>2 DEF MetaFirst
  <2> QED
    BY <1>5, <2>1, <2>2 DEF MetaFirst
<1> QED
  BY <1>2, <1>3, <1>4, <1>5

(* What the cache makes of a frame, of d what it makes e. *)
Taking(d, f, e) ==
  \/ /\ e = d /\ f.kind # "meta"
     /\ f.kind = "chunk" => d.total = 0 \/ f.i > d.total \/ f.i > Len(d.bytes) + 1
  \/ f.kind = "meta" /\ d.total = Length(f.v) /\ e = d
  \/ /\ f.kind = "meta" /\ d.total = 0
     /\ e.total = Length(f.v) /\ e.bytes = d.bytes /\ e.conflict = d.conflict
  \/ /\ f.kind = "meta" /\ d.total \notin {0, Length(f.v)}
     /\ e.total = d.total /\ e.bytes = d.bytes /\ e.conflict
  \/ /\ f.kind = "chunk" /\ d.total # 0 /\ f.i <= d.total /\ f.i <= Len(d.bytes)
     /\ e.total = d.total /\ e.bytes = d.bytes /\ e.conflict = (d.conflict \/ d.bytes[f.i] # f.v)
  \/ /\ f.kind = "chunk" /\ d.total # 0 /\ f.i <= d.total /\ f.i = Len(d.bytes) + 1
     /\ e.total = d.total /\ e.bytes = Append(d.bytes, f.v) /\ e.conflict = d.conflict

LEMMA RecordTakes ==
  ASSUME TypeOK, ProcessFeedbackFrame
  PROVE  Taking(desc, Head(toHost), desc')
<1> PICK f : f = Head(toHost)
  OBVIOUS
<1>1. /\ desc.total \in Nat /\ desc.bytes \in Seq(Nat) /\ Len(desc.bytes) \in Nat
      /\ desc = [total |-> desc.total, bytes |-> desc.bytes, conflict |-> desc.conflict]
  BY DEF TypeOK, CacheTypes
<1>2. desc' = CASE f.kind = "meta" -> RecordMeta(f) [] f.kind = "chunk" -> RecordChunk(f)
                [] OTHER -> desc
  BY DEF ProcessFeedbackFrame
<1>3. f \in Frames /\ f.i \in Nat /\ Length(f.v) # 0
  BY DEF ProcessFeedbackFrame, TypeOK, DeviceTypes, Frames, Length
<1>4. CASE f.kind = "meta"
  <2>1. desc' = RecordMeta(f)
    BY <1>2, <1>4
  <2>2. CASE desc.total = 0
    <3>1. desc' = [desc EXCEPT !.total = Length(f.v)]
      BY <1>3, <2>1, <2>2 DEF RecordMeta
    <3>2. desc'.total = Length(f.v) /\ desc'.bytes = desc.bytes /\ desc'.conflict = desc.conflict
      BY <1>1, <3>1
    <3> QED
      BY <1>4, <2>2, <3>2 DEF Taking
  <2>3. CASE desc.total # 0 /\ desc.total = Length(f.v)
    BY <1>4, <2>1, <2>3 DEF RecordMeta, Taking
  <2>4. CASE desc.total # 0 /\ desc.total # Length(f.v)
    <3>1. desc' = [desc EXCEPT !.conflict = TRUE]
      BY <2>1, <2>4 DEF RecordMeta
    <3>2. desc'.total = desc.total /\ desc'.bytes = desc.bytes /\ desc'.conflict
      BY <1>1, <3>1
    <3> QED
      BY <1>4, <2>4, <3>2 DEF Taking
  <2> QED
    BY <2>2, <2>3, <2>4
<1>5. CASE f.kind = "chunk"
  <2>1. desc' = RecordChunk(f)
    BY <1>2, <1>5
  <2>2. CASE ~Usable(f) \/ f.i > Len(desc.bytes) + 1
    BY <1>1, <1>3, <1>5, <2>1, <2>2 DEF RecordChunk, Usable, Taking
  <2>3. CASE Usable(f) /\ f.i <= Len(desc.bytes)
    <3>1. desc' = [desc EXCEPT !.conflict = @ \/ desc.bytes[f.i] # f.v]
      BY <1>1, <1>3, <2>1, <2>3 DEF RecordChunk
    <3>2. /\ desc'.total = desc.total /\ desc'.bytes = desc.bytes
          /\ desc'.conflict = (desc.conflict \/ desc.bytes[f.i] # f.v)
      BY <1>1, <3>1
    <3> QED
      BY <1>5, <2>3, <3>2 DEF Taking, Usable
  <2>4. CASE Usable(f) /\ f.i = Len(desc.bytes) + 1
    <3>1. desc' = [desc EXCEPT !.bytes = Append(@, f.v)]
      BY <1>1, <1>3, <2>1, <2>4 DEF RecordChunk
    <3>2. /\ desc'.total = desc.total /\ desc'.bytes = Append(desc.bytes, f.v)
          /\ desc'.conflict = desc.conflict
      BY <1>1, <3>1
    <3> QED
      BY <1>5, <2>4, <3>2 DEF Taking, Usable
  <2> QED
    BY <1>1, <1>3, <2>2, <2>3, <2>4
<1>6. CASE f.kind # "meta" /\ f.kind # "chunk"
  BY <1>2, <1>6 DEF Taking
<1> QED
  BY <1>4, <1>5, <1>6

(* A bounded cache that tells of v, and a frame of v. *)
Bounded(d) == Len(d.bytes) <= d.total

LEMMA TakingBounds ==
  ASSUME NEW d \in DescType, NEW e \in DescType, NEW f \in Frames, Taking(d, f, e), Bounded(d)
  PROVE  /\ Bounded(e)
         /\ d.total # 0 => e.total = d.total
         /\ Len(d.bytes) <= Len(e.bytes)
         /\ d.total # 0 /\ Len(d.bytes) = d.total => Len(e.bytes) = Len(d.bytes)
         /\ d.conflict => e.conflict
<1>1. /\ d.bytes \in Seq(Nat) /\ Len(d.bytes) \in Nat /\ d.total \in Nat /\ f.v \in Nat /\ f.i \in Nat
      /\ e.total \in Nat
  BY FrameIs DEF DescType
<1>2. Len(Append(d.bytes, f.v)) = Len(d.bytes) + 1
  BY <1>1
<1>3. d.total = 0 => Len(d.bytes) = 0
  BY <1>1 DEF Bounded
<1>4. CASE e.bytes = d.bytes
  <2>1. d.total # 0 => e.total = d.total
    BY DEF Taking
  <2>2. d.conflict => e.conflict
    BY DEF Taking
  <2> QED
    BY <1>1, <1>3, <1>4, <2>1, <2>2 DEF Bounded
<1>5. CASE e.bytes # d.bytes
  <2>1. /\ d.total # 0 /\ f.i <= d.total /\ f.i = Len(d.bytes) + 1
        /\ e.total = d.total /\ e.bytes = Append(d.bytes, f.v) /\ e.conflict = d.conflict
    BY <1>5 DEF Taking
  <2> QED
    BY <1>1, <1>2, <2>1 DEF Bounded
<1> QED
  BY <1>4, <1>5

LEMMA TakingTells ==
  ASSUME NEW v \in Versions, NEW d \in DescType, NEW e \in DescType, NEW f \in Frames,
         Taking(d, f, e), Bounded(d), DescOf(d, v), Of(f, v)
  PROVE  DescOf(e, v)
<1>1. /\ d.bytes \in Seq(Nat) /\ Len(d.bytes) \in Nat /\ d.total \in Nat /\ f.v \in Nat /\ f.i \in Nat
      /\ Length(v) \in Nat
  BY FrameIs, LengthIs DEF DescType
<1>2. \A k \in 1 .. Len(d.bytes) : d.bytes[k] = Content(v, k)
  BY DEF DescOf
<1>3. CASE e.bytes = d.bytes
  <2>1. \A k \in 1 .. Len(e.bytes) : e.bytes[k] = Content(v, k)
    BY <1>2, <1>3
  <2>2. f.kind = "meta" => f.v = v
    BY DEF Of
  <2>3. f.kind = "chunk" /\ f.i <= Len(d.bytes) => d.bytes[f.i] = f.v
    BY <1>1, <1>2 DEF Of
  <2>4. e.total \in {0, Length(v)} /\ ~e.conflict
    <3>1. d.total \in {0, Length(v)} /\ ~d.conflict
      BY DEF DescOf
    <3>2. CASE e = d
      BY <3>1, <3>2
    <3>3. CASE e # d
      BY <1>1, <1>3, <2>2, <2>3, <3>1, <3>3 DEF Taking
    <3> QED
      BY <3>2, <3>3
  <2> QED
    BY <2>1, <2>4 DEF DescOf
<1>4. CASE e.bytes # d.bytes
  <2>1. /\ f.kind = "chunk" /\ f.i = Len(d.bytes) + 1
        /\ e.total = d.total /\ e.bytes = Append(d.bytes, f.v) /\ e.conflict = d.conflict
    BY <1>4 DEF Taking
  <2>2. f.v = Content(v, Len(d.bytes) + 1)
    BY <2>1 DEF Of
  <2>3. /\ Len(e.bytes) = Len(d.bytes) + 1 /\ e.bytes[Len(d.bytes) + 1] = f.v
        /\ \A k \in 1 .. Len(d.bytes) : e.bytes[k] = d.bytes[k]
    BY <1>1, <2>1
  <2>4. \A k \in 1 .. Len(d.bytes) + 1 : k \in 1 .. Len(d.bytes) \/ k = Len(d.bytes) + 1
    BY <1>1
  <2>5. \A k \in 1 .. Len(e.bytes) : e.bytes[k] = Content(v, k)
    BY <1>2, <2>2, <2>3, <2>4
  <2> QED
    BY <2>1, <2>5 DEF DescOf
<1> QED
  BY <1>3, <1>4

LEMMA TakingComes ==
  ASSUME NEW v \in Versions, NEW d \in DescType, NEW e \in DescType, NEW q \in Seq(Frames), q # <<>>,
         NEW s, NEW t, t = Tail(q), Taking(d, q[1], e), Bounded(d), DescOf(d, v), WireOf(q, s, v),
         InOrder(q, s, v), Coming(q, s, d, v)
  PROVE  Coming(t, s, e, v)
<1> PICK f : f = q[1]
  OBVIOUS
<1>1. /\ d.bytes \in Seq(Nat) /\ Len(d.bytes) \in Nat /\ d.total \in Nat
      /\ f \in Frames /\ f.v \in Nat /\ f.i \in Nat /\ 1 \in 1 .. Len(q)
      /\ Length(v) \in Nat /\ Length(v) >= 2 /\ Of(f, v) /\ Taking(d, f, e)
  <2>1. f \in Frames /\ 1 \in 1 .. Len(q)
    BY Taken
  <2>2. Of(f, v)
    BY WireTail
  <2> QED
    BY <2>1, <2>2, FrameIs, LengthIs DEF DescType
<1>2. d.total = 0 => Len(d.bytes) = 0
  BY <1>1 DEF Bounded
<1>3. /\ \A n : \A i \in Nat : i >= 1 /\ Comes(q, s, n, i) => Comes(t, s, n, i - 1)
      /\ \A n : Comes(q, s, n, 0) /\ ~IsChunk(f, n) => Comes(t, s, n, 0)
  BY ComesTail
<1>4. \A i \in 1 .. Len(q) : i \in Nat /\ i >= 1 /\ (i # 1 => i - 1 \in 1 .. Len(t) /\ t[i - 1] = q[i])
  BY Taken
<1>5. \A n, i : i \in Nat /\ Comes(q, s, n, i) => Comes(q, s, n, 0)
  BY <1>4 DEF Comes
<1>6. CASE d.total = 0
  <2>1. Begins(q, s)
    BY <1>6 DEF Coming
  <2>2. CASE f.kind = "meta"
    <3>1. e.total = Length(v) /\ e.bytes = d.bytes
      <4>1. f.v = v /\ Length(v) # 0
        BY <1>1, <2>2 DEF Of
      <4> QED
        BY <1>1, <1>6, <2>2, <4>1 DEF Taking
    <3>2. Comes(q, s, 1, 0)
      BY <1>4, <1>5, <2>1 DEF Begins, Comes
    <3>3. Comes(t, s, 1, 0)
      BY <1>3, <2>2, <3>2 DEF IsChunk
    <3>4. Comes(t, s, Len(e.bytes) + 1, 0)
      BY <1>2, <1>6, <3>1, <3>3
    <3> QED
      BY <1>1, <3>1, <3>4 DEF Coming
  <2>3. CASE f.kind # "meta"
    <3>1. e = d
      BY <1>1, <1>6, <2>3 DEF Taking
    <3>2. Begins(t, s)
      <4>1. CASE \E i \in 1 .. Len(q) : q[i].kind = "meta" /\ Comes(q, s, 1, i)
        <5>1. PICK i \in 1 .. Len(q) : q[i].kind = "meta" /\ Comes(q, s, 1, i)
          BY <4>1
        <5>2. i # 1 /\ i \in Nat /\ i >= 1
          BY <1>4, <2>3, <5>1
        <5>3. i - 1 \in 1 .. Len(t) /\ t[i - 1].kind = "meta" /\ Comes(t, s, 1, i - 1)
          BY <1>3, <1>4, <5>1, <5>2
        <5> QED
          BY <5>3 DEF Begins
      <4>2. CASE \E i \in 1 .. Len(s) : s[i].kind = "meta" /\ i + 1 \in 1 .. Len(s) /\ IsChunk(s[i + 1], 1)
        BY <4>2 DEF Begins
      <4> QED
        BY <2>1, <4>1, <4>2 DEF Begins
    <3> QED
      BY <1>6, <3>1, <3>2 DEF Coming
  <2> QED
    BY <2>2, <2>3
<1>7. CASE d.total # 0
  <2>1. d.total = Length(v)
    BY <1>7 DEF DescOf
  <2>2. Len(d.bytes) = Length(v) \/ Comes(q, s, Len(d.bytes) + 1, 0)
    BY <1>7 DEF Coming
  <2>3. CASE IsChunk(f, Len(d.bytes) + 1)
    <3>1. f.i <= Length(v) /\ f.i = Len(d.bytes) + 1 /\ f.kind = "chunk"
      BY <1>1, <2>3 DEF Of, IsChunk
    <3>2. e.total = d.total /\ e.bytes = Append(d.bytes, f.v)
      BY <1>1, <1>7, <2>1, <3>1 DEF Taking
    <3>3. Len(e.bytes) = Len(d.bytes) + 1
      BY <1>1, <3>2
    <3>4. CASE f.i = Length(v)
      BY <1>7, <3>1, <3>2, <3>3, <3>4 DEF Coming
    <3>5. CASE f.i # Length(v)
      <4>1. Len(d.bytes) + 1 < Length(v) /\ Len(d.bytes) + 1 \in Nat
        BY <1>1, <3>1, <3>5
      <4>2. Comes(q, s, (Len(d.bytes) + 1) + 1, 1)
        BY <1>1, <2>3, <4>1 DEF InOrder
      <4>3. Comes(t, s, (Len(d.bytes) + 1) + 1, 1 - 1) /\ 1 - 1 = 0
        BY <1>3, <4>2
      <4> QED
        BY <1>7, <3>2, <3>3, <4>3 DEF Coming
    <3> QED
      BY <3>4, <3>5
  <2>4. CASE ~IsChunk(f, Len(d.bytes) + 1)
    <3>1. e.bytes = d.bytes /\ e.total = d.total
      BY <1>1, <1>7, <2>4 DEF Taking, IsChunk
    <3>2. Len(d.bytes) = Length(v) \/ Comes(t, s, Len(d.bytes) + 1, 0)
      BY <1>3, <2>2, <2>4
    <3> QED
      BY <1>7, <3>1, <3>2 DEF Coming
  <2> QED
    BY <2>3, <2>4
<1> QED
  BY <1>6, <1>7

LEMMA TightTail ==
  ASSUME NEW v \in Versions, NEW d \in DescType, NEW e \in DescType, NEW q \in Seq(Frames), q # <<>>,
         NEW s \in Seq(Frames), NEW t, t = Tail(q), Taking(d, q[1], e), Bounded(d), DescOf(d, v), WireOf(q, s, v),
         Tight(q, s, Low(d))
  PROVE  Tight(t, s, Low(e))
<1> PICK f : f = q[1]
  OBVIOUS
<1>1. /\ d.bytes \in Seq(Nat) /\ Len(d.bytes) \in Nat /\ d.total \in Nat
      /\ f \in Frames /\ f.v \in Nat /\ f.i \in Nat /\ 1 \in 1 .. Len(q)
      /\ Length(v) \in Nat /\ Length(v) >= 2 /\ Of(f, v) /\ Taking(d, f, e)
  <2>1. f \in Frames /\ 1 \in 1 .. Len(q)
    BY Taken
  <2>2. Of(f, v)
    BY WireTail
  <2> QED
    BY <2>1, <2>2, FrameIs, LengthIs DEF DescType
<1>2. \A j \in 1 .. Len(t) : j \in Nat /\ j >= 1 /\ j + 1 \in 1 .. Len(q) /\ t[j] = q[j + 1] /\ t[j] \in Frames
  BY Taken
<1>3. d.total = 0 => Len(d.bytes) = 0
  BY <1>1 DEF Bounded
<1>4. \/ Low(e) = Low(d)
      \/ OfDesc(f) /\ Low(e) = f.i + 1
  <2>1. CASE e = d
    BY <2>1
  <2>2. CASE f.kind = "meta" /\ d.total = 0 /\ e.total = Length(f.v) /\ e.bytes = d.bytes
    <3>1. f.v = v /\ f.i = 0 /\ e.total # 0
      BY <1>1, <2>2 DEF Of
    <3> QED
      BY <1>3, <2>2, <3>1 DEF Low, OfDesc
  <2>3. CASE e.total = d.total /\ e.bytes = d.bytes
    BY <2>3 DEF Low
  <2>4. CASE f.kind = "chunk" /\ f.i = Len(d.bytes) + 1 /\ e.total = d.total /\ d.total # 0 /\ e.bytes = Append(d.bytes, f.v)
    <3>1. Len(e.bytes) = Len(d.bytes) + 1
      BY <1>1, <2>4
    <3> QED
      BY <2>4, <3>1 DEF Low, OfDesc
  <2> QED
    BY <1>1, <2>1, <2>2, <2>3, <2>4 DEF Taking
<1>5. /\ \A i \in 1 .. Len(t) : OfDesc(t[i]) => Low(d) <= t[i].i /\ (OfDesc(f) => f.i < t[i].i) /\ t[i].i \in Nat
      /\ \A i \in 1 .. Len(s) : Low(d) <= s[i].i /\ (OfDesc(f) => f.i < s[i].i) /\ s[i].i \in Nat
  <2>1. \A i \in 1 .. Len(t) : t[i].i \in Nat
    BY <1>2, FrameIs
  <2>2. \A i \in 1 .. Len(s) : s[i].i \in Nat
    BY FrameIs
  <2>3. \A i \in 1 .. Len(t) : 1 < i + 1
    BY <1>2
  <2> QED
    BY <1>1, <1>2, <2>1, <2>2, <2>3 DEF Tight
<1>6. /\ \A i \in 1 .. Len(t) : OfDesc(t[i]) => Low(e) <= t[i].i
      /\ \A i \in 1 .. Len(s) : Low(e) <= s[i].i
  <2>1. CASE Low(e) = Low(d)
    BY <1>5, <2>1
  <2>2. CASE OfDesc(f) /\ Low(e) = f.i + 1
    <3>1. \A k \in Nat : f.i < k => f.i + 1 <= k
      BY <1>1
    <3> QED
      BY <1>5, <2>2, <3>1
  <2> QED
    BY <1>4, <2>1, <2>2
<1>7. ASSUME NEW i \in 1 .. Len(t), NEW j \in 1 .. Len(t), i < j, OfDesc(t[i]), OfDesc(t[j])
      PROVE  t[i].i < t[j].i
  <2>1. i + 1 < j + 1
    BY <1>2, <1>7
  <2> QED
    BY <1>2, <1>7, <2>1 DEF Tight
<1>8. \A i \in 1 .. Len(t), j \in 1 .. Len(s) : OfDesc(t[i]) => t[i].i < s[j].i
  BY <1>2 DEF Tight
<1> QED
  BY <1>6, <1>7, <1>8 DEF Tight

(* Once all has come nothing is left. *)
LEMMA Exhausted ==
  ASSUME NEW v \in Versions, NEW d \in DescType, NEW q \in Seq(Frames), NEW s \in Seq(Frames), Plain(s),
         WireOf(q, s, v), Tight(q, s, Low(d)), d.total # 0, Len(d.bytes) = Length(v)
  PROVE  NoDesc(q, s)
<1>1. Length(v) \in Nat /\ Low(d) = Length(v) + 1
  BY LengthIs DEF Low
<1>2. \A f \in Frames : OfDesc(f) /\ Of(f, v) => f.i <= Length(v)
  BY <1>1, LengthIs DEF OfDesc, Of
<1>3. \A i \in 1 .. Len(q) : q[i] \in Frames /\ q[i].i \in Nat
  BY FrameIs
<1>4. ASSUME NEW i \in 1 .. Len(q) PROVE ~OfDesc(q[i])
  BY <1>1, <1>2, <1>3 DEF Tight, WireOf
<1>5. ASSUME s # <<>> PROVE FALSE
  <2>1. 1 \in 1 .. Len(s) /\ s[1] \in Frames /\ s[1].i \in Nat
    BY <1>5, FrameIs
  <2>2. OfDesc(s[1])
    BY <2>1 DEF Plain, OfDesc
  <2> QED
    BY <1>1, <1>2, <2>1, <2>2 DEF Tight, WireOf
<1> QED
  BY <1>4, <1>5 DEF NoDesc

-----------------------------------------------------------------------------
(* A request for the descriptor. *)
IsStream(s, from) ==
  /\ s \in Seq(Frames) /\ s # <<>> /\ Plain(s)
  /\ 1 \in 1 .. Len(s) /\ s[1] = Frame("meta", None, 0, version)
  /\ \A k \in 1 .. Len(s) : k # 1 => /\ k \in Nat /\ k - 1 >= 1 /\ from + (k - 1) \in 1 .. Length(version)
                                     /\ s[k] = ChunkFrame(version, from + (k - 1))
  /\ \A n \in 1 .. Length(version) :
       from < n => (n - from) + 1 \in 1 .. Len(s) /\ s[(n - from) + 1] = ChunkFrame(version, n)

LEMMA StreamAt ==
  ASSUME version \in Versions, NEW from \in Nat, NEW s, s = Stream(from)
  PROVE  IsStream(s, from)
<1> DEFINE n == IF from <= Length(version) THEN Length(version) - from ELSE 0
           r == Rest(version, from)
           m == <<Frame("meta", None, 0, version)>>
<1>1. n \in Nat /\ 1 .. (Length(version) - from) = 1 .. n /\ Length(version) \in Nat
      /\ \A i \in 1 .. n : from + i \in 1 .. Length(version)
      /\ \A k \in 1 .. Length(version) : from < k => k - from \in 1 .. n
  BY DEF Length, Versions
<1>2. \A i \in 1 .. n : ChunkFrame(version, from + i) \in Frames
  BY <1>1, FrameTypes
<1> HIDE DEF n
<1>3. r = [i \in 1 .. n |-> ChunkFrame(version, from + i)]
  BY <1>1 DEF Rest
<1>4. r \in Seq(Frames) /\ Len(r) = n /\ \A i \in 1 .. n : r[i] = ChunkFrame(version, from + i)
  BY <1>1, <1>2, <1>3
<1>5. m \in Seq(Frames) /\ Len(m) = 1 /\ m[1] = Frame("meta", None, 0, version)
  BY FrameTypes
<1>6. s = m \o r
  BY StreamIs
<1> HIDE DEF m, r
<1>7. Len(s) = 1 + n /\ \A i \in 1 .. 1 + n : s[i] = IF i <= 1 THEN m[i] ELSE r[i - 1]
  <2>1. \A a, b \in Seq(Frames) :
          /\ Len(a \o b) = Len(a) + Len(b)
          /\ \A i \in 1 .. Len(a) + Len(b) : (a \o b)[i] = IF i <= Len(a) THEN a[i] ELSE b[i - Len(a)]
    OBVIOUS
  <2>2. /\ Len(m \o r) = Len(m) + Len(r)
        /\ \A i \in 1 .. Len(m) + Len(r) : (m \o r)[i] = IF i <= Len(m) THEN m[i] ELSE r[i - Len(m)]
    BY <1>4, <1>5, <2>1
  <2> QED
    BY <1>4, <1>5, <1>6, <2>2
<1>8. s \in Seq(Frames) /\ Plain(s)
  BY StreamTypes, StreamPlain
<1>9. 1 \in 1 .. Len(s) /\ s[1] = Frame("meta", None, 0, version) /\ s # <<>>
  <2>1. 1 \in 1 .. 1 + n
    BY <1>1
  <2>2. s[1] = m[1]
    BY <1>7, <2>1
  <2> QED
    BY <1>5, <1>7, <1>8, <2>1, <2>2
<1>10. ASSUME NEW k \in 1 .. Len(s), k # 1
       PROVE  /\ k \in Nat /\ k - 1 >= 1 /\ from + (k - 1) \in 1 .. Length(version)
              /\ s[k] = ChunkFrame(version, from + (k - 1))
  <2>1. k \in 1 .. 1 + n /\ k \in Nat /\ ~(k <= 1) /\ k - 1 \in 1 .. n /\ k - 1 >= 1
    <3>1. k \in 1 .. 1 + n
      BY <1>7
    <3> QED
      BY <1>1, <1>10, <3>1
  <2>2. s[k] = r[k - 1]
    <3>1. s[k] = IF k <= 1 THEN m[k] ELSE r[k - 1]
      BY <1>7, <2>1
    <3> QED
      BY <2>1, <3>1
  <2> QED
    BY <1>1, <1>4, <2>1, <2>2
<1>11. ASSUME NEW k \in 1 .. Length(version), from < k
       PROVE  (k - from) + 1 \in 1 .. Len(s) /\ s[(k - from) + 1] = ChunkFrame(version, k)
  <2>1. k - from \in 1 .. n /\ k \in Nat
    BY <1>1, <1>11
  <2>2. (k - from) + 1 \in 1 .. 1 + n /\ ~((k - from) + 1 <= 1) /\ ((k - from) + 1) - 1 = k - from
        /\ from + (k - from) = k
    BY <1>1, <2>1
  <2>3. s[(k - from) + 1] = IF (k - from) + 1 <= 1 THEN m[(k - from) + 1] ELSE r[((k - from) + 1) - 1]
    BY <1>7, <2>2
  <2>4. s[(k - from) + 1] = r[k - from]
    BY <2>2, <2>3
  <2> QED
    BY <1>4, <1>7, <2>1, <2>2, <2>4
<1> QED
  BY <1>8, <1>9, <1>10, <1>11 DEF IsStream

LEMMA ChunkIs ==
  \A v, n : /\ ChunkFrame(v, n).kind = "chunk" /\ ChunkFrame(v, n).i = n
            /\ ChunkFrame(v, n).v = Content(v, n) /\ IsChunk(ChunkFrame(v, n), n)
            /\ Frame("meta", None, 0, v).kind = "meta" /\ Frame("meta", None, 0, v).i = 0
            /\ Frame("meta", None, 0, v).v = v
BY DEF ChunkFrame, Frame, IsChunk

LEMMA StreamTells ==
  ASSUME version \in Versions, NEW from \in Nat, NEW q, \A k \in 1 .. Len(q) : Of(q[k], version)
  PROVE  WireOf(q, Stream(from), version)
<1> PICK s : s = Stream(from)
  OBVIOUS
<1>1. /\ s[1] = Frame("meta", None, 0, version)
      /\ \A k \in 1 .. Len(s) : k # 1 => /\ from + (k - 1) \in 1 .. Length(version)
                                         /\ s[k] = ChunkFrame(version, from + (k - 1))
  <2>1. IsStream(s, from)
    BY StreamAt
  <2> QED
    BY <2>1 DEF IsStream
<1>2. ASSUME NEW k \in 1 .. Len(s) PROVE Of(s[k], version)
  <2>1. CASE k = 1
    BY <1>1, <2>1, ChunkIs DEF Of
  <2>2. CASE k # 1
    <3> PICK n : n = from + (k - 1)
      OBVIOUS
    <3>1. n \in 1 .. Length(version) /\ s[k] = ChunkFrame(version, n)
      BY <1>1, <2>2
    <3> QED
      BY <3>1, ChunkIs DEF Of
  <2> QED
    BY <2>1, <2>2
<1> QED
  BY <1>2 DEF WireOf

(* What is before it is followed by it, if it is all of it. *)
LEMMA StreamFollows ==
  ASSUME version \in Versions, NEW from \in Nat, NEW q \in Seq(Frames),
         from = 0 \/ \A i \in 1 .. Len(q) : ~OfDesc(q[i])
  PROVE  InOrder(q, Stream(from), version)
<1> PICK s : s = Stream(from)
  OBVIOUS
<1>1. /\ s[1] = Frame("meta", None, 0, version) /\ Length(version) \in Nat /\ Len(s) \in Nat
      /\ \A k \in 1 .. Len(s) : k # 1 => /\ k \in Nat /\ k - 1 >= 1 /\ from + (k - 1) \in 1 .. Length(version)
                                         /\ s[k] = ChunkFrame(version, from + (k - 1))
      /\ \A n \in 1 .. Length(version) :
           from < n => (n - from) + 1 \in 1 .. Len(s) /\ s[(n - from) + 1] = ChunkFrame(version, n)
  <2>1. IsStream(s, from)
    BY StreamAt
  <2>2. Len(s) \in Nat
    BY <2>1 DEF IsStream
  <2> QED
    BY <2>1, <2>2, LengthIs DEF IsStream
<1>2. ASSUME NEW i \in 1 .. Len(q), NEW n \in Nat, IsChunk(q[i], n), n < Length(version)
      PROVE  Comes(q, s, n + 1, i)
  <2>1. from = 0 /\ n + 1 \in 1 .. Length(version) /\ from < n + 1
    BY <1>1, <1>2 DEF OfDesc, IsChunk
  <2>2. ((n + 1) - from) + 1 \in 1 .. Len(s) /\ s[((n + 1) - from) + 1] = ChunkFrame(version, n + 1)
    BY <1>1, <2>1
  <2>3. IsChunk(s[((n + 1) - from) + 1], n + 1)
    BY <2>2, ChunkIs
  <2> QED
    BY <2>2, <2>3 DEF Comes
<1>3. ASSUME NEW i \in 1 .. Len(s), NEW n \in Nat, IsChunk(s[i], n), n < Length(version)
      PROVE  i + 1 \in 1 .. Len(s) /\ IsChunk(s[i + 1], n + 1)
  <2>1. i # 1
    BY <1>1, <1>3, ChunkIs DEF IsChunk
  <2>2. i \in Nat /\ i - 1 >= 1 /\ s[i] = ChunkFrame(version, from + (i - 1))
    BY <1>1, <2>1
  <2>3. n = from + (i - 1)
    BY <1>3, <2>2, ChunkIs DEF IsChunk
  <2>4. n + 1 \in 1 .. Length(version) /\ from < n + 1 /\ ((n + 1) - from) + 1 = i + 1
    BY <1>1, <1>3, <2>2, <2>3
  <2>5. ((n + 1) - from) + 1 \in 1 .. Len(s) /\ s[((n + 1) - from) + 1] = ChunkFrame(version, n + 1)
    BY <1>1, <2>4
  <2> QED
    BY <2>4, <2>5, ChunkIs
<1> QED
  BY <1>2, <1>3 DEF InOrder

LEMMA StreamComes ==
  ASSUME version \in Versions, NEW d \in DescType, NEW q, NEW from \in Nat,
         d.total = 0 => from = 0,
         d.total # 0 => d.total = Length(version) /\ from = Len(d.bytes) /\ Bounded(d)
  PROVE  Coming(q, Stream(from), d, version)
<1> PICK s : s = Stream(from)
  OBVIOUS
<1>1. /\ s[1] = Frame("meta", None, 0, version) /\ 1 \in 1 .. Len(s)
      /\ \A n \in 1 .. Length(version) :
           from < n => (n - from) + 1 \in 1 .. Len(s) /\ s[(n - from) + 1] = ChunkFrame(version, n)
  <2>1. IsStream(s, from)
    BY StreamAt
  <2> QED
    BY <2>1 DEF IsStream
<1>2. Length(version) \in Nat /\ Length(version) >= 2 /\ Len(d.bytes) \in Nat
  BY LengthIs DEF DescType
<1>3. CASE d.total = 0
  <2>1. from = 0 /\ 1 \in 1 .. Length(version) /\ (1 - 0) + 1 = 1 + 1 /\ 0 < 1
    BY <1>2, <1>3
  <2>2. 1 + 1 \in 1 .. Len(s) /\ s[1 + 1] = ChunkFrame(version, 1)
    BY <1>1, <2>1
  <2>3. s[1].kind = "meta" /\ IsChunk(s[1 + 1], 1)
    BY <1>1, <2>2, ChunkIs
  <2> QED
    BY <1>1, <1>3, <2>2, <2>3 DEF Coming, Begins
<1>4. CASE d.total # 0 /\ Len(d.bytes) # Length(version)
  <2>1. from + 1 \in 1 .. Length(version) /\ from < from + 1
    BY <1>2, <1>4 DEF Bounded
  <2>2. ((from + 1) - from) + 1 \in 1 .. Len(s) /\ s[((from + 1) - from) + 1] = ChunkFrame(version, from + 1)
    BY <1>1, <2>1
  <2>3. Comes(q, s, from + 1, 0)
    BY <2>2, ChunkIs DEF Comes
  <2> QED
    BY <1>4, <2>3 DEF Coming
<1> QED
  BY <1>3, <1>4 DEF Coming

LEMMA StreamTight ==
  ASSUME version \in Versions, NEW q, \A i \in 1 .. Len(q) : ~OfDesc(q[i])
  PROVE  Tight(q, Stream(0), 0)
<1> PICK s : s = Stream(0)
  OBVIOUS
<1>1. /\ s[1] = Frame("meta", None, 0, version)
      /\ \A k \in 1 .. Len(s) : k # 1 => /\ k \in Nat /\ k - 1 >= 1
                                         /\ s[k] = ChunkFrame(version, 0 + (k - 1))
  <2>1. IsStream(s, 0)
    BY StreamAt
  <2> QED
    BY <2>1 DEF IsStream
<1>2. s[1].i = 0 /\ \A k \in 1 .. Len(s) : k # 1 => k \in Nat /\ s[k].i = k - 1 /\ k - 1 >= 1
  <2>1. \A k \in Nat : 0 + (k - 1) = k - 1
    OBVIOUS
  <2> QED
    BY <1>1, <2>1, ChunkIs
<1>3. ASSUME NEW i \in 1 .. Len(s), NEW j \in 1 .. Len(s), i < j PROVE s[i].i < s[j].i
  <2>1. i \in Nat /\ j \in Nat /\ i >= 1
    BY StreamAt DEF IsStream
  <2>2. j # 1 /\ s[j].i = j - 1
    BY <1>2, <1>3, <2>1
  <2> QED
    BY <1>2, <1>3, <2>1, <2>2
<1>4. \A i \in 1 .. Len(s) : 0 <= s[i].i
  <2>1. ASSUME NEW i \in 1 .. Len(s) PROVE 0 <= s[i].i
    <3>1. CASE i = 1
      BY <1>2, <3>1
    <3>2. CASE i # 1
      BY <1>2, <3>2
    <3> QED
      BY <3>1, <3>2
  <2> QED
    BY <2>1
<1> QED
  BY <1>3, <1>4 DEF Tight

-----------------------------------------------------------------------------
(***************************************************************************)
(* The states a transfer is in, of read_endpoint_descriptor_raw.  The      *)
(* hypotheses of the theorems below are about the constants, in the set-   *)
(* ups where answers are not late, sends do not fail and the device is     *)
(* present.                                                                *)
(***************************************************************************)
Transfers == {"connect", "load"}
Usual == ~setup.late /\ ~setup.faults /\ setup.present

(* OneLoader: at most one thread transfers the descriptor.  The cache is    *)
(* the motor's, and another transfer empties it.                            *)
OneLoader ==
  \A s \in Setups : ~s.late /\ ~s.faults /\ s.present =>
    \A c, d \in Callers : c # d => s.calls[c] \cap Transfers = {} \/ s.calls[d] \cap Transfers = {}

(* The counters of a transfer at its beginning, and how much it has seen. *)
Base(l) == l.tries = 1 /\ l.requests = 1 /\ l.stuck = 0 /\ l.asked = 0
Seen(c) == local[c].seen <= Received /\ (desc.total # 0 => local[c].seen < desc.total)
Begun(c) == Base(local[c]) /\ local[c].restarts = 0 /\ Seen(c)
Idle == \A c \in Callers : ~Receiving(c)

(* All of the wire and the cache is of v; what lacks is coming, only once. *)
Tells(v) == WireOf(toHost, stream, v) /\ DescOf(desc, v)
Awaited == Coming(toHost, stream, desc, version)
Once == IF Idle THEN NoDesc(toHost, stream) ELSE Tight(toHost, stream, Low(desc))

(* Nothing was lost. *)
Clean ==
  /\ mishaps = 0 /\ Tells(version) /\ InOrder(toHost, stream, version) /\ Once
  /\ \A c \in Callers : Receiving(c) => Begun(c) /\ Awaited

(* A request or a frame was, or the transfer was begun again. *)
Recovering(c) ==
  \/ Begun(c)
  \/ local[c].restarts = 0 /\ Seen(c) /\ Awaited
  \/ local[c].restarts = 1 /\ Base(local[c]) /\ Awaited
Lossy ==
  /\ mishaps = 1 /\ Tells(version) /\ InOrder(toHost, stream, version)
  /\ \A c \in Callers : Receiving(c) => Recovering(c)

(* The device has another descriptor, and what comes is of the one before. *)
Stale ==
  /\ mishaps = 1 /\ stream = <<>> /\ Once
  /\ ~Idle => \E u \in Versions \ {version} : Tells(u)
  /\ \A c \in Callers : Receiving(c) => Begun(c)

(* What comes is of the other, and there is a conflict or there will be. *)
Clash ==
  /\ mishaps = 1 /\ WireOf(toHost, stream, version) /\ InOrder(toHost, stream, version)
  /\ desc.conflict \/ (desc.total \notin {0, Length(version)} /\ MetaFirst(toHost, stream))
  /\ \A c \in Callers : Receiving(c) =>
       local[c].restarts = 0 /\ (~desc.conflict => Received <= local[c].seen /\ Received < desc.total)
  /\ ~Idle

LoadHolds == Clean \/ Lossy \/ Stale \/ Clash

(* A transfer ends with all it expects; a phase starts with new counters. *)
CountsHold ==
  /\ Bounded(desc)
  /\ \A c \in Callers :
       /\ pc[c] = "collect" => Kind(c) = "desc" /\ desc.total # 0 /\ Received = desc.total
       /\ pc[c] \in {"idle", "ask"} => local[c] = Zero

(* The states of the transfer, with what ParamInv says of the parameters. *)
RecoverInv == ParamInv /\ (Usual => CountsHold /\ (mishaps <= 1 => LoadHolds))

-----------------------------------------------------------------------------
LEMMA AskSends ==
  ASSUME TypeOK, setup.present, NEW c \in Callers, pc[c] # "idle", NEW from \in Nat, Ask(c, from)
  PROVE  /\ version' = version
         /\ \/ mishaps' = mishaps + 1 /\ UNCHANGED <<toHost, stream>>
            \/ /\ mishaps' = mishaps /\ Kind(c) = "desc" /\ toHost' = toHost /\ stream' = Stream(from)
            \/ /\ mishaps' = mishaps /\ Kind(c) # "desc" /\ stream' = stream
               /\ toHost' = toHost \/ \E f \in Frames : ~OfDesc(f) /\ toHost' = Append(toHost, f)
<1>1. /\ Kind(c) \in {"desc", "read", "get", "write", "warm_up"}
      /\ Kind(c) # "desc" => On(c) \in Endpoints
  BY AtPhase
<1>2. version \in Versions /\ value \in Nat /\ mishaps \in Nat
  BY DEF TypeOK, DeviceTypes
<1>3. CASE ~(Obeys(Kind(c), On(c), from) /\ mishaps' = mishaps)
  BY <1>3 DEF Ask, Request, deviceVars
<1>4. CASE Obeys(Kind(c), On(c), from) /\ mishaps' = mishaps
  <2>1. CASE Kind(c) = "desc"
    BY <1>4, <2>1 DEF Obeys
  <2>2. CASE Kind(c) \in {"read", "get"}
    <3> PICK f : f = Frame("param", On(c), from + 1, Chunk(On(c), from + 1))
      OBVIOUS
    <3>1. (toHost' = Append(toHost, f) \/ toHost' = toHost) /\ version' = version /\ stream' = stream
      BY <1>4, <2>2 DEF Obeys, deviceVars
    <3>2. f \in Frames /\ ~OfDesc(f)
      BY <1>1, <1>2, <2>2 DEF Frame, Frames, Chunk, OfDesc
    <3> QED
      BY <1>4, <2>2, <3>1, <3>2
  <2>3. CASE Kind(c) = "write"
    <3> PICK f : f = Frame("ack", On(c), 0, 0)
      OBVIOUS
    <3>1. toHost' = Append(toHost, f) /\ version' = version /\ stream' = stream
      BY <1>4, <2>3 DEF Obeys
    <3>2. f \in Frames /\ ~OfDesc(f)
      BY <1>1, <2>3 DEF Frame, Frames, OfDesc
    <3> QED
      BY <1>4, <2>3, <3>1, <3>2
  <2>4. CASE Kind(c) = "warm_up"
    <3> PICK f : f = Frame("pos_vel", None, 0, 0)
      OBVIOUS
    <3>1. toHost' = Append(toHost, f) /\ version' = version /\ stream' = stream
      BY <1>4, <2>4 DEF Obeys, deviceVars
    <3>2. f \in Frames /\ ~OfDesc(f)
      BY DEF Frame, Frames, OfDesc
    <3> QED
      BY <1>4, <2>4, <3>1, <3>2
  <2> QED
    BY <1>1, <2>1, <2>2, <2>3, <2>4
<1> QED
  BY <1>3, <1>4

SameLoads ==
  \A c \in Callers : (Receiving(c)' <=> Receiving(c)) /\ (Receiving(c) => local'[c] = local[c])
WireAside ==
  /\ version' = version /\ desc' = desc /\ stream' = stream
  /\ \/ /\ mishaps' = mishaps
        /\ toHost' = toHost \/ \E f \in Frames : ~OfDesc(f) /\ toHost' = Append(toHost, f)
     \/ mishaps' = mishaps + 1 /\ toHost' = toHost

(* A step that has nothing to do with the transfer. *)
LEMMA AsideLoads ==
  ASSUME TypeOK, LoadHolds, SameLoads, WireAside, mishaps' <= 1
  PROVE  LoadHolds'
<1>1. toHost \in Seq(Frames) /\ stream \in Seq(Frames) /\ mishaps \in Nat
  BY DEF TypeOK, DeviceTypes
<1>2. version' = version /\ desc' = desc /\ stream' = stream
  BY DEF WireAside
<1>3. /\ \A v : WireOf(toHost, stream, v) => WireOf(toHost', stream, v)
      /\ \A v : InOrder(toHost, stream, v) => InOrder(toHost', stream, v)
      /\ \A d, v : Coming(toHost, stream, d, v) => Coming(toHost', stream, d, v)
      /\ \A low : Tight(toHost, stream, low) => Tight(toHost', stream, low)
      /\ NoDesc(toHost, stream) => NoDesc(toHost', stream)
      /\ MetaFirst(toHost, stream) => MetaFirst(toHost', stream)
  BY <1>1, WireAdds DEF WireAside
<1>4. Idle' <=> Idle
  BY DEF SameLoads, Idle
<1>5. \A c \in Callers : (Receiving(c)' <=> Receiving(c)) /\ (Receiving(c) => (Begun(c) => Begun(c)') /\ (Seen(c) => Seen(c)'))
  BY <1>2 DEF SameLoads, Begun, Seen, Received
<1>6. Once => Once'
  BY <1>2, <1>3, <1>4 DEF Once
<1>7. (Awaited => Awaited') /\ \A v : Tells(v) => Tells(v)'
  BY <1>2, <1>3 DEF Awaited, Tells
<1>8. \A c \in Callers : Receiving(c) /\ Recovering(c) => Recovering(c)'
  BY <1>2, <1>5, <1>7 DEF Recovering, SameLoads
<1>9. mishaps' \in {0, 1} /\ (mishaps' = mishaps \/ (mishaps = 0 /\ mishaps' = 1))
  BY <1>1 DEF WireAside
<1>10. Tells(version) => Tells(version)' 
  BY <1>2, <1>7 DEF Tells
<1>11. InOrder(toHost, stream, version) => InOrder(toHost, stream, version)'
  BY <1>2, <1>3
<1>12. CASE Clean
  <2>1. CASE mishaps' = 0
    BY <1>12, <1>5, <1>6, <1>7, <1>10, <1>11, <2>1 DEF Clean, LoadHolds
  <2>2. CASE mishaps' = 1
    <3>1. Lossy'
      BY <1>12, <1>5, <1>10, <1>11, <2>2 DEF Clean, Lossy, Recovering
    <3> QED
      BY <3>1 DEF LoadHolds
  <2> QED
    BY <1>9, <2>1, <2>2
<1>13. CASE Lossy
  <2>1. Lossy'
    BY <1>13, <1>5, <1>8, <1>9, <1>10, <1>11 DEF Lossy
  <2> QED
    BY <2>1 DEF LoadHolds
<1>14. CASE Stale
  <2>1. Stale'
    BY <1>14, <1>2, <1>4, <1>5, <1>6, <1>7, <1>9 DEF Stale
  <2> QED
    BY <2>1 DEF LoadHolds
<1>15. CASE Clash
  <2>1. Clash'
    BY <1>15, <1>2, <1>3, <1>4, <1>5, <1>9 DEF Clash, SameLoads, Received
  <2> QED
    BY <2>1 DEF LoadHolds
<1> QED
  BY <1>12, <1>13, <1>14, <1>15 DEF LoadHolds

(* Of the callers one transfers at a time. *)
LEMMA LoaderIs ==
  ASSUME TypeOK, NEW c \in Callers, Fits(c), pc[c] # "idle", Kind(c) = "desc"
  PROVE  setup.calls[c] \cap Transfers # {}
<1>1. todo[c] \in Seq(Phases) /\ todo[c] # <<>> /\ op[c] \in Methods
  BY DEF TypeOK, CallTypes
<1>2. 1 \in 1 .. Len(todo[c]) /\ Head(todo[c]) = todo[c][1]
  BY <1>1, Front
<1>3. op[c] \notin Exchanged
  BY PhaseAt DEF Exchanged
<1>4. op[c] # "warm_up"
  BY <1>2 DEF Fits, Kind
<1>5. op[c] \in Transfers /\ op[c] \in setup.calls[c]
  BY <1>1, <1>3, <1>4 DEF Methods, Exchanged, Transfers, Fits
<1> QED
  BY <1>5

LEMMA LoaderAlone ==
  ASSUME TypeOK, Usual, OneLoader, NEW c \in Callers, NEW d \in Callers, Fits(c), Fits(d),
         pc[c] # "idle", pc[d] # "idle", Kind(c) = "desc", Kind(d) = "desc"
  PROVE  c = d
<1>1. setup \in Setups
  BY DEF TypeOK, DeviceTypes
<1> QED
  BY <1>1, LoaderIs DEF OneLoader, Usual

LEMMA OthersSame ==
  ASSUME TypeOK, NEW d \in Callers, Step(d), NEW o \in Callers, o # d
  PROVE  (Receiving(o)' <=> Receiving(o)) /\ local'[o] = local[o]
BY StepCases DEF Beside, Receiving, Kind

LEMMA StepLoads ==
  ASSUME TypeOK, Usual, NEW d \in Callers, Step(d)
  PROVE  \/ SameLoads /\ WireAside
         \/ /\ Kind(d) = "desc" /\ pc[d] # "idle"
            /\ FirstAsk(d) \/ DescConflict(d) \/ DescGrows(d) \/ DescAsks(d) \/ DescComplete(d)
<1>1. ASSUME ~Receiving(d), ~Receiving(d)', WireAside PROVE SameLoads /\ WireAside
  BY <1>1, OthersSame DEF SameLoads
<1>2. pc[d] # "idle"
  BY StepSends
<1>3. ASSUME PhaseFails(d) \/ PhaseSucceeds(d) PROVE ~Receiving(d)'
  <2>1. pc'[d] \in {"idle", "ask"}
    BY <1>3, FailsCase, SucceedsCase DEF PhaseOver, Over, Onward
  <2> QED
    BY <2>1 DEF Receiving
<1>4. ASSUME UNCHANGED <<deviceVars, toHost, mishaps, desc>> PROVE WireAside
  BY <1>4 DEF WireAside, deviceVars
<1>5. CASE Skips(d) \/ SendFails(d) \/ GotAnswer(d) \/ TimesOut(d) \/ Collect(d)
  <2>1. ~SendFails(d)
    BY DEF SendFails, Usual
  <2>2. ~Receiving(d)
    BY <1>5, <2>1 DEF Skips, GotAnswer, TimesOut, Collect, Receiving, Waiting
  <2>3. UNCHANGED <<deviceVars, toHost, mishaps, desc>> /\ (PhaseFails(d) \/ PhaseSucceeds(d))
    BY <1>5, <2>1 DEF Skips, GotAnswer, TimesOut, Collect
  <2> QED
    BY <1>1, <1>3, <1>4, <2>2, <2>3
<1>6. ASSUME NEW from \in Nat, Ask(d, from), Kind(d) # "desc", desc' = desc PROVE WireAside
  BY <1>2, <1>6, AskSends DEF WireAside, Usual
<1>7. CASE FirstAsk(d) /\ Kind(d) # "desc"
  <2>1. Ask(d, 0) /\ desc' = desc /\ todo' = todo /\ pc[d] = "ask"
    BY <1>7 DEF FirstAsk
  <2>2. ~Receiving(d) /\ ~Receiving(d)'
    BY <1>7, <2>1 DEF Receiving, Kind
  <2> QED
    BY <1>1, <1>6, <1>7, <2>1, <2>2
<1>8. CASE ReadContinues(d) \/ AskAgain(d)
  <2>1. /\ Kind(d) \in {"read", "warm_up"} /\ desc' = desc /\ todo' = todo
        /\ \/ Ask(d, Len(raw[On(d)])) /\ Kind(d) = "read"
           \/ Ask(d, local[d].asked)
    BY <1>8 DEF ReadContinues, HasMore, AskAgain, Waiting
  <2>2. local[d].asked \in Nat /\ (Kind(d) = "read" => Len(raw[On(d)]) \in Nat)
    BY <1>2, AtPhase, Counts DEF Counters
  <2>3. ~Receiving(d) /\ ~Receiving(d)'
    BY <2>1 DEF Receiving, Kind
  <2>4. WireAside
    BY <1>6, <2>1, <2>2
  <2> QED
    BY <1>1, <2>3, <2>4
<1>9. DescConflict(d) \/ DescGrows(d) \/ DescAsks(d) \/ DescComplete(d) => Kind(d) = "desc"
  BY DEF DescConflict, DescGrows, DescAsks, DescComplete, Receiving
<1> QED
  BY <1>2, <1>5, <1>7, <1>8, <1>9 DEF Step

LEMMA NewCallLoads ==
  ASSUME TypeOK, NEW d \in Callers, NewCall(d)
  PROVE  SameLoads /\ WireAside /\ setup' = setup
<1>1. UNCHANGED <<deviceVars, toHost, mishaps, desc, setup>>
  BY DEF NewCall
<1>2. pc[d] = "idle" /\ pc'[d] \in {"idle", "ask"} /\ \A o \in Callers : o # d => Beside(o)
  BY NewCallCases
<1>3. \A o \in Callers : o # d => (Receiving(o)' <=> Receiving(o)) /\ local'[o] = local[o]
  BY <1>2 DEF Beside, Receiving, Kind
<1>4. ~Receiving(d) /\ ~Receiving(d)'
  BY <1>2 DEF Receiving
<1> QED
  BY <1>1, <1>3, <1>4 DEF SameLoads, WireAside, deviceVars

-----------------------------------------------------------------------------
(* The frames of the wire come one after the other. *)
LEMMA TotalOf ==
  ASSUME NEW v \in Versions, NEW d \in DescType, DescOf(d, v)
  PROVE  /\ d.total # 0 => d.total = Length(v)
         /\ Length(v) \in Nat /\ Length(v) >= 2 /\ d.total \in Nat /\ Len(d.bytes) \in Nat
BY LengthIs DEF DescOf, DescType

LEMMA TakeLoads ==
  ASSUME TypeOK, TypeOK', Bounded(desc), LoadHolds, ProcessFeedbackFrame
  PROVE  LoadHolds'
<1> PICK q, s, t, d, e : q = toHost /\ s = stream /\ t = Tail(toHost) /\ d = desc /\ e = desc'
  OBVIOUS
<1>1. /\ q \in Seq(Frames) /\ s \in Seq(Frames) /\ q # <<>> /\ t = Tail(q)
      /\ toHost' = t /\ stream' = s /\ version' = version /\ mishaps' = mishaps /\ calls' = calls
  BY DEF ProcessFeedbackFrame, deviceVars, TypeOK, DeviceTypes
<1>2. d \in DescType /\ e \in DescType /\ version \in Versions /\ local \in [Callers -> Counters]
  BY DEF TypeOK, CacheTypes, DescType, DeviceTypes, CallTypes
<1>3. q[1] \in Frames /\ Head(q) = q[1]
  BY <1>1, Taken
<1>4. Taking(d, q[1], e) /\ Bounded(d)
  BY <1>3, RecordTakes
<1>5. /\ Bounded(e) /\ (d.total # 0 => e.total = d.total) /\ Len(d.bytes) <= Len(e.bytes)
      /\ (d.conflict => e.conflict)
  BY <1>2, <1>3, <1>4, TakingBounds
<1>6. /\ \A v : WireOf(q, s, v) => WireOf(t, s, v) /\ Of(q[1], v)
      /\ \A v : InOrder(q, s, v) => InOrder(t, s, v)
      /\ NoDesc(q, s) => NoDesc(t, s)
      /\ MetaFirst(q, s) /\ q[1].kind # "meta" => MetaFirst(t, s) /\ q[1].kind # "chunk"
  BY <1>1, WireTail
<1>7. pc' = pc /\ todo' = todo /\ local' = local
  BY <1>1 DEF calls
<1>8. \A c \in Callers : Receiving(c)' <=> Receiving(c)
  BY <1>7 DEF Receiving, Kind
<1>9. Idle' <=> Idle
  BY <1>8 DEF Idle
<1>10. \A v \in Versions : Tells(v) => Tells(v)'
  BY <1>1, <1>2, <1>3, <1>4, <1>6, TakingTells DEF Tells
<1>11. ASSUME NEW v \in Versions, Tells(v), NEW c \in Callers, Seen(c) PROVE Seen(c)'
  <2>1. DescOf(d, v) /\ DescOf(e, v)
    BY <1>1, <1>10, <1>11 DEF Tells
  <2>2. /\ d.total # 0 => d.total = Length(v)
        /\ e.total # 0 => e.total = Length(v)
        /\ Length(v) \in Nat /\ Length(v) >= 2 /\ Len(d.bytes) \in Nat /\ Len(e.bytes) \in Nat
    BY <1>2, <2>1, TotalOf
  <2>3. local[c].seen \in Nat
    BY <1>2 DEF Counters
  <2>4. local[c].seen <= Len(d.bytes) /\ (d.total # 0 => local[c].seen < d.total)
    BY <1>11 DEF Seen, Received
  <2>5. d.total = 0 => Len(d.bytes) = 0
    BY <1>4, <2>2 DEF Bounded
  <2>6. local[c].seen <= Len(e.bytes) /\ (e.total # 0 => local[c].seen < e.total)
    BY <1>5, <2>2, <2>3, <2>4, <2>5
  <2> QED
    BY <1>7, <2>6 DEF Seen, Received
<1>12. ASSUME Tells(version), InOrder(q, s, version), Awaited PROVE Awaited'
  <2>1. Coming(t, s, e, version)
    BY <1>1, <1>2, <1>4, <1>12, TakingComes DEF Tells, Awaited
  <2> QED
    BY <1>1, <2>1 DEF Awaited
<1>13. ASSUME NEW v \in Versions, Idle \/ Tells(v), Once PROVE Once'
  <2>1. CASE Idle
    BY <1>1, <1>6, <1>9, <1>13, <2>1 DEF Once
  <2>2. CASE ~Idle
    <3>1. Tight(t, s, Low(e))
      BY <1>1, <1>2, <1>4, <1>13, <2>2, TightTail DEF Tells, Once
    <3> QED
      BY <1>1, <1>9, <2>2, <3>1 DEF Once
  <2> QED
    BY <2>1, <2>2
<1>14. InOrder(q, s, version) => InOrder(toHost, stream, version)'
  BY <1>1, <1>6
<1>15. Tells(version) => Tells(version)'
  BY <1>1, <1>2, <1>10 DEF Tells
<1>16. CASE Clean
  <2>1. Tells(version) /\ InOrder(q, s, version) /\ Once /\ mishaps = 0
    BY <1>16 DEF Clean
  <2>2. \A c \in Callers : Receiving(c) => Begun(c)' /\ Awaited'
    BY <1>2, <1>7, <1>11, <1>12, <1>16, <2>1 DEF Clean, Begun
  <2>3. Clean'
    BY <1>1, <1>2, <1>8, <1>13, <1>14, <1>15, <2>1, <2>2 DEF Clean
  <2> QED
    BY <2>3 DEF LoadHolds
<1>17. CASE Lossy
  <2>1. Tells(version) /\ InOrder(q, s, version) /\ mishaps = 1
    BY <1>17 DEF Lossy
  <2>2. \A c \in Callers : Recovering(c) => Recovering(c)'
    BY <1>2, <1>7, <1>11, <1>12, <2>1 DEF Recovering, Begun
  <2>3. Lossy'
    BY <1>1, <1>8, <1>14, <1>15, <1>17, <2>1, <2>2 DEF Lossy
  <2> QED
    BY <2>3 DEF LoadHolds
<1>18. CASE Stale
  <2>1. PICK u \in Versions : Idle \/ (u # version /\ Tells(u))
    BY <1>2, <1>18 DEF Stale
  <2>2. \A c \in Callers : Receiving(c) => ~Idle
    BY DEF Idle
  <2>3. \A c \in Callers : Receiving(c) => Begun(c)'
    BY <1>7, <1>11, <1>18, <2>1, <2>2 DEF Stale, Begun
  <2>4. Once'
    BY <1>13, <1>18, <2>1 DEF Stale
  <2>5. ~Idle' => u \in Versions \ {version'} /\ Tells(u)'
    BY <1>1, <1>9, <1>10, <2>1
  <2>6. Stale'
    BY <1>1, <1>8, <1>18, <2>3, <2>4, <2>5 DEF Stale
  <2> QED
    BY <2>6 DEF LoadHolds
<1>19. CASE Clash
  <2>1. WireOf(q, s, version) /\ InOrder(q, s, version) /\ ~Idle /\ mishaps = 1
    BY <1>19 DEF Clash
  <2>2. WireOf(t, s, version) /\ InOrder(t, s, version) /\ Of(q[1], version)
    BY <1>6, <2>1
  <2>3. e.conflict \/ (e = d /\ MetaFirst(t, s))
    <3>1. CASE d.conflict
      BY <1>5, <3>1
    <3>2. CASE ~d.conflict /\ q[1].kind = "meta"
      <4>1. d.total \notin {0, Length(version)} /\ q[1].v = version
        BY <1>19, <2>2, <3>2 DEF Clash, Of
      <4> QED
        BY <1>4, <3>2, <4>1 DEF Taking
    <3>3. CASE ~d.conflict /\ q[1].kind # "meta"
      <4>1. MetaFirst(t, s) /\ q[1].kind # "chunk"
        BY <1>6, <1>19, <3>3 DEF Clash
      <4> QED
        BY <1>4, <3>3, <4>1 DEF Taking
    <3> QED
      BY <3>1, <3>2, <3>3
  <2>4. Clash'
    <3>1. CASE e.conflict
      BY <1>1, <1>7, <1>8, <1>9, <1>19, <2>1, <2>2, <3>1 DEF Clash
    <3>2. CASE ~e.conflict
      <4>1. e = d /\ MetaFirst(t, s) /\ ~d.conflict
        BY <2>3, <3>2
      <4>2. Received' = Received
        BY <4>1 DEF Received
      <4> QED
        BY <1>1, <1>7, <1>8, <1>9, <1>19, <2>1, <2>2, <4>1, <4>2 DEF Clash
    <3> QED
      BY <3>1, <3>2
  <2> QED
    BY <2>4 DEF LoadHolds
<1> QED
  BY <1>16, <1>17, <1>18, <1>19 DEF LoadHolds

-----------------------------------------------------------------------------
(***************************************************************************)
(* The steps of the device and of the wire keep the state of the transfer: *)
(* a frame sent, lost or taken by process_feedback_frame, another          *)
(* descriptor.                                                             *)
(***************************************************************************)
(* What a step of a usual set-up starts from. *)
Fair == TypeOK /\ TypeOK' /\ Usual /\ Plain(stream) /\ CountsHold /\ LoadHolds /\ mishaps' <= 1

LEMMA StreamingLoads ==
  ASSUME Fair, DeviceStreams
  PROVE  LoadHolds'
<1>1. /\ toHost \in Seq(Frames) /\ stream \in Seq(Frames) /\ stream # <<>>
      /\ toHost' = Append(toHost, Head(stream)) /\ stream' = Tail(stream)
      /\ version' = version /\ mishaps' = mishaps /\ desc' = desc /\ calls' = calls
  BY DEF Fair, DeviceStreams, TypeOK, DeviceTypes, deviceVars
<1>2. /\ \A v : WireOf(toHost, stream, v) => WireOf(toHost', stream', v)
      /\ \A v : InOrder(toHost, stream, v) => InOrder(toHost', stream', v)
      /\ \A d, v : Coming(toHost, stream, d, v) => Coming(toHost', stream', d, v)
      /\ \A low : Tight(toHost, stream, low) => Tight(toHost', stream', low)
      /\ MetaFirst(toHost, stream) => MetaFirst(toHost', stream')
  BY <1>1, WireStreams DEF Fair
<1>3. ~NoDesc(toHost, stream)
  BY <1>1 DEF NoDesc
<1>4. pc' = pc /\ todo' = todo /\ local' = local
  BY <1>1 DEF calls
<1>5. \A c \in Callers : (Receiving(c)' <=> Receiving(c)) /\ (Seen(c)' <=> Seen(c)) /\ (Begun(c)' <=> Begun(c))
  BY <1>1, <1>4 DEF Receiving, Kind, Seen, Begun, Received
<1>6. Idle' <=> Idle
  BY <1>5 DEF Idle
<1>7. (Awaited => Awaited') /\ \A v : Tells(v) => Tells(v)'
  BY <1>1, <1>2 DEF Awaited, Tells
<1>8. Tells(version) => Tells(version)'
  BY <1>1, <1>7 DEF Tells
<1>9. Once => Once'
  BY <1>1, <1>2, <1>3, <1>6 DEF Once
<1>10. InOrder(toHost, stream, version) => InOrder(toHost, stream, version)'
  BY <1>1, <1>2
<1>11. CASE Clean
  <2>1. Clean'
    BY <1>11, <1>1, <1>5, <1>7, <1>8, <1>9, <1>10 DEF Clean
  <2> QED
    BY <2>1 DEF LoadHolds
<1>12. CASE Lossy
  <2>1. \A c \in Callers : Recovering(c) => Recovering(c)'
    BY <1>4, <1>5, <1>7 DEF Recovering
  <2>2. Lossy'
    BY <1>12, <1>1, <1>5, <1>8, <1>10, <2>1 DEF Lossy
  <2> QED
    BY <2>2 DEF LoadHolds
<1>13. ~Stale
  BY <1>1 DEF Stale
<1>14. CASE Clash
  <2>1. WireOf(toHost, stream, version)' 
    BY <1>14, <1>1, <1>2 DEF Clash
  <2>2. Received' = Received
    BY <1>1 DEF Received
  <2>3. Clash'
    BY <1>14, <1>1, <1>2, <1>4, <1>5, <1>6, <1>10, <2>1, <2>2 DEF Clash
  <2> QED
    BY <2>3 DEF LoadHolds
<1> QED
  BY <1>11, <1>12, <1>13, <1>14 DEF LoadHolds, Fair

LEMMA OneMore == mishaps \in Nat /\ mishaps' = mishaps + 1 /\ mishaps' <= 1 => mishaps = 0 /\ mishaps' = 1
OBVIOUS

LEMMA LosingLoads ==
  ASSUME Fair, LoseFrame
  PROVE  LoadHolds'
<1>1. /\ toHost \in Seq(Frames) /\ toHost # <<>> /\ toHost' = Tail(toHost) /\ stream' = stream
      /\ version' = version /\ mishaps' = mishaps + 1 /\ desc' = desc /\ calls' = calls /\ mishaps \in Nat
  BY DEF Fair, LoseFrame, TypeOK, DeviceTypes, deviceVars
<1>2. mishaps = 0 /\ mishaps' = 1
  BY <1>1, OneMore DEF Fair
<1>3. Clean
  BY <1>2 DEF Fair, LoadHolds, Lossy, Stale, Clash
<1>4. WireOf(toHost', stream, version) /\ InOrder(toHost', stream, version)
  BY <1>1, <1>3, WireTail DEF Clean, Tells
<1>5. \A c \in Callers : (Receiving(c)' <=> Receiving(c)) /\ (Begun(c)' <=> Begun(c))
  BY <1>1 DEF calls, Receiving, Kind, Seen, Begun, Received
<1>6. Tells(version)' /\ InOrder(toHost, stream, version)'
  BY <1>1, <1>3, <1>4 DEF Clean, Tells
<1>7. Lossy'
  BY <1>2, <1>3, <1>5, <1>6 DEF Clean, Lossy, Recovering
<1> QED
  BY <1>7 DEF LoadHolds

LEMMA ReflashLoads ==
  ASSUME Fair, Reflash
  PROVE  LoadHolds'
<1>1. /\ toHost' = toHost /\ stream' = <<>> /\ version' \in Versions \ {version} /\ version \in Versions
      /\ mishaps' = mishaps + 1 /\ desc' = desc /\ calls' = calls /\ mishaps \in Nat
  BY DEF Fair, Reflash, TypeOK, DeviceTypes
<1>2. mishaps = 0 /\ mishaps' = 1
  BY <1>1, OneMore DEF Fair
<1>3. Clean
  BY <1>2 DEF Fair, LoadHolds, Lossy, Stale, Clash
<1>4. \A c \in Callers : (Receiving(c)' <=> Receiving(c)) /\ (Begun(c)' <=> Begun(c))
  BY <1>1 DEF calls, Receiving, Kind, Seen, Begun, Received
<1>5. Idle' <=> Idle
  BY <1>4 DEF Idle
<1>6. WireOf(toHost', stream', version) /\ (Once => Once')
  BY <1>1, <1>3, <1>5 DEF Clean, Tells, WireOf, Once, NoDesc, Tight
<1>7. \E u \in Versions \ {version'} : Tells(u)'
  BY <1>1, <1>3, <1>6 DEF Clean, Tells
<1>8. Stale'
  BY <1>1, <1>2, <1>3, <1>4, <1>6, <1>7 DEF Clean, Stale
<1> QED
  BY <1>8 DEF LoadHolds

-----------------------------------------------------------------------------
(***************************************************************************)
(* The steps of the transfer itself: the first request, a conflict, new    *)
(* bytes, another request, the end.                                        *)
(***************************************************************************)
(* Persists: the least the bounds of the loops may be.  The code has 4       *)
(* attempts at the first frame, 3 without progress, 64 requests and 2       *)
(* restarts, and asks again within the time-out of a read or a warm-up at   *)
(* least once.  With one of each, a single loss would end the call.         *)
Persists ==
  /\ MaxStart >= 2 /\ MaxStuck >= 2 /\ MaxRequests >= 2 /\ MaxAsks >= 2
  /\ {MaxStart, MaxStuck, MaxRequests, MaxAsks, MaxRestarts} \subseteq Nat /\ MaxRestarts >= 1

(* d transfers, and nobody else. *)
Loader(d) ==
  /\ pc[d] # "idle" /\ Kind(d) = "desc"
  /\ \A o \in Callers : o # d => /\ ~Receiving(o) /\ ~Receiving(o)' /\ local'[o] = local[o]

LEMMA LoaderOnly ==
  ASSUME Fair, OneLoader, \A c \in Callers : Fits(c), NEW d \in Callers, Step(d), Kind(d) = "desc"
  PROVE  Loader(d)
<1>1. pc[d] # "idle"
  BY StepSends DEF Fair
<1>2. ASSUME NEW o \in Callers, Receiving(o) PROVE o = d
  BY <1>1, <1>2, LoaderAlone DEF Receiving, Fair
<1>3. \A o \in Callers : o # d => (Receiving(o)' <=> Receiving(o)) /\ local'[o] = local[o]
  BY OthersSame DEF Fair
<1> QED
  BY <1>1, <1>2, <1>3 DEF Loader

LEMMA IdleIs ==
  ASSUME NEW d \in Callers, Loader(d)
  PROVE  /\ Idle <=> ~Receiving(d)
         /\ Idle' <=> ~Receiving(d)'
         /\ \A c \in Callers : (Receiving(c) => c = d) /\ (Receiving(c)' => c = d)
BY DEF Loader, Idle

(* The transfer begins again. *)
LEMMA EmptyIs ==
  /\ Empty \in DescType /\ Empty.total = 0 /\ Empty.bytes = <<>> /\ Len(Empty.bytes) = 0
  /\ Low(Empty) = 0 /\ \A v : DescOf(Empty, v)
BY DEF DescType, Empty, Low, DescOf

LEMMA Restarted ==
  ASSUME TypeOK, version' = version, toHost' = toHost, desc' = Empty, stream' = Stream(0),
         \A k \in 1 .. Len(toHost) : Of(toHost[k], version)
  PROVE  /\ Tells(version)' /\ InOrder(toHost, stream, version)' /\ Awaited'
         /\ (\A k \in 1 .. Len(toHost) : ~OfDesc(toHost[k])) /\ ~Idle' => Once'
<1>1. version \in Versions /\ toHost \in Seq(Frames)
  BY DEF TypeOK, DeviceTypes
<1>2. WireOf(toHost, Stream(0), version)
  BY <1>1, StreamTells
<1>3. InOrder(toHost, Stream(0), version)
  BY <1>1, StreamFollows
<1>4. Coming(toHost, Stream(0), Empty, version)
  BY <1>1, EmptyIs, StreamComes
<1>5. (\A k \in 1 .. Len(toHost) : ~OfDesc(toHost[k])) => Tight(toHost, Stream(0), 0)
  BY <1>1, StreamTight
<1> QED
  BY <1>2, <1>3, <1>4, <1>5, EmptyIs DEF Tells, Awaited, Once

LEMMA ZeroIs ==
  ASSUME NEW n \in Nat, NEW k \in Nat
  PROVE  /\ LET l == [Zero EXCEPT !.tries = 1, !.requests = 1]
            IN Base(l) /\ l.restarts = 0 /\ l.seen = 0 
         /\ LET l == [Zero EXCEPT !.tries = 1, !.requests = 1, !.restarts = n, !.seen = k]
            IN Base(l) /\ l.restarts = n /\ l.seen = k
BY DEF Zero, Base

LEMMA FirstLoads ==
  ASSUME Fair, NEW d \in Callers, Loader(d), FirstAsk(d)
  PROVE  LoadHolds'
<1>1. /\ pc[d] = "ask" /\ Ask(d, 0) /\ desc' = Empty /\ TypeOK /\ Kind(d) = "desc" /\ setup.present
      /\ local' = [local EXCEPT ![d].tries = 1, ![d].requests = 1] /\ mishaps \in Nat /\ mishaps' <= 1
      /\ toHost \in Seq(Frames)
  BY DEF Fair, Loader, FirstAsk, Usual, TypeOK, DeviceTypes
<1>2. version' = version /\ toHost' = toHost
      /\ \/ mishaps' = mishaps + 1 /\ stream' = stream
         \/ mishaps' = mishaps /\ stream' = Stream(0)
  BY <1>1, AskSends
<1>3. Idle /\ \A c \in Callers : Receiving(c)' => c = d
  BY <1>1, IdleIs DEF Receiving
<1>4. Begun(d)'
  <2>1. local[d] = Zero
    BY <1>1 DEF Fair, CountsHold
  <2>2. local'[d] = [Zero EXCEPT !.tries = 1, !.requests = 1]
    BY <1>1, <2>1 DEF TypeOK, CallTypes
  <2>3. Base(local'[d]) /\ local'[d].restarts = 0 /\ local'[d].seen = 0
    BY <2>2, ZeroIs
  <2> QED
    BY <1>1, <2>3, EmptyIs DEF Begun, Seen, Received
<1>5. Clean \/ Lossy \/ (mishaps = 1 /\ NoDesc(toHost, stream))
  BY <1>3 DEF Fair, LoadHolds, Stale, Once, Clash
<1>6. \A k \in 1 .. Len(toHost) : Of(toHost[k], version)
  BY <1>5 DEF Clean, Lossy, Tells, WireOf, NoDesc, Of, OfDesc
<1>7. CASE mishaps' = mishaps /\ stream' = Stream(0)
  <2>1. /\ Tells(version)' /\ InOrder(toHost, stream, version)' /\ Awaited'
        /\ (\A k \in 1 .. Len(toHost) : ~OfDesc(toHost[k])) /\ ~Idle' => Once'
    BY <1>1, <1>2, <1>6, <1>7, Restarted
  <2>2. Tells(version)'
    BY <2>1
  <2>3. CASE Clean
    <3>1. mishaps = 0 /\ \A k \in 1 .. Len(toHost) : ~OfDesc(toHost[k])
      BY <1>3, <2>3 DEF Clean, Once, NoDesc
    <3>2. ~Idle'
      <4>1. Receiving(d)'
        BY <1>1 DEF FirstAsk, Receiving, Kind, TypeOK, CallTypes
      <4> QED
        BY <4>1 DEF Idle
    <3>3. Clean'
      BY <1>3, <1>4, <1>7, <2>1, <3>1, <3>2 DEF Clean
    <3> QED
      BY <3>3 DEF LoadHolds
  <2>4. CASE mishaps = 1
    <3>1. Lossy'
      BY <1>3, <1>4, <1>7, <2>1, <2>4 DEF Lossy, Recovering
    <3> QED
      BY <3>1 DEF LoadHolds
  <2> QED
    BY <1>5, <2>3, <2>4 DEF Lossy
<1>8. CASE mishaps' = mishaps + 1 /\ stream' = stream
  <2>1. mishaps = 0 /\ mishaps' = 1
    BY <1>1, <1>8, OneMore
  <2>2. Clean
    BY <1>5, <2>1 DEF Lossy
  <2>3. Tells(version)' /\ InOrder(toHost, stream, version)'
    BY <1>1, <1>2, <1>8, <2>2, EmptyIs DEF Clean, Tells
  <2>4. Lossy'
    BY <1>3, <1>4, <2>1, <2>3 DEF Lossy, Recovering
  <2> QED
    BY <2>4 DEF LoadHolds
<1> QED
  BY <1>2, <1>7, <1>8

LEMMA ConflictLoads ==
  ASSUME Fair, Persists, NEW d \in Callers, Loader(d), DescConflict(d)
  PROVE  LoadHolds' /\ local[d].restarts < MaxRestarts
<1>1. desc.conflict /\ Receiving(d) /\ ~Idle
  BY DEF DescConflict, Idle
<1>2. Clash
  BY <1>1 DEF Fair, LoadHolds, Clean, Lossy, Stale, Tells, DescOf
<1>3. mishaps = 1 /\ local[d].restarts = 0 /\ WireOf(toHost, stream, version)
  BY <1>1, <1>2 DEF Clash
<1>4. ~(local[d].restarts >= MaxRestarts)
  BY <1>3 DEF Persists
<1>5. /\ Ask(d, 0) /\ desc' = Empty
      /\ local' = [local EXCEPT ![d] = [Zero EXCEPT !.tries = 1, !.requests = 1,
                         !.restarts = local[d].restarts + 1, !.seen = local[d].seen]]
  BY <1>4 DEF DescConflict
<1>6. Base(local'[d]) /\ local'[d].restarts = 1
  <2>1. local[d].seen \in Nat /\ local[d].restarts + 1 = 1
    BY <1>3, Counts DEF Counters, Fair
  <2>2. local'[d] = [Zero EXCEPT !.tries = 1, !.requests = 1, !.restarts = 1, !.seen = local[d].seen]
    <3>1. local \in [Callers -> Counters]
      BY DEF Fair, TypeOK, CallTypes
    <3> QED
      BY <1>5, <2>1, <3>1
  <2>3. LET l == [Zero EXCEPT !.tries = 1, !.requests = 1, !.restarts = 1, !.seen = local[d].seen]
        IN Base(l) /\ l.restarts = 1
    BY <2>1, ZeroIs
  <2> QED
    BY <2>2, <2>3
<1>7. version' = version /\ toHost' = toHost /\ mishaps' = 1 /\ stream' = Stream(0)
  <2>1. TypeOK /\ setup.present /\ Kind(d) = "desc" /\ pc[d] # "idle" /\ mishaps' <= 1
    BY DEF Fair, Usual, Loader
  <2>2. version' = version /\ toHost' = toHost
        /\ \/ mishaps' = mishaps + 1 /\ stream' = stream
           \/ mishaps' = mishaps /\ stream' = Stream(0)
    BY <1>5, <2>1, AskSends
  <2> QED
    BY <1>3, <2>1, <2>2
<1>8. Tells(version)' /\ InOrder(toHost, stream, version)' /\ Awaited'
  <2>1. TypeOK /\ \A k \in 1 .. Len(toHost) : Of(toHost[k], version)
    BY <1>3 DEF Fair, WireOf
  <2> QED
    BY <1>5, <1>7, <2>1, Restarted
<1>9. \A c \in Callers : Receiving(c)' => c = d
  BY IdleIs
<1>10. Lossy'
  BY <1>6, <1>7, <1>8, <1>9 DEF Lossy, Recovering
<1>11. local[d].restarts < MaxRestarts
  BY <1>3 DEF Persists
<1> QED
  BY <1>10, <1>11 DEF LoadHolds

LEMMA GrownIs ==
  ASSUME NEW l \in Counters, NEW n \in Nat, NEW k, k = [l EXCEPT !.seen = n, !.stuck = 0]
  PROVE  /\ k.seen = n /\ k.restarts = l.restarts
         /\ Base(l) => Base(k)
BY DEF Base, Counters

LEMMA GrowsLoads ==
  ASSUME Fair, NEW d \in Callers, Loader(d), DescGrows(d)
  PROVE  LoadHolds'
<1>1. /\ Receiving(d) /\ ~desc.conflict /\ Received > local[d].seen
      /\ local' = [local EXCEPT ![d].seen = Received, ![d].stuck = 0]
      /\ pc' = [pc EXCEPT ![d] = IF Finished THEN "collect" ELSE "wait"]
      /\ version' = version /\ toHost' = toHost /\ stream' = stream /\ mishaps' = mishaps
      /\ desc' = desc /\ todo' = todo
  BY DEF DescGrows, Grown, deviceVars
<1>2. /\ desc \in DescType /\ Received \in Nat /\ desc.total \in Nat /\ local \in [Callers -> Counters]
      /\ toHost \in Seq(Frames) /\ stream \in Seq(Frames) /\ Plain(stream) /\ Received <= desc.total
      /\ version \in Versions
  BY DEF Fair, TypeOK, DeviceTypes, CacheTypes, CallTypes, DescType, Received, CountsHold, Bounded
<1>3. local'[d] = [local[d] EXCEPT !.seen = Received, !.stuck = 0]
  BY <1>1, <1>2
<1>4. local'[d].seen = Received /\ local'[d].restarts = local[d].restarts /\ (Base(local[d]) => Base(local'[d]))
  BY <1>2, <1>3, GrownIs
<1>5. ~Idle /\ \A c \in Callers : Receiving(c)' => c = d
  BY <1>1, IdleIs DEF Idle
<1>6. /\ Tells(version) => Tells(version)' 
      /\ \A u : Tells(u) => Tells(u)'
      /\ InOrder(toHost, stream, version) => InOrder(toHost, stream, version)' 
      /\ Awaited => Awaited'
  BY <1>1 DEF Tells, Awaited
<1>7. Receiving(d)' => Seen(d)'
  <2>1. ASSUME Receiving(d)' PROVE ~Finished
    BY <1>1, <2>1 DEF Receiving, Fair, TypeOK, CallTypes
  <2>2. ASSUME ~Finished PROVE desc.total # 0 /\ Received < desc.total
    BY <1>1, <1>2, <2>2, Counts DEF Finished, Fair, Counters
  <2> QED
    BY <1>1, <1>2, <1>4, <2>1, <2>2 DEF Seen, Received
<1>8. ASSUME NEW u \in Versions, Tells(u), Once PROVE Once'
  <2>1. Tight(toHost, stream, Low(desc)) /\ DescOf(desc, u) /\ WireOf(toHost, stream, u)
    BY <1>5, <1>8 DEF Once, Tells
  <2>2. CASE Finished
    <3>1. desc.total # 0 /\ desc.total = Length(u) /\ Received = desc.total
      BY <1>2, <2>1, <2>2, TotalOf DEF Finished
    <3>2. NoDesc(toHost, stream)
      BY <1>2, <2>1, <3>1, Exhausted DEF Received
    <3>3. ~Receiving(d)'
      BY <1>1, <2>2 DEF Receiving, Fair, TypeOK, CallTypes
    <3> QED
      BY <1>1, <1>5, <3>2, <3>3 DEF Once, Idle
  <2>3. CASE ~Finished
    <3>1. Receiving(d)'
      BY <1>1, <2>3 DEF Receiving, Kind, Fair, TypeOK, CallTypes
    <3> QED
      BY <1>1, <2>1, <3>1 DEF Once, Idle
  <2> QED
    BY <2>2, <2>3
<1>9. CASE Clean
  <2>1. Tells(version) /\ Once /\ Begun(d) /\ Awaited /\ InOrder(toHost, stream, version) /\ mishaps = 0
    BY <1>1, <1>9 DEF Clean
  <2>2. Clean'
    BY <1>1, <1>2, <1>4, <1>5, <1>6, <1>7, <1>8, <2>1 DEF Clean, Begun
  <2> QED
    BY <2>2 DEF LoadHolds
<1>10. CASE Lossy
  <2>1. Tells(version) /\ Recovering(d) /\ InOrder(toHost, stream, version) /\ mishaps = 1
    BY <1>1, <1>10 DEF Lossy
  <2>2. Receiving(d)' => Recovering(d)'
    BY <1>4, <1>6, <1>7, <2>1 DEF Recovering, Begun
  <2>3. Lossy'
    BY <1>1, <1>5, <1>6, <2>1, <2>2 DEF Lossy
  <2> QED
    BY <2>3 DEF LoadHolds
<1>11. CASE Stale
  <2>1. PICK u \in Versions \ {version} : Tells(u)
    BY <1>5, <1>11 DEF Stale
  <2>2. Begun(d) /\ Once /\ mishaps = 1 /\ stream = <<>>
    BY <1>1, <1>11 DEF Stale
  <2>3. Once' /\ Tells(u)'
    BY <1>6, <1>8, <2>1, <2>2
  <2>4. Stale'
    BY <1>1, <1>4, <1>5, <1>7, <2>1, <2>2, <2>3 DEF Stale, Begun
  <2> QED
    BY <2>4 DEF LoadHolds
<1>12. ~Clash
  <2>1. local[d].seen \in Nat
    BY <1>2 DEF Counters
  <2> QED
    BY <1>1, <1>2, <2>1 DEF Clash
<1> QED
  BY <1>9, <1>10, <1>11, <1>12 DEF LoadHolds, Fair

LEMMA CompleteLoads ==
  ASSUME Fair, NEW d \in Callers, Loader(d), DescComplete(d)
  PROVE  LoadHolds'
<1>1. /\ Receiving(d) /\ ~desc.conflict /\ ~(Received > local[d].seen) /\ desc.total # 0 /\ Received >= desc.total
      /\ pc' = [pc EXCEPT ![d] = "collect"]
      /\ version' = version /\ toHost' = toHost /\ stream' = stream /\ mishaps' = mishaps
      /\ desc' = desc /\ todo' = todo
  BY DEF DescComplete, Grown, Finished, deviceVars
<1>2. Received \in Nat /\ desc.total \in Nat /\ local[d].seen \in Nat
  BY Counts DEF Counters, Fair
<1>3. ~Seen(d)
  BY <1>1, <1>2 DEF Seen
<1>4. ~Clean /\ ~Stale
  BY <1>1, <1>3 DEF Clean, Stale, Begun
<1>5. ~Clash
  BY <1>1, <1>2 DEF Clash
<1>6. Lossy
  BY <1>4, <1>5 DEF LoadHolds, Fair
<1>7. \A c \in Callers : ~Receiving(c)'
  BY <1>1, IdleIs DEF Receiving, Fair, TypeOK, CallTypes
<1>8. Tells(version)' /\ InOrder(toHost, stream, version)'
  BY <1>1, <1>6 DEF Lossy, Tells
<1>9. Lossy'
  BY <1>1, <1>6, <1>7, <1>8 DEF Lossy
<1> QED
  BY <1>9 DEF LoadHolds

(* A wait ends when nothing is on its way. *)
LEMMA AwaitedGone ==
  ASSUME NoDesc(toHost, stream), Awaited
  PROVE  desc.total # 0 /\ Received = Length(version)
BY DEF NoDesc, Awaited, Coming, Begins, Comes, IsChunk, OfDesc, Received

LEMMA ExpiredIs ==
  ASSUME Fair, NEW d \in Callers, Kind(d) = "desc", Expired(d)
  PROVE  NoDesc(toHost, stream)
BY DEF Fair, Usual, Expired, For, NoDesc, OfDesc

LEMMA AskedIs ==
  ASSUME NEW l \in Counters, NEW n \in Nat, NEW m \in Nat
  PROVE  /\ LET k == [l EXCEPT !.tries = @ + 1, !.asked = n]
            IN k.restarts = l.restarts /\ k.seen = l.seen
         /\ LET k == [l EXCEPT !.requests = @ + 1, !.stuck = m, !.asked = n]
            IN k.restarts = l.restarts /\ k.seen = l.seen
BY DEF Counters

Failing(d) ==
  LET l == local[d]
      stuck == IF Received = l.asked THEN l.stuck + 1 ELSE 0
  IN IF desc.total = 0 THEN l.tries >= MaxStart ELSE stuck >= MaxStuck \/ l.requests >= MaxRequests

LEMMA BaseGoesOn ==
  ASSUME Persists, NEW d \in Callers, Base(local[d])
  PROVE  ~Failing(d)
BY DEF Persists, Base, Failing

(* Asked again where it stood. *)
LEMMA AskedOn ==
  ASSUME Fair, NEW d \in Callers, Loader(d), DescAsks(d), ~Failing(d), mishaps = 1
  PROVE  /\ NoDesc(toHost, stream) /\ ~desc.conflict /\ ~(Received > local[d].seen)
         /\ version' = version /\ toHost' = toHost /\ mishaps' = 1 /\ desc' = desc
         /\ stream' = Stream(IF desc.total = 0 THEN 0 ELSE Received)
         /\ local'[d].restarts = local[d].restarts /\ local'[d].seen = local[d].seen
         /\ pc'[d] = (IF Finished THEN "collect" ELSE "wait") /\ todo' = todo
<1> DEFINE from == IF desc.total = 0 THEN 0 ELSE Received
           stuck == IF Received = local[d].asked THEN local[d].stuck + 1 ELSE 0
<1>1. /\ Receiving(d) /\ ~desc.conflict /\ ~(Received > local[d].seen) /\ Expired(d) /\ desc' = desc
      /\ Ask(d, from)
      /\ local' = [local EXCEPT ![d] =
                  IF desc.total = 0 THEN [local[d] EXCEPT !.tries = @ + 1, !.asked = Received]
                  ELSE [local[d] EXCEPT !.requests = @ + 1, !.stuck = stuck, !.asked = Received]]
      /\ pc' = [pc EXCEPT ![d] = IF Finished THEN "collect" ELSE "wait"] /\ todo' = todo
  BY DEF DescAsks, Failing, Grown, Missing
<1>2. TypeOK /\ setup.present /\ Kind(d) = "desc" /\ pc[d] # "idle" /\ mishaps' <= 1
  BY DEF Fair, Usual, Loader
<1>3. Received \in Nat /\ local[d] \in Counters /\ local \in [Callers -> Counters] /\ pc \in [Callers -> {"idle", "ask", "wait", "collect"}]
  BY <1>2, Counts DEF TypeOK, CallTypes
<1>4. from \in Nat /\ stuck \in Nat
  BY <1>3 DEF Counters
<1>5. version' = version /\ toHost' = toHost /\ mishaps' = 1 /\ stream' = Stream(from)
  <2>1. version' = version
        /\ \/ mishaps' = mishaps + 1 /\ UNCHANGED <<toHost, stream>>
           \/ mishaps' = mishaps /\ toHost' = toHost /\ stream' = Stream(from)
    BY <1>1, <1>2, <1>4, AskSends
  <2> QED
    BY <1>2, <2>1
<1>6. local'[d].restarts = local[d].restarts /\ local'[d].seen = local[d].seen
  <2>1. local'[d] = IF desc.total = 0 THEN [local[d] EXCEPT !.tries = @ + 1, !.asked = Received]
                  ELSE [local[d] EXCEPT !.requests = @ + 1, !.stuck = stuck, !.asked = Received]
    BY <1>1, <1>3
  <2> QED
    BY <1>3, <1>4, <2>1, AskedIs
<1>7. NoDesc(toHost, stream)
  BY <1>1, <1>2, ExpiredIs
<1> QED
  BY <1>1, <1>3, <1>5, <1>6, <1>7

LEMMA AsksLoads ==
  ASSUME Fair, Persists, NEW d \in Callers, Loader(d), DescAsks(d)
  PROVE  LoadHolds' /\ ~Failing(d)
<1>1. /\ Receiving(d) /\ ~desc.conflict /\ ~(Received > local[d].seen) /\ Expired(d) /\ ~Idle
      /\ TypeOK /\ Kind(d) = "desc"
  BY DEF DescAsks, Grown, Idle, Fair, Loader
<1>2. /\ desc \in DescType /\ Received \in Nat /\ desc.total \in Nat /\ local[d].seen \in Nat
      /\ toHost \in Seq(Frames) /\ stream \in Seq(Frames) /\ Received <= desc.total /\ Bounded(desc)
      /\ version \in Versions
  BY Counts DEF Fair, TypeOK, DeviceTypes, CacheTypes, DescType, Received, CountsHold, Bounded, Counters
<1>3. NoDesc(toHost, stream)
  BY <1>1, ExpiredIs
<1>4. \A k \in 1 .. Len(toHost), v \in Versions : Of(toHost[k], v) /\ ~OfDesc(toHost[k])
  BY <1>3 DEF NoDesc, OfDesc, Of
<1>5. ~(Tells(version) /\ Awaited /\ Seen(d))
  BY <1>1, <1>2, <1>3, TotalOf, AwaitedGone DEF Tells, Seen
<1>6. ~Clean
  BY <1>1, <1>5 DEF Clean, Begun
<1>7. ~Clash
  <2>1. ~MetaFirst(toHost, stream)
    BY <1>3 DEF MetaFirst, NoDesc, OfDesc
  <2> QED
    BY <1>1, <2>1 DEF Clash
<1>8. mishaps = 1 /\ Base(local[d])
  BY <1>1, <1>5, <1>6, <1>7 DEF Fair, LoadHolds, Lossy, Stale, Recovering, Begun
<1>9. ~Failing(d)
  BY <1>8, BaseGoesOn
<1>10. /\ version' = version /\ toHost' = toHost /\ mishaps' = 1 /\ desc' = desc
       /\ stream' = Stream(IF desc.total = 0 THEN 0 ELSE Received)
       /\ local'[d].restarts = local[d].restarts /\ local'[d].seen = local[d].seen
       /\ pc'[d] = (IF Finished THEN "collect" ELSE "wait") /\ todo' = todo
  BY <1>8, <1>9, AskedOn
<1> DEFINE from == IF desc.total = 0 THEN 0 ELSE Received
<1>11. /\ WireOf(toHost', stream', version') /\ InOrder(toHost', stream', version')
       /\ desc.total \in {0, Length(version)} => Coming(toHost', stream', desc', version')
       /\ stream' # <<>> /\ stream'[1].kind = "meta"
  <2>1. from \in Nat
    BY <1>2
  <2>2. WireOf(toHost, Stream(from), version)
    BY <1>2, <1>4, <2>1, StreamTells
  <2>3. InOrder(toHost, Stream(from), version)
    BY <1>2, <1>4, <2>1, StreamFollows
  <2>4. desc.total \in {0, Length(version)} => Coming(toHost, Stream(from), desc, version)
    BY <1>2, <2>1, StreamComes DEF Received
  <2>5. IsStream(Stream(from), from)
    BY <1>2, <2>1, StreamAt
  <2>6. Stream(from) # <<>> /\ Stream(from)[1].kind = "meta"
    BY <2>5, ChunkIs DEF IsStream
  <2> QED
    BY <1>10, <2>2, <2>3, <2>4, <2>6
<1>12. Seen(d) => Seen(d)'
  BY <1>10 DEF Seen, Received
<1>13. \A c \in Callers : Receiving(c)' => c = d
  BY IdleIs
<1>14. ASSUME DescOf(desc, version), \/ ~Receiving(d)'
                                     \/ local[d].restarts = 0 /\ Seen(d)
       PROVE  LoadHolds'
  <2>1. Awaited' /\ Tells(version)'
    BY <1>10, <1>11, <1>14 DEF Tells, Awaited, DescOf
  <2>2. \A c \in Callers : Receiving(c)' => Recovering(c)'
    BY <1>10, <1>12, <1>13, <1>14, <2>1 DEF Recovering
  <2>3. Lossy'
    BY <1>10, <1>11, <2>1, <2>2 DEF Lossy
  <2> QED
    BY <2>3 DEF LoadHolds
<1>15. ASSUME Lossy PROVE LoadHolds'
  <2>1. DescOf(desc, version) /\ Recovering(d)
    BY <1>1, <1>15 DEF Lossy, Tells
  <2>2. CASE local[d].restarts = 0 /\ Seen(d)
    BY <1>14, <2>1, <2>2
  <2>3. CASE Awaited
    <3>1. desc.total # 0 /\ Received = Length(version)
      BY <1>3, <2>3, AwaitedGone
    <3>2. Finished
      BY <1>2, <2>1, <3>1, TotalOf DEF Finished
    <3>3. ~Receiving(d)'
      BY <1>10, <3>2 DEF Receiving
    <3> QED
      BY <1>14, <2>1, <3>3
  <2> QED
    BY <2>1, <2>2, <2>3 DEF Recovering, Begun
<1>16. ASSUME Stale PROVE LoadHolds'
  <2>1. PICK u \in Versions \ {version} : Tells(u)
    BY <1>1, <1>16 DEF Stale
  <2>2. local[d].restarts = 0 /\ Seen(d) /\ DescOf(desc, u)
    BY <1>1, <1>16, <2>1 DEF Stale, Begun, Tells
  <2>3. CASE desc.total = 0
    <3>1. \A k \in 1 .. Len(desc.bytes) : FALSE
      BY <1>2, <2>3 DEF Received
    <3>2. DescOf(desc, version)
      BY <1>1, <2>3, <3>1 DEF DescOf
    <3> QED
      BY <1>14, <2>2, <3>2
  <2>4. CASE desc.total # 0
    <3>1. desc.total = Length(u) /\ Length(u) # Length(version)
      BY <1>2, <2>1, <2>2, <2>4, TotalOf DEF Length, Versions
    <3>2. Received < desc.total /\ Received <= local[d].seen
      BY <1>1, <1>2, <2>2, <2>4 DEF Seen
    <3>3. Receiving(d)'
      BY <1>1, <1>2, <1>10, <3>2 DEF Receiving, Finished, Kind
    <3>4. MetaFirst(toHost', stream')
      BY <1>4, <1>10, <1>11 DEF MetaFirst, OfDesc
    <3>5. Clash'
      BY <1>10, <1>11, <1>13, <2>2, <2>4, <3>1, <3>2, <3>3, <3>4 DEF Clash, Received, Idle
    <3> QED
      BY <3>5 DEF LoadHolds
  <2> QED
    BY <2>3, <2>4
<1> QED
  BY <1>6, <1>7, <1>9, <1>15, <1>16 DEF LoadHolds, Fair

-----------------------------------------------------------------------------
(***************************************************************************)
(* Every step keeps the state of the transfer.                             *)
(***************************************************************************)
(* What may be taken of the descriptor's cache. *)
LEMMA DescSteps ==
  ASSUME NEW d \in Callers, Step(d)
  PROVE  desc' = desc \/ (desc' = Empty /\ Kind(d) = "desc")
<1>1. CASE FirstAsk(d)
  BY <1>1 DEF FirstAsk
<1>2. CASE DescConflict(d)
  BY <1>2 DEF DescConflict, Receiving
<1> QED
  BY <1>1, <1>2 DEF Step, Skips, SendFails, DescGrows, DescAsks, DescComplete, Collect, GotAnswer,
    ReadContinues, AskAgain, TimesOut

LEMMA CollectsWhole ==
  ASSUME TypeOK, Bounded(desc), NEW d \in Callers, Step(d), pc'[d] = "collect"
  PROVE  Kind(d)' = "desc" /\ desc'.total # 0 /\ Received' = desc'.total
<1>1. Stays(d) /\ Kind(d) = "desc"
  BY StepCases DEF PhaseOver, Over, Onward
<1>2. Kind(d)' = "desc"
  BY <1>1 DEF Stays, Kind
<1>3. pc'[d] # "idle" /\ pc'[d] # "ask"
  OBVIOUS
<1>4. ~PhaseFails(d) /\ ~PhaseSucceeds(d)
  BY <1>3, FailsCase, SucceedsCase DEF PhaseOver, Over, Onward
<1>5. ~Collect(d) /\ ~Skips(d) /\ ~SendFails(d) /\ ~GotAnswer(d) /\ ~TimesOut(d)
  BY <1>4 DEF Collect, Skips, SendFails, GotAnswer, TimesOut
<1>6. ~FirstAsk(d) /\ ~DescConflict(d) /\ ~ReadContinues(d) /\ ~AskAgain(d)
  BY <1>4 DEF FirstAsk, DescConflict, Receiving, ReadContinues, HasMore, AskAgain, Waiting, TypeOK, CallTypes
<1>7. CASE DescGrows(d) \/ DescAsks(d) \/ DescComplete(d)
  <2>1. Finished /\ desc' = desc
    BY <1>4, <1>7 DEF DescGrows, DescAsks, DescComplete, TypeOK, CallTypes
  <2>2. Received \in Nat /\ desc.total \in Nat /\ Received <= desc.total
    BY Counts DEF Bounded, Received
  <2> QED
    BY <1>2, <2>1, <2>2 DEF Finished, Received
<1> QED
  BY <1>5, <1>6, <1>7 DEF Step

LEMMA StepCounts ==
  ASSUME TypeOK, Usual, OneLoader, \A c \in Callers : Fits(c), CountsHold, NEW d \in Callers, Step(d)
  PROVE  CountsHold'
<1>1. desc' = desc \/ (desc' = Empty /\ Kind(d) = "desc")
  BY DescSteps
<1>2. Bounded(desc')
  BY <1>1, EmptyIs DEF CountsHold, Bounded
<1>3. pc[d] # "idle"
  BY StepSends
<1>4. ASSUME NEW c \in Callers, c # d
      PROVE  /\ pc'[c] = "collect" => Kind(c)' = "desc" /\ desc'.total # 0 /\ Received' = desc'.total
             /\ pc'[c] \in {"idle", "ask"} => local'[c] = Zero
  <2>1. Beside(c)
    BY <1>4, StepCases
  <2>2. CASE pc[c] = "collect"
    <3>1. Kind(c) = "desc" /\ desc.total # 0 /\ Received = desc.total
      BY <2>2 DEF CountsHold
    <3>2. Kind(d) # "desc"
      BY <1>3, <1>4, <2>2, <3>1, LoaderAlone
    <3> QED
      BY <1>1, <2>1, <2>2, <3>1, <3>2 DEF Beside, Kind, Received
  <2>3. CASE pc[c] # "collect"
    BY <2>1, <2>3 DEF Beside, CountsHold
  <2> QED
    BY <2>2, <2>3
<1>5. pc'[d] \in {"idle", "ask"} => local'[d] = Zero
  BY StepCases DEF PhaseOver, Over, Onward, Stays
<1>6. pc'[d] = "collect" => Kind(d)' = "desc" /\ desc'.total # 0 /\ Received' = desc'.total
  BY CollectsWhole DEF CountsHold
<1> QED
  BY <1>2, <1>4, <1>5, <1>6 DEF CountsHold

LEMMA KeepsCounts ==
  ASSUME TypeOK, TypeOK', CountsHold,
         \/ \E d \in Callers : NewCall(d)
         \/ ProcessFeedbackFrame \/ DeviceStreams \/ LoseFrame \/ Reflash
  PROVE  CountsHold'
<1>1. CASE ProcessFeedbackFrame
  <2>1. toHost # <<>> /\ toHost \in Seq(Frames) /\ desc \in DescType /\ desc' \in DescType
        /\ pc' = pc /\ todo' = todo /\ local' = local
    BY <1>1 DEF ProcessFeedbackFrame, calls, TypeOK, DeviceTypes, CacheTypes, DescType
  <2>2. Head(toHost) \in Frames
    BY <2>1, Taken
  <2>3. /\ Bounded(desc')
        /\ desc.total # 0 => desc'.total = desc.total
        /\ desc.total # 0 /\ Len(desc.bytes) = desc.total => Len(desc'.bytes) = Len(desc.bytes)
    BY <1>1, <2>1, <2>2, RecordTakes, TakingBounds DEF CountsHold
  <2>4. desc.total # 0 /\ Received = desc.total => desc'.total # 0 /\ Received' = desc'.total
    BY <2>3 DEF Received
  <2> QED
    BY <2>1, <2>3, <2>4 DEF CountsHold, Kind
<1>2. CASE DeviceStreams \/ LoseFrame \/ Reflash
  <2>1. desc' = desc /\ pc' = pc /\ todo' = todo /\ local' = local
    BY <1>2 DEF DeviceStreams, LoseFrame, Reflash, calls
  <2> QED
    BY <2>1 DEF CountsHold, Kind, Received
<1>3. ASSUME NEW d \in Callers, NewCall(d) PROVE CountsHold'
  <2>1. desc' = desc /\ local' = local /\ pc[d] = "idle" /\ pc'[d] \in {"idle", "ask"}
        /\ \A o \in Callers : o # d => Beside(o)
    BY <1>3, NewCallCases DEF NewCall
  <2>2. ASSUME NEW c \in Callers, c # d
        PROVE  /\ pc'[c] = "collect" => Kind(c)' = "desc" /\ desc.total # 0 /\ Received = desc.total
               /\ pc'[c] \in {"idle", "ask"} => local'[c] = Zero
    BY <2>1, <2>2 DEF Beside, Kind, CountsHold
  <2>3. /\ ~(pc'[d] = "collect")
        /\ local'[d] = Zero
    BY <2>1 DEF CountsHold
  <2> QED
    BY <2>1, <2>2, <2>3 DEF CountsHold, Received
<1> QED
  BY <1>1, <1>2, <1>3

LEMMA StepLoadHolds ==
  ASSUME Fair, OneLoader, Persists, \A c \in Callers : Fits(c), NEW d \in Callers, Step(d)
  PROVE  LoadHolds'
<1>1. TypeOK /\ Usual /\ LoadHolds /\ mishaps' <= 1
  BY DEF Fair
<1>2. CASE SameLoads /\ WireAside
  BY <1>1, <1>2, AsideLoads
<1>3. CASE /\ Kind(d) = "desc" /\ pc[d] # "idle"
           /\ FirstAsk(d) \/ DescConflict(d) \/ DescGrows(d) \/ DescAsks(d) \/ DescComplete(d)
  <2>1. Loader(d)
    BY <1>3, LoaderOnly
  <2> QED
    BY <1>3, <2>1, FirstLoads, ConflictLoads, GrowsLoads, AsksLoads, CompleteLoads
<1> QED
  BY <1>1, <1>2, <1>3, StepLoads

LEMMA MishapsGrow ==
  ASSUME TypeOK, [Next]_vars
  PROVE  mishaps <= mishaps' /\ mishaps \in Nat /\ mishaps' \in Nat
<1>1. mishaps \in Nat
  BY DEF TypeOK, DeviceTypes
<1>2. ASSUME NEW d \in Callers, Step(d) PROVE mishaps' = mishaps \/ mishaps' = mishaps + 1
  BY <1>2 DEF Step, FirstAsk, Skips, SendFails, DescConflict, DescGrows, DescAsks, DescComplete, Collect,
    GotAnswer, ReadContinues, AskAgain, TimesOut, Ask, Request
<1>3. mishaps' = mishaps \/ mishaps' = mishaps + 1
  BY <1>2 DEF Next, NewCall, ProcessFeedbackFrame, DeviceStreams, LoseFrame, Reflash, vars
<1> QED
  BY <1>1, <1>3

LEMMA LoadsInductive ==
  ASSUME RecoverInv, ParamInv', OneLoader, Persists, [Next]_vars
  PROVE  RecoverInv'
<1>1. TypeOK /\ TypeOK' /\ (\A c \in Callers : Fits(c)) /\ Plain(stream)
  BY DEF RecoverInv, ParamInv, Plain
<1>2. setup' = setup
  BY <1>1, StreamStaysPlain
<1>3. mishaps <= mishaps' /\ mishaps \in Nat /\ mishaps' \in Nat
  BY <1>1, MishapsGrow
<1> SUFFICES ASSUME Usual' PROVE CountsHold' /\ (mishaps' <= 1 => LoadHolds')
  BY DEF RecoverInv
<1>4. Usual /\ CountsHold /\ (mishaps <= 1 => LoadHolds)
  BY <1>2 DEF Usual, RecoverInv
<1>5. CountsHold'
  <2>1. ASSUME NEW d \in Callers, Step(d) PROVE CountsHold'
    BY <1>1, <1>4, <2>1, StepCounts
  <2>2. CASE \/ \E d \in Callers : NewCall(d)
             \/ ProcessFeedbackFrame \/ DeviceStreams \/ LoseFrame \/ Reflash
    BY <1>1, <1>4, <2>2, KeepsCounts
  <2>3. CASE UNCHANGED vars
    BY <1>4, <2>3 DEF vars, calls, CountsHold, Kind, Received
  <2> QED
    BY <2>1, <2>2, <2>3 DEF Next
<1>6. ASSUME mishaps' <= 1 PROVE LoadHolds'
  <2>1. Fair
    BY <1>1, <1>3, <1>4, <1>6 DEF Fair
  <2>2. ASSUME NEW d \in Callers, NewCall(d) PROVE LoadHolds'
    BY <1>6, <2>1, <2>2, NewCallLoads, AsideLoads DEF Fair
  <2>3. ASSUME NEW d \in Callers, Step(d) PROVE LoadHolds'
    BY <1>1, <2>1, <2>3, StepLoadHolds
  <2>4. CASE ProcessFeedbackFrame
    BY <2>1, <2>4, TakeLoads DEF Fair, CountsHold
  <2>5. CASE DeviceStreams
    BY <2>1, <2>5, StreamingLoads
  <2>6. CASE LoseFrame
    BY <2>1, <2>6, LosingLoads
  <2>7. CASE Reflash
    BY <2>1, <2>7, ReflashLoads
  <2>8. CASE UNCHANGED vars
    <3>1. SameLoads /\ WireAside
      BY <2>8 DEF SameLoads, WireAside, vars, deviceVars, calls, Receiving, Kind
    <3> QED
      BY <1>6, <2>1, <3>1, AsideLoads DEF Fair
  <2> QED
    BY <2>2, <2>3, <2>4, <2>5, <2>6, <2>7, <2>8 DEF Next
<1> QED
  BY <1>5, <1>6

-----------------------------------------------------------------------------
(***************************************************************************)
(* The answers to the requests of read_param_raw, of get_param_f32, of a   *)
(* write and of warm_up: until it was lost, an answer is on its way or     *)
(* there.                                                                  *)
(***************************************************************************)
(* Served: get_param_f32 ends in an error for a value that is not of four   *)
(* bytes whatever comes, so get is called on "narrow"; and a thread that    *)
(* warms up makes no transfer, of which a frame left over would be taken    *)
(* for what the probe has seen.                                             *)
Served ==
  \A s \in Setups : ~s.late /\ ~s.faults /\ s.present =>
    \A c \in Callers :
      /\ "get" \in s.calls[c] => s.on[c] = "narrow"
      /\ "warm_up" \in s.calls[c] => s.calls[c] \cap Transfers = {}

(* A frame that answers is under way. *)
Is(f, kind, e) == f.kind = kind /\ f.e = e /\ (kind = "param" => f.i >= 1)
Underway(q, kind, e) == \E i \in 1 .. Len(q) : Is(q[i], kind, e)

LEMMA UnderwayAdds ==
  ASSUME NEW q \in Seq(Frames), NEW f \in Frames, NEW t, t = Append(q, f), NEW kind, NEW e
  PROVE  /\ Underway(q, kind, e) => Underway(t, kind, e)
         /\ Is(f, kind, e) => Underway(t, kind, e)
<1>1. /\ Len(q) \in Nat /\ Len(t) = Len(q) + 1 /\ t[Len(q) + 1] = f
      /\ \A i \in 1 .. Len(q) : t[i] = q[i]
  BY Appended
<1>2. Len(q) + 1 \in 1 .. Len(t) /\ \A i \in 1 .. Len(q) : i \in 1 .. Len(t)
  BY <1>1
<1> QED
  BY <1>1, <1>2 DEF Underway

LEMMA UnderwayTail ==
  ASSUME NEW q \in Seq(Frames), q # <<>>, NEW t, t = Tail(q), NEW kind, NEW e, Underway(q, kind, e)
  PROVE  Is(q[1], kind, e) \/ Underway(t, kind, e)
<1>1. PICK i \in 1 .. Len(q) : Is(q[i], kind, e)
  BY DEF Underway
<1>2. CASE i = 1
  BY <1>1, <1>2
<1>3. CASE i # 1
  <2>1. i - 1 \in 1 .. Len(t) /\ t[i - 1] = q[i]
    BY <1>3, Taken
  <2> QED
    BY <1>1, <2>1 DEF Underway
<1> QED
  BY <1>2, <1>3

(* Once an answer was sent a call has it, or it is on its way. *)
Owes(c) ==
  LET e == setup.on[c]
  IN /\ op[c] = "read" => \/ shape[e] = "last"
                          \/ shape[e] = "more" /\ Len(raw[e]) > local[c].asked
                          \/ Underway(toHost, "param", e)
     /\ op[c] = "get" => e \in floats \/ Underway(toHost, "param", e)
     /\ op[c] = "write" => e \in acks \/ Underway(toHost, "ack", e)
     /\ op[c] = "warm_up" => answered[c] \/ Underway(toHost, "pos_vel", None)

(* A wait, whether its request was answered, and asked how often. *)
Alone(c) == \A o \in Callers \ {c} : setup.calls[o] = {}
Asked(c) == pc[c] = "wait" /\ (op[c] \in Exchanged \/ (op[c] = "warm_up" /\ Alone(c)))
Held(c) ==
  Asked(c) => /\ mishaps = 0 => Owes(c) /\ local[c].tries = 1
              /\ op[c] \in {"read", "warm_up"} => local[c].tries = 1 \/ Owes(c)

(* Beside a warm-up that nothing interferes with only its answers come. *)
WarmWire(c) ==
  Alone(c) /\ "warm_up" \in setup.calls[c] =>
    /\ stream = <<>>
    /\ \A k \in 1 .. Len(toHost) :
         toHost[k].kind = "pos_vel" \/ (Owner(c) /\ About(toHost[k], setup.on[c]))

AnswerInv == RecoverInv /\ (Usual => \A c \in Callers : WarmWire(c) /\ (mishaps <= 1 => Held(c)))

Answering(c) ==
  \E f \in Frames : /\ toHost' = Append(toHost, f)
                    /\ \/ Kind(c) \in {"read", "get"} /\ Is(f, "param", On(c))
                       \/ Kind(c) = "write" /\ Is(f, "ack", On(c))
                       \/ Kind(c) = "warm_up" /\ Is(f, "pos_vel", None)

LEMMA AskAnswers ==
  ASSUME TypeOK, setup.present, NEW c \in Callers, pc[c] # "idle", Kind(c) # "desc", NEW from \in Nat, Ask(c, from)
  PROVE  /\ stream' = stream
         /\ \/ mishaps' = mishaps + 1 /\ toHost' = toHost
            \/ mishaps' = mishaps /\ Answering(c)
            \/ mishaps' = mishaps /\ toHost' = toHost /\ Kind(c) \in {"read", "get"} /\ ~(from < Width(On(c)))
<1>1. /\ Kind(c) \in {"desc", "read", "get", "write", "warm_up"}
      /\ Kind(c) # "desc" => On(c) \in Endpoints
  BY AtPhase
<1>2. version \in Versions /\ value \in Nat /\ mishaps \in Nat
  BY DEF TypeOK, DeviceTypes
<1>3. CASE ~(Obeys(Kind(c), On(c), from) /\ mishaps' = mishaps)
  BY <1>3 DEF Ask, Request, deviceVars
<1>4. CASE Obeys(Kind(c), On(c), from) /\ mishaps' = mishaps
  <2>2. CASE Kind(c) \in {"read", "get"}
    <3> PICK f : f = Frame("param", On(c), from + 1, Chunk(On(c), from + 1))
      OBVIOUS
    <3>1. (IF from < Width(On(c)) THEN toHost' = Append(toHost, f) ELSE toHost' = toHost) /\ stream' = stream
      BY <1>4, <2>2 DEF Obeys, deviceVars
    <3>2. f \in Frames /\ Is(f, "param", On(c))
      BY <1>1, <1>2, <2>2 DEF Frame, Frames, Chunk, Is
    <3> QED
      BY <1>4, <2>2, <3>1, <3>2 DEF Answering
  <2>3. CASE Kind(c) = "write"
    <3> PICK f : f = Frame("ack", On(c), 0, 0)
      OBVIOUS
    <3>1. toHost' = Append(toHost, f) /\ stream' = stream
      BY <1>4, <2>3 DEF Obeys
    <3>2. f \in Frames /\ Is(f, "ack", On(c))
      BY <1>1, <2>3 DEF Frame, Frames, Is
    <3> QED
      BY <1>4, <2>3, <3>1, <3>2 DEF Answering
  <2>4. CASE Kind(c) = "warm_up"
    <3> PICK f : f = Frame("pos_vel", None, 0, 0)
      OBVIOUS
    <3>1. toHost' = Append(toHost, f) /\ stream' = stream
      BY <1>4, <2>4 DEF Obeys, deviceVars
    <3>2. f \in Frames /\ Is(f, "pos_vel", None)
      BY DEF Frame, Frames, Is
    <3> QED
      BY <1>4, <2>4, <3>1, <3>2 DEF Answering
  <2> QED
    BY <1>1, <2>2, <2>3, <2>4
<1> QED
  BY <1>3, <1>4

(* The phase of a call that has only one. *)
LEMMA WarmIs ==
  ASSUME TypeOK, NEW c \in Callers, Fits(c), pc[c] # "idle", op[c] = "warm_up"
  PROVE  Kind(c) = "warm_up"
<1>1. todo[c] \in Seq(Phases) /\ todo[c] # <<>>
  BY DEF TypeOK, CallTypes
<1>2. 1 \in 1 .. Len(todo[c]) /\ Head(todo[c]) = todo[c][1]
  BY <1>1, Front
<1> QED
  BY <1>2 DEF Fits, Kind

LEMMA OnlyCaller ==
  ASSUME TypeOK, NEW c \in Callers, Alone(c), NEW d \in Callers, Fits(d), pc[d] # "idle"
  PROVE  d = c
BY DEF Alone, Fits

(* Every step adds a frame at most. *)
LEMMA StepAdds ==
  ASSUME TypeOK, Usual, NEW d \in Callers, Step(d)
  PROVE  toHost' = toHost \/ \E f \in Frames : toHost' = Append(toHost, f)
<1>1. pc[d] # "idle" /\ ((\E from \in Nat : Ask(d, from)) \/ toHost' = toHost)
  BY StepSends
<1>2. ASSUME NEW from \in Nat, Ask(d, from)
      PROVE  toHost' = toHost \/ \E f \in Frames : toHost' = Append(toHost, f)
  <2>1. setup.present
    BY DEF Usual
  <2>2. CASE Kind(d) = "desc"
    BY <1>1, <1>2, <2>1, <2>2, AskSends
  <2>3. CASE Kind(d) # "desc"
    BY <1>1, <1>2, <2>1, <2>3, AskAnswers DEF Answering
  <2> QED
    BY <2>2, <2>3
<1> QED
  BY <1>1, <1>2

LEMMA StepWarmWire ==
  ASSUME TypeOK, Usual, Served, \A o \in Callers : Fits(o), NEW c \in Callers, WarmWire(c),
         NEW d \in Callers, Step(d)
  PROVE  WarmWire(c)'
<1> SUFFICES ASSUME Alone(c), "warm_up" \in setup.calls[c], setup' = setup
             PROVE /\ stream' = <<>>
                   /\ \A k \in 1 .. Len(toHost') :
                        toHost'[k].kind = "pos_vel" \/ (Owner(c) /\ About(toHost'[k], setup.on[c]))
  BY StepSends DEF WarmWire, Alone, Owner, About
<1>1. pc[d] # "idle" /\ d = c
  BY StepSends, OnlyCaller
<1>2. stream = <<>> /\ toHost \in Seq(Frames)
      /\ \A k \in 1 .. Len(toHost) : toHost[k].kind = "pos_vel" \/ (Owner(c) /\ About(toHost[k], setup.on[c]))
  BY DEF WarmWire, TypeOK, DeviceTypes
<1>3. Kind(c) # "desc" /\ op[c] \notin Transfers /\ setup.present
  <2>1. setup.calls[c] \cap Transfers = {}
    BY DEF Served, Usual, TypeOK, DeviceTypes
  <2> QED
    BY <1>1, <2>1, LoaderIs DEF Fits, Usual
<1>4. (\E from \in Nat : Ask(c, from)) \/ (stream' = stream /\ toHost' = toHost)
  BY <1>1, StepSends
<1>5. CASE \E from \in Nat : Ask(c, from)
  <2>1. stream' = stream /\ (toHost' = toHost \/ Answering(c))
    BY <1>1, <1>3, <1>5, AskAnswers
  <2>2. CASE Answering(c)
    <3>1. PICK f \in Frames : /\ toHost' = Append(toHost, f)
                    /\ \/ Kind(c) \in {"read", "get"} /\ Is(f, "param", On(c))
                       \/ Kind(c) = "write" /\ Is(f, "ack", On(c))
                       \/ Kind(c) = "warm_up" /\ Is(f, "pos_vel", None)
      BY <2>2 DEF Answering
    <3>2. op[c] \in Exchanged => Kind(c) = op[c] /\ On(c) = setup.on[c] /\ Owner(c)
      BY <1>1, PhaseAt DEF Fits, Owner
    <3>3. op[c] \in Exchanged \cup {"warm_up"}
      BY <1>1, <1>3 DEF TypeOK, CallTypes, Methods, Transfers, Exchanged
    <3>4. f.kind = "pos_vel" \/ (Owner(c) /\ About(f, setup.on[c]))
      BY <1>1, <3>1, <3>2, <3>3, WarmIs DEF Is, About
    <3>5. /\ \A i \in 1 .. Len(toHost) : toHost'[i] = toHost[i]
          /\ toHost'[Len(toHost) + 1] = f
          /\ \A j \in 1 .. Len(toHost') : j \in 1 .. Len(toHost) \/ j = Len(toHost) + 1
      BY <1>2, <3>1, Appended
    <3> QED
      BY <1>2, <2>1, <3>4, <3>5
  <2> QED
    BY <1>2, <2>1, <2>2
<1> QED
  BY <1>2, <1>4, <1>5

LEMMA OthersWarmWire ==
  ASSUME TypeOK, NEW c \in Callers, WarmWire(c),
         \/ \E d \in Callers : NewCall(d)
         \/ ProcessFeedbackFrame \/ DeviceStreams \/ LoseFrame \/ Reflash
  PROVE  WarmWire(c)'
<1>1. setup' = setup /\ toHost \in Seq(Frames)
  BY DEF NewCall, ProcessFeedbackFrame, DeviceStreams, LoseFrame, Reflash, TypeOK, DeviceTypes
<1> SUFFICES ASSUME Alone(c), "warm_up" \in setup.calls[c]
             PROVE /\ stream' = <<>>
                   /\ \A k \in 1 .. Len(toHost') :
                        toHost'[k].kind = "pos_vel" \/ (Owner(c) /\ About(toHost'[k], setup.on[c]))
  BY <1>1 DEF WarmWire, Alone, Owner, About
<1>2. stream = <<>>
      /\ \A k \in 1 .. Len(toHost) : toHost[k].kind = "pos_vel" \/ (Owner(c) /\ About(toHost[k], setup.on[c]))
  BY DEF WarmWire
<1>3. stream' = <<>> /\ (toHost' = toHost \/ (toHost # <<>> /\ toHost' = Tail(toHost)))
  BY <1>2 DEF NewCall, ProcessFeedbackFrame, DeviceStreams, LoseFrame, Reflash, deviceVars
<1>4. CASE toHost # <<>> /\ toHost' = Tail(toHost)
  <2>1. \A j \in 1 .. Len(toHost') : j + 1 \in 1 .. Len(toHost) /\ toHost'[j] = toHost[j + 1]
    BY <1>1, <1>4, Taken
  <2> QED
    BY <1>2, <1>3, <2>1
<1> QED
  BY <1>2, <1>3, <1>4

LEMMA AnsweringOwes ==
  ASSUME TypeOK, NEW c \in Callers, Fits(c), pc[c] # "idle", op[c] \in Exchanged \cup {"warm_up"},
         Answering(c), op'[c] = op[c], setup' = setup
  PROVE  Owes(c)'
<1>1. /\ op[c] \in Exchanged => Kind(c) = op[c] /\ On(c) = setup.on[c]
      /\ op[c] = "warm_up" => Kind(c) = "warm_up"
  BY PhaseAt, WarmIs
<1>2. toHost \in Seq(Frames)
  BY DEF TypeOK, DeviceTypes
<1>3. PICK f \in Frames :
        /\ toHost' = Append(toHost, f)
        /\ \/ Kind(c) \in {"read", "get"} /\ Is(f, "param", On(c))
           \/ Kind(c) = "write" /\ Is(f, "ack", On(c))
           \/ Kind(c) = "warm_up" /\ Is(f, "pos_vel", None)
  BY DEF Answering
<1>4. /\ Kind(c) \in {"read", "get"} => Underway(toHost', "param", On(c))
      /\ Kind(c) = "write" => Underway(toHost', "ack", On(c))
      /\ Kind(c) = "warm_up" => Underway(toHost', "pos_vel", None)
  BY <1>2, <1>3, UnderwayAdds
<1> QED
  BY <1>1, <1>4 DEF Owes, Exchanged

(* What makes a call ask again, or give up. *)
LEMMA LacksAll ==
  ASSUME ParamInv, Usual, NEW c \in Callers, Asked(c), ~Ready(c), Expired(c), op[c] = "read" => ~HasMore(c)
  PROVE  ~Owes(c)
<1> PICK e : e = setup.on[c]
  OBVIOUS
<1>1. /\ TypeOK /\ Fits(c) /\ pc[c] = "wait" /\ toHost \in Seq(Frames) /\ DOMAIN toHost = 1 .. Len(toHost)
      /\ op[c] \in {"read", "get", "write", "warm_up"} /\ answered[c] \in BOOLEAN
  BY DEF ParamInv, Asked, TypeOK, DeviceTypes, CallTypes, Exchanged
<1>2. /\ op[c] \in {"read", "get", "write"} => Kind(c) = op[c] /\ On(c) = e
      /\ op[c] = "warm_up" => Kind(c) = "warm_up"
  BY <1>1, PhaseAt, WarmIs DEF Exchanged
<1>3. \A i \in 1 .. Len(toHost) : ~For(c, toHost[i])
  BY <1>1 DEF Expired, Usual
<1>4. /\ op[c] \in {"read", "get", "write"} => ~Underway(toHost, "param", e) /\ ~Underway(toHost, "ack", e)
      /\ op[c] = "warm_up" => ~Underway(toHost, "pos_vel", None)
  BY <1>1, <1>2, <1>3 DEF Underway, Is, For
<1>5. CASE op[c] = "read"
  <2>1. shape[e] # "last" /\ ~(shape[e] = "more" /\ Len(raw[e]) > local[c].asked)
    BY <1>1, <1>2, <1>5 DEF Ready, HasMore, Waiting
  <2> QED
    BY <1>4, <1>5, <2>1 DEF Owes
<1>6. CASE op[c] = "get"
  BY <1>2, <1>4, <1>6 DEF Owes, Ready
<1>7. CASE op[c] = "write"
  BY <1>2, <1>4, <1>7 DEF Owes, Ready
<1>8. CASE op[c] = "warm_up"
  BY <1>1, <1>2, <1>4, <1>8 DEF Owes, Ready
<1> QED
  BY <1>1, <1>5, <1>6, <1>7, <1>8

LEMMA AskedOnce ==
  ASSUME Usual, TypeOK, NEW c \in Callers, Fits(c), pc[c] # "idle", op[c] \in Exchanged \cup {"warm_up"},
         NEW from \in Nat, Ask(c, from), Kind(c) \in {"read", "get"} => from < Width(On(c)),
         op'[c] = op[c], setup' = setup
  PROVE  (mishaps' = mishaps + 1 /\ toHost' = toHost) \/ (mishaps' = mishaps /\ Owes(c)')
<1>1. /\ op[c] \in Exchanged => Kind(c) = op[c] /\ On(c) = setup.on[c]
      /\ op[c] = "warm_up" => Kind(c) = "warm_up"
  BY PhaseAt, WarmIs
<1>2. Kind(c) # "desc" /\ setup.present
  BY <1>1 DEF Exchanged, Usual
<1> QED
  BY <1>2, AskAnswers, AnsweringOwes

LEMMA OwnHeld ==
  ASSUME ParamInv, Usual, NEW c \in Callers, Held(c), Step(c), mishaps <= 1, mishaps' <= 1
  PROVE  Held(c)'
<1> SUFFICES ASSUME Asked(c)' PROVE /\ mishaps' = 0 => Owes(c)' /\ local'[c].tries = 1
                                    /\ op'[c] \in {"read", "warm_up"} => local'[c].tries = 1 \/ Owes(c)'
  BY DEF Held
<1> PICK e : e = setup.on[c]
  OBVIOUS
<1>1. /\ TypeOK /\ Fits(c) /\ setup' = setup /\ mishaps \in Nat /\ e \in Endpoints
      /\ local \in [Callers -> Counters] /\ pc'[c] = "wait" /\ pc[c] # "idle"
  <2>1. TypeOK /\ Fits(c)
    BY DEF ParamInv
  <2>2. setup.on[c] \in Endpoints /\ mishaps \in Nat /\ local \in [Callers -> Counters]
    <3>1. setup \in SetupType
      BY <2>1, CyberBeastAssumption DEF TypeOK, DeviceTypes, CyberBeastAssumption
    <3> QED
      BY <2>1, <3>1 DEF TypeOK, DeviceTypes, CallTypes, SetupType, Endpoints
  <2>3. setup' = setup /\ pc[c] # "idle"
    BY <2>1, StepSends
  <2> QED
    BY <2>1, <2>2, <2>3 DEF Asked
<1>2. Stays(c)
  BY <1>1, StepCases DEF PhaseOver, Over, Onward
<1>3. /\ op'[c] = op[c] /\ todo'[c] = todo[c] /\ (op[c] \in Exchanged \/ (op[c] = "warm_up" /\ Alone(c)))
  BY <1>1, <1>2 DEF Stays, Asked, Alone
<1>4. /\ op[c] \in Exchanged => Kind(c) = op[c] /\ On(c) = e
      /\ op[c] = "warm_up" => Kind(c) = "warm_up"
  BY <1>1, PhaseAt, WarmIs
<1>5. Kind(c) # "desc"
  BY <1>3, <1>4 DEF Exchanged
<1>6. ~PhaseFails(c) /\ ~PhaseSucceeds(c)
  BY <1>1, FailsCase, SucceedsCase DEF PhaseOver, Over, Onward
<1>7. FirstAsk(c) \/ ReadContinues(c) \/ AskAgain(c)
  BY <1>5, <1>6 DEF Step, Skips, SendFails, DescConflict, DescGrows, DescAsks, DescComplete, Receiving,
    Collect, GotAnswer, TimesOut
<1>8. CASE FirstAsk(c)
  <2>1. Ask(c, 0) /\ local' = [local EXCEPT ![c].tries = 1, ![c].requests = 1]
    BY <1>8 DEF FirstAsk
  <2>2. local'[c].tries = 1
    <3>1. local'[c] = [local[c] EXCEPT !.tries = 1, !.requests = 1]
      BY <1>1, <2>1
    <3>2. local[c] \in Counters
      BY <1>1
    <3> QED
      BY <3>1, <3>2 DEF Counters
  <2>3. (mishaps' = mishaps + 1 /\ toHost' = toHost) \/ (mishaps' = mishaps /\ Owes(c)')
    <3>1. 0 < Width(On(c))
      BY DEF Width
    <3> QED
      BY <1>1, <1>3, <2>1, <3>1, AskedOnce
  <2> QED
    BY <1>1, <2>2, <2>3
<1>9. CASE pc[c] = "wait" /\ (ReadContinues(c) \/ AskAgain(c))
  <2>1. Asked(c)
    BY <1>3, <1>9 DEF Asked
  <2>2. /\ mishaps = 0 => Owes(c) /\ local[c].tries = 1
        /\ op[c] \in {"read", "warm_up"} => local[c].tries = 1 \/ Owes(c)
    BY <2>1 DEF Held
  <2>3. Kind(c) \in {"read", "warm_up"} /\ op[c] \in {"read", "warm_up"} /\ Kind(c) = op[c]
    BY <1>3, <1>4, <1>9 DEF ReadContinues, HasMore, AskAgain, Waiting, Exchanged
  <2> PICK n : n = Len(raw[e])
    OBVIOUS
  <2>4. n \in Nat /\ local[c] \in Counters /\ local[c].asked \in Nat /\ answered[c] \in BOOLEAN
    BY <1>1, Counts DEF Counters
  <2>5. op[c] = "read" => /\ local[c].asked <= n /\ shape[e] = ShapeOf(e, n) /\ n <= Width(e)
                          /\ (local[c].asked < n => answered[c])
    <3>1. ASSUME op[c] = "read" PROVE HasSoFar(c, e)
      <4>1. Owner(c) /\ Busy(c) /\ ~Outlived
        BY <1>1, <1>9, <3>1 DEF Owner, Fits, Busy, Exchanged, Outlived, Usual
      <4>2. ParamHolds(c, e)
        BY <4>1 DEF ParamInv, Owner
      <4> QED
        BY <4>1, <4>2 DEF ParamHolds
    <3> QED
      BY <3>1 DEF HasSoFar
  <2>6. CASE ReadContinues(c)
    <3>1. /\ Ask(c, n) /\ local' = [local EXCEPT ![c].asked = n] /\ shape[e] = "more" /\ op[c] = "read"
          /\ On(c) = e
      BY <1>4, <2>3, <2>6 DEF ReadContinues, HasMore, Waiting, Exchanged
    <3>2. n < Width(On(c))
      BY <2>4, <2>5, <3>1 DEF ShapeOf, None
    <3>3. (mishaps' = mishaps + 1 /\ toHost' = toHost) \/ (mishaps' = mishaps /\ Owes(c)')
      BY <1>1, <1>3, <2>4, <3>1, <3>2, AskedOnce
    <3>4. local'[c] = [local[c] EXCEPT !.asked = n]
      BY <1>1, <3>1
    <3>5. local'[c].tries = local[c].tries
      BY <2>4, <3>4 DEF Counters
    <3> QED
      BY <1>1, <2>2, <2>3, <3>3, <3>5
  <2>7. CASE AskAgain(c)
    <3>1. /\ Ask(c, local[c].asked) /\ ~Ready(c) /\ ~AnsweredSince(c) /\ Expired(c)
      BY <2>7 DEF AskAgain
    <3>2. op[c] = "read" => On(c) = e /\ Kind(c) = "read"
      BY <1>4 DEF Exchanged
    <3>3. op[c] = "read" => local[c].asked = n /\ n < Width(On(c)) /\ ~HasMore(c)
      <4>1. ASSUME op[c] = "read" PROVE local[c].asked = n
        <5>1. answered[c] => shape[e] = None
          BY <2>4, <3>1, <3>2, <4>1 DEF AnsweredSince
        <5>2. n # 0 => shape[e] # None
          BY <2>4, <2>5, <4>1 DEF ShapeOf, None
        <5> QED
          BY <2>4, <2>5, <4>1, <5>1, <5>2
      <4>2. ASSUME op[c] = "read" PROVE n < Width(On(c)) /\ ~HasMore(c)
        <5>1. shape[e] # "last"
          BY <3>1, <3>2, <4>2 DEF Ready
        <5>2. n < Width(e)
          BY <2>4, <2>5, <4>2, <5>1 DEF ShapeOf, Width
        <5> QED
          BY <2>4, <3>2, <4>1, <4>2, <5>2 DEF HasMore
      <4> QED
        BY <4>1, <4>2
    <3>4. ~Owes(c)
      BY <2>1, <3>1, <3>3, LacksAll
    <3>5. mishaps = 1
      BY <1>1, <2>2, <3>4
    <3>6. Kind(c) \in {"read", "get"} => local[c].asked < Width(On(c))
      BY <2>3, <3>3
    <3>7. (mishaps' = mishaps + 1 /\ toHost' = toHost) \/ (mishaps' = mishaps /\ Owes(c)')
      <4>1. TypeOK /\ Fits(c) /\ pc[c] # "idle" /\ op[c] \in Exchanged \cup {"warm_up"} /\ op'[c] = op[c]
            /\ setup' = setup /\ local[c].asked \in Nat /\ Ask(c, local[c].asked)
        BY <1>1, <1>3, <2>4, <3>1
      <4> QED
        BY <3>6, <4>1, AskedOnce
    <3> QED
      BY <3>5, <3>7
  <2> QED
    BY <1>9, <2>6, <2>7
<1>10. ReadContinues(c) \/ AskAgain(c) => pc[c] = "wait"
  BY DEF ReadContinues, HasMore, AskAgain, Waiting
<1> QED
  BY <1>7, <1>8, <1>9, <1>10

(* Nothing of what a call has or waits for is gone. *)
LEMMA StaysHeld ==
  ASSUME NEW c, Held(c), Asked(c)' => Asked(c) /\ op'[c] = op[c] /\ local'[c] = local[c],
         setup' = setup, mishaps \in Nat, mishaps' \in Nat, mishaps <= mishaps',
         op[c] # "warm_up" => SameCache(setup.on[c]),
         op[c] = "warm_up" => (answered'[c] <=> answered[c]),
         \A kind, e : Underway(toHost, kind, e) => Underway(toHost', kind, e)
  PROVE  Held(c)'
<1> SUFFICES ASSUME Asked(c)' PROVE Held(c)'
  BY DEF Held
<1>1. Asked(c) /\ op'[c] = op[c] /\ local'[c] = local[c]
  OBVIOUS
<1>2. Owes(c) => Owes(c)'
  BY <1>1 DEF Owes, SameCache
<1>3. mishaps' = 0 => mishaps = 0
  OBVIOUS
<1> QED
  BY <1>1, <1>2, <1>3 DEF Held

LEMMA BesideHeld ==
  ASSUME ParamInv, Apart, Usual, NEW c \in Callers, Held(c), NEW d \in Callers, d # c, Step(d),
         mishaps <= mishaps', mishaps \in Nat, mishaps' \in Nat
  PROVE  Held(c)'
<1> SUFFICES ASSUME Asked(c)' PROVE Held(c)'
  BY DEF Held
<1> PICK e : e = setup.on[c]
  OBVIOUS
<1>1. TypeOK /\ Fits(c) /\ Fits(d) /\ setup' = setup /\ pc[d] # "idle" /\ Beside(c)
  BY StepSends, StepCases DEF ParamInv
<1>2. Asked(c) /\ op'[c] = op[c] /\ local'[c] = local[c] /\ pc[c] # "idle" /\ (answered'[c] <=> answered[c])
  BY <1>1 DEF Asked, Beside, Alone
<1>3. op[c] # "warm_up"
  BY <1>1, <1>2, OnlyCaller DEF Asked, Exchanged
<1>4. SameCache(e)
  <2>1. /\ e \in {"narrow", "wide"} /\ setup \in Setups
    <3>1. setup \in SetupType
      BY <1>1, CyberBeastAssumption DEF TypeOK, DeviceTypes, CyberBeastAssumption
    <3> QED
      BY <1>1, <3>1 DEF TypeOK, DeviceTypes, SetupType
  <2>2. op[d] \in Exchanged => setup.on[d] # e
    BY <1>1, <1>2, <1>3, <2>1 DEF Apart, Usual, Asked, Fits
  <2>3. Elsewhere(e, op[d])
    BY <1>1, <2>1, <2>2, StepElsewhere
  <2> QED
    BY <2>3 DEF Elsewhere
<1>5. \A kind, x : Underway(toHost, kind, x) => Underway(toHost', kind, x)
  <2>1. toHost \in Seq(Frames)
    BY <1>1 DEF TypeOK, DeviceTypes
  <2> QED
    BY <1>1, <2>1, StepAdds, UnderwayAdds
<1> QED
  BY <1>1, <1>2, <1>3, <1>4, <1>5, StaysHeld

LEMMA WireHeld ==
  ASSUME ParamInv, NEW c \in Callers, Held(c), mishaps' <= 1,
         \/ \E d \in Callers : NewCall(d)
         \/ DeviceStreams \/ LoseFrame \/ Reflash \/ UNCHANGED vars
  PROVE  Held(c)'
<1> SUFFICES ASSUME Asked(c)' PROVE Held(c)'
  BY DEF Held
<1> PICK e : e = setup.on[c]
  OBVIOUS
<1>1. TypeOK /\ setup' = setup /\ mishaps \in Nat /\ (mishaps' = mishaps \/ mishaps' = mishaps + 1)
      /\ toHost \in Seq(Frames) /\ stream \in Seq(Frames)
  BY DEF ParamInv, TypeOK, DeviceTypes, NewCall, DeviceStreams, LoseFrame, Reflash, vars
<1>2. UNCHANGED <<params, answered>>
  BY DEF NewCall, DeviceStreams, LoseFrame, Reflash, vars
<1>3. pc'[c] = pc[c] /\ op'[c] = op[c] /\ local'[c] = local[c]
  <2>1. CASE \E d \in Callers : NewCall(d)
    <3>1. PICK d \in Callers : NewCall(d)
      BY <2>1
    <3>2. pc'[d] \in {"idle", "ask"} /\ \A o \in Callers : o # d => Beside(o)
      BY <1>1, <3>1, NewCallCases
    <3>3. c # d
      BY <3>2 DEF Asked
    <3> QED
      BY <3>2, <3>3 DEF Beside
  <2>2. CASE DeviceStreams \/ LoseFrame \/ Reflash \/ UNCHANGED vars
    BY <2>2 DEF DeviceStreams, LoseFrame, Reflash, vars, calls
  <2> QED
    BY <2>1, <2>2
<1>4. Asked(c)
  BY <1>1, <1>3 DEF Asked, Alone
<1>5. SameCache(e)
  BY <1>2 DEF SameCache, params
<1>6. CASE LoseFrame
  <2>1. mishaps = 0 /\ mishaps' = 1
    BY <1>1, <1>6, OneMore DEF LoseFrame
  <2>2. local'[c].tries = 1
    BY <1>3, <1>4, <2>1 DEF Held
  <2> QED
    BY <2>1, <2>2 DEF Held
<1>7. CASE ~LoseFrame
  <2>1. toHost' = toHost \/ (stream # <<>> /\ toHost' = Append(toHost, Head(stream)))
    BY <1>7 DEF NewCall, DeviceStreams, Reflash, vars
  <2>2. stream # <<>> => Head(stream) \in Frames
    BY <1>1, Taken
  <2>3. \A kind, x : Underway(toHost, kind, x) => Underway(toHost', kind, x)
    BY <1>1, <2>1, <2>2, UnderwayAdds
  <2> QED
    BY <1>1, <1>2, <1>3, <1>4, <1>5, <2>3, StaysHeld
<1> QED
  BY <1>6, <1>7

(* What was under way has come. *)
LEMMA FeedbackHeld ==
  ASSUME ParamInv, Usual, Served, NEW c \in Callers, Held(c), WarmWire(c), ProcessFeedbackFrame
  PROVE  Held(c)'
<1> SUFFICES ASSUME Asked(c)' PROVE Held(c)'
  BY DEF Held
<1> PICK e, f, t : e = setup.on[c] /\ f = Head(toHost) /\ t = Tail(toHost)
  OBVIOUS
<1>1. /\ TypeOK /\ Fits(c) /\ setup' = setup /\ mishaps' = mishaps /\ calls' = calls
      /\ toHost \in Seq(Frames) /\ toHost # <<>> /\ toHost' = t
  BY DEF ParamInv, TypeOK, DeviceTypes, ProcessFeedbackFrame
<1>2. pc' = pc /\ op' = op /\ todo' = todo /\ local' = local
  BY <1>1 DEF calls
<1>3. Asked(c) /\ pc[c] = "wait" /\ op[c] \in {"read", "get", "write", "warm_up"}
  BY <1>1, <1>2 DEF Asked, Alone, Exchanged
<1>4. f = toHost[1] /\ 1 \in 1 .. Len(toHost) /\ f \in Frames
  BY <1>1, Taken
<1>5. \A kind, x : Underway(toHost, kind, x) => Is(f, kind, x) \/ Underway(t, kind, x)
  BY <1>1, <1>4, UnderwayTail
<1>6. Owes(c) => Owes(c)'
  <2> SUFFICES ASSUME Owes(c) PROVE Owes(c)'
    OBVIOUS
  <2>1. CASE op[c] = "warm_up"
    <3>1. Alone(c) /\ ~Busy(c) /\ "warm_up" \in setup.calls[c]
      BY <1>1, <1>3, <2>1 DEF Asked, Busy, Exchanged, Fits
    <3>2. f.kind = "pos_vel"
      <4>1. Owner(c) => Quiet(toHost, e)
        BY <3>1 DEF ParamInv, ParamHolds, Owner, Outlived, Usual
      <4> QED
        BY <1>4, <3>1, <4>1 DEF WarmWire, Quiet
    <3>3. Kind(c) = "warm_up" /\ todo[c] # <<>>
      BY <1>1, <1>3, <2>1, WarmIs DEF TypeOK, CallTypes
    <3>4. answered'[c]
      BY <3>2, <3>3 DEF ProcessFeedbackFrame, Answers, Kind
    <3> QED
      BY <1>2, <2>1, <3>4 DEF Owes
  <2>2. CASE op[c] \in {"read", "get", "write"}
    <3>1. /\ \A i \in 1 .. Len(toHost) : About(toHost[i], e) => Lacks(c, e, toHost[i])
          /\ e \in Endpoints
      <4>1. Owner(c) /\ Busy(c) /\ ~Outlived
        BY <1>1, <1>3, <2>2 DEF Owner, Fits, Busy, Exchanged, Outlived, Usual
      <4>2. ParamHolds(c, e)
        BY <4>1 DEF ParamInv, Owner
      <4>3. e \in Endpoints
        <5>1. setup \in SetupType
          BY <1>1, CyberBeastAssumption DEF TypeOK, DeviceTypes, CyberBeastAssumption
        <5> QED
          BY <1>1, <5>1 DEF SetupType, Endpoints
      <4> QED
        BY <4>1, <4>2, <4>3 DEF ParamHolds
    <3>2. raw \in [Endpoints -> Seq(Nat)] /\ shape \in [Endpoints -> {None, "more", "last"}]
      BY <1>1 DEF TypeOK, CacheTypes
    <3>3. CASE About(f, e)
      <4>1. Lacks(c, e, f)
        BY <1>4, <3>1, <3>3
      <4>2. CASE op[c] = "read"
        <5>1. f.kind = "param" /\ f.e = e /\ local[c].asked = Len(raw[e]) /\ f.v \in Nat
          BY <1>4, <3>3, <4>1, <4>2, FrameIs DEF Lacks, About
        <5>2. /\ raw' = [raw EXCEPT ![f.e] = Append(@, f.v)]
              /\ shape' = [shape EXCEPT ![f.e] = IF f.i < Width(f.e) THEN "more" ELSE "last"]
          BY <5>1 DEF ProcessFeedbackFrame
        <5>3. raw'[e] = Append(raw[e], f.v) /\ shape'[e] \in {"more", "last"}
          BY <3>1, <3>2, <5>1, <5>2
        <5>4. Len(raw'[e]) > local[c].asked
          BY <3>1, <3>2, <5>1, <5>3
        <5> QED
          BY <1>1, <1>2, <4>2, <5>3, <5>4 DEF Owes
      <4>3. CASE op[c] = "get"
        <5>1. e = "narrow"
          BY <1>1, <1>3, <4>3 DEF Served, Usual, Fits, TypeOK, DeviceTypes
        <5>2. f.kind = "param" /\ f.e = e
          BY <3>3, <4>1, <4>3 DEF Lacks, About
        <5>3. CASE f.i >= 1
          <6>1. ~(f.i < Width(f.e))
            BY <1>4, <5>1, <5>2, <5>3, FrameIs DEF Width
          <6>2. e \in floats'
            BY <5>2, <6>1 DEF ProcessFeedbackFrame
          <6> QED
            BY <1>1, <1>2, <4>3, <6>2 DEF Owes
        <5>4. CASE ~(f.i >= 1)
          <6>1. floats' = floats \/ floats' = floats \cup {e}
            BY <5>2 DEF ProcessFeedbackFrame
          <6>2. ~Is(f, "param", e)
            BY <5>4 DEF Is
          <6> QED
            BY <1>1, <1>2, <1>5, <4>3, <6>1, <6>2 DEF Owes
        <5> QED
          BY <5>3, <5>4
      <4>4. CASE op[c] = "write"
        <5>1. f.kind = "ack" /\ f.e = e
          BY <3>3, <4>1, <4>4 DEF Lacks, About
        <5>2. e \in acks'
          BY <5>1 DEF ProcessFeedbackFrame
        <5> QED
          BY <1>1, <1>2, <4>4, <5>2 DEF Owes
      <4> QED
        BY <2>2, <4>2, <4>3, <4>4
    <3>4. CASE ~About(f, e)
      <4>1. ~Is(f, "param", e) /\ ~Is(f, "ack", e)
        BY <3>4 DEF About, Is
      <4>2. raw'[e] = raw[e] /\ shape'[e] = shape[e] /\ (e \in floats => e \in floats') /\ (e \in acks => e \in acks')
        <5>1. f.kind = "param" => f.e # e /\ f.e \in Endpoints
          BY <1>4, <3>4 DEF About, Frames
        <5>2. CASE f.kind = "param"
          <6>1. /\ raw' = [raw EXCEPT ![f.e] = Append(@, f.v)]
                /\ shape' = [shape EXCEPT ![f.e] = IF f.i < Width(f.e) THEN "more" ELSE "last"]
                /\ floats' = IF f.i < Width(f.e) THEN floats ELSE floats \cup {f.e}
                /\ acks' = acks
            BY <5>2 DEF ProcessFeedbackFrame
          <6> QED
            BY <3>1, <3>2, <5>1, <5>2, <6>1
        <5>3. CASE f.kind # "param"
          BY <5>3 DEF ProcessFeedbackFrame
        <5> QED
          BY <5>2, <5>3
      <4> QED
        BY <1>1, <1>2, <1>5, <2>2, <4>1, <4>2 DEF Owes
    <3> QED
      BY <3>3, <3>4
  <2> QED
    BY <1>3, <2>1, <2>2
<1> QED
  BY <1>1, <1>2, <1>3, <1>6 DEF Held

(* A load has one phase. *)
Loads(c) == pc[c] # "idle" /\ op[c] = "load" => Len(todo[c]) = 1 /\ Kind(c) = "desc"

RecoveryInv == AnswerInv /\ \A c \in Callers : Loads(c)

LEMMA LoadsKept ==
  ASSUME TypeOK, TypeOK', NEW c \in Callers, Loads(c), [Next]_vars
  PROVE  Loads(c)'
<1>1. ASSUME pc'[c] = pc[c], op'[c] = op[c], todo'[c] = todo[c] PROVE Loads(c)'
  BY <1>1 DEF Loads, Kind
<1>2. CASE \E d \in Callers : NewCall(d)
  <2>1. PICK d \in Callers : NewCall(d)
    BY <1>2
  <2>2. CASE d # c
    BY <1>1, <2>1, <2>2, NewCallCases DEF Beside
  <2>3. CASE d = c /\ pc'[c] # "idle" /\ op'[c] = "load"
    <3>1. todo'[c] = Script("load", setup.on[c]) /\ todo'[c] # <<>>
      BY <2>1, <2>3, NewCallCases DEF TypeOK, CallTypes
    <3>2. todo'[c] = <<Phase("desc", None)>>
      BY <3>1 DEF Script, Load
    <3> QED
      BY <3>2 DEF Loads, Kind, Phase
  <2> QED
    BY <2>2, <2>3 DEF Loads
<1>3. CASE \E d \in Callers : Step(d)
  <2>1. PICK d \in Callers : Step(d)
    BY <1>3
  <2>2. CASE d # c
    BY <1>1, <2>1, <2>2, StepCases DEF Beside
  <2>3. CASE d = c /\ pc'[c] # "idle" /\ op'[c] = "load"
    <3>1. pc[c] # "idle" /\ (PhaseOver(c) \/ Stays(c))
      BY <2>1, <2>3, StepSends, StepCases
    <3>2. op'[c] = op[c]
      BY <2>3, <3>1 DEF PhaseOver, Over, Onward, Stays
    <3>3. Len(todo[c]) = 1 /\ op[c] # "connect"
      BY <2>3, <3>1, <3>2 DEF Loads
    <3>4. Stays(c)
      BY <2>3, <3>1, <3>3 DEF PhaseOver, Over
    <3> QED
      BY <1>1, <2>3, <3>1, <3>4 DEF Stays, Loads, Kind
  <2> QED
    BY <2>2, <2>3 DEF Loads
<1>4. CASE ProcessFeedbackFrame \/ DeviceStreams \/ LoseFrame \/ Reflash \/ UNCHANGED vars
  BY <1>1, <1>4 DEF ProcessFeedbackFrame, DeviceStreams, LoseFrame, Reflash, vars, calls
<1> QED
  BY <1>2, <1>3, <1>4 DEF Next

LEMMA AnswersInductive ==
  ASSUME AnswerInv, RecoverInv', Apart, Served, [Next]_vars
  PROVE  AnswerInv'
<1>1. ParamInv /\ TypeOK /\ (\A c \in Callers : Fits(c)) /\ Plain(stream)
  BY DEF AnswerInv, RecoverInv, ParamInv, Plain
<1>2. setup' = setup
  BY <1>1, StreamStaysPlain
<1>3. mishaps <= mishaps' /\ mishaps \in Nat /\ mishaps' \in Nat
  BY <1>1, MishapsGrow
<1> SUFFICES ASSUME Usual', NEW c \in Callers PROVE WarmWire(c)' /\ (mishaps' <= 1 => Held(c)')
  BY DEF AnswerInv
<1>4. Usual /\ WarmWire(c) /\ (mishaps <= 1 => Held(c))
  BY <1>2 DEF Usual, AnswerInv
<1>5. WarmWire(c)'
  <2>1. ASSUME NEW d \in Callers, Step(d) PROVE WarmWire(c)'
    BY <1>1, <1>4, <2>1, StepWarmWire
  <2>2. CASE \/ \E d \in Callers : NewCall(d)
             \/ ProcessFeedbackFrame \/ DeviceStreams \/ LoseFrame \/ Reflash
    BY <1>1, <1>4, <2>2, OthersWarmWire
  <2>3. CASE UNCHANGED vars
    <3>1. setup' = setup /\ toHost' = toHost /\ stream' = stream
      BY <2>3 DEF vars, deviceVars
    <3> QED
      BY <1>4, <3>1 DEF WarmWire, Alone, Owner, About
  <2> QED
    BY <2>1, <2>2, <2>3 DEF Next
<1>6. ASSUME mishaps' <= 1 PROVE Held(c)'
  <2>1. Held(c) /\ mishaps <= 1
    BY <1>3, <1>4, <1>6
  <2>2. ASSUME NEW d \in Callers, Step(d) PROVE Held(c)'
    <3>1. CASE d = c
      BY <1>1, <1>4, <1>6, <2>1, <2>2, <3>1, OwnHeld
    <3>2. CASE d # c
      BY <1>1, <1>3, <1>4, <2>1, <2>2, <3>2, BesideHeld
    <3> QED
      BY <3>1, <3>2
  <2>3. CASE ProcessFeedbackFrame
    BY <1>1, <1>4, <2>1, <2>3, FeedbackHeld
  <2>4. CASE \/ \E d \in Callers : NewCall(d)
             \/ DeviceStreams \/ LoseFrame \/ Reflash \/ UNCHANGED vars
    BY <1>1, <1>6, <2>1, <2>4, WireHeld
  <2> QED
    BY <2>2, <2>3, <2>4 DEF Next
<1> QED
  BY <1>5, <1>6

LEMMA InitRecovery == ASSUME Init PROVE RecoveryInv
<1>1. ParamInv
  BY InitParam
<1>2. /\ stream = <<>> /\ toHost = <<>> /\ pc = [c \in Callers |-> "idle"] /\ mishaps = 0
      /\ local = [c \in Callers |-> Zero] /\ desc = Empty
  BY DEF Init
<1>3. CountsHold
  BY <1>2, EmptyIs DEF CountsHold, Bounded, Received
<1>4. Idle /\ \A c \in Callers : ~Receiving(c) /\ ~Asked(c)
  BY <1>2 DEF Idle, Receiving, Asked
<1>5. NoDesc(toHost, stream) /\ InOrder(toHost, stream, version) /\ WireOf(toHost, stream, version)
  BY <1>2 DEF NoDesc, InOrder, WireOf
<1>6. Clean
  <2>1. Tells(version)
    BY <1>2, <1>5, EmptyIs DEF Tells
  <2>2. Once
    BY <1>4, <1>5 DEF Once
  <2>3. mishaps = 0
    BY <1>2
  <2>4. \A c \in Callers : Receiving(c) => Begun(c) /\ Awaited
    BY <1>4
  <2> QED
    BY <1>5, <2>1, <2>2, <2>3, <2>4 DEF Clean
<1>7. \A c \in Callers : WarmWire(c) /\ Held(c) /\ Loads(c)
  <2> SUFFICES ASSUME NEW c \in Callers PROVE WarmWire(c) /\ Held(c) /\ Loads(c)
    OBVIOUS
  <2>1. pc[c] = "idle"
    BY <1>2
  <2>2. Held(c) /\ Loads(c)
    BY <1>4, <2>1 DEF Held, Loads
  <2>3. stream = <<>> /\ \A k \in 1 .. Len(toHost) : FALSE
    BY <1>2
  <2>4. WarmWire(c)
    BY <2>3 DEF WarmWire
  <2> QED
    BY <2>2, <2>4
<1> QED
  BY <1>1, <1>3, <1>6, <1>7 DEF RecoveryInv, AnswerInv, RecoverInv, LoadHolds

LEMMA RecoveryInductive ==
  ASSUME RecoveryInv, Apart, OneLoader, Served, Persists, [Next]_vars
  PROVE  RecoveryInv'
<1>1. ParamInv' /\ TypeOK /\ TypeOK'
  <2>1. ParamInv
    BY DEF RecoveryInv, AnswerInv, RecoverInv
  <2>2. ParamInv'
    BY <2>1, ParamInductive
  <2> QED
    BY <2>1, <2>2 DEF ParamInv
<1>2. RecoverInv'
  BY <1>1, LoadsInductive DEF RecoveryInv, AnswerInv
<1>3. AnswerInv'
  BY <1>2, AnswersInductive DEF RecoveryInv
<1>4. \A c \in Callers : Loads(c)'
  BY <1>1, LoadsKept DEF RecoveryInv
<1> QED
  BY <1>3, <1>4 DEF RecoveryInv

LEMMA RecoveryAlways == ASSUME Apart, OneLoader, Served, Persists PROVE SafeSpec => []RecoveryInv
<1>1. Init => RecoveryInv
  BY InitRecovery
<1>2. RecoveryInv /\ [Next]_vars => RecoveryInv'
  BY RecoveryInductive
<1> QED
  BY <1>1, <1>2, PTL DEF SafeSpec

-----------------------------------------------------------------------------
(* A call ends by a step of its own, and badly by a phase that fails. *)
LEMMA EndsItself ==
  ASSUME TypeOK, NEW c \in Callers, NEW r, Ends(c, r), [Next]_vars
  PROVE  Step(c)
<1>1. pc'[c] # pc[c] /\ pc[c] # "idle"
  BY DEF Ends
<1>2. ~(ProcessFeedbackFrame \/ DeviceStreams \/ LoseFrame \/ Reflash \/ UNCHANGED vars)
  BY <1>1 DEF ProcessFeedbackFrame, DeviceStreams, LoseFrame, Reflash, vars, calls
<1>3. ASSUME NEW d \in Callers, NewCall(d) PROVE FALSE
  BY <1>1, <1>3, NewCallCases DEF Beside
<1>4. ASSUME NEW d \in Callers, Step(d) PROVE d = c
  BY <1>1, <1>4, StepCases DEF Beside
<1> QED
  BY <1>2, <1>3, <1>4 DEF Next

LEMMA ErrIsFailing ==
  ASSUME TypeOK, NEW c \in Callers, Ends(c, "err"), Step(c)
  PROVE  /\ PhaseFails(c) /\ mishaps' = mishaps
         /\ op[c] # "connect" \/ Kind(c) = "desc"
         /\ Skips(c) \/ SendFails(c) \/ DescConflict(c) \/ DescAsks(c) \/ Collect(c) \/ TimesOut(c)
<1>1. pc'[c] = "idle" /\ result'[c] = "err" /\ pc[c] # "idle"
  BY DEF Ends
<1>2. ~PhaseSucceeds(c)
  BY <1>1 DEF PhaseSucceeds, Returns, Continues, TypeOK, CallTypes
<1>3. PhaseFails(c) => op[c] # "connect" \/ Kind(c) = "desc"
  BY <1>1 DEF PhaseFails, Returns, Continues, TypeOK, CallTypes
<1>4. ~FirstAsk(c) /\ ~DescGrows(c) /\ ~DescComplete(c) /\ ~GotAnswer(c) /\ ~ReadContinues(c) /\ ~AskAgain(c)
  BY <1>1, <1>2 DEF FirstAsk, DescGrows, DescComplete, GotAnswer, ReadContinues, AskAgain, TypeOK, CallTypes
<1>5. Skips(c) \/ SendFails(c) \/ DescConflict(c) \/ DescAsks(c) \/ Collect(c) \/ TimesOut(c)
  BY <1>4 DEF Step
<1>6. PhaseFails(c) /\ mishaps' = mishaps
  BY <1>1, <1>2, <1>5 DEF Skips, SendFails, DescConflict, DescAsks, Collect, TimesOut, TypeOK, CallTypes
<1> QED
  BY <1>3, <1>5, <1>6

(* What a transfer survives: with at most one mishap it does not fail. *)
LEMMA LoadEnds ==
  ASSUME RecoveryInv, TypeOK', Usual, mishaps <= 1, OneLoader, Persists, NEW c \in Callers, Step(c),
         Ends(c, "err"), mishaps' = mishaps
  PROVE  ~DescConflict(c) /\ ~DescAsks(c) /\ ~Collect(c)
<1>1. Fair /\ \A o \in Callers : Fits(o)
  BY DEF Fair, RecoveryInv, AnswerInv, RecoverInv, ParamInv, Plain
<1>2. pc'[c] = "idle" /\ result'[c] = "err" /\ TypeOK
  BY <1>1 DEF Ends, Fair
<1>3. ASSUME DescConflict(c) PROVE FALSE
  <2>1. Loader(c)
    BY <1>1, <1>3, LoaderOnly DEF DescConflict, Receiving
  <2>2. local[c].restarts < MaxRestarts
    BY <1>1, <1>3, <2>1, ConflictLoads
  <2>3. local[c].restarts \in Nat /\ MaxRestarts \in Nat
    BY <1>2, Counts DEF Counters, Persists
  <2>4. pc' = pc /\ pc[c] = "wait"
    BY <1>3, <2>2, <2>3 DEF DescConflict, Receiving
  <2> QED
    BY <1>2, <2>4
<1>4. ASSUME DescAsks(c) PROVE FALSE
  <2>1. Loader(c)
    BY <1>1, <1>4, LoaderOnly DEF DescAsks, Receiving
  <2>2. ~Failing(c)
    BY <1>1, <1>4, <2>1, AsksLoads
  <2>3. pc' = [pc EXCEPT ![c] = IF Finished THEN "collect" ELSE "wait"]
    BY <1>4, <2>2 DEF DescAsks, Failing
  <2> QED
    BY <1>2, <2>3 DEF TypeOK, CallTypes
<1>5. ASSUME Collect(c) PROVE FALSE
  <2>1. desc.total # 0 /\ Received = desc.total
    BY <1>1, <1>5 DEF Collect, Fair, CountsHold
  <2>2. desc.bytes # <<>>
    BY <2>1 DEF Received
  <2>3. PhaseSucceeds(c)
    BY <1>5, <2>1, <2>2 DEF Collect
  <2> QED
    BY <1>2, <2>3 DEF PhaseSucceeds, Returns, Continues, TypeOK, CallTypes
<1> QED
  BY <1>3, <1>4, <1>5

(* Nor does a parameter's exchange. *)
LEMMA ExchangeEnds ==
  ASSUME RecoveryInv, Usual, mishaps <= 1, Persists, NEW c \in Callers, TimesOut(c), Ends(c, "err"),
         op[c] # "connect", op[c] \in {"write", "get"} => mishaps = 0, ~Interferes(c)
  PROVE  FALSE
<1>1. ParamInv /\ TypeOK /\ Fits(c) /\ Loads(c) /\ Held(c) /\ local[c] \in Counters
  BY Counts DEF RecoveryInv, AnswerInv, RecoverInv, ParamInv
<1>2. /\ pc[c] = "wait" /\ Kind(c) \in {"read", "get", "write", "warm_up"} /\ ~Ready(c) /\ ~HasMore(c) /\ Expired(c)
      /\ Kind(c) \in {"read", "warm_up"} => local[c].tries = MaxAsks
  BY DEF TimesOut, Waiting, Usual
<1>3. op[c] \in {"read", "get", "write", "warm_up"}
  BY <1>1, <1>2 DEF Loads, TypeOK, CallTypes, Methods
<1>4. Asked(c)
  BY <1>2, <1>3 DEF Asked, Exchanged, Interferes, Alone
<1>5. ~Owes(c)
  BY <1>1, <1>2, <1>4, LacksAll
<1>6. mishaps # 0 /\ (op[c] \in {"read", "warm_up"} => local[c].tries = 1)
  BY <1>1, <1>4, <1>5 DEF Held
<1>7. op[c] \in {"read", "warm_up"}
  BY <1>3, <1>6
<1>8. Kind(c) = op[c]
  BY <1>1, <1>2, <1>7, PhaseAt, WarmIs DEF Exchanged
<1> QED
  BY <1>2, <1>6, <1>7, <1>8 DEF Persists

LEMMA ErrHasReason ==
  ASSUME RecoveryInv, RecoveryInv', OneLoader, Persists, NEW c \in Callers, Ends(c, "err"), [Next]_vars
  PROVE  \/ setup.late \/ setup.faults \/ ~setup.present \/ mishaps > 1
         \/ op[c] \in {"write", "get"} /\ mishaps > 0
         \/ Interferes(c)
<1>1. TypeOK /\ TypeOK' /\ Fits(c) /\ mishaps \in Nat
  BY DEF RecoveryInv, AnswerInv, RecoverInv, ParamInv, TypeOK, DeviceTypes
<1> SUFFICES ASSUME Usual, mishaps <= 1, op[c] \in {"write", "get"} => mishaps = 0, ~Interferes(c)
             PROVE FALSE
  BY <1>1 DEF Usual
<1>2. Step(c)
  BY <1>1, EndsItself
<1>3. /\ PhaseFails(c) /\ mishaps' = mishaps
      /\ op[c] # "connect" \/ Kind(c) = "desc"
      /\ Skips(c) \/ SendFails(c) \/ DescConflict(c) \/ DescAsks(c) \/ Collect(c) \/ TimesOut(c)
  BY <1>1, <1>2, ErrIsFailing
<1>4. ~SendFails(c)
  BY DEF SendFails, Usual
<1>5. ~DescConflict(c) /\ ~DescAsks(c) /\ ~Collect(c)
  BY <1>1, <1>2, <1>3, LoadEnds
<1>6. ~Skips(c)
  <2>1. ASSUME Skips(c) PROVE FALSE
    <3>1. op[c] = "connect" /\ On(c) \in Declared /\ Kind(c) = "desc" /\ pc[c] # "idle"
      BY <1>3, <2>1 DEF Skips, Unusable
    <3>2. On(c) = None
      BY <1>1, <3>1, AtPhase DEF Phases, Kind, On
    <3> QED
      BY <3>1, <3>2 DEF Declared, None
  <2> QED
    BY <2>1
<1>7. CASE TimesOut(c)
  <2>1. op[c] # "connect"
    BY <1>3, <1>7 DEF TimesOut, Waiting
  <2> QED
    BY <1>7, <2>1, ExchangeEnds
<1> QED
  BY <1>3, <1>4, <1>5, <1>6, <1>7

(* The property OneMishapIsRecovered, of read_endpoint_descriptor_raw,     *)
(* read_param_raw and warm_up: a call that fails while answers come in time  *)
(* and sends succeed has met two mishaps, or one that is not repeated.      *)
THEOREM MishapIsRecovered ==
  ASSUME Apart, OneLoader, Served, Persists PROVE SafeSpec => OneMishapIsRecovered
<1>1. ASSUME RecoveryInv, RecoveryInv', [Next]_vars
      PROVE  [\A c \in Callers :
                Ends(c, "err") => \/ setup.late \/ setup.faults \/ ~setup.present \/ mishaps > 1
                                  \/ op[c] \in {"write", "get"} /\ mishaps > 0
                                  \/ Interferes(c)]_vars
  BY <1>1, ErrHasReason
<1>2. SafeSpec => []RecoveryInv
  BY RecoveryAlways
<1> QED
  BY <1>1, <1>2, PTL DEF SafeSpec, OneMishapIsRecovered

-----------------------------------------------------------------------------
(***************************************************************************)
(* What is collected is one descriptor, whichever the device had.          *)
(***************************************************************************)
(* What is collected is one descriptor. *)
OneOf(bytes) == \E v \in Versions : bytes = Descriptor(v)
Collected == MapIsWhole /\ \A c \in Callers : pc[c] = "collect" => OneOf(desc.bytes)
MapInv == RecoveryInv /\ (Usual /\ mishaps <= 1 => Collected)

LEMMA WholeIs ==
  ASSUME TypeOK, NEW v \in Versions, DescOf(desc, v), desc.total # 0, Received = desc.total
  PROVE  OneOf(desc.bytes)
<1>1. desc \in DescType /\ desc.bytes \in Seq(Nat)
  BY DEF TypeOK, CacheTypes, DescType
<1>2. desc.total = Length(v) /\ Len(desc.bytes) = Length(v)
  BY <1>1, TotalOf DEF Received
<1>3. \A s \in Seq(Nat) : s = [k \in 1 .. Len(s) |-> s[k]]
  OBVIOUS
<1>4. desc.bytes = [k \in 1 .. Length(v) |-> desc.bytes[k]]
  BY <1>1, <1>2, <1>3
<1>5. \A k \in 1 .. Length(v) : desc.bytes[k] = Content(v, k)
  BY <1>2 DEF DescOf
<1> QED
  BY <1>4, <1>5 DEF OneOf, Descriptor

LEMMA CompletesOne ==
  ASSUME Fair, NEW c \in Callers, Receiving(c), ~desc.conflict, Finished
  PROVE  OneOf(desc.bytes)
<1>1. desc.total # 0 /\ Received = desc.total /\ ~Idle /\ version \in Versions
  <2>1. Received \in Nat /\ desc.total \in Nat /\ Received <= desc.total
    BY Counts DEF Fair, CountsHold, Bounded, Received
  <2> QED
    BY <2>1 DEF Finished, Idle, Fair, TypeOK, DeviceTypes
<1>2. ~Clash
  <2>1. Received \in Nat /\ ~(Received < desc.total)
    BY <1>1, Counts DEF Fair
  <2> QED
    BY <2>1 DEF Clash
<1>3. \E v \in Versions : DescOf(desc, v)
  BY <1>1, <1>2 DEF Fair, LoadHolds, Clean, Lossy, Stale, Tells
<1> QED
  BY <1>1, <1>3, WholeIs DEF Fair

LEMMA CollectsOne ==
  ASSUME MapInv, TypeOK', Usual, mishaps <= 1, mishaps' <= 1, OneLoader, Collected, NEW d \in Callers, Step(d)
  PROVE  Collected'
<1>1. Fair /\ TypeOK /\ CountsHold /\ \A o \in Callers : Fits(o)
  BY DEF Fair, MapInv, RecoveryInv, AnswerInv, RecoverInv, ParamInv, Plain
<1>2. pc[d] # "idle" /\ \A o \in Callers : o # d => Beside(o)
  BY <1>1, StepSends, StepCases
<1>3. MapIsWhole'
  <2>1. CASE map' = map
    BY <2>1 DEF MapIsWhole, Collected
  <2>2. CASE map' # map
    <3>1. Collect(d)
      BY <2>2 DEF Step, FirstAsk, Skips, SendFails, DescConflict, DescGrows, DescAsks, DescComplete,
        GotAnswer, ReadContinues, AskAgain, TimesOut
    <3>2. map' = desc.bytes /\ OneOf(desc.bytes)
      BY <2>2, <3>1 DEF Collect, Collected
    <3> QED
      BY <3>2 DEF MapIsWhole, OneOf
  <2> QED
    BY <2>1, <2>2
<1>4. ASSUME NEW c \in Callers, c # d, pc'[c] = "collect" PROVE OneOf(desc'.bytes)
  <2>1. pc[c] = "collect" /\ Kind(c) = "desc" /\ OneOf(desc.bytes)
    BY <1>1, <1>2, <1>4 DEF Beside, Collected, CountsHold
  <2>2. Kind(d) # "desc"
    BY <1>1, <1>2, <1>4, <2>1, LoaderAlone
  <2> QED
    BY <2>1, <2>2, DescSteps
<1>5. ASSUME pc'[d] = "collect" PROVE OneOf(desc'.bytes)
  <2>1. Stays(d)
    BY <1>1, <1>5, StepCases DEF PhaseOver, Over, Onward
  <2>2. ~PhaseFails(d) /\ ~PhaseSucceeds(d)
    BY <1>1, <1>5, FailsCase, SucceedsCase DEF PhaseOver, Over, Onward
  <2>3. ~FirstAsk(d) /\ ~DescConflict(d) /\ ~ReadContinues(d) /\ ~AskAgain(d)
    BY <1>1, <1>5, <2>2 DEF FirstAsk, DescConflict, Receiving, ReadContinues, HasMore, AskAgain, Waiting,
      TypeOK, CallTypes
  <2>4. DescGrows(d) \/ DescAsks(d) \/ DescComplete(d)
    BY <2>2, <2>3 DEF Step, Collect, Skips, SendFails, GotAnswer, TimesOut
  <2>5. Receiving(d) /\ ~desc.conflict /\ desc' = desc
    BY <2>4 DEF DescGrows, DescAsks, DescComplete
  <2>6. Finished
    BY <1>1, <1>5, <2>2, <2>4 DEF DescGrows, DescAsks, DescComplete, TypeOK, CallTypes
  <2> QED
    BY <1>1, <2>5, <2>6, CompletesOne
<1> QED
  BY <1>3, <1>4, <1>5 DEF Collected

LEMMA KeepsOne ==
  ASSUME MapInv, TypeOK', Usual, mishaps <= 1, Collected,
         \/ \E d \in Callers : NewCall(d)
         \/ ProcessFeedbackFrame \/ DeviceStreams \/ LoseFrame \/ Reflash \/ UNCHANGED vars
  PROVE  Collected'
<1>1. TypeOK /\ CountsHold
  BY DEF MapInv, RecoveryInv, AnswerInv, RecoverInv, ParamInv
<1>2. MapIsWhole'
  <2>1. map' = map
    BY DEF NewCall, ProcessFeedbackFrame, DeviceStreams, LoseFrame, Reflash, vars
  <2> QED
    BY <2>1 DEF MapIsWhole, Collected
<1>3. ASSUME NEW c \in Callers, pc'[c] = "collect" PROVE pc[c] = "collect"
  <2>1. CASE \E d \in Callers : NewCall(d)
    BY <1>1, <1>3, <2>1, NewCallCases DEF Beside
  <2>2. CASE ~\E d \in Callers : NewCall(d)
    BY <1>3, <2>2 DEF ProcessFeedbackFrame, DeviceStreams, LoseFrame, Reflash, vars, calls
  <2> QED
    BY <2>1, <2>2
<1>4. ASSUME desc.total # 0, Received = desc.total PROVE desc'.bytes = desc.bytes
  <2>1. CASE ProcessFeedbackFrame
    <3>1. Taking(desc, Head(toHost), desc') /\ toHost # <<>> /\ toHost \in Seq(Frames)
      <4>1. Taking(desc, Head(toHost), desc')
        BY <1>1, <2>1, RecordTakes
      <4>2. toHost # <<>>
        BY <2>1 DEF ProcessFeedbackFrame
      <4> QED
        BY <1>1, <4>1, <4>2 DEF TypeOK, DeviceTypes
    <3>2. Head(toHost).i \in Nat /\ Received \in Nat
      <4>1. Head(toHost) \in Frames
        BY <3>1, Taken
      <4> QED
        BY <1>1, <4>1, FrameIs, Counts DEF Received
    <3> QED
      BY <1>4, <3>1, <3>2 DEF Taking, Received
  <2>2. CASE ~ProcessFeedbackFrame
    BY <2>2 DEF NewCall, DeviceStreams, LoseFrame, Reflash, vars
  <2> QED
    BY <2>1, <2>2
<1>5. ASSUME NEW c \in Callers, pc'[c] = "collect" PROVE OneOf(desc'.bytes)
  BY <1>1, <1>3, <1>4, <1>5 DEF CountsHold, Collected
<1> QED
  BY <1>2, <1>5 DEF Collected

LEMMA MapInductive ==
  ASSUME MapInv, RecoveryInv', OneLoader, [Next]_vars
  PROVE  MapInv'
<1>1. TypeOK /\ TypeOK' /\ Plain(stream)
  BY DEF MapInv, RecoveryInv, AnswerInv, RecoverInv, ParamInv, Plain
<1>2. mishaps <= mishaps' /\ mishaps \in Nat /\ mishaps' \in Nat /\ setup' = setup
  BY <1>1, MishapsGrow, StreamStaysPlain
<1> SUFFICES ASSUME Usual', mishaps' <= 1 PROVE Collected'
  BY DEF MapInv
<1>3. Usual /\ mishaps <= 1 /\ Collected
  <2>1. Usual /\ mishaps <= 1
    BY <1>2 DEF Usual
  <2> QED
    BY <2>1 DEF MapInv
<1>4. ASSUME NEW d \in Callers, Step(d) PROVE Collected'
  BY <1>1, <1>3, <1>4, CollectsOne
<1>5. CASE \/ \E d \in Callers : NewCall(d)
           \/ ProcessFeedbackFrame \/ DeviceStreams \/ LoseFrame \/ Reflash \/ UNCHANGED vars
  BY <1>1, <1>3, <1>5, KeepsOne
<1> QED
  BY <1>4, <1>5 DEF Next

(* The property MapIsWhole, of read_endpoint_descriptor_raw, also where the *)
(* device is reflashed under a transfer, or else a frame is lost: with one   *)
(* mishap, load_endpoint_map never keeps a mix of two descriptors.          *)
THEOREM MapSurvivesReflash ==
  ASSUME Apart, OneLoader, Served, Persists
  PROVE  SafeSpec => [](Usual /\ mishaps <= 1 => MapIsWhole)
<1>1. Init => MapInv
  <2> SUFFICES ASSUME Init PROVE MapInv
    OBVIOUS
  <2>1. RecoveryInv
    BY InitRecovery
  <2>2. Collected
    BY DEF Init, Collected, MapIsWhole
  <2> QED
    BY <2>1, <2>2 DEF MapInv
<1>2. MapInv /\ [Next]_vars => MapInv'
  BY RecoveryInductive, MapInductive DEF MapInv
<1>3. MapInv => (Usual /\ mishaps <= 1 => MapIsWhole)
  BY DEF MapInv, Collected
<1> QED
  BY <1>1, <1>2, <1>3, PTL DEF SafeSpec
=============================================================================
