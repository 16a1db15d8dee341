--------------------------- MODULE CyberBeastMotor ---------------------------
(***************************************************************************)
(* The CyberBeast driver: connecting a motor, the transfer of its endpoint *)
(* descriptor, parameter reads that are asked again when nothing comes,    *)
(* acknowledged writes, and the session warm-up.                           *)
(*                                                                         *)
(* A call is a list of phases (todo), each of them one request repeated    *)
(* until it is answered or given up.  Descriptor bytes are counted in      *)
(* chunks of one frame.  The device streams the descriptor from the chunk  *)
(* asked for, and starts over at every request.                            *)
(***************************************************************************)
EXTENDS Naturals, Sequences

CONSTANTS
  Callers,      (* threads using the motor                                 *)
  Setups,       (* the set-ups considered, see SetupType                   *)
  MaxMishaps,   (* bound: frames lost and reflashes in a behaviour         *)
  MaxWire,      (* bound: frames on their way when a call begins           *)
  MaxStart,     (* MAX_JSON_DESC_START_ATTEMPTS                            *)
  MaxStuck,     (* MAX_JSON_DESC_STUCK_ATTEMPTS                            *)
  MaxRequests,  (* MAX_JSON_DESC_REQUESTS                                  *)
  MaxRestarts,  (* MAX_JSON_DESC_RESTARTS                                  *)
  MaxAsks       (* requests a read's timeout or a warm-up's budget allows  *)

None == "none"
Methods == {"connect", "load", "read", "get", "write", "warm_up"}
Declared == {"range", "last_range", "gear"}   \* two of the five MIT ranges; the gear ratio
Endpoints == Declared \cup {"narrow", "wide"}

(* The value of wide takes two frames. *)
Width(e) == IF e = "wide" THEN 2 ELSE 1

(* Two versions of the descriptor, of different lengths and with a common  *)
(* beginning.                                                              *)
Versions == {1, 2}
Length(v) == v + 1
Content(v, i) == IF i = 1 THEN 0 ELSE v
Descriptor(v) == [i \in 1 .. Length(v) |-> Content(v, i)]

(* calls[c], on[c]: what caller c may invoke, on which endpoint; late:     *)
(* waits may end while an answer is on its way; faults: CanBus::send may   *)
(* fail; usable: what the device declares usably; present: it answers;     *)
(* flashed: its descriptor at first.                                       *)
SetupType ==
  [calls : [Callers -> SUBSET Methods], on : [Callers -> {"narrow", "wide"}], late : BOOLEAN,
   faults : BOOLEAN, usable : SUBSET Declared, present : BOOLEAN, flashed : Versions]

ASSUME CyberBeastAssumption ==
  /\ Setups \subseteq SetupType
  /\ MaxMishaps \in Nat /\ MaxRestarts \in Nat
  /\ {MaxWire, MaxStart, MaxStuck, MaxRequests, MaxAsks} \subseteq Nat \ {0}

VARIABLES
  setup,                   (* the set-up, fixed for a behaviour            *)
  version, value, stream,  (* the device: descriptor, value of narrow,     *)
                           (* descriptor frames still to be sent           *)
  toHost, mishaps,
  desc, map,               (* json_desc, endpoint_map                      *)
  raw, shape, floats, acks,   (* param_cache                               *)
  registered, warmed, ranges, from_device, gear,
  pc, op, todo,            (* each caller's call                           *)
  local,                   (* its counters                                 *)
  answered,                (* something answered its last request          *)
  result,
  before,                  (* history: value when its last phase began     *)
  crossed                  (* history: a request of its phase was sent     *)
                           (* while an answer was on its way, left by an   *)
                           (* earlier call or to a request of its own      *)

deviceVars == <<version, value, stream>>
params == <<raw, shape, floats, acks>>
motor == <<registered, warmed, ranges, from_device, gear>>
calls == <<pc, op, todo, local, result, before>>
vars == <<setup, deviceVars, toHost, mishaps, desc, map, params, motor, calls, answered, crossed>>

Empty == [total |-> 0, bytes |-> <<>>, conflict |-> FALSE]   \* JsonDescCache::reset
Zero == [tries |-> 0, requests |-> 0, restarts |-> 0, stuck |-> 0, seen |-> 0, asked |-> 0]

Init ==
  /\ setup \in Setups
  /\ version = setup.flashed /\ value = 0 /\ stream = <<>>
  /\ toHost = <<>> /\ mishaps = 0
  /\ desc = Empty /\ map = <<>>
  /\ raw = [e \in Endpoints |-> <<>>] /\ shape = [e \in Endpoints |-> None]
  /\ floats = {} /\ acks = {}
  /\ registered = FALSE /\ warmed = FALSE
  /\ ranges = "default" /\ from_device = FALSE /\ gear = "default"
  /\ pc = [c \in Callers |-> "idle"] /\ op = [c \in Callers |-> "read"]
  /\ todo = [c \in Callers |-> <<>>] /\ local = [c \in Callers |-> Zero]
  /\ answered = [c \in Callers |-> FALSE] /\ result = [c \in Callers |-> None]
  /\ before = [c \in Callers |-> 0] /\ crossed = [c \in Callers |-> None]

-----------------------------------------------------------------------------
(***************************************************************************)
(* The device and the wire.                                                *)
(***************************************************************************)
Frame(kind, e, i, v) == [kind |-> kind, e |-> e, i |-> i, v |-> v]

Chunk(e, i) == IF e = "narrow" THEN value ELSE i   \* contents of frame i of the value of e

Stream(from) ==
  <<Frame("meta", None, 0, version)>>
    \o [k \in 1 .. (Length(version) - from) |->
          Frame("chunk", None, from + k, Content(version, from + k))]

Obeys(kind, e, from) ==
  CASE kind = "desc" -> stream' = Stream(from) /\ UNCHANGED <<version, value, toHost>>
    [] kind \in {"read", "get"} ->
         /\ toHost' = IF from < Width(e)
                      THEN Append(toHost, Frame("param", e, from + 1, Chunk(e, from + 1)))
                      ELSE toHost
         /\ UNCHANGED deviceVars
    [] kind = "write" ->
         /\ value' = 1 - value /\ toHost' = Append(toHost, Frame("ack", e, 0, 0))
         /\ UNCHANGED <<version, stream>>
    [] OTHER -> toHost' = Append(toHost, Frame("pos_vel", None, 0, 0)) /\ UNCHANGED deviceVars

(* A request is obeyed, or lost, or nobody is there. *)
Request(kind, e, from) ==
  /\ \/ setup.present /\ Obeys(kind, e, from) /\ UNCHANGED mishaps
     \/ /\ setup.present => mishaps < MaxMishaps
        /\ mishaps' = IF setup.present THEN mishaps + 1 ELSE mishaps
        /\ UNCHANGED <<deviceVars, toHost>>

DeviceStreams ==
  /\ stream # <<>>
  /\ toHost' = Append(toHost, Head(stream)) /\ stream' = Tail(stream)
  /\ UNCHANGED <<setup, version, value, mishaps, desc, map, params, motor, calls, answered, crossed>>

LoseFrame ==
  /\ toHost # <<>> /\ mishaps < MaxMishaps
  /\ toHost' = Tail(toHost) /\ mishaps' = mishaps + 1
  /\ UNCHANGED <<setup, deviceVars, desc, map, params, motor, calls, answered, crossed>>

(* The device restarts with another descriptor. *)
Reflash ==
  /\ mishaps < MaxMishaps
  /\ version' \in Versions \ {version} /\ stream' = <<>> /\ mishaps' = mishaps + 1
  /\ UNCHANGED <<setup, value, toHost, desc, map, params, motor, calls, answered, crossed>>

-----------------------------------------------------------------------------
(***************************************************************************)
(* JsonDescCache::record, ParamCache::record_read_frame and the rest of    *)
(* the feedback handler.                                                   *)
(***************************************************************************)
RecordMeta(f) ==
  CASE desc.total = 0 -> [desc EXCEPT !.total = Length(f.v)]
    [] desc.total = Length(f.v) -> desc
    [] OTHER -> [desc EXCEPT !.conflict = TRUE]

Usable(f) == desc.total # 0 /\ f.i <= desc.total   \* not residue, not beyond the end

PadsHoles(f) ==   \* mutant of RecordChunk: a chunk beyond a hole is kept
  IF ~Usable(f) THEN desc
  ELSE IF f.i <= Len(desc.bytes) THEN [desc EXCEPT !.conflict = @ \/ desc.bytes[f.i] # f.v]
  ELSE [desc EXCEPT !.bytes = @ \o [k \in 1 .. (f.i - Len(@)) |-> f.v]]
RecordChunk(f) ==
  IF ~Usable(f) \/ f.i > Len(desc.bytes) + 1 THEN desc
  ELSE IF f.i <= Len(desc.bytes) THEN [desc EXCEPT !.conflict = @ \/ desc.bytes[f.i] # f.v]
  ELSE [desc EXCEPT !.bytes = Append(@, f.v)]

(* Whether f answers the last request of c: any frame of its endpoint; of  *)
(* the warm-up, as long as no other answer came after it (last_response).  *)
Answers(c, f) ==
  IF todo[c] = <<>> THEN FALSE
  ELSE IF Head(todo[c]).kind = "warm_up" THEN f.kind = "pos_vel"
  ELSE answered[c] \/ (f.kind = "param" /\ f.e = Head(todo[c]).e)

ProcessFeedbackFrame ==
  LET f == Head(toHost)
  IN /\ toHost # <<>> /\ toHost' = Tail(toHost)
     /\ desc' = CASE f.kind = "meta" -> RecordMeta(f) [] f.kind = "chunk" -> RecordChunk(f)
                  [] OTHER -> desc
     /\ IF f.kind = "param"
        THEN /\ raw' = [raw EXCEPT ![f.e] = Append(@, f.v)]
             /\ shape' = [shape EXCEPT ![f.e] = IF f.i < Width(f.e) THEN "more" ELSE "last"]
             /\ floats' = IF f.i < Width(f.e) THEN floats ELSE floats \cup {f.e}
        ELSE UNCHANGED <<raw, shape, floats>>
     /\ acks' = IF f.kind = "ack" THEN acks \cup {f.e} ELSE acks
     /\ answered' = [c \in Callers |-> Answers(c, f)]
     /\ UNCHANGED <<setup, deviceVars, mishaps, map, motor, calls, crossed>>

-----------------------------------------------------------------------------
(***************************************************************************)
(* Calls.                                                                  *)
(***************************************************************************)
Phase(kind, e) == [kind |-> kind, e |-> e]
Load == IF map = <<>> THEN <<Phase("desc", None)>> ELSE <<>>   \* ensure_endpoint_map
GearPhase == <<Phase("read", "gear")>>

Script(m, e) ==
  CASE m = "connect" -> <<Phase("desc", None), Phase("read", "range"),
                          Phase("read", "last_range"), Phase("read", "gear")>>
    [] m = "load" -> Load
    [] OTHER -> <<Phase(m, e)>>

Kind(c) == Head(todo[c]).kind
On(c) == Head(todo[c]).e

Returns(c, r) ==
  /\ pc' = [pc EXCEPT ![c] = "idle"] /\ result' = [result EXCEPT ![c] = r]
  /\ todo' = [todo EXCEPT ![c] = <<>>] /\ local' = [local EXCEPT ![c] = Zero]
  /\ op' = [op EXCEPT ![c] = "read"]
  /\ UNCHANGED before

Continues(c, rest) ==
  /\ pc' = [pc EXCEPT ![c] = "ask"] /\ todo' = [todo EXCEPT ![c] = rest]
  /\ local' = [local EXCEPT ![c] = Zero]
  /\ UNCHANGED <<op, result, before>>

(* connect: VendorController refuses a motor that is already there, also   *)
(* one whose descriptor never arrived.                                     *)
NewCall(c) ==
  \E m \in setup.calls[c] :
    /\ pc[c] = "idle" /\ Len(toHost) + Len(stream) < MaxWire
    /\ UNCHANGED <<setup, deviceVars, toHost, mishaps, desc, map, params, answered, crossed>>
    /\ UNCHANGED <<warmed, ranges, from_device, gear, before>>
    /\ registered' = (registered \/ m = "connect")
    /\ IF (m = "connect" /\ registered) \/ (m = "load" /\ Load = <<>>)
          \/ (m = "warm_up" /\ warmed)
       THEN /\ result' = [result EXCEPT ![c] = IF m = "connect" THEN "err" ELSE "ok"]
            /\ UNCHANGED <<pc, op, todo, local>>
       ELSE /\ pc' = [pc EXCEPT ![c] = "ask"] /\ op' = [op EXCEPT ![c] = m]
            /\ todo' = [todo EXCEPT ![c] = Script(m, setup.on[c])]
            /\ result' = [result EXCEPT ![c] = None]
            /\ UNCHANGED local

(* The MIT ranges are taken all or none, and the gear ratio after them:    *)
(* whatever fails clears mit_ranges_from_device.                           *)
PhaseFails(c) ==
  /\ UNCHANGED <<registered, warmed, ranges, gear>>
  /\ IF op[c] # "connect" \/ Kind(c) = "desc" THEN Returns(c, "err") /\ UNCHANGED from_device
     ELSE /\ from_device' = FALSE
          /\ IF On(c) = "gear" THEN Returns(c, "ok") ELSE Continues(c, GearPhase)

PhaseSucceeds(c) ==
  /\ ranges' = IF op[c] = "connect" /\ On(c) = "last_range" THEN "device" ELSE ranges
  /\ from_device' = (from_device \/ (op[c] = "connect" /\ On(c) = "last_range"))
  /\ gear' = IF op[c] = "connect" /\ On(c) = "gear" THEN "device" ELSE gear
  /\ warmed' = (warmed \/ Kind(c) = "warm_up")
  /\ UNCHANGED registered
  /\ IF Len(todo[c]) = 1 THEN Returns(c, "ok") ELSE Continues(c, Tail(todo[c]))

(* What a request clears: send_param_read_at, send_param_write_bytes.      *)
KeepsAcks(c, from) ==   \* mutant of Forgets: the acknowledgement before stays
  UNCHANGED <<raw, shape, floats, acks>>
Forgets(c, from) ==
  LET e == On(c)
  IN /\ IF Kind(c) \in {"read", "get"} /\ from = 0
        THEN /\ raw' = [raw EXCEPT ![e] = <<>>] /\ shape' = [shape EXCEPT ![e] = None]
             /\ floats' = floats \ {e}
        ELSE UNCHANGED <<raw, shape, floats>>
     /\ acks' = IF Kind(c) = "write" THEN acks \ {e} ELSE acks

For(c, f) ==
  CASE Kind(c) = "desc" -> f.kind \in {"meta", "chunk"}
    [] Kind(c) = "warm_up" -> f.kind = "pos_vel"
    [] OTHER -> f.kind \in {"param", "ack"} /\ f.e = On(c)

Crossing(c) ==
  IF pc[c] = "wait" /\ crossed[c] # None THEN crossed[c]
  ELSE IF \A i \in DOMAIN toHost : ~For(c, toHost[i]) THEN None
  ELSE IF pc[c] = "wait" THEN "own" ELSE "earlier"

Ask(c, from) ==
  /\ Forgets(c, from) /\ Request(Kind(c), On(c), from)
  /\ answered' = [answered EXCEPT ![c] = FALSE]
  /\ crossed' = [crossed EXCEPT ![c] = Crossing(c)]

Unusable(c) == op[c] = "connect" /\ On(c) \in Declared \ setup.usable

FirstAsk(c) ==
  /\ pc[c] = "ask" /\ ~Unusable(c)
  /\ Ask(c, 0)
  /\ desc' = IF Kind(c) = "desc" THEN Empty ELSE desc
  /\ pc' = [pc EXCEPT ![c] = "wait"]
  /\ local' = [local EXCEPT ![c].tries = 1, ![c].requests = 1]
  /\ before' = [before EXCEPT ![c] = value]
  /\ UNCHANGED <<setup, map, motor, op, todo, result>>

Skips(c) ==
  /\ pc[c] = "ask" /\ Unusable(c)
  /\ PhaseFails(c)
  /\ UNCHANGED <<setup, deviceVars, toHost, mishaps, desc, map, params, answered, crossed>>

(* CanBus::send fails, at a first request or a later one. *)
SendFails(c) ==
  /\ setup.faults /\ pc[c] \in {"ask", "wait"} /\ ~Unusable(c)
  /\ PhaseFails(c)
  /\ UNCHANGED <<setup, deviceVars, toHost, mishaps, desc, map, params, answered, crossed>>

(* A window of time may have passed: nothing for c is on its way, unless   *)
(* answers may be late.                                                    *)
Expired(c) ==
  \/ setup.late
  \/ /\ Kind(c) = "desc" => stream = <<>>
     /\ \A i \in DOMAIN toHost : ~For(c, toHost[i])

-----------------------------------------------------------------------------
(***************************************************************************)
(* read_endpoint_descriptor_raw.                                           *)
(***************************************************************************)
Receiving(c) == pc[c] = "wait" /\ Kind(c) = "desc"
Received == Len(desc.bytes)
Finished == desc.total # 0 /\ Received >= desc.total
KeepsOpen(c) == Received >= local[c].seen   \* mutant of Grown: no growth is growth
Grown(c) == Received > local[c].seen

DescConflict(c) ==
  /\ Receiving(c) /\ desc.conflict
  /\ IF local[c].restarts >= MaxRestarts
     THEN PhaseFails(c) /\ UNCHANGED <<deviceVars, toHost, mishaps, desc, params, answered, crossed>>
     ELSE /\ Ask(c, 0) /\ desc' = Empty
          /\ local' = [local EXCEPT ![c] = [Zero EXCEPT !.tries = 1, !.requests = 1,
                         !.restarts = local[c].restarts + 1, !.seen = local[c].seen]]
          /\ UNCHANGED <<motor, pc, op, todo, result, before>>
  /\ UNCHANGED <<setup, map>>

DescGrows(c) ==
  /\ Receiving(c) /\ ~desc.conflict /\ Grown(c)
  /\ local' = [local EXCEPT ![c].seen = Received, ![c].stuck = 0]
  /\ pc' = [pc EXCEPT ![c] = IF Finished THEN "collect" ELSE "wait"]
  /\ UNCHANGED <<setup, deviceVars, toHost, mishaps, desc, map, params, motor, op, todo, result,
                 before, answered, crossed>>

(* Nothing new: ask for the start again, or for the first missing chunk.   *)
AsksAtEnd(c) == Received + 1   \* mutant of Missing: the chunk after the next
Missing(c) == Received

DescAsks(c) ==
  LET l == local[c]
      stuck == IF Received = l.asked THEN l.stuck + 1 ELSE 0
  IN /\ Receiving(c) /\ ~desc.conflict /\ ~Grown(c) /\ Expired(c)
     /\ IF IF desc.total = 0 THEN l.tries >= MaxStart
           ELSE stuck >= MaxStuck \/ l.requests >= MaxRequests
        THEN PhaseFails(c) /\ UNCHANGED <<deviceVars, toHost, mishaps, params, answered, crossed>>
        ELSE /\ Ask(c, IF desc.total = 0 THEN 0 ELSE Missing(c))
             /\ local' = [local EXCEPT ![c] =
                  IF desc.total = 0 THEN [l EXCEPT !.tries = @ + 1, !.asked = Received]
                  ELSE [l EXCEPT !.requests = @ + 1, !.stuck = stuck, !.asked = Received]]
             /\ pc' = [pc EXCEPT ![c] = IF Finished THEN "collect" ELSE "wait"]
             /\ UNCHANGED <<motor, op, todo, result, before>>
     /\ UNCHANGED <<setup, desc, map>>

(* A restart keeps the count of chunks seen, so a transfer may be complete *)
(* without having grown.                                                   *)
DescComplete(c) ==
  /\ Receiving(c) /\ ~desc.conflict /\ ~Grown(c) /\ Finished
  /\ pc' = [pc EXCEPT ![c] = "collect"]
  /\ UNCHANGED <<setup, deviceVars, toHost, mishaps, desc, map, params, motor, op, todo, local,
                 result, before, answered, crossed>>

(* The bytes are taken under a lock of their own; load_endpoint_map keeps  *)
(* what parses, and that is not nothing.                                   *)
Collect(c) ==
  /\ pc[c] = "collect"
  /\ IF Received = desc.total /\ desc.bytes # <<>>
     THEN map' = desc.bytes /\ PhaseSucceeds(c)
     ELSE UNCHANGED map /\ PhaseFails(c)
  /\ UNCHANGED <<setup, deviceVars, toHost, mishaps, desc, params, answered, crossed>>

-----------------------------------------------------------------------------
(***************************************************************************)
(* read_param_raw, get_param_f32, wait_for_write_ack, warm_up.             *)
(***************************************************************************)
Waiting(c, kinds) == pc[c] = "wait" /\ Kind(c) \in kinds

Ready(c) ==
  \/ Kind(c) = "read" /\ shape[On(c)] = "last"
  \/ Kind(c) = "get" /\ On(c) \in floats
  \/ Kind(c) = "write" /\ On(c) \in acks
  \/ Kind(c) = "warm_up" /\ answered[c]

GotAnswer(c) ==
  /\ Waiting(c, {"read", "get", "write", "warm_up"}) /\ Ready(c)
  /\ PhaseSucceeds(c)
  /\ UNCHANGED <<setup, deviceVars, toHost, mishaps, desc, map, params, answered, crossed>>

(* The frame before says More: ask for the next. *)
HasMore(c) == Waiting(c, {"read"}) /\ shape[On(c)] = "more" /\ Len(raw[On(c)]) > local[c].asked
ReadContinues(c) ==
  /\ HasMore(c)
  /\ Ask(c, Len(raw[On(c)]))
  /\ local' = [local EXCEPT ![c].asked = Len(raw[On(c)])]
  /\ UNCHANGED <<setup, desc, map, motor, pc, op, todo, result, before>>

AnsweredSince(c) == answered[c] /\ (Kind(c) = "read" => shape[On(c)] # None)

AskAgain(c) ==
  /\ Waiting(c, {"read", "warm_up"}) /\ ~Ready(c) /\ ~AnsweredSince(c)
  /\ Expired(c) /\ local[c].tries < MaxAsks
  /\ Ask(c, local[c].asked)
  /\ local' = [local EXCEPT ![c].tries = @ + 1]
  /\ UNCHANGED <<setup, desc, map, motor, pc, op, todo, result, before>>

TimesOut(c) ==
  /\ Waiting(c, {"read", "get", "write", "warm_up"}) /\ ~Ready(c) /\ ~HasMore(c) /\ Expired(c)
  /\ Kind(c) \in {"read", "warm_up"} /\ ~setup.late => local[c].tries = MaxAsks
  /\ PhaseFails(c)
  /\ UNCHANGED <<setup, deviceVars, toHost, mishaps, desc, map, params, answered, crossed>>

Step(c) ==
  \/ FirstAsk(c) \/ Skips(c) \/ SendFails(c)
  \/ DescConflict(c) \/ DescGrows(c) \/ DescAsks(c) \/ DescComplete(c) \/ Collect(c)
  \/ GotAnswer(c) \/ ReadContinues(c) \/ AskAgain(c) \/ TimesOut(c)

Next ==
  \/ \E c \in Callers : NewCall(c) \/ Step(c)
  \/ ProcessFeedbackFrame
  \/ DeviceStreams \/ LoseFrame \/ Reflash

(* Callers inside a method, the polling thread and the device go on. *)
Fairness ==
  /\ \A c \in Callers : WF_vars(Step(c))
  /\ WF_vars(ProcessFeedbackFrame) /\ WF_vars(DeviceStreams)

SafeSpec == Init /\ [][Next]_vars
Spec == SafeSpec /\ Fairness

-----------------------------------------------------------------------------
(***************************************************************************)
(* Properties.                                                             *)
(***************************************************************************)
Frames == [kind : {"meta", "chunk", "pos_vel"}, e : {None}, i : Nat, v : Nat]
            \cup [kind : {"param", "ack"}, e : Endpoints, i : Nat, v : Nat]
Phases == [kind : {"desc"}, e : {None}]
            \cup [kind : {"read", "get", "write", "warm_up"}, e : Endpoints]
Counters == [tries : Nat, requests : Nat, restarts : Nat, stuck : Nat, seen : Nat, asked : Nat]

DeviceTypes ==
  /\ setup \in Setups /\ version \in Versions /\ value \in {0, 1}
  /\ stream \in Seq(Frames) /\ toHost \in Seq(Frames) /\ mishaps \in Nat
CacheTypes ==
  /\ desc \in [total : Nat, bytes : Seq(Nat), conflict : BOOLEAN] /\ map \in Seq(Nat)
  /\ raw \in [Endpoints -> Seq(Nat)] /\ shape \in [Endpoints -> {None, "more", "last"}]
  /\ floats \subseteq Endpoints /\ acks \subseteq Endpoints
MotorTypes ==
  /\ {registered, warmed, from_device} \subseteq BOOLEAN
  /\ {ranges, gear} \subseteq {"default", "device"}
CallTypes ==
  /\ pc \in [Callers -> {"idle", "ask", "wait", "collect"}] /\ op \in [Callers -> Methods]
  /\ todo \in [Callers -> Seq(Phases)] /\ \A c \in Callers : pc[c] # "idle" => todo[c] # <<>>
  /\ local \in [Callers -> Counters] /\ answered \in [Callers -> BOOLEAN]
  /\ result \in [Callers -> {None, "ok", "err"}] /\ before \in [Callers -> {0, 1}]
HistoryTypes == crossed \in [Callers -> {None, "earlier", "own"}]
TypeOK == DeviceTypes /\ CacheTypes /\ MotorTypes /\ CallTypes

(* Whatever is lost, late, repeated or left over from a transfer before,   *)
(* the endpoint map that is kept is one descriptor of the device, whole:   *)
(* read_endpoint_descriptor_raw never returns one with a hole, a padding   *)
(* or the bytes of two versions.  That holds for one mishap, and for any   *)
(* number of frames lost; a reflash and a lost meta frame together can mix *)
(* two versions, as nothing in a chunk tells them apart.                   *)
MapIsWhole == map # <<>> => \E v \in Versions : map = Descriptor(v)

Ends(c, r) == pc[c] # "idle" /\ pc'[c] = "idle" /\ result'[c] = r

(* A read returns all the frames of the value, each once and in order, and *)
(* a write that returns Ok was obeyed, whatever was lost, late, failed or  *)
(* asked again, as long as nothing about its endpoint was still on its way *)
(* when the call sent a request.                                           *)
Whole(e) == [i \in 1 .. Width(e) |-> Chunk(e, i)]
OkMeansExchanged ==
  [][\A c \in Callers : Ends(c, "ok") /\ crossed[c] = None =>
       /\ op[c] = "read" => raw[On(c)] = Whole(On(c))
       /\ op[c] = "write" => value # before[c]]_vars

(* A read may only be exempt for what an earlier call left behind: its own *)
(* requests are repeated, says read_param_raw, only while nothing has come *)
(* back, so that a repeat cannot corrupt the value.                        *)
ReadIsWhole ==
  [][\A c \in Callers : op[c] = "read" /\ Ends(c, "ok") /\ crossed[c] # "earlier" =>
       raw[On(c)] = Whole(On(c))]_vars

(* No call whose requests are repeated fails for one frame lost, or for a  *)
(* device reflashed under it; the others fail only for a frame lost.       *)
Interferes(c) == op[c] = "warm_up" /\ \E o \in Callers \ {c} : setup.calls[o] # {}
OneMishapIsRecovered ==
  [][\A c \in Callers :
       Ends(c, "err") => \/ setup.late \/ setup.faults \/ ~setup.present \/ mishaps > 1
                         \/ op[c] \in {"write", "get"} /\ mishaps > 0
                         \/ Interferes(c)]_vars

(* Every call returns, whatever is lost, late or never answered. *)
EveryCallReturns == \A c \in Callers : pc[c] # "idle" ~> pc[c] = "idle"

=============================================================================
