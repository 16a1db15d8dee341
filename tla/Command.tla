------------------------------ MODULE Command ------------------------------
(***************************************************************************)
(* The command-line programs (motor_cli) and the gateway's scans, id       *)
(* changes and checks: what each of them puts on the bus, in which order,  *)
(* what it does when a step fails, and what it leaves behind.              *)
(*                                                                         *)
(* A program is the sequence of steps its mode walks through.  A step      *)
(* opens or gives back the bus, registers a motor, asks a motor something  *)
(* or tells it something; `must' is the `?' of the code (its failure ends  *)
(* the program, and dropping the controller stops no motor).  The parts    *)
(* are modelled one frame, or one exchange, at a time: the exchanges       *)
(* themselves are the subject of the driver modules.                       *)
(*                                                                         *)
(* Motors are told apart by protocol (`vendor'), as a frame of one means   *)
(* nothing to a motor of another.  Bounds: MaxMishaps frames are lost or   *)
(* refused in a run; one interrupt (Ctrl-C) comes at any point; a scan     *)
(* tries the ids of its set-up instead of a range.                         *)
(***************************************************************************)
EXTENDS Naturals, Sequences, SequencesExt

CONSTANTS Motors,       (* the motors on the bus *)
          Setups,       (* program, options and the motors it meets: see MCCommand *)
          ScanModels,   (* the models a Damiao scan tries *)
          MaxMishaps

(* What a command line or a request fixes before its program starts.       *)
SetupType ==
  [by : {"cli", "ws"}, vendor : STRING, mode : STRING, id : Nat, fid : Nat, new : Nat \X Nat,
   ids : Seq(Nat), hosts : Seq(Nat) \ {<<>>}, loops : Nat, flags : SUBSET STRING, batch : Seq(STRING),
   motors : [Motors -> [vendor : STRING, id : Nat, fid : Nat, power : {"on", "off"}, mute : SUBSET STRING]]]

(* The modes of the command lines; "control" is any motion of a protocol   *)
(* whose motions are alike.  What the gateway's operations know.           *)
Modes ==
  [damiao           |-> {"scan", "id-set", "read-param", "write-param", "enable", "disable", "control"},
   robstride        |-> {"scan", "id-set", "ping", "read-param", "get-protocol", "get-mode", "set-protocol",
                         "write-param", "save", "active-report", "zero-by-offset", "enable", "disable", "stop", "set-zero",
                         "clear-error", "pos-vel-pp", "pos-vel-csp", "pos-vel", "vel", "mit"},
   robstride_cia402 |-> {"scan", "set-protocol", "status", "enable", "disable", "quick-stop", "clear-error",
                         "set-zero", "watchdog", "get-protocol", "control"},
   robstride_mit    |-> {"scan", "status", "enable", "disable", "id-set", "set-zero", "clear-error", "set-mode",
                         "set-host-id", "set-protocol", "save", "active-report", "read-param", "write-param",
                         "get-protocol", "control"},
   hightorque       |-> {"scan", "read", "stop", "rezero", "conf-write", "brake", "timed-read", "move"},
   myactuator       |-> {"scan", "enable", "disable", "stop", "set-zero", "status", "current", "pos", "vel",
                         "version", "mode-query"},
   hexfellow        |-> {"scan", "enable", "disable", "status", "move"},
   cyberbeast       |-> {"scan", "reset", "control", "read-param", "write-param", "find-endpoint", "endpoint-map",
                         "keep-alive", "status", "monitor",
                         "enable", "disable", "estop", "clear-error", "set-zero"}]
ScanVendors   == {"damiao", "robstride", "hexfellow", "myactuator", "hightorque", "cyberbeast"}
VerifyVendors == ScanVendors \ {"cyberbeast"}
SetIdVendors  == {"damiao", "robstride"}

(* The ids of a scan are those of a range, each of them once.              *)
Accepted(s) ==
  /\ IsInjective(s.ids)
  /\ s.by = "cli" => /\ \/ s.vendor = "all" /\ s.mode = "scan"
                        \/ s.vendor \in DOMAIN Modes /\ s.mode \in Modes[s.vendor]
                     /\ "dm_device" \in s.flags => s.vendor = "damiao"
  /\ s.by = "ws" => \/ s.mode = "scan" /\ s.vendor \in ScanVendors
                    \/ s.mode = "batch_scan" /\ s.batch \in Seq(ScanVendors)
                    \/ s.mode = "verify" /\ s.vendor \in VerifyVendors
                    \/ s.mode = "set_id" /\ s.vendor \in SetIdVendors

ASSUME CommandAssumption ==
  /\ Setups \subseteq SetupType
  /\ ScanModels \in Seq(STRING) \ {<<>>} /\ MaxMishaps \in Nat
  /\ \A s \in Setups : Accepted(s)

VARIABLES setup, pc, status,
          open,       (* the program holds the bus *)
          vendor,     (* of the controller in use *)
          reg,        (* the motors it has registered: <<id, feedback id>> *)
          bound,      (* the last registration succeeded *)
          heard,      (* registered motors that hold a feedback frame *)
          hits,       (* what a scan has reported: <<vendor, id, feedback id>> *)
          motor,      (* ids, saved ids and power of each motor *)
          rescue,     (* where a failing step of a sub-scan goes on, 0 for nowhere *)
          caught,     (* the signal handler is installed *)
          stopping,   (* Ctrl-C was noted *)
          mishaps

controller == <<open, vendor, reg, bound, heard>>
signal     == <<caught, stopping>>
vars == <<setup, pc, status, controller, hits, motor, rescue, signal, mishaps>>

(***************************************************************************)
(* Steps.                                                                  *)
(***************************************************************************)
Step(op, id, fid, what, must) ==
  [op |-> op, id |-> id, fid |-> fid, what |-> what, arg |-> 0, must |-> must, unfound |-> FALSE]

Open(v)          == Step("open", 0, 0, v, TRUE)
Close            == Step("close", 0, 0, "", FALSE)
Shutdown         == Step("shutdown", 0, 0, "", FALSE)
Add(i, f)        == Step("add", i, f, "", TRUE)
Ask(i, f, what)  == Step("ask", i, f, what, TRUE)
Peek(i, f, what) == Step("ask", i, f, what, FALSE)
Check(i, f)      == Step("check", i, f, "regs", TRUE)
Send(i, what)    == Step("send", i, 0, what, TRUE)    (* one frame *)
Post(i, what)    == Step("send", i, 0, what, FALSE)
Call(i, what)    == Step("call", i, 0, what, TRUE)    (* and its acknowledgement *)
Try(i, what)     == Step("call", i, 0, what, FALSE)
Assign(i, what, value) == [Send(i, what) EXCEPT !.arg = value]
Catch            == Step("catch", 0, 0, "", FALSE)
Loop(i, what)    == Step("loop", i, 0, what, TRUE)
Refuse           == Step("refuse", 0, 0, "", TRUE)
TryOpen(i, v)    == [Step("open", i, 0, v, FALSE) EXCEPT !.unfound = TRUE]
TryAdd(i, f)     == [Step("add", i, f, "", FALSE) EXCEPT !.unfound = TRUE]
Probe(i, f, what) == [Step("probe", i, f, what, FALSE) EXCEPT !.unfound = TRUE]
ReadIds(i, f)    == [Probe(i, f, "regs") EXCEPT !.op = "read_ids"]
SkipIfHits(v, n) == [Step("skip_if_hits", 0, 0, v, FALSE) EXCEPT !.arg = n]
Rescue(n)        == [Step("rescue", 0, 0, "", FALSE) EXCEPT !.arg = n]

Each(seq, Steps(_)) == FlattenSeq([k \in DOMAIN seq |-> Steps(seq[k])])
Times(n, steps) == FlattenSeq([k \in 1..n |-> steps])
When(condition, steps) == IF condition THEN steps ELSE <<>>

(* A sub-scan whose error the caller drops: whatever fails in it, the next *)
(* one follows.                                                            *)
Attempt(steps) == <<Rescue(Len(steps) + 1)>> \o steps \o <<Rescue(0)>>

(***************************************************************************)
(* Damiao.                                                                 *)
(***************************************************************************)
FeedbackHints(base, i) ==
  LET Added(hints, f) == IF f \in ToSet(hints) THEN hints ELSE Append(hints, f)
  IN  Added(Added(Added(<<i + 16>>, base), 17), 23)

DamiaoCandidates(s, what) ==
  [i \in ToSet(s.ids) |-> Each(FeedbackHints(s.fid, i), LAMBDA f :
      Each(ScanModels, LAMBDA model : <<TryAdd(i, f), Probe(i, f, what)>>))]

DamiaoRegisterTries(s)   == DamiaoCandidates(s, "regs")
DamiaoFeedbackTries(s)   == DamiaoCandidates(s, "feedback")

DamiaoScan(s) ==
  LET registers == DamiaoRegisterTries(s)
      feedback  == DamiaoFeedbackTries(s)
  IN  <<Open("damiao")>> \o Each(s.ids, LAMBDA i : registers[i] \o feedback[i]) \o <<Close>>

(* On an adapter channel every id is registered first, then asked.         *)
DmDeviceScan(s) ==
  <<Open("damiao")>> \o Each(s.ids, LAMBDA i : <<TryAdd(i, i + 16)>>)
    \o Each(s.ids, LAMBDA i : <<Probe(i, i + 16, "feedback")>>)
    \o When("hard_exit" \notin s.flags, <<Close>>)

(* Mutant: stored and read back through the handle of the old ids.         *)
ChecksOldIds(s) ==
  <<Open("damiao"), Add(s.id, s.fid), Assign(s.id, "feedback_id", s.new[2]), Assign(s.id, "motor_id", s.new[1])>>
    \o When("store" \in s.flags, <<Send(s.id, "store")>>)
    \o When("verify" \in s.flags, <<Ask(s.id, s.fid, "regs")>>) \o <<Close>>

(* Writes the new ids through the old, then takes up the new ids to store  *)
(* and to read them back.                                                  *)
DamiaoIdSet(s) ==
  <<Open("damiao"), Add(s.id, s.fid)>>
    \o When(s.new[2] # s.fid, <<Assign(s.id, "feedback_id", s.new[2])>>)
    \o When(s.new[1] # s.id, <<Assign(s.id, "motor_id", s.new[1])>>)
    \o <<Close>>
    \o When(s.flags \cap {"store", "verify"} # {},
         <<Open("damiao"), Add(s.new[1], s.new[2])>>
           \o When("store" \in s.flags, <<Send(s.new[1], "store")>>)
           \o When("verify" \in s.flags, <<Check(s.new[1], s.new[2])>>)
           \o <<Close>>)

DamiaoParam(s) ==
  <<Open("damiao"), Add(s.id, s.fid)>>
    \o (IF s.mode = "read-param" THEN <<Ask(s.id, s.fid, "regs")>>
        ELSE <<Send(s.id, "param")>> \o When("verify" \in s.flags, <<Ask(s.id, s.fid, "regs")>>)
               \o When("store" \in s.flags, <<Send(s.id, "store")>>))
    \o <<Close>>

VerifyModel(s) == When("verify_model" \in s.flags, <<Ask(s.id, s.fid, "regs")>>)

DamiaoSession(s) ==
  <<Open("damiao"), Add(s.id, s.fid)>> \o VerifyModel(s)
    \o CASE s.mode = "enable"  -> Times(s.loops, <<Send(s.id, "start"), Peek(s.id, s.fid, "feedback")>>)
                                    \o <<Close>>
         [] s.mode = "disable" -> Times(s.loops, <<Send(s.id, "stop"), Peek(s.id, s.fid, "feedback")>>)
                                    \o <<Close>>
         [] OTHER -> <<Send(s.id, "start"), Peek(s.id, s.fid, "regs")>>
                       \o Times(s.loops, <<Send(s.id, "control")>>) \o <<Shutdown>>

Damiao(s) ==
  CASE s.mode = "scan"    -> IF "dm_device" \in s.flags THEN DmDeviceScan(s) ELSE DamiaoScan(s)
    [] s.mode = "id-set"  -> DamiaoIdSet(s)
    [] s.mode \in {"read-param", "write-param"} -> DamiaoParam(s)
    [] OTHER              -> DamiaoSession(s)

(***************************************************************************)
(* RobStride.                                                              *)
(***************************************************************************)
(* A controller of its own for each id and host id, by ping and then by    *)
(* parameter; and when nothing at all answered, every id is made to move.  *)
RobstrideProbes(s) ==
  Each(s.ids, LAMBDA i : Each(s.hosts, LAMBDA h :
    <<[TryOpen(i, "robstride") EXCEPT !.must = TRUE], [TryAdd(i, h) EXCEPT !.must = TRUE],
      Probe(i, h, "ping"), Probe(i, h, "param"), Close>>))

BlindPulse(s) ==
  <<Open("robstride")>>
    \o Each(s.ids, LAMBDA i :
         <<Add(i, s.hosts[1]), Try(i, "start"), Post(i, "param"), Post(i, "control"), Post(i, "control"),
           Try(i, "stop"), Probe(i, 0, "status")>>)
    \o <<Close>>

RobstrideScan(s) ==
  RobstrideProbes(s) \o <<SkipIfHits("robstride", Len(BlindPulse(s)))>> \o BlindPulse(s)

(* set_device_id pings first; the store goes to the old id.                *)
RobstrideIdSet(s) ==
  <<Open("robstride"), Add(s.id, s.fid), Ask(s.id, 0, "ping"), Assign(s.id, "motor_id", s.new[1])>>
    \o When("store" \in s.flags, <<Call(s.id, "store")>>)
    \o <<Peek(s.id, 0, "ping"), Close, Open("robstride"), Add(s.new[1], s.fid),
         Peek(s.new[1], 0, "ping"), Close>>

(* The modes that ask or set one thing and give the bus back.              *)
RobstrideOneShot(s) ==
  CASE s.mode = "ping"          -> <<Probe(s.id, 0, "ping"), Probe(s.id, 0, "param"), SkipIfHits("robstride", 1), Refuse>>
    [] s.mode \in {"read-param", "get-protocol", "get-mode"} -> <<Ask(s.id, 0, "param")>>
    [] s.mode = "set-protocol"  -> <<Call(s.id, "param")>>
    [] s.mode = "write-param"   -> <<Send(s.id, "param"), Ask(s.id, 0, "param")>>
                                     \o When("store" \in s.flags, <<Call(s.id, "store")>>)
    [] s.mode = "save"          -> <<Call(s.id, "store")>>
    [] s.mode = "active-report" -> <<Send(s.id, "param")>>
    [] OTHER                    -> <<>>

OneShots == {"ping", "read-param", "get-protocol", "get-mode", "set-protocol", "write-param", "save", "active-report",
             "zero-by-offset"}

(* ensure_control_mode disables the motor, then writes the mode and reads  *)
(* it back, three times at most.                                           *)
EnsureRunMode(s) ==
  When("ensure_mode" \in s.flags /\ s.mode \in {"mit", "pos-vel", "vel"},
       <<Try(s.id, "stop"), Ask(s.id, 0, "run_mode")>>)

EnableFirst(s) ==
  When(s.mode \notin {"disable", "stop", "set-zero", "clear-error", "pos-vel-pp", "pos-vel-csp"},
       <<Call(s.id, "start")>>)

(* Only with zero-exp: the motor is disabled, zeroed and read back.        *)
RobstrideSetZero(s) ==
  When("zero_exp" \in s.flags,
       <<Peek(s.id, 0, "param"), Try(s.id, "stop"), Send(s.id, "zero")>>
         \o When("store" \in s.flags, <<Call(s.id, "store")>>)
         \o <<Ask(s.id, 0, "param")>>)

(* An acknowledgement that does not come is only a warning here.           *)
RobstrideRound(s) ==
  CASE s.mode = "enable"      -> <<Send(s.id, "start")>>
    [] s.mode = "disable"     -> <<Send(s.id, "stop")>>
    [] s.mode = "stop"        -> <<Ask(s.id, 0, "param"), Send(s.id, "control")>>
    [] s.mode = "clear-error" -> <<Send(s.id, "stop")>>
    [] s.mode = "set-zero"    -> RobstrideSetZero(s)
    [] s.mode \in {"pos-vel-pp", "pos-vel-csp"} ->
         <<Send(s.id, "param"), Call(s.id, "start"), Send(s.id, "control")>>
    [] OTHER                  -> <<Send(s.id, "control")>>

(* Mutant: a motion ends without the shutdown.                             *)
OnlyCloses(s) == <<Close>>

RobstrideEnd(s) ==
  <<IF s.mode \in {"enable", "disable", "stop", "set-zero", "clear-error"} THEN Close ELSE Shutdown>>

Robstride(s) ==
  CASE s.mode = "scan"     -> RobstrideScan(s)
    [] s.mode = "id-set"   -> RobstrideIdSet(s)
    [] s.mode \in OneShots -> <<Open("robstride"), Add(s.id, s.fid)>> \o RobstrideOneShot(s) \o <<Close>>
    [] OTHER -> <<Open("robstride"), Add(s.id, s.fid)>> \o EnsureRunMode(s) \o EnableFirst(s)
                  \o Times(s.loops, RobstrideRound(s)) \o RobstrideEnd(s)

(***************************************************************************)
(* CyberBeast.                                                             *)
(***************************************************************************)
CyberScan(s) ==
  <<Open("cyberbeast")>>
    \o Each(s.ids, LAMBDA i : <<TryAdd(i, i), Probe(i, i, "status")>>) \o <<Shutdown>>

(* MotorAdder: the endpoint map, or a warm-up that is never fatal.         *)
CyberConnect(s) ==
  IF "map" \in s.flags THEN <<Add(s.id, s.id), Ask(s.id, s.id, "map")>>
  ELSE <<Add(s.id, s.id)>> \o When(s.mode # "estop", <<Peek(s.id, s.id, "warm_up")>>)

MitScaling(s) == When(s.mode # "status", <<Peek(s.id, s.id, "endpoint"), Peek(s.id, s.id, "endpoint")>>)

(* A latched fault, or a watchdog the loop cannot feed, ends the program   *)
(* if it can be read; a value that cannot be read blocks nothing.          *)
MotionPreconditions(s) ==
  When("map" \in s.flags,
       IF "faulted" \in s.flags THEN <<Ask(s.id, s.id, "obstacle")>>
       ELSE <<Peek(s.id, s.id, "endpoint"), Peek(s.id, s.id, "endpoint")>>)

(* Mutant: the handler is installed once the motor runs.                   *)
CatchesLate(s) ==
  MotionPreconditions(s) \o <<Post(s.id, "start"), Catch, Loop(s.id, "control"), Post(s.id, "stop"), Shutdown>>

CyberControl(s) ==
  MitScaling(s) \o MotionPreconditions(s)
    \o <<Catch, Post(s.id, "start"), Loop(s.id, "control"), Post(s.id, "stop"), Shutdown>>

CyberStatus(s) ==
  <<Peek(s.id, s.id, "status"), Peek(s.id, s.id, "status"), Peek(s.id, s.id, "status"),
    Peek(s.id, s.id, "endpoint"), Shutdown>>

CyberWriteParam(s) ==
  <<Peek(s.id, s.id, "endpoint"), Call(s.id, "setting"), Ask(s.id, s.id, "endpoint"), Shutdown>>

(* Mutant: each of them goes out as the stop that all motors obey.         *)
StopsAll(s) == <<Send(s.id, "estop"), Shutdown>>

CyberOneFrame(s) ==
  CASE s.mode = "enable"      -> <<Send(s.id, "start"), Close>>
    [] s.mode = "disable"     -> <<Send(s.id, "stop"), Shutdown>>
    [] s.mode = "estop"       -> <<Send(s.id, "estop"), Shutdown>>
    [] s.mode = "clear-error" -> <<Send(s.id, "clear"), Shutdown>>
    [] s.mode = "set-zero"    -> <<Send(s.id, "zero"), Shutdown>>

CyberReset(s) == <<Add(s.id, s.id), Send(s.id, "reset"), Shutdown>>

CyberReadParam(s) == <<Ask(s.id, s.id, "endpoint"), Shutdown>>

(* find-endpoint and endpoint-map: the map is asked for unless connecting  *)
(* has loaded it.                                                          *)
CyberMap(s) ==
  When("map" \notin s.flags \/ (s.mode = "endpoint-map" /\ "refresh" \in s.flags),
       <<Ask(s.id, s.id, "map")>>)
    \o <<Shutdown>>
CyberMonitor(s) == <<Add(s.id, s.id), Catch, Loop(s.id, "listen"), Shutdown>>
CyberKeepAlive(s) == <<Catch, Loop(s.id, "query"), Shutdown>>

CyberBeast(s) ==
  IF s.mode = "scan" THEN CyberScan(s)
  ELSE <<Open("cyberbeast")>> \o
    CASE s.mode = "reset"        -> CyberReset(s)
      [] s.mode = "monitor"      -> CyberMonitor(s)
      [] s.mode = "control"      -> CyberConnect(s) \o CyberControl(s)
      [] s.mode = "status"       -> CyberConnect(s) \o CyberStatus(s)
      [] s.mode = "read-param"   -> CyberConnect(s) \o CyberReadParam(s)
      [] s.mode = "write-param"  -> CyberConnect(s) \o CyberWriteParam(s)
      [] s.mode \in {"find-endpoint", "endpoint-map"} -> CyberConnect(s) \o CyberMap(s)
      [] s.mode = "keep-alive"   -> CyberConnect(s) \o CyberKeepAlive(s)
      [] OTHER                   -> CyberConnect(s) \o CyberOneFrame(s)

(***************************************************************************)
(* The RobStride CANopen and MIT protocols.                                *)
(***************************************************************************)
Cia402Scan(s) ==
  <<Open("robstride_cia402"), Send(0, "query")>>
    \o Each(s.ids, LAMBDA i : <<Probe(i, 0, "sdo"), Probe(i, 0, "sdo"), Probe(i, 0, "sdo")>>) \o <<Close>>

(* Only the modes that move the motor end with a shutdown.                 *)
Cia402Mode(s) ==
  CASE s.mode = "status"      -> <<Ask(s.id, 0, "sdo"), Close>>
    [] s.mode = "enable"      -> <<Call(s.id, "start"), Close>>
    [] s.mode = "disable"     -> <<Call(s.id, "stop"), Close>>
    [] s.mode = "quick-stop"  -> <<Call(s.id, "stop"), Close>>
    [] s.mode = "clear-error" -> <<Call(s.id, "clear"), Close>>
    [] s.mode = "set-zero"    -> <<Try(s.id, "stop"), Call(s.id, "param"), Call(s.id, "start"), Close>>
    [] s.mode = "watchdog"    -> <<Call(s.id, "param"), Close>>
    [] s.mode = "get-protocol" -> <<Ask(s.id, 0, "sdo"), Close>>
    [] OTHER -> Times(s.loops, <<Try(s.id, "stop"), Call(s.id, "param"), Call(s.id, "start"),
                                 Call(s.id, "control")>>) \o <<Shutdown>>

Cia402(s) ==
  CASE s.mode = "scan"         -> Cia402Scan(s)
    [] s.mode = "set-protocol" -> <<Open("robstride_cia402"), Send(0, "query"), Close>>
    [] OTHER -> <<Open("robstride_cia402"), Add(s.id, s.fid)>> \o Cia402Mode(s)

MitScan(s) ==
  <<Open("robstride_mit")>> \o Each(s.ids, LAMBDA i : <<Probe(i, 0, "fault")>>) \o <<Close>>

MitMode(s) ==
  CASE s.mode = "status"      -> <<Ask(s.id, 0, "fault"), Close>>
    [] s.mode = "enable"      -> <<Call(s.id, "start"), Close>>
    [] s.mode = "disable"     -> <<Call(s.id, "stop"), Close>>
    [] s.mode = "id-set"      -> <<[Call(s.id, "motor_id") EXCEPT !.arg = s.new[1]], Close>>
    [] s.mode \in {"set-zero", "clear-error", "set-mode", "set-host-id", "set-protocol", "save",
                   "active-report", "read-param", "write-param", "get-protocol"} -> <<Call(s.id, "param"), Close>>
    [] OTHER                  -> Times(s.loops, <<Call(s.id, "control")>>) \o <<Shutdown>>

Mit(s) ==
  IF s.mode = "scan" THEN MitScan(s)
  ELSE <<Open("robstride_mit"), Add(s.id, s.fid)>> \o MitMode(s)

(***************************************************************************)
(* HighTorque (bare frames, no controller), MyActuator and HexFellow.      *)
(***************************************************************************)
HighTorqueScan(s) ==
  <<Open("hightorque")>>
    \o Each(s.ids, LAMBDA i : <<Send(i, "query"), Probe(i, 0, "status")>>) \o <<Close>>

HighTorque(s) ==
  IF s.mode = "scan" THEN HighTorqueScan(s)
  ELSE <<Open("hightorque")>>
         \o (CASE s.mode = "read"   -> <<Send(s.id, "query"), Ask(s.id, 0, "status")>>
               [] s.mode = "stop"   -> Times(s.loops, <<Send(s.id, "stop")>>)
               [] s.mode = "rezero" -> Times(s.loops, <<Send(s.id, "zero"), Send(s.id, "store")>>)
               [] s.mode = "conf-write" -> Times(s.loops, <<Send(s.id, "store")>>)
               [] s.mode \in {"brake", "timed-read"} -> Times(s.loops, <<Send(s.id, "param")>>)
               [] OTHER -> Times(s.loops, <<Send(s.id, "start")>>))  (* a set-point starts it *)
         \o <<Close>>

MyActuatorScan(s) ==
  <<Open("myactuator")>>
    \o Each(s.ids, LAMBDA i : <<Add(i, 576 + i), Probe(i, 0, "version")>>) \o <<Close>>

(* Every mode but `disable' releases the brake first, and shuts the motor  *)
(* down at the end.                                                        *)
MyActuator(s) ==
  IF s.mode = "scan" THEN MyActuatorScan(s)
  ELSE <<Open("myactuator"), Add(s.id, s.fid)>>
         \o When(s.mode # "disable", <<Send(s.id, "start")>>)
         \o When(s.mode = "pos", <<Send(s.id, "control")>>)
         \o Times(s.loops, CASE s.mode = "enable"  -> <<Send(s.id, "start")>>
                              [] s.mode = "disable" -> <<Send(s.id, "stop")>>
                              [] s.mode = "status"  -> <<Send(s.id, "query"), Send(s.id, "query")>>
                              [] s.mode = "pos"     -> <<Send(s.id, "query"), Send(s.id, "query")>>
                              [] s.mode \in {"version", "mode-query"} -> <<Send(s.id, "query")>>
                              [] OTHER              -> <<Send(s.id, "control")>>)
         \o <<IF s.mode = "disable" THEN Close ELSE Shutdown>>

HexfellowScan(s) ==
  <<Open("hexfellow"), Send(0, "query")>>
    \o Each(s.ids, LAMBDA i : <<Probe(i, 0, "sdo"), Probe(i, 0, "sdo"), Probe(i, 0, "sdo"), Probe(i, 0, "sdo")>>)
    \o <<Close>>

(* The drive is switched off on the way to its mode.                       *)
HexfellowStart(i) == <<Send(0, "query"), Call(i, "param"), Call(i, "stop"), Call(i, "start")>>

Hexfellow(s) ==
  IF s.mode = "scan" THEN HexfellowScan(s)
  ELSE <<Open("hexfellow"), Add(s.id, s.fid)>>
         \o (CASE s.mode = "enable"  -> HexfellowStart(s.id)
               [] s.mode = "disable" -> <<Call(s.id, "stop")>>
               [] s.mode = "status"  -> <<Ask(s.id, 0, "sdo"), Ask(s.id, 0, "sdo")>>
               [] OTHER              -> HexfellowStart(s.id) \o <<Call(s.id, "control")>>)
         \o <<Close>>

(* --vendor all: one scan after the other; only the two RobStride variants *)
(* may fail without ending the rest.                                       *)
ScanAll(s) ==
  DamiaoScan(s) \o RobstrideScan(s) \o Attempt(Cia402Scan(s)) \o Attempt(MitScan(s))
    \o HighTorqueScan(s) \o MyActuatorScan(s)

(***************************************************************************)
(* The gateway: a scan, a check and an id change, on a controller of their *)
(* own beside the session's.                                               *)
(***************************************************************************)
WsDamiaoScan(s) ==
  LET registers == DamiaoRegisterTries(s)
      feedback  == DamiaoFeedbackTries(s)
  IN  <<Open("damiao")>>
        \o Each(s.ids, LAMBDA i : When("dm_device" \notin s.flags, registers[i]) \o feedback[i]) \o <<Close>>

(* Mutant: the first host id with a hit ends the scan, whatever is asked.  *)
FirstHostOnly(s) ==
  LET Pass(h) == <<Open("robstride")>>
                   \o Each(s.ids, LAMBDA i : <<TryAdd(i, h), Probe(i, h, "ping")>>) \o <<Close>>
  IN  Each(s.hosts, LAMBDA h : <<SkipIfHits("robstride", Len(Pass(h)))>> \o Pass(h))

(* One controller for each host id; the first host id with a hit ends the  *)
(* scan unless all are asked for.                                          *)
WsRobstrideScan(s) ==
  LET Pass(h) == <<Open("robstride")>>
                   \o Each(s.ids, LAMBDA i : <<TryAdd(i, h), Probe(i, h, "ping")>>
                              \o When("param_fallback" \in s.flags, <<Probe(i, h, "param")>>))
                   \o <<Close>>
  IN  Each(s.hosts, LAMBDA h : When("all_hosts" \notin s.flags, <<SkipIfHits("robstride", Len(Pass(h)))>>) \o Pass(h))

WsMyActuatorScan(s) ==
  <<Open("myactuator")>>
    \o Each(s.ids, LAMBDA i : <<TryAdd(i, 576 + i), Probe(i, 0, "version")>>) \o <<Close>>

(* This one does start and stop every id it tries.                         *)
WsCyberScan(s) ==
  <<Open("cyberbeast")>>
    \o Each(s.ids, LAMBDA i : <<TryAdd(i, i), Post(i, "start"), Probe(i, i, "status"), Post(i, "stop")>>)
    \o <<Shutdown>>

WsScan(s, v) ==
  CASE v = "damiao"     -> WsDamiaoScan(s)
    [] v = "robstride"  -> WsRobstrideScan(s)
    [] v = "hexfellow"  -> HexfellowScan(s)
    [] v = "myactuator" -> WsMyActuatorScan(s)
    [] v = "hightorque" -> HighTorqueScan(s)
    [] v = "cyberbeast" -> WsCyberScan(s)

(* Each request of a batch is a scan of its own, whatever the others do;   *)
(* that a batch fails when all of them did is left out.                    *)
WsBatchScan(s) == Each(s.batch, LAMBDA v : Attempt(WsScan(s, v)))

(* A check that comes to an answer reports what was found; only a Damiao   *)
(* check compares the ids.                                                 *)
WsVerifySteps(v, i, f) ==
  LET Confirm(what) == [Probe(i, 0, what) EXCEPT !.must = TRUE]
  IN  CASE v = "damiao"     -> Each(ScanModels, LAMBDA model :
                                 <<TryOpen(i, v), TryAdd(i, f), ReadIds(i, f), Close>>) \o <<SkipIfHits(v, 1), Refuse>>
        [] v = "robstride"  -> <<Open("robstride"), Add(i, f), Confirm("ping"), Close>>
        [] v = "hexfellow"  -> <<Open("hexfellow"), Add(i, f), Confirm("sdo"), Close>>
        [] v = "myactuator" -> <<Open("myactuator"), Add(i, f), Send(i, "query"), Confirm("version"), Close>>
        [] v = "hightorque" -> <<Open("hightorque"), Send(i, "query"), Probe(i, 0, "status"), Close>>

(* The store, if any, goes out under the old id.                           *)
WsDamiaoSetId(s) ==
  <<Open("damiao"), Add(s.id, s.fid)>>
    \o When(s.new[2] # s.fid, <<Assign(s.id, "feedback_id", s.new[2])>>)
    \o When(s.new[1] # s.id, <<Assign(s.id, "motor_id", s.new[1])>>)
    \o When("store" \in s.flags, <<Send(s.id, "store")>>) \o <<Close>>

WsRobstrideSetId(s) ==
  <<Open("robstride"), Add(s.id, s.fid), Ask(s.id, 0, "ping"), Assign(s.id, "motor_id", s.new[1]), Close>>

WsSetId(s) ==
  (IF s.vendor = "damiao" THEN WsDamiaoSetId(s) ELSE WsRobstrideSetId(s))
    \o When("verify" \in s.flags, WsVerifySteps(s.vendor, s.new[1], s.new[2]))

Gateway(s) ==
  CASE s.mode = "scan"       -> WsScan(s, s.vendor)
    [] s.mode = "batch_scan" -> WsBatchScan(s)
    [] s.mode = "verify"     -> WsVerifySteps(s.vendor, s.id, s.fid)
    [] s.mode = "set_id"     -> WsSetId(s)

CommandLine(s) ==
  CASE s.vendor = "all"               -> ScanAll(s)
    [] s.vendor = "damiao"            -> Damiao(s)
    [] s.vendor = "robstride"         -> Robstride(s)
    [] s.vendor = "robstride_cia402"  -> Cia402(s)
    [] s.vendor = "robstride_mit"     -> Mit(s)
    [] s.vendor = "hightorque"        -> HighTorque(s)
    [] s.vendor = "myactuator"        -> MyActuator(s)
    [] s.vendor = "hexfellow"         -> Hexfellow(s)
    [] s.vendor = "cyberbeast"        -> CyberBeast(s)

Program(s) == IF s.by = "ws" THEN Gateway(s) ELSE CommandLine(s)

Programs == [s \in Setups |-> Program(s)]

(***************************************************************************)
(* The motors, as the programs use them: a command reaches every motor of  *)
(* its protocol that has the id.                                           *)
(***************************************************************************)
Reached(st) == {m \in Motors : setup.motors[m].vendor = vendor /\ motor[m].id = st.id}

Answering(st) ==
  {m \in Reached(st) : /\ st.what \notin setup.motors[m].mute
                       /\ vendor = "robstride" => st.fid \in {0, motor[m].fid}}

(* Mutant: any registered motor takes the frame.                           *)
AllTake(m, st) == IF vendor = "damiao" THEN reg ELSE {<<st.id, st.fid>>}

(* Which registered motor a reply is handed to: a Damiao motor accepts any *)
(* frame with its feedback id or with the last four bits of its id.        *)
Takers(m, st) ==
  IF vendor = "damiao" THEN {r \in reg : r[2] = motor[m].fid \/ r[1] % 16 = motor[m].id % 16}
  ELSE {<<st.id, st.fid>>}

Told(r, st) ==
  CASE st.what = "start"       -> [r EXCEPT !.power = "on"]
    [] st.what \in {"stop", "reset"} -> [r EXCEPT !.power = "off"]
    [] st.what = "motor_id"    -> [r EXCEPT !.id = st.arg]
    [] st.what = "feedback_id" -> [r EXCEPT !.fid = st.arg]
    [] st.what = "store"       -> [r EXCEPT !.saved = <<r.id, r.fid>>,
                                            !.power = IF vendor = "damiao" THEN "off" ELSE @]
    [] OTHER                   -> r

AfterTelling(st) ==
  [m \in Motors |->
     IF st.what = "estop" /\ setup.motors[m].vendor = vendor THEN [motor[m] EXCEPT !.power = "off"]
     ELSE IF m \in Reached(st) THEN Told(motor[m], st) ELSE motor[m]]

(***************************************************************************)
(* Running a program.                                                      *)
(***************************************************************************)
Init ==
  /\ setup \in Setups
  /\ pc = 1 /\ status = "running"
  /\ open = FALSE /\ vendor = "none" /\ reg = {} /\ bound = FALSE /\ heard = {} /\ hits = {}
  /\ motor = [m \in Motors |-> LET r == setup.motors[m]
                                IN  [id |-> r.id, fid |-> r.fid, power |-> r.power, saved |-> <<r.id, r.fid>>]]
  /\ rescue = 0 /\ caught = FALSE /\ stopping = FALSE /\ mishaps = 0

Now == Programs[setup][pc]
Running(ops) == status = "running" /\ pc <= Len(Programs[setup]) /\ Now.op \in ops

(* Each scan counts its own finds, so that one of another protocol before  *)
(* it skips nothing.  (Here a protocol asked for twice in a batch is, the  *)
(* second time, asked only for what it has not found.)                     *)
Found(i) ==
  \E h \in hits : /\ h[1] = (IF Now.op = "open" THEN Now.what ELSE vendor)
                  /\ h[2] = i \/ Now.op = "read_ids"
(* A step about a motor found already, or that could not be registered.    *)
Skipped ==
  \/ Now.unfound /\ Found(Now.id)
  \/ Now.op \in {"ask", "check", "probe", "read_ids", "send", "call", "loop"} /\ ~bound

Advance == pc' = pc + 1 /\ UNCHANGED <<status, rescue>>

(* The controller is dropped, which stops its polling and nothing else.    *)
Fail ==
  /\ open' = FALSE
  /\ IF rescue # 0 THEN pc' = rescue /\ rescue' = 0 /\ UNCHANGED status
     ELSE status' = "failed" /\ UNCHANGED <<pc, rescue>>

FailOr(done) ==
  IF done \/ ~Now.must THEN Advance /\ UNCHANGED open ELSE Fail

Mishaps(n) == mishaps + n <= MaxMishaps /\ mishaps' = mishaps + n
Mishap     == Mishaps(1)

OpenBus ==
  /\ Running({"open"}) /\ ~Skipped
  /\ \/ /\ open' = TRUE /\ vendor' = Now.what /\ reg' = {} /\ heard' = {}
        /\ bound' = TRUE      (* a bare bus needs no registration *)
        /\ Advance /\ UNCHANGED mishaps
     \/ Mishap /\ bound' = FALSE /\ FailOr(FALSE) /\ UNCHANGED <<vendor, reg, heard>>
  /\ UNCHANGED <<setup, hits, motor, signal>>

(* add_motor refuses an id that is registered already.                     *)
AddMotor ==
  /\ Running({"add"}) /\ ~Skipped
  /\ bound' = (open /\ \A r \in reg : r[1] # Now.id)
  /\ reg' = IF bound' THEN reg \cup {<<Now.id, Now.fid>>} ELSE reg
  /\ FailOr(bound')
  /\ UNCHANGED <<setup, vendor, heard, hits, motor, signal, mishaps>>

Skip ==
  /\ Running({"open", "add", "ask", "check", "probe", "read_ids", "send", "call", "loop"}) /\ Skipped
  /\ Advance
  /\ UNCHANGED <<setup, controller, hits, motor, signal, mishaps>>

(* How often the drivers ask before they give up.                          *)
Attempts(what) ==
  CASE what = "run_mode" -> 3 [] what \in {"map", "endpoint", "obstacle", "warm_up"} -> 2 [] OTHER -> 1

(* Asks, and waits for the answer to be handed to the motor that asked.    *)
(* (The answer to "obstacle" is that there is one.)                        *)
Query ==
  /\ Running({"ask", "check", "probe", "read_ids"}) /\ ~Skipped
  /\ LET me      == <<Now.id, Now.fid>>
         replies == {r \in [of : Answering(Now), taker : reg \cup {me}] : r.taker \in Takers(r.of, Now)}
         Got(r)  == r.taker = me /\ (Now.op = "check" => motor[r.of].fid = Now.fid)
         Ids(r)  == IF Now.op = "read_ids" THEN <<motor[r.of].id, motor[r.of].fid>> ELSE me
         Outcome(answered, ids) ==
           /\ hits' = IF answered /\ Now.op \in {"probe", "read_ids"} THEN hits \cup {<<vendor>> \o ids} ELSE hits
           /\ FailOr(IF Now.what = "obstacle" THEN ~answered ELSE answered)
     IN  \/ /\ replies # {} /\ UNCHANGED mishaps
            /\ \E r \in replies :
                 /\ heard' = IF Now.what = "feedback" THEN heard \cup {r.taker} ELSE heard
                 /\ Outcome(IF Now.what = "feedback" THEN me \in heard' ELSE Got(r), Ids(r))
         \/ /\ \/ replies = {} /\ UNCHANGED mishaps
               \/ replies # {} /\ Mishaps(Attempts(Now.what))
            /\ Outcome(Now.what = "feedback" /\ me \in heard, me) /\ UNCHANGED heard
  /\ UNCHANGED <<setup, vendor, reg, bound, motor, signal>>

(* A frame the bus refuses, one that is lost, and an acknowledgement that  *)
(* does not come.                                                          *)
Tell ==
  /\ Running({"send", "call"}) /\ ~Skipped
  /\ LET known == Now.op = "send" \/ Reached(Now) # {}
     IN  \/ motor' = AfterTelling(Now) /\ FailOr(known) /\ UNCHANGED mishaps
         \/ Mishap /\ motor' = motor /\ FailOr(FALSE)
         \/ Mishap /\ motor' = motor /\ FailOr(Now.op = "send")
         \/ Now.op = "call" /\ Mishap /\ motor' = AfterTelling(Now) /\ FailOr(FALSE)
  /\ UNCHANGED <<setup, vendor, reg, bound, heard, hits, signal>>

(* A control loop runs until Ctrl-C, a keep-alive or a monitor also until  *)
(* its time is over.                                                       *)
LoopRound ==
  /\ Running({"loop"}) /\ ~Skipped
  /\ \/ /\ stopping \/ Now.what # "control"
        /\ Advance /\ UNCHANGED <<open, mishaps>>
     \/ Now.what # "listen" /\ Mishap /\ Fail
  /\ UNCHANGED <<setup, vendor, reg, bound, heard, hits, motor, signal>>

InstallHandler ==
  /\ Running({"catch"})
  /\ caught' = TRUE /\ Advance
  /\ UNCHANGED <<setup, controller, hits, motor, stopping, mishaps>>

CloseBus ==
  /\ Running({"close"})
  /\ open' = FALSE /\ Advance
  /\ UNCHANGED <<setup, vendor, reg, bound, heard, hits, motor, signal, mishaps>>

(* Disables the registered motors in the order of their ids.  A frame may  *)
(* be lost; a motor that refuses it ends the round, and the bus is closed  *)
(* over the rest.                                                          *)
ShutdownAll ==
  /\ Running({"shutdown"})
  /\ \E missed \in {{}} \cup {{r} : r \in reg} \cup {{q \in reg : q[1] >= r[1]} : r \in reg} :
       /\ IF missed = {} THEN UNCHANGED mishaps ELSE Mishap
       /\ motor' = [m \in Motors |->
                      IF /\ setup.motors[m].vendor = vendor
                         /\ \E r \in reg \ missed : r[1] = motor[m].id
                      THEN [motor[m] EXCEPT !.power = "off"] ELSE motor[m]]
  /\ open' = FALSE /\ Advance
  /\ UNCHANGED <<setup, vendor, reg, bound, heard, hits, signal>>

Turn ==
  /\ \/ /\ Running({"skip_if_hits"})
        /\ pc' = IF \E h \in hits : h[1] = Now.what THEN pc + 1 + Now.arg ELSE pc + 1
        /\ UNCHANGED <<status, rescue, open>>
     \/ /\ Running({"rescue"})
        /\ rescue' = IF Now.arg = 0 THEN 0 ELSE pc + Now.arg
        /\ pc' = pc + 1 /\ UNCHANGED <<status, open>>
     \/ Running({"refuse"}) /\ Fail
  /\ UNCHANGED <<setup, vendor, reg, bound, heard, hits, motor, signal, mishaps>>

Return ==
  /\ status = "running" /\ pc > Len(Programs[setup])
  /\ status' = "ok"
  /\ UNCHANGED <<setup, pc, controller, hits, motor, rescue, signal, mishaps>>

(* Without the handler the signal ends the process where it stands.        *)
Interrupt ==
  /\ status = "running" /\ setup.by = "cli" /\ ~stopping
  /\ IF caught THEN stopping' = TRUE /\ UNCHANGED status
     ELSE status' = "killed" /\ UNCHANGED stopping
  /\ UNCHANGED <<setup, pc, controller, hits, motor, rescue, caught, mishaps>>

Done == status # "running" /\ UNCHANGED vars

Next ==
  \/ OpenBus \/ AddMotor \/ Skip \/ Query \/ Tell \/ LoopRound \/ InstallHandler
  \/ CloseBus \/ ShutdownAll \/ Turn \/ Return \/ Interrupt \/ Done

Spec == Init /\ [][Next]_vars

(***************************************************************************)
(* Properties.                                                             *)
(***************************************************************************)
Scanning(s) == s.mode \in {"scan", "batch_scan"}
Ended       == status = "ok" /\ pc > Len(Programs[setup])
Clean       == Ended /\ mishaps = 0
Before(m)   == setup.motors[m]
Intact(m)   == /\ motor[m].power = Before(m).power /\ motor[m].id = Before(m).id
               /\ motor[m].fid = Before(m).fid /\ motor[m].saved = <<Before(m).id, Before(m).fid>>

(* Two motors of a protocol do not share an id. *)
OneMotorPerId ==
  \A s \in Setups : \A m, n \in Motors :
    s.motors[m].vendor = s.motors[n].vendor /\ s.motors[m].id = s.motors[n].id => m = n

(* What a scan of each protocol recognises a motor by.                     *)
RecognisedBy(v) ==
  CASE v = "damiao"    -> IF "dm_device" \in setup.flags THEN {"feedback"} ELSE {"regs"}
    [] v = "robstride" -> IF setup.by = "cli" \/ "param_fallback" \in setup.flags
                          THEN {"ping", "param"} ELSE {"ping"}
    [] v = "robstride_cia402" -> {"sdo"}
    [] v = "hexfellow"        -> {"sdo"}
    [] v = "robstride_mit"    -> {"fault"}
    [] v = "myactuator"       -> {"version"}
    [] OTHER                  -> {"status"}

(* No other id of the scan can take the motor's frames for its own.        *)
Unmistakable(m) ==
  Before(m).vendor = "damiao" =>
    \A i \in ToSet(setup.ids) \ {Before(m).id} : i % 16 # Before(m).id % 16 /\ i + 16 # Before(m).fid

(* Of `all', too: HexFellow and CyberBeast have no part in it.             *)
ScannedVendors ==
  CASE setup.mode = "batch_scan" -> ToSet(setup.batch)
    [] setup.vendor = "all"      -> {"damiao", "robstride", "robstride_cia402", "robstride_mit",
                                     "hightorque", "myactuator"}
    [] OTHER                     -> {setup.vendor}

ScannedFor(m) ==
  /\ Before(m).vendor \in ScannedVendors
  /\ Before(m).id \in ToSet(setup.ids)
  /\ Before(m).vendor = "robstride" => Before(m).fid \in ToSet(setup.hosts)

Reported(m) == \E h \in hits : h[1] = Before(m).vendor /\ h[2] = Before(m).id

StopsAtFirstHost ==
  setup.by = "ws" /\ "all_hosts" \notin setup.flags /\ \E h \in hits : h[1] = "robstride"

(* A Damiao scan that goes by feedback takes any frame handed to the id it *)
(* asks for its answer, whichever of the ids that share it it came from.   *)
StandsFor(h, m) ==
  /\ Before(m).vendor = h[1]
  /\ \/ Before(m).id = h[2]
     \/ /\ h[1] = "damiao" /\ "dm_device" \in setup.flags
        /\ Before(m).fid = h[3] \/ Before(m).id % 16 = h[2] % 16

(* A scan reports only motors that are there, whatever is lost, answers    *)
(* late or was registered before.                                          *)
ReportsAreReal ==
  Scanning(setup) => \A h \in hits : \E m \in Motors : StandsFor(h, m)

(* A scan that ends well, when nothing was lost, reports every motor of    *)
(* its ids that answers what the scan recognises motors by: on every host  *)
(* id, whatever another request of the batch or another protocol's scan    *)
(* before it came to.                                                      *)
ScanMissesNone ==
  Clean /\ Scanning(setup) =>
    \A m \in Motors :
      /\ ScannedFor(m) /\ Unmistakable(m)
      /\ ~(RecognisedBy(Before(m).vendor) \subseteq Before(m).mute)
      /\ Before(m).vendor = "robstride" => ~StopsAtFirstHost
      => Reported(m)

(* The id a command is for; those it may concern.                          *)
For(m)   == Before(m).vendor = setup.vendor /\ Before(m).id = setup.id
Renames  == setup.mode \in {"id-set", "set_id"}
Named    == {setup.id} \cup (IF Renames THEN {setup.new[1]} ELSE {})
Meant(m) == Before(m).vendor = setup.vendor /\ Before(m).id \in Named
Motions  == {"control", "mit", "pos-vel", "vel"}
Queries  == {"scan", "batch_scan", "verify", "ping", "read-param", "get-protocol", "get-mode", "status", "read",
             "timed-read", "version", "mode-query", "find-endpoint", "endpoint-map", "monitor", "keep-alive"}

(* What queries do to a motor: a RobStride scan that found none pulses     *)
(* every id it has tried (BlindPulse, whose own hits have no host); a      *)
(* CyberBeast command line ends in a shutdown, which only stops, and the   *)
(* gateway's scan starts and stops every id; MyActuator's queries release  *)
(* the brake and shut the motor down.                                      *)
Disturbed(m) ==
  \/ /\ Before(m).vendor = "robstride" /\ setup.by = "cli" /\ setup.mode = "scan"
     /\ ~\E h \in hits : h[1] = "robstride" /\ h[3] # 0
  \/ /\ Before(m).vendor = "cyberbeast"
     /\ setup.by = "ws" \/ (setup.vendor = "cyberbeast" /\ motor[m].power = "off")
  \/ Before(m).vendor = "myactuator" /\ setup.mode \in {"status", "version", "mode-query"}

(* A command does nothing to a motor of another id or protocol, whatever   *)
(* is lost or fails and wherever the program stops.  An emergency stop is  *)
(* for all.                                                                *)
LeavesOthersAlone ==
  ~Scanning(setup) /\ setup.mode # "estop" => \A m \in Motors : Meant(m) \/ Intact(m)

(* A query switches no motor on or off but those it disturbs in these      *)
(* ways, whatever is lost or fails and wherever it stops.                  *)
QueriesOnlyLook ==
  setup.mode \in Queries => \A m \in Motors : motor[m].power = Before(m).power \/ Disturbed(m)

(* What the CyberBeast command lines say of themselves: scan and status    *)
(* that "no StartMotor/StopMotor frame is sent", monitor that it "never    *)
(* transmits a frame".  A motor that ran before them runs after them.      *)
NoStopIsSent ==
  setup.vendor = "cyberbeast" /\ setup.by = "cli" /\ setup.mode \in {"scan", "status", "monitor"} =>
    \A m \in Motors : motor[m].power = Before(m).power

(* Both together: what a program changes is what it was asked to change.   *)
TouchesOnlyItsOwn == LeavesOthersAlone /\ QueriesOnlyLook

Acknowledged ==
  setup.vendor \in {"robstride_cia402", "robstride_mit", "hexfellow"} /\ setup.mode \in {"enable", "disable"}

(* A command that ends well leaves the motor it is for as it was asked to: *)
(* enabled, disabled, or stopped after a motion.  Where the protocol       *)
(* acknowledges the command this holds whatever was lost.  (With --loop 0  *)
(* nothing is sent.)                                                       *)
LeavesAsAsked ==
  /\ Clean \/ (Ended /\ Acknowledged)
  /\ setup.mode \in Motions \cup {"enable", "disable", "quick-stop"}
  /\ setup.vendor # "myactuator" /\ setup.loops # 0
  => \A m \in Motors : For(m) => motor[m].power = IF setup.mode = "enable" THEN "on" ELSE "off"

Changes    == setup.mode \in {"id-set", "set_id"} /\ "verify" \in setup.flags
Verified   == IF setup.by = "cli" THEN setup.vendor = "damiao"
              ELSE \E h \in hits : h[2] = setup.new[1] /\ (setup.vendor = "damiao" => h[3] = setup.new[2])

(* An id change that was verified has taken place, whichever of the writes *)
(* was lost, and what is stored is the ids from before or the new ones,    *)
(* never one of each.  Of a command line that lost nothing it is the new   *)
(* ones.                                                                   *)
VerifiedMeansMoved ==
  /\ Ended /\ Changes /\ Verified
  /\ \A m \in Motors : Before(m).vendor = setup.vendor => Before(m).id # setup.new[1]
  => \A m \in Motors : For(m) =>
       /\ motor[m].id = setup.new[1]
       /\ setup.vendor = "damiao" =>
            /\ motor[m].fid = setup.new[2]
            /\ motor[m].saved \in {<<Before(m).id, Before(m).fid>>, setup.new}
       /\ mishaps = 0 /\ setup.by = "cli" /\ "store" \in setup.flags => motor[m].saved = setup.new

(* A verified id change with "store", whoever made it, is saved under the  *)
(* new ids when nothing was lost.                                          *)
StoreIsSaved ==
  Clean /\ Changes /\ Verified /\ setup.vendor = "damiao" /\ "store" \in setup.flags =>
    \A m \in Motors : For(m) => motor[m].saved = setup.new

(* A CyberBeast loop that Ctrl-C ends without its handler has started      *)
(* nothing: the handler is in place before the motor is told to start.     *)
InterruptIsClean ==
  status = "killed" /\ setup.vendor = "cyberbeast" /\ setup.mode \in {"control", "monitor", "keep-alive"} =>
    \A m \in Motors : motor[m].power = Before(m).power

(* A Damiao scan finds a motor that reads no registers by its feedback.    *)
FeedbackFinds ==
  Clean /\ setup.vendor = "damiao" /\ setup.by = "cli" /\ setup.mode = "scan" =>
    \A m \in Motors : ScannedFor(m) /\ Unmistakable(m) /\ "feedback" \notin Before(m).mute => Reported(m)

=============================================================================
