------------------------------ MODULE SdoMotor ------------------------------
(***************************************************************************)
(* The three drivers that wait for a reply in a queue of replies: CANopen  *)
(* service data objects in robstride_cia402 and hexfellow, whose replies   *)
(* are told apart by the object, and robstride_mit, whose replies are told *)
(* apart by the identifier they come under.                                *)
(*                                                                         *)
(* A call is a list of exchanges still to do (todo).  A frame takes effect *)
(* when it is sent, or is lost; its reply waits in toHost until the        *)
(* polling thread queues it, and in replies until an exchange takes it.  A *)
(* wait may end in a timeout at any moment; without Late no reply to the   *)
(* caller is on its way then.                                              *)
(***************************************************************************)
EXTENDS Naturals, Sequences, FiniteSets

CONSTANTS
  Callers,      (* threads using the motor                                 *)
  Setups,       (* the set-ups considered, see SetupType                   *)
  MaxMishaps,   (* bound: frames lost and requests aborted in a behaviour  *)
  MaxReports,   (* bound: feedback the drive sends unasked                 *)
  MaxReplies,   (* bound: replies on their way                             *)
  Late          (* replies may arrive after the wait for them              *)

Drivers == {"cia402", "hexfellow", "mit"}
Modes == {"mit", "position", "velocity", "torque", "csp", "homing"}
None == "none"

Methods ==
  {"enable", "disable", "quick_stop", "clear_fault", "zero", "ensure_mode", "set_object",
   "command", "query", "query_fault", "set_mode", "set_id", "active_report", "param"}

(* calls[c]: what caller c may invoke, want[c]: with which modes; faults:  *)
(* CanBus::send may fail; power: of the drive at the start; present: it   *)
(* answers at all.                                                         *)
SetupType ==
  [driver : Drivers, calls : [Callers -> SUBSET Methods], want : [Callers -> SUBSET Modes],
   faults : BOOLEAN, power : {"off", "enabled"}, present : BOOLEAN]

ASSUME SdoAssumption ==
  /\ Setups \subseteq SetupType
  /\ MaxMishaps \in Nat /\ MaxReports \in Nat /\ MaxReplies \in Nat \ {0}
  /\ Late \in BOOLEAN

VARIABLES
  setup,                       (* the set-up, fixed for a behaviour        *)
  power, mode, target,         (* the drive: its state, its mode, the mode *)
                               (* its last motion target was for           *)
  toHost, mishaps, reports,    (* the wire, and the bounded counters       *)
  replies,                     (* sdo_reply_queue, response_queue          *)
  pc, op, want, todo,          (* each caller's call                       *)
  result,                      (* what the last call returned              *)
  alone, intact, since         (* history of the call, see Properties      *)

driveVars == <<setup, power, mode, target>>
wireVars == <<toHost, mishaps, reports>>
history == <<alone, intact, since>>
vars == <<driveVars, wireVars, replies, pc, op, want, todo, result, history>>

Init ==
  /\ setup \in Setups
  /\ power = setup.power /\ mode = "position" /\ target = None
  /\ toHost = <<>> /\ mishaps = 0 /\ reports = 0
  /\ replies = <<>>
  /\ pc = [c \in Callers |-> "idle"]
  /\ op = [c \in Callers |-> "query"] /\ want = [c \in Callers |-> "position"]
  /\ todo = [c \in Callers |-> <<>>]
  /\ result = [c \in Callers |-> None]
  /\ alone = [c \in Callers |-> TRUE] /\ intact = [c \in Callers |-> TRUE]
  /\ since = [c \in Callers |-> {}]

-----------------------------------------------------------------------------
(***************************************************************************)
(* Exchanges: a frame with its argument, the key a reply is found by, the  *)
(* sort of reply accepted, and whether a failure ends the call.            *)
(***************************************************************************)
Exchange(frame, arg, key, sort) ==
  [frame |-> frame, arg |-> arg, key |-> key, sort |-> sort, may_fail |-> FALSE]
Tolerated(x) == [x EXCEPT !.may_fail = TRUE]

SdoWrite(object, v) == Exchange(object, v, object, "ack")
SdoRead(object) == Exchange("upload", object, object, "value")
Control(word) == SdoWrite("controlword", word)
StartNode == Exchange("nmt", None, None, None)
Host(frame, arg) == Exchange(frame, arg, "host", "frame")       \* wait_host_feedback
Unique(frame) == Exchange(frame, None, "unique", "frame")       \* wait_unique_id_reply

SkipsReady == <<StartNode, Control("shutdown"), Control("enable")>>   \* mutant of EnableDrive
EnableDrive == <<StartNode, Control("shutdown"), Control("switch_on"), Control("enable")>>

PrepareModeDisabled(m) ==
  <<StartNode, Tolerated(Control("disable")), SdoWrite("mode", m)>>

(* HexFellow sets the mode first and does not disable. *)
EnsureModeEnabled(m) ==
  IF setup.driver = "hexfellow"
  THEN <<StartNode, SdoWrite("mode", m)>> \o Tail(EnableDrive)
  ELSE PrepareModeDisabled(m) \o EnableDrive

(* The limits, which count as one, are written between the mode and the    *)
(* enabling, the target last; in torque mode there is none.                *)
Cia402Command(m) ==
  PrepareModeDisabled(m)
    \o (IF m = "torque" THEN <<>> ELSE <<SdoWrite("limit", m)>>)
    \o EnableDrive \o <<SdoWrite("target", m)>>

(* HexFellow enables first.  A position is taken over when the set-point   *)
(* bit rises; the words of an MIT target take effect as they are written,  *)
(* before the gains and the limit.                                         *)
SetPoint == <<Control("immediate"), Control("new_setpoint"), Control("immediate")>>
MitTarget(m) ==
  <<SdoWrite("target", m), SdoWrite("target_velocity", m), SdoWrite("target_torque", m)>>
    \o <<SdoWrite("kp", m), SdoWrite("kd", m), SdoWrite("limit", m)>>
HexfellowTarget(m) ==
  IF m = "position" THEN <<SdoWrite("limit", m), SdoWrite("target", m)>> \o SetPoint
  ELSE MitTarget(m)
HexfellowCommand(m) == EnsureModeEnabled(m) \o HexfellowTarget(m)

Enable == Host("enable", None)
MitCommand(m) ==
  IF m = "mit" THEN <<Host("target", m)>>
  ELSE <<Host("mode", m), Enable, Host("target", m)>>

(* Values read in a row with the same tolerance count as one: in hexfellow *)
(* position and velocity must come, the torque need not.                   *)
Query ==
  CASE setup.driver = "cia402" ->
         <<SdoRead("mode_display"), SdoRead("statusword"), Tolerated(SdoRead("actual"))>>
    [] setup.driver = "hexfellow" ->
         <<SdoRead("mode_display"), SdoRead("statusword"), SdoRead("actual"),
           Tolerated(SdoRead("actual_torque"))>>
    [] OTHER -> <<Tolerated(Host("query_fault", None))>>

SdoScript(m, v) ==
  CASE m = "enable"      -> IF setup.driver = "hexfellow" THEN EnsureModeEnabled("position")
                            ELSE EnableDrive
    [] m = "disable"     -> <<Control(IF setup.driver = "hexfellow" THEN "shutdown"
                                      ELSE "disable")>>
    [] m = "quick_stop"  -> <<Control("quick_stop")>>
    [] m = "clear_fault" -> <<Control("fault_reset"), Control("zero")>>
    [] m = "zero"        -> PrepareModeDisabled("homing") \o <<Control("enable")>>
    [] m = "ensure_mode" -> EnsureModeEnabled(v)
    [] m = "set_mode"    -> <<SdoWrite("mode", v)>>
    [] m = "set_object"  -> <<SdoWrite("limit", v)>>   \* watchdog, position window
    [] m = "command"     -> IF setup.driver = "hexfellow" THEN HexfellowCommand(v)
                            ELSE Cia402Command(v)
    [] OTHER             -> Query

MitScript(m, v) ==
  CASE m = "enable"        -> <<Enable>>
    [] m = "disable"       -> <<Host("stop", None)>>
    [] m = "zero"          -> <<Host("zero", None)>>
    [] m = "clear_fault"   -> <<Host("clear", None)>>
    [] m = "query_fault"   -> <<Host("query_fault", None)>>
    [] m = "set_mode"      -> <<Host("mode", v)>>
    [] m = "set_id"        -> <<Unique("id")>>     \* also the protocol, the host, saving
    [] m = "active_report" -> <<Host("report", v)>>
    [] m = "command"       -> MitCommand(v)
    [] m = "param"         -> <<Exchange("param", None, "param", "frame")>>
    [] OTHER               -> Query

Script(m, v) == IF setup.driver = "mit" THEN MitScript(m, v) ELSE SdoScript(m, v)

-----------------------------------------------------------------------------
(***************************************************************************)
(* The drive and the wire.                                                 *)
(***************************************************************************)
PowerAfter(x) ==
  CASE x.frame = "enable" -> "enabled"
    [] x.frame = "stop" \/ x.arg \in {"disable", "quick_stop", "zero", "fault_reset"} -> "off"
    [] x.frame = "controlword" /\ x.arg = "shutdown" -> "ready"
    [] x.frame = "controlword" /\ x.arg = "switch_on" /\ power # "off" -> "switched"
    [] x.frame = "controlword" /\ x.arg = "enable" /\ power = "switched" -> "enabled"
    [] OTHER -> power

Reacts(x) ==
  /\ power' = PowerAfter(x)
  /\ mode' = IF x.frame = "mode" THEN x.arg ELSE mode
  /\ target' = IF x.frame = "target" THEN x.arg ELSE target
  /\ UNCHANGED setup

(* What the drive replies to x, after reacting: what it was asked for.     *)
Reply(c, x) ==
  IF x.key = None \/ ~setup.present THEN <<>>
  ELSE <<[key |-> x.key, sort |-> x.sort, of |-> x.frame, to |-> c,
          val |-> IF x.frame = "upload" /\ x.arg = "mode_display" THEN mode
                  ELSE IF x.frame = "upload" /\ x.arg = "statusword" THEN power
                  ELSE None]>>

Abort(c, x) == <<[key |-> x.key, sort |-> "abort", of |-> x.frame, to |-> c, val |-> None]>>

(* The frame is obeyed and answered, or aborted, or it or its reply lost.  *)
Sends(c, x) ==
  /\ Len(toHost) < MaxReplies
  /\ \/ /\ Reacts(x) /\ toHost' = toHost \o Reply(c, x)
        /\ UNCHANGED <<mishaps, intact>>
     \/ /\ setup.driver # "mit" /\ setup.present /\ x.key # None
        /\ mishaps < MaxMishaps /\ mishaps' = mishaps + 1
        /\ toHost' = toHost \o Abort(c, x)
        /\ intact' = [intact EXCEPT ![c] = FALSE]
        /\ UNCHANGED driveVars
     \/ /\ mishaps < MaxMishaps /\ mishaps' = mishaps + 1
        /\ Reacts(x) \/ UNCHANGED driveVars
        /\ intact' = [intact EXCEPT ![c] = FALSE]
        /\ UNCHANGED toHost
  /\ since' = [o \in Callers |-> IF o = c THEN {mode, power}
                                 ELSE IF pc[o] = "await" THEN since[o] \cup {mode', power'}
                                 ELSE {}]
  /\ UNCHANGED <<reports, alone>>

(* Active reporting of an MIT motor: feedback nobody waits for. *)
Reports ==
  /\ setup.driver = "mit" /\ reports < MaxReports /\ Len(toHost) < MaxReplies
  /\ toHost' = Append(toHost, [key |-> "host", sort |-> "frame", of |-> "report", val |-> None,
                               to |-> None])
  /\ reports' = reports + 1
  /\ UNCHANGED <<driveVars, mishaps, replies, pc, op, want, todo, result, history>>

ProcessFeedbackFrame ==
  /\ toHost # <<>>
  /\ replies' = Append(replies, Head(toHost)) /\ toHost' = Tail(toHost)
  /\ UNCHANGED <<driveVars, mishaps, reports, pc, op, want, todo, result, history>>

-----------------------------------------------------------------------------
(***************************************************************************)
(* Calls.                                                                  *)
(***************************************************************************)
Pending(c) == \E i \in DOMAIN toHost : toHost[i].to = c

Returns(c, r) ==
  /\ pc' = [pc EXCEPT ![c] = "idle"] /\ result' = [result EXCEPT ![c] = r]
  /\ todo' = [todo EXCEPT ![c] = <<>>] /\ op' = [op EXCEPT ![c] = "query"]
  /\ want' = [want EXCEPT ![c] = "position"]

NewCall(c) ==
  /\ pc[c] = "idle" /\ (Late \/ ~Pending(c))
  /\ \E m \in setup.calls[c], v \in setup.want[c] :
       /\ m \in {"set_mode", "ensure_mode", "command", "set_object"} \/ v = "position"
       /\ op' = [op EXCEPT ![c] = m] /\ want' = [want EXCEPT ![c] = v]
       /\ todo' = [todo EXCEPT ![c] = Script(m, v)]
  /\ pc' = [pc EXCEPT ![c] = "send"]
  /\ result' = [result EXCEPT ![c] = None]
  /\ alone' = [o \in Callers |-> IF o = c THEN \A p \in Callers : pc[p] = "idle"
                                 ELSE alone[o] /\ pc[o] = "idle"]
  /\ intact' = [intact EXCEPT ![c] = (setup.present /\ reports = 0)]
  /\ UNCHANGED <<driveVars, wireVars, replies, since>>

(* The exchange ended, well or badly. *)
Continue(c) ==
  IF Tail(todo[c]) = <<>> THEN Returns(c, "ok")
  ELSE /\ pc' = [pc EXCEPT ![c] = "send"] /\ todo' = [todo EXCEPT ![c] = Tail(@)]
       /\ UNCHANGED <<op, want, result>>

ToleratesAll(c) == Continue(c)   \* mutant of Failed: every failure is ignored
Repeats(c) ==   \* mutant of Failed: a failed exchange is tried again, without an end
  pc' = [pc EXCEPT ![c] = "send"] /\ UNCHANGED <<op, want, todo, result>>
Failed(c) == IF Head(todo[c]).may_fail THEN Continue(c) ELSE Returns(c, "err")

Send(c) ==
  LET x == Head(todo[c])
  IN /\ pc[c] = "send"
     /\ Sends(c, x)
     /\ IF x.key = None THEN Continue(c)
        ELSE pc' = [pc EXCEPT ![c] = "await"] /\ UNCHANGED <<op, want, todo, result>>
     /\ UNCHANGED replies

SendFails(c) ==
  /\ setup.faults /\ pc[c] = "send"
  /\ Failed(c)
  /\ intact' = [intact EXCEPT ![c] = FALSE]
  /\ UNCHANGED <<driveVars, wireVars, replies, alone, since>>

(* pop_matching_sdo_reply, pop_matching_response: the first reply with the *)
(* key; those before it go behind those after it.                          *)
Matching(key) == {i \in DOMAIN replies : replies[i].key = key}
First(key) == {i \in Matching(key) : \A j \in Matching(key) : i <= j}
ForgetsOthers(i) ==   \* mutant of TakeOut: replies to others before it are dropped
  SubSeq(replies, i + 1, Len(replies))
LeavesIt(i) == replies   \* mutant of TakeOut: the reply stays in the queue
TakeOut(i) == SubSeq(replies, i + 1, Len(replies)) \o SubSeq(replies, 1, i - 1)

AnySort(x, r) == TRUE   \* mutant of Accepted: an abort counts as success
Accepted(x, r) == r.sort = x.sort

PopReply(c) ==
  LET x == Head(todo[c])
  IN /\ pc[c] = "await"
     /\ \E i \in First(x.key) :
          /\ replies' = TakeOut(i)
          /\ IF Accepted(x, replies[i]) THEN Continue(c) ELSE Failed(c)
     /\ UNCHANGED <<driveVars, wireVars, history>>

MayTimeOut(c) == Matching(Head(todo[c]).key) = {} /\ (Late \/ ~Pending(c))

TimesOut(c) ==
  /\ pc[c] = "await" /\ MayTimeOut(c)
  /\ Failed(c)
  /\ UNCHANGED <<driveVars, wireVars, replies, history>>

Step(c) == Send(c) \/ SendFails(c) \/ PopReply(c) \/ TimesOut(c)

Next ==
  \/ \E c \in Callers : NewCall(c) \/ Step(c)
  \/ ProcessFeedbackFrame
  \/ Reports

(* Callers inside a method and the polling thread keep running. *)
Fairness == (\A c \in Callers : WF_vars(Step(c))) /\ WF_vars(ProcessFeedbackFrame)

SafeSpec == Init /\ [][Next]_vars
Spec == SafeSpec /\ Fairness

Writable == {"mode", "limit", "target", "target_velocity", "target_torque", "kp", "kd"}
Readable == {"mode_display", "statusword", "actual", "actual_torque"}
Objects == {"controlword"} \cup Writable \cup Readable
Words == {"shutdown", "switch_on", "enable", "disable", "quick_stop", "fault_reset", "zero",
          "immediate", "new_setpoint"}
Keys == Objects \cup {"host", "unique", "param"}
Sorts == {"ack", "value", "frame"}
Frames == Objects \cup {"upload", "nmt", "enable", "stop", "zero", "clear", "query_fault",
                        "id", "report", "param"}
Powers == {"off", "ready", "switched", "enabled"}
Exchanges ==
  {x \in [frame : Frames, arg : Modes \cup Words \cup Objects \cup {None}, key : Keys \cup {None},
          sort : Sorts \cup {None}, may_fail : BOOLEAN] :
     x.frame \in {"mode", "target"} => x.arg \in Modes}
Replies == [key : Keys, sort : Sorts \cup {None, "abort"}, of : Frames,
            val : Modes \cup Powers \cup {None}, to : Callers \cup {None}]

DriveTypes ==
  /\ setup \in Setups
  /\ power \in Powers /\ mode \in Modes /\ target \in Modes \cup {None}
WireTypes ==
  /\ toHost \in Seq(Replies) /\ Len(toHost) <= MaxReplies /\ replies \in Seq(Replies)
  /\ mishaps \in 0 .. MaxMishaps /\ reports \in 0 .. MaxReports
CallTypes ==
  /\ pc \in [Callers -> {"idle", "send", "await"}]
  /\ op \in [Callers -> Methods] /\ want \in [Callers -> Modes]
  /\ todo \in [Callers -> Seq(Exchanges)]
  /\ \A c \in Callers : pc[c] # "idle" => todo[c] # <<>>
  /\ result \in [Callers -> {None, "ok", "err"}]
HistoryTypes ==
  /\ alone \in [Callers -> BOOLEAN] /\ intact \in [Callers -> BOOLEAN]
  /\ since \in [Callers -> SUBSET (Modes \cup Powers)]
TypeOK == DriveTypes /\ WireTypes /\ CallTypes /\ HistoryTypes

-----------------------------------------------------------------------------
(***************************************************************************)
(* Properties.  alone[c]: no other call overlapped c's; intact[c]: no      *)
(* frame of it was lost or aborted, no send failed, nothing was reported   *)
(* before it; since[c]: what mode and power were since its last request.   *)
(***************************************************************************)
Ends(c, r) == pc[c] # "idle" /\ pc'[c] = "idle" /\ result'[c] = r

(* A call that returns Ok did what it is for, whatever was lost or aborted *)
(* on the way: a drive told to enable is enabled, one told to move is      *)
(* enabled in the mode, with the target, of the command.                   *)
Dynamic(c) == setup.driver = "mit" /\ want[c] = "mit"   \* one frame, in whatever mode
Done(c) ==
  CASE op[c] = "enable"  -> power' = "enabled"
    [] op[c] = "disable" -> power' # "enabled"
    [] op[c] \in {"set_mode", "ensure_mode"} -> mode' = want[c]
    [] op[c] = "command" -> /\ target' = want[c]
                            /\ Dynamic(c) \/ (mode' = want[c] /\ power' = "enabled")
    [] OTHER -> TRUE
OkMeansDone == [][\A c \in Callers : Ends(c, "ok") /\ alone[c] /\ reports = 0 => Done(c)]_vars

(* No motion target reaches an enabled drive in a mode it is not for.      *)
TargetFitsMode ==
  [][\A c \in Callers :
       /\ pc[c] = "send" /\ Head(todo[c]).frame = "target" /\ op[c] = "command"
       /\ alone[c] /\ reports = 0 /\ power = "enabled" /\ want[c] # "mit"
       => mode = want[c]]_vars

(* A call none of whose frames were lost or refused returns Ok, also       *)
(* beside another caller whose replies share the queue.                    *)
IntactSucceeds == [][\A c \in Callers : Ends(c, "err") => ~intact'[c] \/ reports > 0]_vars

(* The status a query returns is one the drive had since it was asked for. *)
QueryIsFresh ==
  [][\A c \in Callers : PopReply(c) =>
       \A i \in First(Head(todo[c]).key) :
         Accepted(Head(todo[c]), replies[i]) /\ replies[i].val # None
         => replies[i].of = Head(todo[c]).frame /\ replies[i].val \in since[c]]_vars

(* Every call returns, also when the drive never answers. *)
EveryCallReturns == \A c \in Callers : pc[c] # "idle" ~> pc[c] = "idle"
=============================================================================
