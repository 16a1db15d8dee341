--------------------------- MODULE RobstrideMotor ---------------------------
(***************************************************************************)
(* One RobStride motor as motor_vendors/robstride drives it: commands that *)
(* any later status frame acknowledges, tried once per candidate host id;  *)
(* parameters read through one pending slot; ensure_control_mode with its  *)
(* cached mode; controlled_stop.                                           *)
(*                                                                         *)
(* A call is a list of exchanges still to do (todo), each a frame and what *)
(* is waited for.  As in DamiaoMotor a frame takes effect when it is sent, *)
(* or is lost, its answer waits in toHost until process_feedback_frame,    *)
(* and a wait may end in a timeout at any moment; without Late no answer   *)
(* to a caller's frames is on its way when it begins a call or when a wait *)
(* of it times out.  The load of a sequence number and the send after it   *)
(* are one step.                                                           *)
(***************************************************************************)
EXTENDS Naturals, Sequences, FiniteSets

CONSTANTS
  Callers,         (* threads using the motor                              *)
  Setups,          (* the set-ups considered, see SetupType                *)
  Modes,           (* the values of run_mode in use                        *)
  NHosts,          (* length of host_id_candidates                         *)
  Attempts,        (* attempts of ensure_control_mode to switch and verify *)
  MaxLost,         (* bound: frames lost in a behaviour                    *)
  MaxAnswers,      (* bound: answers waiting to be processed               *)
  Late             (* answers may be processed after the wait for them     *)

ControlModes == {"mit", "pp", "velocity", "csp"}
Params == {"mode", "position"}
Unknown == "unknown"   (* a run_mode byte outside ControlMode; None; no parameter *)
NoValue == [of |-> Unknown, raw |-> Unknown]
Hosts == 1 .. NHosts
Methods == {"enable", "disable", "clear_error", "set_zero", "save", "set_protocol", "ping",
            "set_device_id", "set_mode", "velocity", "csp", "pp", "mit", "get", "ensure",
            "stop", "request", "active_report"}
Kinds == {"status", "value", "ping", "reply", "fault", "report"}
Reported == {"fault", "report"}   (* fault and active reports: no answers *)

(* calls[c]: what caller c may invoke; unasked: what the motor sends of its *)
(* own accord; faults: CanBus::send may fail; stubborn: the firmware       *)
(* ignores run_mode writes while torque is on; answers: the hosts it       *)
(* answers; writeAck: write_ack_timeout is not zero.                       *)
SetupType ==
  [calls : [Callers -> SUBSET Methods], unasked : SUBSET Reported, faults : BOOLEAN,
   stubborn : BOOLEAN, answers : SUBSET Hosts, writeAck : BOOLEAN]

ASSUME RobstrideAssumption ==
  /\ Setups \subseteq SetupType
  /\ Modes \subseteq ControlModes
  /\ NHosts \in Nat \ {0} /\ Attempts \in Nat \ {0}
  /\ MaxLost \in Nat /\ MaxAnswers \in Nat \ {0}
  /\ Late \in BOOLEAN

VARIABLES
  on, mode, still,          (* the motor: enabled, run_mode, and the modes *)
                            (* whose last command holds it still           *)
  setup,                    (* the set-up, fixed for a behaviour           *)
  toHost, lost,             (* answers on their way; frames lost so far    *)
  fresh,                    (* what came since a caller took its sequence number *)
  values, pending,          (* ParameterState                              *)
  pingReply, fault,         (* ping_reply and fault_report are Some        *)
  gains,                    (* last_mit_gains                              *)
  cached,                   (* current_mode                                *)
  pc, op, want, todo, host, tries,   (* each caller's call                 *)
  result, got,              (* what the last call returned                 *)
  obeyed, alone, lossless, modesSince   (* history of the call, see below  *)

motorVars == <<on, mode, still, setup>>
wireVars == <<toHost, lost>>
driverVars == <<values, pending, pingReply, fault, gains, cached>>
callVars == <<op, want>>
history == <<obeyed, alone, lossless, modesSince>>
vars == <<motorVars, wireVars, fresh, driverVars, pc, callVars, todo, host, tries, result,
          got, history>>

Init ==
  /\ on \in BOOLEAN /\ mode \in Modes /\ still = {}
  /\ setup \in Setups
  /\ toHost = <<>> /\ lost = 0
  /\ fresh = [c \in Callers |-> {}]
  /\ values = [p \in Params |-> NoValue]
  /\ pending = Unknown
  /\ pingReply = FALSE /\ fault = FALSE /\ gains = Unknown /\ cached = Unknown
  /\ pc = [c \in Callers |-> "idle"]
  /\ op = [c \in Callers |-> "get"] /\ want = [c \in Callers |-> mode]
  /\ todo = [c \in Callers |-> <<>>]
  /\ host = [c \in Callers |-> 1] /\ tries = [c \in Callers |-> 0]
  /\ result = [c \in Callers |-> "none"]
  /\ got = [c \in Callers |-> NoValue]
  /\ obeyed = [c \in Callers |-> FALSE]
  /\ alone = [c \in Callers |-> TRUE] /\ lossless = [c \in Callers |-> TRUE]
  /\ modesSince = [c \in Callers |-> {}]

-----------------------------------------------------------------------------
(***************************************************************************)
(* Exchanges and the calls made of them.                                   *)
(***************************************************************************)
Exchange(frame, arg, ack) == [frame |-> frame, arg |-> arg, ack |-> ack]

Plain(frame, arg) == Exchange(frame, arg, "none")          \* send_ext
Control(frame) == Exchange(frame, Unknown, "status")       \* send_with_status_ack
Respond(frame) == Exchange(frame, Unknown, "response")     \* send_with_response_ack
Read(p) == Exchange("read", p, "value")                    \* get_parameter
Ping == Exchange("ping", Unknown, "ping")

Write(frame, arg) == Exchange(frame, arg, IF setup.writeAck THEN "status" ELSE "none")

(* Velocity and acceleration limits are written only when they are finite *)
(* and positive, which withLimit says of this call's arguments.           *)
Positioning(m, withLimit) ==
  <<Write("mode", m), Control("enable")>>
    \o (IF withLimit THEN <<Write("limit", m)>> ELSE <<>>)
    \o <<Write("target", m)>>

Script(m, v, flag) ==
  CASE m \in {"enable", "disable"} -> <<Control(m)>>
    [] m = "clear_error"   -> <<Control("clear")>>
    [] m = "set_zero"      -> <<Control("zero"), Write("zero_sta", Unknown)>>
    [] m = "save"          -> <<Respond("save")>>
    [] m = "set_protocol"  -> IF flag THEN <<Respond("protocol")>>
                              ELSE <<Plain("protocol", Unknown)>>
    [] m = "ping"          -> <<Ping>>
    [] m = "set_device_id" -> <<Ping, Plain("id", Unknown)>>
    [] m = "set_mode"      -> <<Write("mode", v)>>
    [] m = "velocity"      -> <<Write("target", "velocity")>>
    [] m \in {"csp", "pp"} -> Positioning(m, flag)
    [] m = "mit"           -> <<Plain(IF flag THEN "weak" ELSE "firm", "mit")>>
    [] m = "get"           -> <<Read(IF flag THEN "mode" ELSE "position")>>
    [] m = "stop"          -> <<Read("mode")>>
    [] m = "active_report" -> <<Plain("active", Unknown)>>
    [] m = "request"       -> <<Plain("read", IF flag THEN "mode" ELSE "position")>>
    [] OTHER               -> <<Control("disable")>>   \* ensure, when it goes to the bus

(* controlled_stop once the mode is known: zero speed, zero speed limit,   *)
(* or the measured position as the target.                                 *)
StopScript(m) ==
  CASE m = "velocity" -> <<Write("halt", m)>>
    [] m = "pp"       -> <<Write("halt", m)>>
    [] m = "csp"      -> <<Read("position"), Write("halt", m)>>
    [] OTHER          -> <<Read("position"), Plain("hold", "mit")>>

(* The gains of a stop in MIT mode: the last ones unless they are missing  *)
(* or too small.  kp and kd are judged apart and alike.                    *)
LastGains == gains   \* mutant of HoldGains: the minimum is not enforced
HoldGains == IF gains = "firm" THEN "firm" ELSE "default"

-----------------------------------------------------------------------------
(***************************************************************************)
(* The motor and the wire.                                                 *)
(***************************************************************************)
Reacts(x) ==
  /\ on' = (x.frame = "enable" \/ (on /\ x.frame \notin {"disable", "clear"}))
  /\ mode' = IF x.frame = "mode" /\ ~(setup.stubborn /\ on) THEN x.arg ELSE mode
  /\ still' = IF \/ x.frame = "halt"
                 \/ x.frame = "hold" /\ HoldGains \in {"firm", "default"}
              THEN still \cup {x.arg}
              ELSE IF \/ x.frame \in {"limit", "weak", "firm", "hold"}
                      \/ x.frame = "target" /\ x.arg # "pp"
              THEN still \ {x.arg} ELSE still
  /\ UNCHANGED setup

Answer(c, x) ==
  LET frame(kind, p) ==
        <<[kind |-> kind, of |-> p, raw |-> IF p = "mode" THEN mode ELSE Unknown, to |-> c]>>
  IN CASE x.frame = "read"     -> frame("value", x.arg)
       [] x.frame = "ping"     -> frame("ping", Unknown)
       [] x.frame = "protocol" -> frame("reply", Unknown)
       [] x.frame \in {"id", "active"} -> <<>>
       [] OTHER                -> frame("status", Unknown)

(* A frame sent to host h: obeyed and answered, or the answer or the frame *)
(* itself is lost.                                                         *)
Sends(c, x, h) ==
  /\ Len(toHost) < MaxAnswers
  /\ \/ /\ Reacts(x) /\ UNCHANGED <<lost, lossless>>
        /\ obeyed' = [obeyed EXCEPT ![c] = TRUE]
        /\ toHost' = IF h \in setup.answers THEN toHost \o Answer(c, x) ELSE toHost
     \/ /\ lost < MaxLost /\ lost' = lost + 1
        /\ lossless' = [lossless EXCEPT ![c] = FALSE]
        /\ \/ Reacts(x) /\ obeyed' = [obeyed EXCEPT ![c] = TRUE]
           \/ UNCHANGED <<motorVars, obeyed>>
        /\ UNCHANGED toHost
  /\ modesSince' = [o \in Callers |->
                      IF o = c THEN (IF x.frame = "read" THEN {mode} ELSE {})
                      ELSE IF pc[o] = "await" THEN modesSince[o] \cup {mode'} ELSE {}]
  /\ UNCHANGED alone

(* Reports the host did not ask for: active reporting, faults. *)
Reports ==
  /\ Len(toHost) < MaxAnswers
  /\ \E k \in setup.unasked :
       /\ \A i \in DOMAIN toHost : toHost[i].kind # k
       /\ toHost' = Append(toHost, [kind |-> k, of |-> Unknown, raw |-> Unknown, to |-> Unknown])
  /\ UNCHANGED <<motorVars, lost, fresh, driverVars, pc, callVars, todo, host, tries, result,
                 got, history>>

(* process_feedback_frame_impl.  A parameter is filed under the pending id *)
(* if there is one; the bytes of another parameter decode to anything.     *)
FiledUnder(a) == IF pending # Unknown THEN pending ELSE a.of

ProcessFeedbackFrame ==
  /\ toHost # <<>>
  /\ LET a == Head(toHost)
     IN /\ fresh' = [c \in Callers |->
                       IF pc[c] # "await" THEN fresh[c] ELSE fresh[c] \cup {"any"}
                         \cup (IF a.kind \in {"status", "report"} THEN {"status"} ELSE {})]
        /\ pingReply' = (pingReply \/ a.kind = "ping")
        /\ fault' = (fault \/ a.kind = "fault")
        /\ IF a.kind = "value"
           THEN /\ pending' = Unknown
                /\ \E raw \in (IF FiledUnder(a) = a.of THEN {a.raw} ELSE Modes \cup {Unknown}) :
                     values' = [values EXCEPT ![FiledUnder(a)] = [of |-> a.of, raw |-> raw]]
           ELSE UNCHANGED <<pending, values>>
  /\ toHost' = Tail(toHost)
  /\ UNCHANGED <<motorVars, lost, gains, cached, pc, callVars, todo, host, tries, result, got,
                 history>>

-----------------------------------------------------------------------------
(***************************************************************************)
(* Calls.                                                                  *)
(***************************************************************************)
Goto(c, place) == pc' = [pc EXCEPT ![c] = place]
Returns(c, r) ==
  /\ Goto(c, "idle") /\ result' = [result EXCEPT ![c] = r]
  /\ todo' = [todo EXCEPT ![c] = <<>>] /\ host' = [host EXCEPT ![c] = 1]
  /\ tries' = [tries EXCEPT ![c] = 0]

(* What a step changes of the call when it stays within an exchange. *)
Waits(c, place) == Goto(c, place) /\ UNCHANGED <<todo, host, tries, result>>

NoAnswerFor(c) == \A i \in DOMAIN toHost : toHost[i].to # c

Perform(c, script) ==
  /\ todo' = [todo EXCEPT ![c] = script] /\ host' = [host EXCEPT ![c] = 1]
  /\ Goto(c, "send") /\ UNCHANGED result

(* ensure_control_mode first looks at the mode it verified last; every     *)
(* other method starts to send.                                            *)
NewCall(c) ==
  /\ pc[c] = "idle" /\ (Late \/ NoAnswerFor(c))
  /\ \E m \in setup.calls[c], v \in Modes, flag \in BOOLEAN :
       /\ m \in {"set_mode", "ensure"} \/ v = mode
       /\ flag => m \in {"csp", "pp", "mit", "get", "request", "set_protocol"}
       /\ m \in {"velocity", "csp", "pp", "mit"} => m \in Modes
       /\ op' = [op EXCEPT ![c] = m] /\ want' = [want EXCEPT ![c] = v]
       /\ todo' = [todo EXCEPT ![c] = Script(m, v, flag)]
       /\ Goto(c, IF m = "ensure" THEN "look" ELSE "send")
  /\ result' = [result EXCEPT ![c] = "none"]
  /\ got' = [got EXCEPT ![c] = NoValue]
  /\ obeyed' = [obeyed EXCEPT ![c] = FALSE]
  /\ alone' = [o \in Callers |-> IF o = c THEN \A p \in Callers : pc[p] = "idle"
                                 ELSE alone[o] /\ pc[o] = "idle"]
  /\ lossless' = [lossless EXCEPT ![c] = TRUE]
  /\ UNCHANGED <<motorVars, wireVars, fresh, driverVars, host, tries, modesSince>>

Look(c) ==
  /\ pc[c] = "look"
  /\ IF cached = want[c] THEN Returns(c, "ok")
     ELSE Waits(c, "send")
  /\ UNCHANGED <<motorVars, wireVars, fresh, driverVars, callVars, got, history>>

(* A round of ensure_control_mode: write the mode, read it back. *)
Round(c) == Perform(c, <<Write("mode", want[c]), Read("mode")>>)

NextRound(c) ==
  \/ /\ tries[c] + 1 < Attempts /\ Round(c)
     /\ tries' = [tries EXCEPT ![c] = @ + 1]
  \/ tries[c] + 1 >= Attempts /\ Returns(c, "err")

(* An exchange failed for good.  ensure_control_mode ignores a failing     *)
(* disable and repeats a failing round; elsewhere the error is returned.   *)
Failed(c) ==
  IF op[c] # "ensure" THEN Returns(c, "err")
  ELSE IF Head(todo[c]).frame = "disable" THEN Round(c) /\ UNCHANGED tries
  ELSE NextRound(c)

(* The exchange is over and v is what it read. *)
AnyMode(c, raw) == TRUE   \* mutant of Verified: the mode read back is not compared
Verified(c, raw) == raw = want[c]

Succeeded(c, v) ==
  LET last == Head(todo[c]).frame
      rest == Tail(todo[c])
  IN CASE op[c] = "ensure" /\ last = "disable" -> Round(c) /\ UNCHANGED <<tries, cached, fault>>
       [] op[c] = "ensure" /\ last = "read" ->
            IF Verified(c, v.raw)
            THEN Returns(c, "ok") /\ cached' = want[c] /\ UNCHANGED fault
            ELSE NextRound(c) /\ UNCHANGED <<cached, fault>>
       [] op[c] = "stop" /\ last = "read" /\ rest = <<>> ->
            /\ IF v.raw \in Modes THEN Perform(c, StopScript(v.raw)) /\ UNCHANGED tries
               ELSE Returns(c, "err")
            /\ UNCHANGED <<cached, fault>>
       [] OTHER ->
            /\ IF rest = <<>> THEN Returns(c, "ok") ELSE Perform(c, rest) /\ UNCHANGED tries
            /\ fault' = (fault /\ op[c] # "clear_error")
            /\ UNCHANGED cached

(* send_ext, after what the exchange forgets before it: the parameter or   *)
(* ping reply it will wait for, the statuses before its sequence number.   *)
KeepsOld(x) == values   \* mutant of Forget: the value read before stays
Forget(x) ==
  IF x.frame = "read" THEN [values EXCEPT ![x.arg] = NoValue]
  ELSE values

KeepsCount(c) == fresh   \* mutant of TakeSequence: the number of an earlier exchange
TakeSequence(c) == [fresh EXCEPT ![c] = {}]

Prepare(c, x) ==
  /\ values' = Forget(x)
  /\ pending' = IF x.frame = "read" THEN x.arg ELSE pending
  /\ pingReply' = (pingReply /\ x.frame # "ping")
  /\ fresh' = TakeSequence(c)

NewGains(x) ==
  IF x.frame = "hold" THEN HoldGains ELSE IF x.frame \in {"weak", "firm"} THEN x.frame ELSE gains

(* Only the exchanges tried with every candidate name a host of their own. *)
Send(c) ==
  LET x == Head(todo[c])
  IN /\ pc[c] = "send"
     /\ Prepare(c, x) /\ Sends(c, x, host[c])
     /\ gains' = NewGains(x)
     /\ IF x.ack = "none" THEN Succeeded(c, NoValue)
        ELSE Waits(c, "await") /\ UNCHANGED <<cached, fault>>
     /\ UNCHANGED <<callVars, got>>

(* The next candidate host, if there is one. *)
MoreHosts(c) == host[c] < NHosts

SameHost(c) ==   \* mutant of NextHost: the host does not advance
  IF MoreHosts(c) THEN Waits(c, "send") ELSE Failed(c)
NextHost(c) ==
  IF MoreHosts(c)
  THEN Goto(c, "send") /\ host' = [host EXCEPT ![c] = @ + 1] /\ UNCHANGED <<todo, tries, result>>
  ELSE Failed(c)

(* A send that fails ends a command; a read or a ping tries the next host. *)
SendFails(c) ==
  LET x == Head(todo[c])
  IN /\ setup.faults /\ pc[c] = "send"
     /\ Prepare(c, x)
     /\ IF x.ack \in {"value", "ping"} THEN NextHost(c) ELSE Failed(c)
     /\ UNCHANGED <<motorVars, wireVars, fault, gains, cached, callVars, got, history>>

Arrived(c) ==
  LET x == Head(todo[c])
  IN CASE x.ack = "status"   -> "status" \in fresh[c]
       [] x.ack = "response" -> fresh[c] # {}
       [] x.ack = "value"    -> values[x.arg].of # Unknown
       [] OTHER              -> pingReply

GotAnswer(c) ==
  LET v == IF Head(todo[c]).ack = "value" THEN values[Head(todo[c]).arg] ELSE NoValue
  IN /\ pc[c] = "await" /\ Arrived(c)
     /\ got' = [got EXCEPT ![c] = IF op[c] = "get" THEN v ELSE NoValue]
     /\ Succeeded(c, v)
     /\ UNCHANGED <<motorVars, wireVars, fresh, values, pending, pingReply, gains, callVars,
                    history>>

MayTimeOut(c) == ~Arrived(c) /\ (Late \/ NoAnswerFor(c))

TimesOut(c) ==
  /\ pc[c] = "await" /\ MayTimeOut(c)
  /\ NextHost(c)
  /\ UNCHANGED <<motorVars, wireVars, fresh, driverVars, callVars, got, history>>

Step(c) == Look(c) \/ Send(c) \/ SendFails(c) \/ GotAnswer(c) \/ TimesOut(c)

Next ==
  \/ \E c \in Callers : NewCall(c) \/ Step(c)
  \/ ProcessFeedbackFrame
  \/ Reports

(* Callers inside a method and the polling thread keep running; nobody has *)
(* to call and the motor owes no answer.                                   *)
Fairness == (\A c \in Callers : WF_vars(Step(c))) /\ WF_vars(ProcessFeedbackFrame)

SafeSpec == Init /\ [][Next]_vars
Spec == SafeSpec /\ Fairness

Frames == {"enable", "disable", "clear", "zero", "zero_sta", "save", "protocol", "id", "active",
           "mode", "limit", "target", "halt", "hold", "weak", "firm", "read", "ping"}
Exchanges ==
  {x \in [frame : Frames, arg : Modes \cup Params \cup {Unknown},
          ack : {"none", "status", "response", "value", "ping"}] :
     /\ x.frame \in {"mode", "halt", "hold"} => x.arg \in Modes
     /\ x.frame = "read" => x.arg \in Params
     /\ x.ack = "value" => x.frame = "read"}
Answers ==
  {a \in [kind : Kinds, of : Params \cup {Unknown}, raw : Modes \cup {Unknown},
          to : Callers \cup {Unknown}] : a.kind = "value" => a.of \in Params}
Filed == [of : Params \cup {Unknown}, raw : Modes \cup {Unknown}]

MotorTypes ==
  /\ on \in BOOLEAN /\ mode \in Modes /\ still \in SUBSET Modes /\ setup \in Setups
  /\ toHost \in Seq(Answers) /\ Len(toHost) <= MaxAnswers /\ lost \in 0 .. MaxLost
DriverTypes ==
  /\ fresh \in [Callers -> SUBSET {"status", "any"}]
  /\ values \in [Params -> Filed] /\ pending \in Params \cup {Unknown}
  /\ pingReply \in BOOLEAN /\ fault \in BOOLEAN
  /\ gains \in {Unknown, "weak", "firm", "default"} /\ cached \in Modes \cup {Unknown}
CallTypes ==
  /\ pc \in [Callers -> {"idle", "look", "send", "await"}]
  /\ op \in [Callers -> Methods] /\ want \in [Callers -> Modes]
  /\ todo \in [Callers -> Seq(Exchanges)]
  /\ \A c \in Callers : pc[c] # "idle" => todo[c] # <<>>
  /\ host \in [Callers -> Hosts] /\ tries \in [Callers -> 0 .. Attempts - 1]
  /\ result \in [Callers -> {"none", "ok", "err"}] /\ got \in [Callers -> Filed]
HistoryTypes ==
  /\ obeyed \in [Callers -> BOOLEAN] /\ alone \in [Callers -> BOOLEAN]
  /\ lossless \in [Callers -> BOOLEAN] /\ modesSince \in [Callers -> SUBSET Modes]
TypeOK == MotorTypes /\ DriverTypes /\ CallTypes /\ HistoryTypes

-----------------------------------------------------------------------------
(***************************************************************************)
(* Properties.  obeyed[c]: the motor obeyed a frame of c's call; alone[c]: *)
(* no other call overlapped it; lossless[c]: no frame of it was lost;      *)
(* modesSince[c]: the modes since its last read request.                   *)
(***************************************************************************)
ReturnsOk(c) == pc[c] # "idle" /\ pc'[c] = "idle" /\ result'[c] = "ok"
Undisturbed(c) == alone[c] /\ lossless'[c]

(* A call that consists of one acknowledged command returns Ok only if the *)
(* motor obeyed it, whatever was lost and whichever host it answers.       *)
Acknowledged == {"enable", "disable", "clear_error", "set_zero"}
OkMeansObeyed ==
  [][\A c \in Callers : ReturnsOk(c) /\ op[c] \in Acknowledged /\ alone[c] => obeyed[c]]_vars

(* A mode switch that ensure_control_mode made and verified holds when it  *)
(* returns, whatever was lost on the way.                                  *)
VerifiedModeHolds ==
  [][\A c \in Callers : ReturnsOk(c) /\ op[c] = "ensure" /\ pc[c] = "await" /\ alone[c]
       => mode' = want[c]]_vars

(* get_parameter returns the parameter it was asked for, with a value it   *)
(* had after the request, also beside a caller that sends commands.        *)
ReadsItsOwn ==
  [][\A c \in Callers : ReturnsOk(c) /\ op[c] = "get" =>
       /\ got'[c].of = Head(todo[c]).arg
       /\ got'[c].of = "mode" => got'[c].raw \in modesSince[c]]_vars

(* After a controlled_stop that nothing disturbed, the mode the motor is   *)
(* in is one whose command holds it still.                                 *)
StopHolds ==
  [][\A c \in Callers : ReturnsOk(c) /\ op[c] = "stop" /\ Undisturbed(c) => mode' \in still']_vars

(* Every call returns, also when the motor never answers. *)
EveryCallReturns == \A c \in Callers : pc[c] # "idle" ~> pc[c] = "idle"
=============================================================================
