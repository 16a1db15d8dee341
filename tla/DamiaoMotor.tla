----------------------------- MODULE DamiaoMotor -----------------------------
(***************************************************************************)
(* One Damiao motor as motor_vendors/damiao drives it: enable and disable  *)
(* with the software hint that guards set_zero_position, the CTRL_MODE     *)
(* register (rid 10) with acknowledged writes and fresh reads,             *)
(* ensure_control_mode, and store_parameters.                              *)
(*                                                                         *)
(* A frame sent to the motor takes effect in the step that sends it, or is *)
(* lost.  Its answer waits in a queue (adapter and polling thread) until   *)
(* process_feedback_frame_impl puts it in the cache the callers look at.   *)
(* Time is abstract: an answer is fresh for a caller if it was processed   *)
(* after the caller's request_at, and a wait may end at any moment in a    *)
(* timeout.  Without Late the queue is empty whenever a call begins and    *)
(* whenever a wait times out: answers are processed in time or lost.       *)
(***************************************************************************)
EXTENDS Naturals, Sequences, FiniteSets

CONSTANTS
  Callers,         (* threads using the motor                              *)
  Calls,           (* Calls[c]: the methods caller c may invoke            *)
  Modes,           (* the values of CTRL_MODE in use                       *)
  WriteAttempts,   (* WRITE_REGISTER_ACK_ATTEMPTS                          *)
  VerifyAttempts,  (* ENSURE_MODE_VERIFY_ATTEMPTS                          *)
  MaxLost,         (* bound: frames lost in a behaviour                    *)
  MaxAnswers,      (* bound: answers waiting to be processed               *)
  Late,            (* answers may be processed after the wait for them     *)
  Faults,          (* CanBus::send may fail                                *)
  StartsEnabled,   (* the motor may be enabled when the object is created  *)
  Serialized       (* one call at a time                                   *)

Channels == {"mit", "pos_vel", "vel", "force_pos"}
HoldModes == {"mit", "pos_vel", "force_pos"}
Methods == {"enable", "disable", "control", "set_zero", "get", "write", "ensure", "store"}

ASSUME DamiaoAssumption ==
  /\ Calls \in [Callers -> SUBSET Methods]
  /\ Modes \subseteq Channels
  /\ WriteAttempts \in Nat \ {0} /\ VerifyAttempts \in Nat \ {0}
  /\ MaxLost \in Nat /\ MaxAnswers \in Nat \ {0}
  /\ {Late, Faults, StartsEnabled, Serialized} \subseteq BOOLEAN

VARIABLES
  on, mode, moving,   (* the motor: enabled, CTRL_MODE, and the channels   *)
                      (* whose last command was not a still one            *)
  toHost,             (* answers on their way to the cache                 *)
  lost,               (* frames lost so far                                *)
  hint,               (* disabled_hint                                     *)
  cachedMode, cachedAck, cachedOn,   (* last reply, write ack and status   *)
  fresh,              (* kinds of answers processed since request_at       *)
  pc, op, want,       (* each caller's place, method and value             *)
  left,               (* command channels prepare_for_mode_switch has left *)
  writes, verifies,   (* attempts made by the two retry loops              *)
  held,               (* hold_position is Some                             *)
  expired,            (* the deadline of ensure_control_mode has passed    *)
  result,             (* what the last call returned                       *)
  modesSince          (* history: values of CTRL_MODE since the last read request *)

motorVars == <<on, mode, moving>>
cacheVars == <<cachedMode, cachedAck, cachedOn>>
callVars == <<op, want>>
loopVars == <<left, writes, verifies, held, expired>>
vars == <<motorVars, toHost, lost, hint, cacheVars, fresh, pc, callVars, loopVars,
          result, modesSince>>

Places == {"idle", "enable", "enabled", "disable", "disabled", "control", "zero", "read",
           "await reply", "hold", "await hold", "clear", "write", "arm", "await ack",
           "finish", "ask", "await state", "pre-disable", "store"}
Kinds == {"reply", "hold", "ack", "state"}

Init ==
  /\ on \in (IF StartsEnabled THEN BOOLEAN ELSE {FALSE})
  /\ mode \in Modes /\ moving \in SUBSET Modes
  /\ toHost = <<>> /\ lost = 0
  /\ hint = TRUE
  /\ cachedMode = mode /\ cachedAck = mode /\ cachedOn = FALSE
  /\ fresh = [c \in Callers |-> {}]
  /\ pc = [c \in Callers |-> "idle"]
  /\ op = [c \in Callers |-> "get"]
  /\ want = [c \in Callers |-> mode]
  /\ left = [c \in Callers |-> <<>>]
  /\ writes = [c \in Callers |-> 0] /\ verifies = [c \in Callers |-> 0]
  /\ held = [c \in Callers |-> FALSE] /\ expired = [c \in Callers |-> FALSE]
  /\ result = [c \in Callers |-> "none"]
  /\ modesSince = [c \in Callers |-> {}]

(***************************************************************************)
(* The motor and the wire.                                                 *)
(***************************************************************************)
Reacts(k, v) ==
  /\ on' = (k = "enable" \/ (on /\ k # "disable"))
  /\ mode' = IF k = "write" THEN v ELSE mode
  /\ moving' = IF k = "move" THEN moving \cup {v}
               ELSE IF k = "still" THEN moving \ {v} ELSE moving

Answer(k, v) ==
  CASE k = "read"  -> <<[kind |-> "reply", mode |-> mode, on |-> on]>>
    [] k = "rhold" -> <<[kind |-> "hold", mode |-> mode, on |-> on]>>
    [] k = "write" -> <<[kind |-> "ack", mode |-> v, on |-> on]>>
    [] k = "ask"   -> <<[kind |-> "state", mode |-> mode, on |-> on]>>
    [] OTHER       -> <<>>

(* send_raw returned Ok: the motor got the frame and its answer is on the  *)
(* way, or the answer or the frame itself was lost.                        *)
Sends(k, v) ==
  /\ Len(toHost) < MaxAnswers
  /\ \/ Reacts(k, v) /\ toHost' = toHost \o Answer(k, v) /\ UNCHANGED lost
     \/ lost < MaxLost /\ lost' = lost + 1 /\ Reacts(k, v) /\ UNCHANGED toHost
     \/ lost < MaxLost /\ lost' = lost + 1 /\ UNCHANGED <<motorVars, toHost>>
  /\ modesSince' = [c \in Callers |->
                      IF pc[c] = "await reply" THEN modesSince[c] \cup {mode'} ELSE {}]

(* A motor answers every command with a status frame; one that nobody      *)
(* asked for is modelled as a report of its own.                           *)
Reports ==
  /\ \A i \in DOMAIN toHost : toHost[i].kind # "state"
  /\ Len(toHost) < MaxAnswers
  /\ toHost' = Append(toHost, [kind |-> "state", mode |-> mode, on |-> on])
  /\ UNCHANGED <<motorVars, lost, hint, cacheVars, fresh, pc, callVars, loopVars,
                 result, modesSince>>

(* process_feedback_frame_impl: the answer is stamped with the present.    *)
ProcessFeedbackFrame ==
  /\ toHost # <<>>
  /\ LET a == Head(toHost)
     IN /\ cachedMode' = IF a.kind = "reply" THEN a.mode ELSE cachedMode
        /\ cachedAck' = IF a.kind = "ack" THEN a.mode ELSE cachedAck
        /\ cachedOn' = IF a.kind = "state" THEN a.on ELSE cachedOn
        /\ fresh' = [c \in Callers |-> fresh[c] \cup {a.kind}]
  /\ toHost' = Tail(toHost)
  /\ UNCHANGED <<motorVars, lost, hint, pc, callVars, loopVars, result, modesSince>>

(***************************************************************************)
(* Calls.                                                                  *)
(***************************************************************************)
Begin(c, m) ==
  /\ m \in Calls[c] /\ pc[c] = "idle"
  /\ Serialized => \A o \in Callers : pc[o] = "idle"
  /\ Late \/ toHost = <<>>
  /\ op' = [op EXCEPT ![c] = m]
  /\ writes' = [writes EXCEPT ![c] = 0] /\ verifies' = [verifies EXCEPT ![c] = 0]
  /\ held' = [held EXCEPT ![c] = FALSE] /\ expired' = [expired EXCEPT ![c] = FALSE]
  /\ result' = [result EXCEPT ![c] = "none"]
  /\ UNCHANGED <<motorVars, toHost, lost, hint, cacheVars, fresh, left, modesSince>>

Goto(c, place) == pc' = [pc EXCEPT ![c] = place]
Returns(c, r) == Goto(c, "idle") /\ result' = [result EXCEPT ![c] = r]

Plain(c) ==
  \E m \in {"enable", "disable"} : Begin(c, m) /\ Goto(c, m) /\ UNCHANGED want

WithMode(c) ==
  \E m \in {"control", "write", "ensure"}, v \in Modes :
    /\ Begin(c, m) /\ want' = [want EXCEPT ![c] = v]
    /\ Goto(c, IF m = "ensure" THEN "read" ELSE m)

Get(c) == Begin(c, "get") /\ Goto(c, "read") /\ UNCHANGED want
Store(c) == Begin(c, "store") /\ Goto(c, "ask") /\ UNCHANGED want

MayZero == hint

(* set_zero_position loads the hint first; what follows only sends.        *)
SetZero(c) == Begin(c, "set_zero") /\ MayZero /\ Goto(c, "zero") /\ UNCHANGED want

NewCall(c) == Plain(c) \/ WithMode(c) \/ Get(c) \/ Store(c) \/ SetZero(c)

(***************************************************************************)
(* Steps of a call.  A send that fails leaves with the error, except where *)
(* the code ignores it.                                                    *)
(***************************************************************************)
SendFails(c) ==
  /\ Faults
  /\ pc[c] \in {"enable", "disable", "control", "zero", "read", "write", "finish",
                "pre-disable", "store"}
  /\ Returns(c, "err")
  /\ UNCHANGED <<motorVars, toHost, lost, hint, cacheVars, fresh, callVars, loopVars,
                 modesSince>>

(* enable and disable: the hint follows the frame in a step of its own.    *)
Switch(c) ==
  /\ \/ pc[c] = "enable" /\ Sends("enable", mode) /\ Goto(c, "enabled")
     \/ pc[c] \in {"disable", "pre-disable"} /\ Sends("disable", mode) /\ Goto(c, "disabled")
  /\ UNCHANGED <<hint, cacheVars, fresh, callVars, loopVars, result>>

SetHint(c) ==
  /\ pc[c] \in {"enabled", "disabled"}
  /\ hint' = (pc[c] = "disabled")
  /\ IF op[c] = "store" THEN Goto(c, "store") /\ UNCHANGED result ELSE Returns(c, "ok")
  /\ UNCHANGED <<motorVars, toHost, lost, cacheVars, fresh, callVars, loopVars, modesSince>>

(* send_cmd_*, set_zero_position and the store command itself.             *)
SingleFrame(c) ==
  /\ \/ pc[c] = "control" /\ Sends("move", want[c])
     \/ pc[c] \in {"zero", "store"} /\ Sends(pc[c], mode)
  /\ Returns(c, "ok")
  /\ UNCHANGED <<hint, cacheVars, fresh, callVars, loopVars>>

(* capped_remaining: once it is None it stays None. *)
Remaining(c) == ~expired[c] /\ UNCHANGED expired
NoTimeLeft(c) == op[c] = "ensure" /\ expired' = [expired EXCEPT ![c] = TRUE]

(* wait_for_register_value takes request_at before it sends. *)
ReadRequest(c) ==
  /\ pc[c] = "read" /\ Remaining(c)
  /\ fresh' = [fresh EXCEPT ![c] = {}]
  /\ Len(toHost) < MaxAnswers
  /\ modesSince' = [modesSince EXCEPT ![c] = {mode}]
  /\ UNCHANGED <<motorVars>>
  /\ \/ toHost' = toHost \o Answer("read", mode) /\ UNCHANGED lost
     \/ lost < MaxLost /\ lost' = lost + 1 /\ UNCHANGED toHost
  /\ Goto(c, "await reply")
  /\ UNCHANGED <<hint, cacheVars, callVars, left, writes, verifies, held, result>>

ReadOutOfTime(c) ==
  /\ pc[c] = "read" /\ NoTimeLeft(c)
  /\ Returns(c, "err")
  /\ UNCHANGED <<motorVars, toHost, lost, hint, cacheVars, fresh, callVars, left, writes,
                 verifies, held, modesSince>>

AnyCached(c, kind) ==   \* mutant of Answered: the time stamps are not compared
  kind \in fresh[c] \/ kind = "reply"
Answered(c, kind) == kind \in fresh[c]

WaitsOn(c, kind) == FALSE   \* mutant of MayTimeOut: the deadline is never checked
MayTimeOut(c, kind) ==
  kind \notin fresh[c] /\ (Late \/ \A i \in DOMAIN toHost : toHost[i].kind # kind)

(* prepare_for_mode_switch stills every command channel, in this order.    *)
SkipsOne == <<"vel", "pos_vel", "mit">>   \* mutant of ClearOrder: force_pos is missing
ClearOrder == <<"vel", "pos_vel", "force_pos", "mit">>

(* Where ensure_control_mode goes when CTRL_MODE did not read as wanted:   *)
(* into the switch after the first read, else a new write, else out.       *)
NotYet(c) ==
  \/ /\ op[c] = "get" \/ verifies[c] = VerifyAttempts
     /\ Returns(c, "err") /\ UNCHANGED <<left, writes>>
  \/ /\ op[c] = "ensure" /\ verifies[c] = 0
     /\ Goto(c, IF want[c] \in HoldModes THEN "hold" ELSE "clear")
     /\ left' = [left EXCEPT ![c] = ClearOrder]
     /\ UNCHANGED <<writes, result>>
  \/ /\ op[c] = "ensure" /\ verifies[c] \in 1 .. VerifyAttempts - 1
     /\ Goto(c, "write") /\ writes' = [writes EXCEPT ![c] = 0]
     /\ UNCHANGED <<left, result>>

GotReply(c) ==
  /\ pc[c] = "await reply" /\ Answered(c, "reply")
  /\ IF op[c] = "get" \/ cachedMode = want[c]
     THEN Returns(c, "ok") /\ UNCHANGED <<left, writes>>
     ELSE NotYet(c)
  /\ UNCHANGED <<motorVars, toHost, lost, hint, cacheVars, fresh, callVars, verifies, held,
                 expired, modesSince>>

NoReply(c) ==
  /\ pc[c] = "await reply" /\ MayTimeOut(c, "reply")
  /\ NotYet(c)
  /\ UNCHANGED <<motorVars, toHost, lost, hint, cacheVars, fresh, callVars, verifies, held,
                 expired, modesSince>>

(* prepare_for_mode_switch: the hold position is read once if time is left *)
(* and used if it arrives; nothing that fails here stops the switch.       *)
HoldRequest(c) ==
  /\ pc[c] = "hold" /\ Remaining(c)
  /\ Sends("rhold", mode)
  /\ fresh' = [fresh EXCEPT ![c] = {}]
  /\ Goto(c, "await hold")
  /\ UNCHANGED <<hint, cacheVars, callVars, left, writes, verifies, held, result>>

NoHold(c) ==
  /\ \/ pc[c] = "hold" /\ NoTimeLeft(c)
     \/ pc[c] = "hold" /\ Faults /\ UNCHANGED expired
     \/ pc[c] = "await hold" /\ MayTimeOut(c, "hold") /\ UNCHANGED expired
  /\ Goto(c, "clear")
  /\ UNCHANGED <<motorVars, toHost, lost, hint, cacheVars, fresh, callVars, left, writes,
                 verifies, held, result, modesSince>>

GotHold(c) ==
  /\ pc[c] = "await hold" /\ Answered(c, "hold")
  /\ held' = [held EXCEPT ![c] = TRUE]
  /\ Goto(c, "clear")
  /\ UNCHANGED <<motorVars, toHost, lost, hint, cacheVars, fresh, callVars, left, writes,
                 verifies, expired, result, modesSince>>

Clear(c) ==
  /\ pc[c] = "clear"
  /\ \/ Sends("still", Head(left[c]))
     \/ Faults /\ UNCHANGED <<motorVars, toHost, lost, modesSince>>
  /\ left' = [left EXCEPT ![c] = Tail(@)]
  /\ Goto(c, IF Len(left[c]) = 1 THEN "write" ELSE "clear")
  /\ UNCHANGED <<hint, cacheVars, fresh, callVars, writes, verifies, held, expired, result>>

(* write_register_u32: the frame is sent, and only then does               *)
(* wait_for_write_ack take its request_at, so an ack processed between the *)
(* two is not seen and the write is repeated.                              *)
WriteRequest(c) ==
  /\ pc[c] = "write"
  /\ Sends("write", want[c])
  /\ Goto(c, "arm")
  /\ UNCHANGED <<hint, cacheVars, fresh, callVars, loopVars, result>>

ArmAckWait(c) ==
  /\ pc[c] = "arm"
  /\ fresh' = [fresh EXCEPT ![c] = {}]
  /\ Goto(c, "await ack")
  /\ UNCHANGED <<motorVars, toHost, lost, hint, cacheVars, callVars, loopVars, result,
                 modesSince>>

GotAck(c) ==
  /\ pc[c] = "await ack" /\ Answered(c, "ack") /\ cachedAck = want[c]
  /\ IF op[c] = "write" THEN Returns(c, "ok") ELSE Goto(c, "finish") /\ UNCHANGED result
  /\ UNCHANGED <<motorVars, toHost, lost, hint, cacheVars, fresh, callVars, loopVars,
                 modesSince>>

MoreWrites(c) == writes[c] + 1 < WriteAttempts

(* A timeout and a mismatched ack are retried alike. *)
NoAck(c) ==
  /\ pc[c] = "await ack"
  /\ MayTimeOut(c, "ack") \/ (Answered(c, "ack") /\ cachedAck # want[c])
  /\ writes' = [writes EXCEPT ![c] = @ + 1]
  /\ IF MoreWrites(c) THEN Goto(c, "write") /\ UNCHANGED result
     ELSE Returns(c, "err")
  /\ UNCHANGED <<motorVars, toHost, lost, hint, cacheVars, fresh, callVars, left, verifies,
                 held, expired, modesSince>>

(* finish_mode_switch seeds the channel of the new mode; pos_vel and       *)
(* force_pos only when the hold position is known.                         *)
FinishModeSwitch(c) ==
  /\ pc[c] = "finish"
  /\ IF held[c] \/ want[c] \in {"mit", "vel"} THEN Sends("still", want[c])
     ELSE UNCHANGED <<motorVars, toHost, lost, modesSince>>
  /\ verifies' = [verifies EXCEPT ![c] = @ + 1]
  /\ Goto(c, "read")
  /\ UNCHANGED <<hint, cacheVars, fresh, callVars, left, writes, held, expired, result>>

(* store_parameters: a fresh status that says disabled saves the disable;  *)
(* a timeout or a failed request does not.                                 *)
StatusRequest(c) ==
  /\ pc[c] = "ask"
  /\ \/ Sends("ask", mode) /\ Goto(c, "await state")
     \/ Faults /\ UNCHANGED <<motorVars, toHost, lost, modesSince>> /\ Goto(c, "pre-disable")
  /\ fresh' = [fresh EXCEPT ![c] = {}]
  /\ UNCHANGED <<hint, cacheVars, callVars, loopVars, result>>

TrustsAnyStatus == TRUE   \* mutant of SaysDisabled: the status code is not compared
SaysDisabled == ~cachedOn

StatusKnown(c) ==
  /\ pc[c] = "await state"
  /\ \/ Answered(c, "state") /\ Goto(c, IF SaysDisabled THEN "store" ELSE "pre-disable")
     \/ MayTimeOut(c, "state") /\ Goto(c, "pre-disable")
  /\ UNCHANGED <<motorVars, toHost, lost, hint, cacheVars, fresh, callVars, loopVars, result,
                 modesSince>>

Step(c) ==
  \/ SendFails(c) \/ Switch(c) \/ SetHint(c) \/ SingleFrame(c)
  \/ ReadRequest(c) \/ ReadOutOfTime(c) \/ GotReply(c) \/ NoReply(c)
  \/ HoldRequest(c) \/ NoHold(c) \/ GotHold(c) \/ Clear(c)
  \/ WriteRequest(c) \/ ArmAckWait(c) \/ GotAck(c) \/ NoAck(c) \/ FinishModeSwitch(c)
  \/ StatusRequest(c) \/ StatusKnown(c)

Next ==
  \/ \E c \in Callers : NewCall(c) \/ Step(c)
  \/ ProcessFeedbackFrame
  \/ Reports

(* Callers inside a method and the polling thread keep running; nobody has *)
(* to call and the motor owes no report.                                   *)
Fairness ==
  /\ \A c \in Callers : WF_vars(Step(c))
  /\ WF_vars(ProcessFeedbackFrame)

SafeSpec == Init /\ [][Next]_vars
Spec == SafeSpec /\ Fairness

Answers == [kind : Kinds, mode : Modes, on : BOOLEAN]

WireTypes ==
  /\ on \in BOOLEAN /\ mode \in Modes /\ moving \in SUBSET Channels
  /\ toHost \in Seq(Answers) /\ Len(toHost) <= MaxAnswers
  /\ lost \in 0 .. MaxLost
  /\ modesSince \in [Callers -> SUBSET Modes]
CacheTypes ==
  /\ hint \in BOOLEAN /\ cachedMode \in Modes /\ cachedAck \in Modes /\ cachedOn \in BOOLEAN
  /\ fresh \in [Callers -> SUBSET Kinds]
CallTypes ==
  /\ pc \in [Callers -> Places] /\ op \in [Callers -> Methods]
  /\ want \in [Callers -> Modes]
  /\ left \in [Callers -> Seq(Channels)]
  /\ \A c \in Callers : pc[c] \in {"hold", "await hold", "clear"} => left[c] # <<>>
  /\ writes \in [Callers -> Nat] /\ verifies \in [Callers -> Nat]
  /\ held \in [Callers -> BOOLEAN] /\ expired \in [Callers -> BOOLEAN]
  /\ result \in [Callers -> {"none", "ok", "err"}]
TypeOK == WireTypes /\ CacheTypes /\ CallTypes

-----------------------------------------------------------------------------
(***************************************************************************)
(* Properties.                                                             *)
(***************************************************************************)
ReturnsOk(c) == pc[c] # "idle" /\ pc'[c] = "idle" /\ result'[c] = "ok"

(* When ensure_control_mode, or an acknowledged write of the register,     *)
(* returns Ok, the motor is in the wanted mode.                            *)
OkMeansMode ==
  [][\A c \in Callers : ReturnsOk(c) /\ op[c] \in {"ensure", "write"} => mode' = want[c]]_vars

(* A read of CTRL_MODE returns a value the register had after the read was *)
(* requested, whatever other callers do (get_register_u32 must not be      *)
(* satisfied by an older answer).                                          *)
ReadIsFresh ==
  [][\A c \in Callers : ReturnsOk(c) /\ op[c] = "get" => cachedMode \in modesSince[c]]_vars

(* The motor changes mode only when all of its command channels are still, *)
(* as prepare_for_mode_switch has them be.                                 *)
SwitchesOnlyWhenStill == [][mode' # mode => moving = {}]_vars

(* The zero position is set, and the parameters are stored, only while the *)
(* motor is disabled: the software hint guarantees the one, and a fresh    *)
(* status or a disable the other.                                          *)
WritesOnlyDisabled ==
  [][\A c \in Callers : pc[c] \in {"zero", "store"} /\ ReturnsOk(c) => ~on]_vars

(* Every call returns, though an acknowledgement may come too early to     *)
(* count and every write be repeated, whatever status frames come between. *)
EveryCallReturns == \A c \in Callers : pc[c] # "idle" ~> pc[c] = "idle"
=============================================================================
