--------------------------- MODULE RobstrideProofs ---------------------------
(***************************************************************************)
(* Theorems about RobstrideMotor for any modes, candidate hosts, attempts  *)
(* and losses.                                                             *)
(***************************************************************************)
EXTENDS RobstrideMotor, TLAPS

USE RobstrideAssumption DEF RobstrideAssumption

-----------------------------------------------------------------------------
(***************************************************************************)
(* Scripts.                                                                *)
(***************************************************************************)
LEMMA Lists ==
  /\ \A x \in Exchanges : <<x>> \in Seq(Exchanges) /\ <<x>> # <<>>
  /\ \A x, y \in Exchanges : <<x, y>> \in Seq(Exchanges) /\ <<x, y>> # <<>>
  /\ \A s, t \in Seq(Exchanges) : s \o t \in Seq(Exchanges)
  /\ \A s, t \in Seq(Exchanges) : s # <<>> => s \o t # <<>>
<1> HIDE RobstrideAssumption
<1>1. \A x \in Exchanges : <<x>> \in Seq(Exchanges) /\ <<x>> # <<>>
  OBVIOUS
<1>2. \A x, y \in Exchanges : <<x, y>> \in Seq(Exchanges) /\ <<x, y>> # <<>>
  OBVIOUS
<1>3. \A s, t \in Seq(Exchanges) : s \o t \in Seq(Exchanges) /\ Len(s \o t) = Len(s) + Len(t)
  OBVIOUS
<1>4. \A s \in Seq(Exchanges) : Len(s) \in Nat /\ (s # <<>> <=> Len(s) # 0)
  OBVIOUS
<1>5. \A s, t \in Seq(Exchanges) : s # <<>> => s \o t # <<>>
  BY <1>3, <1>4
<1> QED
  BY <1>1, <1>2, <1>3, <1>5

LEMMA SomeExchanges ==
  /\ \A f \in Frames \ {"mode", "halt", "hold", "read"} : Control(f) \in Exchanges
  /\ \A f \in Frames \ {"mode", "halt", "hold", "read"} : Respond(f) \in Exchanges
  /\ \A f \in Frames \ {"mode", "halt", "hold", "read"} : Plain(f, Unknown) \in Exchanges
  /\ \A f \in Frames \ {"read"}, m \in Modes : Plain(f, m) \in Exchanges /\ Write(f, m) \in Exchanges
  /\ Write("zero_sta", Unknown) \in Exchanges
  /\ \A p \in Params : Read(p) \in Exchanges /\ Plain("read", p) \in Exchanges
  /\ Ping \in Exchanges
  BY DEF Exchanges, Exchange, Control, Respond, Plain, Write, Read, Ping, Frames, Params

LEMMA Positionings ==
  ASSUME NEW m \in Modes, NEW withLimit \in BOOLEAN
  PROVE  Positioning(m, withLimit) \in Seq(Exchanges) /\ Positioning(m, withLimit) # <<>>
<1>1. <<Write("mode", m), Control("enable")>> \in Seq(Exchanges)
      /\ <<Write("mode", m), Control("enable")>> # <<>>
  <2>1. Write("mode", m) \in Exchanges /\ Control("enable") \in Exchanges
    BY SomeExchanges DEF Frames
  <2> QED
    BY <2>1, Lists
<1>2. <<Write("limit", m)>> \in Seq(Exchanges) /\ <<Write("target", m)>> \in Seq(Exchanges)
  <2>1. Write("limit", m) \in Exchanges /\ Write("target", m) \in Exchanges
    BY SomeExchanges DEF Frames
  <2> QED
    BY <2>1, Lists
<1>3. <<>> \in Seq(Exchanges)
  OBVIOUS
<1>4. PICK s : s = <<Write("mode", m), Control("enable")>>
  OBVIOUS
<1>5. PICK t : t = IF withLimit THEN <<Write("limit", m)>> ELSE <<>>
  OBVIOUS
<1>6. PICK u : u = <<Write("target", m)>>
  OBVIOUS
<1>7. s \in Seq(Exchanges) /\ s # <<>> /\ t \in Seq(Exchanges) /\ u \in Seq(Exchanges)
  BY <1>1, <1>2, <1>3, <1>4, <1>5, <1>6
<1>8. s \o t \in Seq(Exchanges) /\ s \o t # <<>>
  BY <1>7, Lists
<1>9. (s \o t) \o u \in Seq(Exchanges) /\ (s \o t) \o u # <<>>
  BY <1>7, <1>8, Lists
<1>10. Positioning(m, withLimit) = (s \o t) \o u
  BY <1>4, <1>5, <1>6 DEF Positioning
<1> QED
  BY <1>9, <1>10

LEMMA Scripts ==
  ASSUME NEW m \in Methods, NEW v \in Modes, NEW flag \in BOOLEAN,
         m \in {"velocity", "csp", "pp", "mit"} => m \in Modes
  PROVE  Script(m, v, flag) \in Seq(Exchanges) /\ Script(m, v, flag) # <<>>
<1>1. CASE m \in {"enable", "disable"}
  <2>1. Script(m, v, flag) = <<Control(m)>>
    BY <1>1 DEF Script
  <2>2. Control(m) \in Exchanges
    BY <1>1, SomeExchanges DEF Frames
  <2> QED
    BY <2>1, <2>2, Lists
<1>2. CASE m = "clear_error"
  <2>1. Script(m, v, flag) = <<Control("clear")>>
    BY <1>2 DEF Script
  <2>2. Control("clear") \in Exchanges
    BY SomeExchanges DEF Frames
  <2> QED
    BY <2>1, <2>2, Lists
<1>3. CASE m = "set_zero"
  <2>1. Script(m, v, flag) = <<Control("zero"), Write("zero_sta", Unknown)>>
    BY <1>3 DEF Script
  <2>2. Control("zero") \in Exchanges /\ Write("zero_sta", Unknown) \in Exchanges
    BY SomeExchanges DEF Frames
  <2> QED
    BY <2>1, <2>2, Lists
<1>4. CASE m = "save"
  <2>1. Script(m, v, flag) = <<Respond("save")>>
    BY <1>4 DEF Script
  <2>2. Respond("save") \in Exchanges
    BY SomeExchanges DEF Frames
  <2> QED
    BY <2>1, <2>2, Lists
<1>5. CASE m = "set_protocol"
  <2>1. Script(m, v, flag) \in {<<Respond("protocol")>>, <<Plain("protocol", Unknown)>>}
    BY <1>5 DEF Script
  <2>2. Respond("protocol") \in Exchanges /\ Plain("protocol", Unknown) \in Exchanges
    BY SomeExchanges DEF Frames
  <2> QED
    BY <2>1, <2>2, Lists
<1>6. CASE m = "ping"
  <2>1. Script(m, v, flag) = <<Ping>>
    BY <1>6 DEF Script
  <2> QED
    BY <2>1, SomeExchanges, Lists
<1>7. CASE m = "set_device_id"
  <2>1. Script(m, v, flag) = <<Ping, Plain("id", Unknown)>>
    BY <1>7 DEF Script
  <2>2. Plain("id", Unknown) \in Exchanges
    BY SomeExchanges DEF Frames
  <2> QED
    BY <2>1, <2>2, SomeExchanges, Lists
<1>8. CASE m = "set_mode"
  <2>1. Script(m, v, flag) = <<Write("mode", v)>>
    BY <1>8 DEF Script
  <2>2. Write("mode", v) \in Exchanges
    BY SomeExchanges DEF Frames
  <2> QED
    BY <2>1, <2>2, Lists
<1>9. CASE m = "velocity"
  <2>1. Script(m, v, flag) = <<Write("target", "velocity")>>
    BY <1>9 DEF Script
  <2>2. Write("target", "velocity") \in Exchanges
    BY <1>9, SomeExchanges DEF Frames
  <2> QED
    BY <2>1, <2>2, Lists
<1>10. CASE m \in {"csp", "pp"}
  <2>1. Script(m, v, flag) = Positioning(m, flag)
    BY <1>10 DEF Script
  <2> QED
    BY <1>10, <2>1, Positionings
<1>11. CASE m = "mit"
  <2>1. Script(m, v, flag) \in {<<Plain("weak", "mit")>>, <<Plain("firm", "mit")>>}
    BY <1>11 DEF Script
  <2>2. Plain("weak", "mit") \in Exchanges /\ Plain("firm", "mit") \in Exchanges
    BY <1>11, SomeExchanges DEF Frames
  <2> QED
    BY <2>1, <2>2, Lists
<1>12. CASE m = "get"
  <2>1. Script(m, v, flag) \in {<<Read("mode")>>, <<Read("position")>>}
    BY <1>12 DEF Script
  <2> QED
    BY <2>1, SomeExchanges, Lists DEF Params
<1>13. CASE m = "stop"
  <2>1. Script(m, v, flag) = <<Read("mode")>>
    BY <1>13 DEF Script
  <2> QED
    BY <2>1, SomeExchanges, Lists DEF Params
<1>14. CASE m = "active_report"
  <2>1. Script(m, v, flag) = <<Plain("active", Unknown)>>
    BY <1>14 DEF Script
  <2>2. Plain("active", Unknown) \in Exchanges
    BY SomeExchanges DEF Frames
  <2> QED
    BY <2>1, <2>2, Lists
<1>15. CASE m = "request"
  <2>1. Script(m, v, flag) \in {<<Plain("read", "mode")>>, <<Plain("read", "position")>>}
    BY <1>15 DEF Script
  <2> QED
    BY <2>1, SomeExchanges, Lists DEF Params
<1>16. CASE m = "ensure"
  <2>1. Script(m, v, flag) = <<Control("disable")>>
    BY <1>16 DEF Script
  <2>2. Control("disable") \in Exchanges
    BY SomeExchanges DEF Frames
  <2> QED
    BY <2>1, <2>2, Lists
<1> QED
  BY <1>1, <1>2, <1>3, <1>4, <1>5, <1>6, <1>7, <1>8, <1>9, <1>10, <1>11, <1>12, <1>13, <1>14,
     <1>15, <1>16 DEF Methods

LEMMA StopScripts ==
  ASSUME NEW m \in Modes
  PROVE  StopScript(m) \in Seq(Exchanges) /\ StopScript(m) # <<>>
<1>1. Write("halt", m) \in Exchanges /\ Read("position") \in Exchanges
  BY SomeExchanges DEF Frames, Params
<1>2. CASE m \in {"velocity", "pp"}
  <2>1. StopScript(m) = <<Write("halt", m)>>
    BY <1>2 DEF StopScript
  <2> QED
    BY <1>1, <2>1, Lists
<1>3. CASE m = "csp"
  <2>1. StopScript(m) = <<Read("position"), Write("halt", m)>>
    BY <1>3 DEF StopScript
  <2> QED
    BY <1>1, <2>1, Lists
<1>4. CASE m = "mit"
  <2>1. StopScript(m) = <<Read("position"), Plain("hold", "mit")>>
    BY <1>4 DEF StopScript
  <2>2. Plain("hold", "mit") \in Exchanges
    BY <1>4, SomeExchanges DEF Frames
  <2> QED
    BY <1>1, <2>1, <2>2, Lists
<1> QED
  BY <1>2, <1>3, <1>4 DEF ControlModes

LEMMA Rounds ==
  ASSUME NEW m \in Modes
  PROVE  <<Write("mode", m), Read("mode")>> \in Seq(Exchanges)
         /\ <<Write("mode", m), Read("mode")>> # <<>>
<1>1. Write("mode", m) \in Exchanges /\ Read("mode") \in Exchanges
  BY SomeExchanges DEF Frames, Params
<1> QED
  BY <1>1, Lists

LEMMA HeadTail ==
  ASSUME CallTypes, NEW c \in Callers, pc[c] # "idle"
  PROVE  Head(todo[c]) \in Exchanges /\ Tail(todo[c]) \in Seq(Exchanges)
<1>1. \A s \in Seq(Exchanges) : s # <<>> => Head(s) \in Exchanges /\ Tail(s) \in Seq(Exchanges)
  OBVIOUS
<1> QED
  BY <1>1 DEF CallTypes

-----------------------------------------------------------------------------
(***************************************************************************)
(* Types.                                                                  *)
(***************************************************************************)
LEMMA AnswerTypes ==
  ASSUME MotorTypes, NEW c \in Callers, NEW x \in Exchanges
  PROVE  Answer(c, x) \in Seq(Answers) /\ Len(Answer(c, x)) <= 1
<1>1. \A a \in Answers : <<a>> \in Seq(Answers) /\ Len(<<a>>) = 1
  OBVIOUS
<1>2. \A k \in Kinds \ {"value"}, r \in Modes \cup {Unknown} :
        [kind |-> k, of |-> Unknown, raw |-> r, to |-> c] \in Answers
  BY DEF Answers
<1>3. \A p \in Params, r \in Modes \cup {Unknown} :
        [kind |-> "value", of |-> p, raw |-> r, to |-> c] \in Answers
  BY DEF Answers, Kinds
<1>4. mode \in Modes /\ Unknown # "mode"
  BY DEF MotorTypes, Unknown
<1>5. CASE x.frame = "read"
  <2>1. Answer(c, x) = <<[kind |-> "value", of |-> x.arg,
                         raw |-> IF x.arg = "mode" THEN mode ELSE Unknown, to |-> c]>>
    BY <1>5 DEF Answer
  <2>2. x.arg \in Params
    BY <1>5 DEF Exchanges
  <2> QED
    BY <1>1, <1>3, <1>4, <2>1, <2>2
<1>6. CASE x.frame = "ping"
  <2>1. Answer(c, x) = <<[kind |-> "ping", of |-> Unknown, raw |-> Unknown, to |-> c]>>
    BY <1>4, <1>6 DEF Answer
  <2> QED
    BY <1>1, <1>2, <2>1 DEF Kinds
<1>7. CASE x.frame = "protocol"
  <2>1. Answer(c, x) = <<[kind |-> "reply", of |-> Unknown, raw |-> Unknown, to |-> c]>>
    BY <1>4, <1>7 DEF Answer
  <2> QED
    BY <1>1, <1>2, <2>1 DEF Kinds
<1>8. CASE x.frame \in {"id", "active"}
  <2>1. Answer(c, x) = <<>>
    BY <1>8 DEF Answer
  <2> QED
    BY <2>1
<1>9. CASE x.frame \notin {"read", "ping", "protocol", "id", "active"}
  <2>1. Answer(c, x) = <<[kind |-> "status", of |-> Unknown, raw |-> Unknown, to |-> c]>>
    BY <1>4, <1>9 DEF Answer
  <2> QED
    BY <1>1, <1>2, <2>1 DEF Kinds
<1> QED
  BY <1>5, <1>6, <1>7, <1>8, <1>9

LEMMA SendsTypes ==
  ASSUME TypeOK, NEW c \in Callers, NEW x \in Exchanges, NEW h, Sends(c, x, h)
  PROVE  MotorTypes' /\ HistoryTypes'
<1> USE DEF TypeOK
<1>1. toHost' \in Seq(Answers) /\ Len(toHost') <= MaxAnswers
  <2>1. CASE toHost' = toHost
    BY <2>1 DEF MotorTypes
  <2>2. CASE toHost' = toHost \o Answer(c, x)
    <3>1. \A s, u \in Seq(Answers) : /\ s \o u \in Seq(Answers) /\ Len(s \o u) = Len(s) + Len(u)
                                     /\ Len(s) \in Nat
      OBVIOUS
    <3>2. Len(toHost) < MaxAnswers /\ toHost \in Seq(Answers)
      BY DEF Sends, MotorTypes
    <3>3. PICK u : u = Answer(c, x)
      OBVIOUS
    <3>4. u \in Seq(Answers) /\ Len(u) <= 1 /\ toHost' = toHost \o u
      BY <2>2, <3>3, AnswerTypes
    <3>5. Len(u) \in Nat /\ Len(toHost) \in Nat /\ Len(toHost \o u) = Len(toHost) + Len(u)
          /\ toHost \o u \in Seq(Answers)
      BY <3>1, <3>2, <3>4
    <3>6. Len(toHost) + Len(u) <= MaxAnswers
      BY <3>2, <3>4, <3>5
    <3> QED
      BY <3>4, <3>5, <3>6
  <2> QED
    BY <2>1, <2>2 DEF Sends
<1>2. on' \in BOOLEAN /\ mode' \in Modes /\ still' \in SUBSET Modes /\ setup' \in Setups
  <2>1. CASE Reacts(x)
    <3>1. on' \in BOOLEAN
      BY <2>1, Zenon DEF Reacts
    <3>2. mode' \in Modes
      BY <2>1 DEF Reacts, MotorTypes, Exchanges
    <3>3. x.frame \in {"halt", "hold"} => x.arg \in Modes
      BY DEF Exchanges
    <3>4. still' \in {still \cup {x.arg}, still \ {x.arg}, still}
          /\ (still' = still \cup {x.arg} => x.frame \in {"halt", "hold"} \/ x.arg \in still)
      BY <2>1 DEF Reacts
    <3>5. still' \in SUBSET Modes
      BY <3>3, <3>4 DEF MotorTypes
    <3> QED
      BY <2>1, <3>1, <3>2, <3>5 DEF Reacts, MotorTypes
  <2>2. CASE UNCHANGED motorVars
    BY <2>2 DEF motorVars, MotorTypes
  <2> QED
    BY <2>1, <2>2 DEF Sends
<1>3. lost' \in 0 .. MaxLost
  <2>1. lost' = lost \/ (lost < MaxLost /\ lost' = lost + 1)
    BY DEF Sends
  <2> QED
    BY <2>1 DEF MotorTypes
<1>4. obeyed' \in [Callers -> BOOLEAN] /\ alone' \in [Callers -> BOOLEAN]
  BY DEF Sends, HistoryTypes, motorVars
<1>5. lossless' \in [Callers -> BOOLEAN]
  BY DEF Sends, HistoryTypes
<1>6. modesSince' \in [Callers -> SUBSET Modes]
  BY <1>2 DEF Sends, HistoryTypes, MotorTypes
<1> QED
  BY <1>1, <1>2, <1>3, <1>4, <1>5, <1>6 DEF MotorTypes, HistoryTypes

(* A call that goes on with another script, or with the one it has, or     *)
(* that ends.                                                              *)
LEMMA CallMoves ==
  ASSUME CallTypes, NEW c \in Callers, UNCHANGED callVars, got' \in [Callers -> Filed],
         NEW p \in {"idle", "send", "await"}, Goto(c, p),
         NEW t \in Seq(Exchanges), todo' = [todo EXCEPT ![c] = t], p # "idle" => t # <<>>,
         host' \in [Callers -> Hosts], tries' \in [Callers -> 0 .. Attempts - 1],
         result' \in [Callers -> {"none", "ok", "err"}]
  PROVE  CallTypes'
<1>1. pc' \in [Callers -> {"idle", "look", "send", "await"}]
      /\ \A o \in Callers : pc'[o] = IF o = c THEN p ELSE pc[o]
  BY DEF CallTypes, Goto
<1>2. todo' \in [Callers -> Seq(Exchanges)]
      /\ \A o \in Callers : todo'[o] = IF o = c THEN t ELSE todo[o]
  BY DEF CallTypes
<1>3. \A o \in Callers : pc'[o] # "idle" => todo'[o] # <<>>
  BY <1>1, <1>2 DEF CallTypes
<1> QED
  BY <1>1, <1>2, <1>3 DEF CallTypes, callVars

LEMMA ReturnsTypes ==
  ASSUME CallTypes, NEW c \in Callers, UNCHANGED callVars, got' \in [Callers -> Filed],
         NEW r \in {"ok", "err"}, Returns(c, r)
  PROVE  CallTypes'
<1>1. <<>> \in Seq(Exchanges)
  OBVIOUS
<1>2. host' \in [Callers -> Hosts] /\ tries' \in [Callers -> 0 .. Attempts - 1]
      /\ result' \in [Callers -> {"none", "ok", "err"}]
  BY DEF CallTypes, Returns, Hosts
<1> QED
  BY <1>1, <1>2, CallMoves DEF Returns

LEMMA PerformTypes ==
  ASSUME CallTypes, NEW c \in Callers, UNCHANGED callVars, got' \in [Callers -> Filed],
         NEW t \in Seq(Exchanges), t # <<>>, Perform(c, t),
         tries' \in [Callers -> 0 .. Attempts - 1]
  PROVE  CallTypes'
<1>1. host' \in [Callers -> Hosts] /\ result' \in [Callers -> {"none", "ok", "err"}]
  BY DEF CallTypes, Perform, Hosts
<1> QED
  BY <1>1, CallMoves DEF Perform

LEMMA RoundTypes ==
  ASSUME CallTypes, NEW c \in Callers, UNCHANGED callVars, got' \in [Callers -> Filed], Round(c),
         tries' \in [Callers -> 0 .. Attempts - 1]
  PROVE  CallTypes'
<1>1. want[c] \in Modes
  BY DEF CallTypes
<1> QED
  BY <1>1, Rounds, PerformTypes DEF Round

LEMMA NextRoundTypes ==
  ASSUME CallTypes, NEW c \in Callers, UNCHANGED callVars, got' \in [Callers -> Filed], NextRound(c)
  PROVE  CallTypes'
<1>1. CASE Returns(c, "err")
  BY <1>1, ReturnsTypes
<1>2. CASE tries[c] + 1 < Attempts /\ Round(c) /\ tries' = [tries EXCEPT ![c] = tries[c] + 1]
  <2>1. tries' \in [Callers -> 0 .. Attempts - 1]
    BY <1>2 DEF CallTypes
  <2> QED
    BY <1>2, <2>1, RoundTypes
<1> QED
  BY <1>1, <1>2 DEF NextRound

LEMMA FailedTypes ==
  ASSUME CallTypes, NEW c \in Callers, UNCHANGED callVars, got' \in [Callers -> Filed], Failed(c)
  PROVE  CallTypes'
<1>1. CASE Round(c) /\ UNCHANGED tries
  <2>1. tries' \in [Callers -> 0 .. Attempts - 1]
    BY <1>1 DEF CallTypes
  <2> QED
    BY <1>1, <2>1, RoundTypes
<1> QED
  BY <1>1, NextRoundTypes, ReturnsTypes DEF Failed

LEMMA SucceededTypes ==
  ASSUME CallTypes, NEW c \in Callers, pc[c] # "idle", UNCHANGED callVars,
         got' \in [Callers -> Filed], NEW v \in Filed, Succeeded(c, v)
  PROVE  /\ CallTypes'
         /\ cached' \in {cached, want[c]}
         /\ fault' = fault \/ fault' = (fault /\ op[c] # "clear_error")
<1>1. tries \in [Callers -> 0 .. Attempts - 1] /\ Tail(todo[c]) \in Seq(Exchanges)
  BY HeadTail DEF CallTypes
<1>2. CASE op[c] = "ensure" /\ Head(todo[c]).frame = "disable"
  BY <1>1, <1>2, RoundTypes DEF Succeeded
<1>3. CASE op[c] = "ensure" /\ Head(todo[c]).frame = "read"
  <2>1. CASE Verified(c, v.raw)
    BY <1>3, <2>1, ReturnsTypes DEF Succeeded
  <2>2. CASE ~Verified(c, v.raw)
    BY <1>3, <2>2, NextRoundTypes DEF Succeeded
  <2> QED
    BY <2>1, <2>2
<1>4. CASE op[c] = "stop" /\ Head(todo[c]).frame = "read" /\ Tail(todo[c]) = <<>>
  <2>1. CASE v.raw \in Modes
    <3>1. Perform(c, StopScript(v.raw)) /\ UNCHANGED <<tries, cached, fault>>
      BY <1>4, <2>1 DEF Succeeded
    <3> QED
      BY <1>1, <2>1, <3>1, StopScripts, PerformTypes
  <2>2. CASE v.raw \notin Modes
    BY <1>4, <2>2, ReturnsTypes DEF Succeeded
  <2> QED
    BY <2>1, <2>2
<1>5. CASE /\ ~(op[c] = "ensure" /\ Head(todo[c]).frame \in {"disable", "read"})
           /\ ~(op[c] = "stop" /\ Head(todo[c]).frame = "read" /\ Tail(todo[c]) = <<>>)
  <2>1. /\ IF Tail(todo[c]) = <<>> THEN Returns(c, "ok")
           ELSE Perform(c, Tail(todo[c])) /\ UNCHANGED tries
        /\ fault' = (fault /\ op[c] # "clear_error")
        /\ UNCHANGED cached
    BY <1>5 DEF Succeeded
  <2>2. CASE Tail(todo[c]) = <<>>
    BY <2>1, <2>2, ReturnsTypes
  <2>3. CASE Tail(todo[c]) # <<>>
    BY <1>1, <2>1, <2>3, PerformTypes
  <2> QED
    BY <2>1, <2>2, <2>3
<1> QED
  BY <1>2, <1>3, <1>4, <1>5

LEMMA NewCallTypes == ASSUME TypeOK, NEW c \in Callers, NewCall(c) PROVE TypeOK'
<1> USE DEF TypeOK
<1>1. PICK m \in setup.calls[c], v \in Modes, flag \in BOOLEAN :
        /\ m \in {"velocity", "csp", "pp", "mit"} => m \in Modes
        /\ op' = [op EXCEPT ![c] = m] /\ want' = [want EXCEPT ![c] = v]
        /\ todo' = [todo EXCEPT ![c] = Script(m, v, flag)]
        /\ Goto(c, IF m = "ensure" THEN "look" ELSE "send")
  BY DEF NewCall
<1>2. m \in Methods
  BY DEF MotorTypes, SetupType
<1>3. Script(m, v, flag) \in Seq(Exchanges) /\ Script(m, v, flag) # <<>>
  BY <1>1, <1>2, Scripts
<1>4. /\ op' \in [Callers -> Methods] /\ want' \in [Callers -> Modes]
      /\ todo' \in [Callers -> Seq(Exchanges)]
      /\ pc' \in [Callers -> {"idle", "look", "send", "await"}]
  BY <1>1, <1>2, <1>3 DEF CallTypes, Goto
<1>5. \A o \in Callers : pc'[o] # "idle" => todo'[o] # <<>>
  <2>1. \A o \in Callers : /\ o # c => pc'[o] = pc[o] /\ todo'[o] = todo[o]
                           /\ todo'[c] = Script(m, v, flag)
    BY <1>1 DEF CallTypes, Goto
  <2> QED
    BY <1>3, <2>1 DEF CallTypes
<1>6. NoValue \in Filed
  BY DEF NoValue, Filed
<1>7. CallTypes'
  <2>1. host' = host /\ tries' = tries
    BY DEF NewCall
  <2>2. result' \in [Callers -> {"none", "ok", "err"}] /\ got' \in [Callers -> Filed]
    BY <1>6 DEF NewCall, CallTypes
  <2> QED
    BY <1>4, <1>5, <2>1, <2>2 DEF CallTypes
<1>8. HistoryTypes'
  <2>1. alone' \in [Callers -> BOOLEAN]
    <3>1. alone' = [o \in Callers |-> IF o = c THEN \A p \in Callers : pc[p] = "idle"
                                     ELSE alone[o] /\ pc[o] = "idle"]
      BY DEF NewCall
    <3> QED
      BY <3>1, Zenon
  <2>2. obeyed' \in [Callers -> BOOLEAN] /\ lossless' \in [Callers -> BOOLEAN]
        /\ UNCHANGED modesSince
    BY DEF NewCall, HistoryTypes
  <2> QED
    BY <2>1, <2>2 DEF HistoryTypes
<1>9. MotorTypes' /\ DriverTypes'
  BY DEF NewCall, MotorTypes, DriverTypes, motorVars, wireVars, driverVars
<1> QED
  BY <1>7, <1>8, <1>9

LEMMA PrepareTypes ==
  ASSUME DriverTypes, NEW c \in Callers, NEW x \in Exchanges, Prepare(c, x),
         gains' \in {Unknown, "weak", "firm", "default"}, cached' \in Modes \cup {Unknown},
         fault' \in BOOLEAN
  PROVE  DriverTypes'
<1>1. values' \in [Params -> Filed]
  <2>1. NoValue \in Filed
    BY DEF NoValue, Filed
  <2> QED
    BY <2>1 DEF Prepare, Forget, DriverTypes
<1>2. pending' \in Params \cup {Unknown}
  BY DEF Prepare, DriverTypes, Exchanges
<1>3. pingReply' \in BOOLEAN
  BY Zenon DEF Prepare
<1>4. fresh' \in [Callers -> SUBSET {"status", "any"}]
  BY DEF Prepare, TakeSequence, DriverTypes
<1> QED
  BY <1>1, <1>2, <1>3, <1>4 DEF DriverTypes

LEMMA WaitsTypes ==
  ASSUME CallTypes, NEW c \in Callers, pc[c] # "idle", UNCHANGED <<callVars, got>>,
         NEW p \in {"send", "await"}, Goto(c, p), UNCHANGED <<todo, tries, result>>,
         host' \in [Callers -> Hosts]
  PROVE  CallTypes'
<1>1. todo[c] \in Seq(Exchanges) /\ todo[c] # <<>> /\ todo' = [todo EXCEPT ![c] = todo[c]]
  BY DEF CallTypes
<1>2. /\ got' \in [Callers -> Filed] /\ tries' \in [Callers -> 0 .. Attempts - 1]
      /\ result' \in [Callers -> {"none", "ok", "err"}]
  BY DEF CallTypes
<1> QED
  BY <1>1, <1>2, CallMoves

LEMMA NextHostTypes ==
  ASSUME CallTypes, NEW c \in Callers, pc[c] # "idle", UNCHANGED <<callVars, got>>, NextHost(c)
  PROVE  CallTypes'
<1>1. CASE MoreHosts(c)
  <2>1. host' = [host EXCEPT ![c] = host[c] + 1]
    BY <1>1 DEF NextHost
  <2>2. host' \in [Callers -> Hosts]
    BY <1>1, <2>1 DEF MoreHosts, CallTypes, Hosts
  <2> QED
    BY <1>1, <2>2, WaitsTypes DEF NextHost
<1>2. CASE ~MoreHosts(c)
  <2>1. got' \in [Callers -> Filed]
    BY DEF CallTypes
  <2> QED
    BY <1>2, <2>1, FailedTypes DEF NextHost
<1> QED
  BY <1>1, <1>2

LEMMA StepTypes == ASSUME TypeOK, NEW c \in Callers, Step(c) PROVE TypeOK'
<1> USE DEF TypeOK
<1>0. /\ NoValue \in Filed /\ host \in [Callers -> Hosts] /\ want[c] \in Modes
      /\ got \in [Callers -> Filed] /\ cached \in Modes \cup {Unknown} /\ fault \in BOOLEAN
  BY DEF NoValue, Filed, CallTypes, DriverTypes
<1>1. CASE Look(c)
  <2>1. MotorTypes' /\ DriverTypes' /\ HistoryTypes'
    BY <1>1 DEF Look, MotorTypes, DriverTypes, HistoryTypes, motorVars, wireVars, driverVars, history
  <2>2. CallTypes'
    <3>1. pc[c] # "idle" /\ UNCHANGED <<callVars, got>>
      BY <1>1 DEF Look
    <3>2. CASE Returns(c, "ok")
      BY <1>0, <3>1, <3>2, ReturnsTypes
    <3>3. CASE Waits(c, "send")
      BY <1>0, <3>1, <3>3, WaitsTypes DEF Waits
    <3> QED
      BY <1>1, <3>2, <3>3 DEF Look
  <2> QED
    BY <2>1, <2>2
<1>2. CASE Send(c)
  <2> DEFINE x == Head(todo[c])
  <2>1. x \in Exchanges /\ pc[c] # "idle" /\ UNCHANGED <<callVars, got>>
    BY <1>2, HeadTail DEF Send
  <2>2. /\ Prepare(c, x) /\ Sends(c, x, host[c]) /\ gains' = NewGains(x)
        /\ \/ Succeeded(c, NoValue)
           \/ Waits(c, "await") /\ UNCHANGED <<cached, fault>>
    BY <1>2 DEF Send
  <2> HIDE DEF x
  <2>3. MotorTypes' /\ HistoryTypes'
    BY <2>1, <2>2, SendsTypes
  <2>4. gains' \in {Unknown, "weak", "firm", "default"}
    BY <2>2 DEF NewGains, HoldGains, DriverTypes
  <2>5. CallTypes' /\ cached' \in Modes \cup {Unknown} /\ fault' \in BOOLEAN
    <3>1. CASE Succeeded(c, NoValue)
      <4>1. /\ CallTypes' /\ cached' \in {cached, want[c]}
            /\ fault' = fault \/ fault' = (fault /\ op[c] # "clear_error")
        BY <1>0, <2>1, <3>1, SucceededTypes
      <4>2. fault' \in BOOLEAN
        BY <1>0, <4>1, Zenon
      <4> QED
        BY <1>0, <4>1, <4>2
    <3>2. CASE Waits(c, "await") /\ UNCHANGED <<cached, fault>>
      <4>1. CallTypes'
        BY <1>0, <2>1, <3>2, WaitsTypes DEF Waits
      <4> QED
        BY <1>0, <3>2, <4>1
    <3> QED
      BY <2>2, <3>1, <3>2
  <2>6. DriverTypes'
    BY <2>1, <2>2, <2>4, <2>5, PrepareTypes
  <2> QED
    BY <2>3, <2>5, <2>6
<1>3. CASE SendFails(c)
  <2>1. Head(todo[c]) \in Exchanges /\ pc[c] # "idle" /\ UNCHANGED <<callVars, got>>
    BY <1>3, HeadTail DEF SendFails
  <2>2. CallTypes'
    BY <1>0, <1>3, <2>1, NextHostTypes, FailedTypes DEF SendFails
  <2>3. DriverTypes'
    BY <1>0, <1>3, <2>1, PrepareTypes DEF SendFails, DriverTypes
  <2> QED
    BY <1>3, <2>2, <2>3 DEF SendFails, MotorTypes, HistoryTypes, motorVars, wireVars, history
<1>4. CASE GotAnswer(c)
  <2>1. Head(todo[c]) \in Exchanges /\ pc[c] # "idle" /\ UNCHANGED callVars
    BY <1>4, HeadTail DEF GotAnswer
  <2> DEFINE v == IF Head(todo[c]).ack = "value" THEN values[Head(todo[c]).arg] ELSE NoValue
  <2>2. v \in Filed
    BY <1>0, <2>1 DEF Exchanges, DriverTypes
  <2>3. got' = [got EXCEPT ![c] = IF op[c] = "get" THEN v ELSE NoValue] /\ Succeeded(c, v)
    BY <1>4 DEF GotAnswer
  <2> HIDE DEF v
  <2>4. got' \in [Callers -> Filed]
    BY <1>0, <2>2, <2>3
  <2>5. /\ CallTypes' /\ cached' \in {cached, want[c]}
        /\ fault' = fault \/ fault' = (fault /\ op[c] # "clear_error")
    BY <2>1, <2>2, <2>3, <2>4, SucceededTypes
  <2>6. fault' \in BOOLEAN
    BY <1>0, <2>5, Zenon
  <2>7. DriverTypes'
    BY <1>0, <1>4, <2>5, <2>6 DEF GotAnswer, DriverTypes
  <2> QED
    BY <1>4, <2>5, <2>7 DEF GotAnswer, MotorTypes, HistoryTypes, motorVars, wireVars, history
<1>5. CASE TimesOut(c)
  <2>1. pc[c] # "idle" /\ UNCHANGED <<callVars, got>>
    BY <1>5 DEF TimesOut
  <2>2. CallTypes'
    BY <1>5, <2>1, NextHostTypes DEF TimesOut
  <2> QED
    BY <1>5, <2>2 DEF TimesOut, MotorTypes, DriverTypes, HistoryTypes, motorVars, wireVars,
                      driverVars, history
<1> QED
  BY <1>1, <1>2, <1>3, <1>4, <1>5 DEF Step

LEMMA WireStepTypes == ASSUME TypeOK, ProcessFeedbackFrame \/ Reports PROVE TypeOK'
<1> USE DEF TypeOK
<1>1. CASE ProcessFeedbackFrame
  <2>1. /\ Head(toHost) \in Answers /\ Tail(toHost) \in Seq(Answers)
        /\ Len(Tail(toHost)) <= MaxAnswers
    <3>1. \A s \in Seq(Answers) : s # <<>> => /\ Head(s) \in Answers /\ Tail(s) \in Seq(Answers)
                                             /\ Len(Tail(s)) <= Len(s) /\ Len(s) \in Nat
                                             /\ Len(Tail(s)) \in Nat
      OBVIOUS
    <3> QED
      BY <1>1, <3>1 DEF ProcessFeedbackFrame, MotorTypes
  <2> DEFINE a == Head(toHost)
  <2>2. a \in Answers
    BY <2>1
  <2>3. /\ fresh' = [c \in Callers |->
                       IF pc[c] # "await" THEN fresh[c] ELSE fresh[c] \cup {"any"}
                         \cup (IF a.kind \in {"status", "report"} THEN {"status"} ELSE {})]
        /\ pingReply' = (pingReply \/ a.kind = "ping")
        /\ fault' = (fault \/ a.kind = "fault")
        /\ \/ /\ a.kind = "value" /\ pending' = Unknown
              /\ \E raw \in (IF FiledUnder(a) = a.of THEN {a.raw} ELSE Modes \cup {Unknown}) :
                   values' = [values EXCEPT ![FiledUnder(a)] = [of |-> a.of, raw |-> raw]]
           \/ UNCHANGED <<pending, values>>
        /\ UNCHANGED <<gains, cached>>
    BY <1>1 DEF ProcessFeedbackFrame
  <2> HIDE DEF a
  <2>4. fresh' \in [Callers -> SUBSET {"status", "any"}]
    BY <2>3 DEF DriverTypes
  <2>5. pingReply' \in BOOLEAN /\ fault' \in BOOLEAN
    BY <2>3, Zenon
  <2>6. values' \in [Params -> Filed] /\ pending' \in Params \cup {Unknown}
    <3>1. CASE UNCHANGED <<pending, values>>
      BY <3>1 DEF DriverTypes
    <3>2. ASSUME NEW raw \in (IF FiledUnder(a) = a.of THEN {a.raw} ELSE Modes \cup {Unknown}),
                 values' = [values EXCEPT ![FiledUnder(a)] = [of |-> a.of, raw |-> raw]],
                 pending' = Unknown
          PROVE  values' \in [Params -> Filed] /\ pending' \in Params \cup {Unknown}
      <4>1. a.of \in Params \cup {Unknown} /\ a.raw \in Modes \cup {Unknown}
        BY <2>2 DEF Answers
      <4>2. [of |-> a.of, raw |-> raw] \in Filed
        BY <3>2, <4>1 DEF Filed
      <4> QED
        BY <3>2, <4>2 DEF DriverTypes
    <3> QED
      BY <2>3, <3>1, <3>2
  <2>7. DriverTypes'
    BY <2>3, <2>4, <2>5, <2>6 DEF DriverTypes
  <2>8. MotorTypes'
    BY <1>1, <2>1 DEF ProcessFeedbackFrame, MotorTypes, motorVars
  <2> QED
    BY <1>1, <2>7, <2>8 DEF ProcessFeedbackFrame, CallTypes, HistoryTypes, callVars, history
<1>2. CASE Reports
  <2>1. PICK k \in setup.unasked :
          toHost' = Append(toHost, [kind |-> k, of |-> Unknown, raw |-> Unknown, to |-> Unknown])
    BY <1>2 DEF Reports
  <2>2. [kind |-> k, of |-> Unknown, raw |-> Unknown, to |-> Unknown] \in Answers
    <3>1. k \in Reported
      BY DEF MotorTypes, SetupType
    <3> QED
      BY <3>1 DEF Reported, Answers, Kinds
  <2>3. toHost' \in Seq(Answers) /\ Len(toHost') <= MaxAnswers
    <3>1. \A s \in Seq(Answers), r \in Answers :
            Append(s, r) \in Seq(Answers) /\ Len(Append(s, r)) = Len(s) + 1 /\ Len(s) \in Nat
      OBVIOUS
    <3> QED
      BY <1>2, <2>1, <2>2, <3>1 DEF Reports, MotorTypes
  <2> QED
    BY <1>2, <2>3 DEF Reports, MotorTypes, DriverTypes, CallTypes, HistoryTypes, motorVars,
                      driverVars, callVars, history
<1> QED
  BY <1>1, <1>2

LEMMA InitTypes == Init => TypeOK
<1> SUFFICES ASSUME Init PROVE TypeOK
  OBVIOUS
<1>1. MotorTypes
  <2>1. toHost \in Seq(Answers) /\ Len(toHost) <= MaxAnswers
    BY DEF Init
  <2> QED
    BY <2>1 DEF Init, MotorTypes
<1>2. DriverTypes
  BY DEF Init, DriverTypes, NoValue, Filed
<1>3. CallTypes
  <2>1. todo \in [Callers -> Seq(Exchanges)]
    BY DEF Init
  <2>2. got \in [Callers -> Filed]
    BY DEF Init, NoValue, Filed
  <2>3. host \in [Callers -> Hosts] /\ tries \in [Callers -> 0 .. Attempts - 1]
    BY DEF Init, Hosts
  <2> QED
    BY <2>1, <2>2, <2>3 DEF Init, CallTypes, Methods
<1>4. HistoryTypes
  BY DEF Init, HistoryTypes
<1> QED
  BY <1>1, <1>2, <1>3, <1>4 DEF TypeOK

(* The driver's state stays well formed whatever is lost, late or failing, *)
(* for any callers: an exchange is always there to be done, with an        *)
(* argument it can be made with.                                           *)
THEOREM CallsHaveTypes == SafeSpec => []TypeOK
<1>1. TypeOK /\ [Next]_vars => TypeOK'
  <2>1. TypeOK /\ UNCHANGED vars => TypeOK'
    BY DEF vars, motorVars, wireVars, driverVars, callVars, history, TypeOK, MotorTypes,
           DriverTypes, CallTypes, HistoryTypes
  <2> QED
    BY <2>1, NewCallTypes, StepTypes, WireStepTypes DEF Next
<1> QED
  BY <1>1, InitTypes, PTL DEF SafeSpec

-----------------------------------------------------------------------------
(***************************************************************************)
(* What Ok means, for a program that drives the motor from one thread.     *)
(*                                                                         *)
(* Any status frame counts as an acknowledgement, and a reply is told from *)
(* an older one only by the slot it is filed in.  So both theorems carry   *)
(* where each answer in the queue can come from: a status means that the   *)
(* motor obeyed a frame of this call, and a parameter is the one reply to  *)
(* the read the call is waiting for.                                       *)
(***************************************************************************)
OneThread ==
  /\ \A c, d \in Callers : c = d
  /\ ~Late
  /\ \A s \in Setups : "report" \notin s.unasked

Positions == 1 .. Len(toHost)
Addressed ==
  \A i \in Positions : /\ toHost[i].kind # "report"
                       /\ toHost[i].kind \in {"status", "value"} => toHost[i].to \in Callers

(* A status in the queue, or counted by the exchange that waits, is of     *)
(* this call; what is left to do of it waits for a status until then.      *)
StatusIsObeyed(c) ==
  /\ \A i \in Positions : toHost[i].kind = "status" => obeyed[c]
  /\ pc[c] = "await" /\ "status" \in fresh[c] => obeyed[c]
  /\ op[c] \in Acknowledged => obeyed[c] \/ Head(todo[c]).ack = "status"
  /\ pc[c] = "look" => op[c] = "ensure"

NoValues == \A i \in Positions : toHost[i].kind # "value"
AwaitsValue(c) == pc[c] = "await" /\ Head(todo[c]).frame = "read"

(* The one reply to the read of the mode, in the queue or in its slot.     *)
ModeIsRead(c) ==
  /\ \A i, j \in Positions : toHost[i].kind = "value" /\ toHost[j].kind = "value" => i = j
  /\ \A i \in Positions : toHost[i].kind = "value" =>
       toHost[i].of = "mode" /\ toHost[i].raw = mode /\ pending = "mode"
  /\ values["mode"].of # Unknown => NoValues /\ values["mode"].raw = mode

EnsureScripts(c) ==
  {<<Control("disable")>>, <<Write("mode", want[c]), Read("mode")>>, <<Read("mode")>>}

EnsureHolds(c) ==
  op[c] = "ensure" =>
    /\ todo[c] \in EnsureScripts(c)
    /\ IF AwaitsValue(c) THEN ModeIsRead(c) ELSE NoValues

CallInv ==
  /\ TypeOK /\ Addressed
  /\ \A c \in Callers : pc[c] # "idle" => StatusIsObeyed(c) /\ EnsureHolds(c)

(* The queue after a frame was sent: the answer, if any, is behind it and  *)
(* says that the motor obeyed.                                             *)
LEMMA QueueAfterSend ==
  ASSUME TypeOK, NEW c \in Callers, NEW x \in Exchanges, NEW h, Sends(c, x, h)
  PROVE  /\ \A i \in 1 .. Len(toHost') :
              \/ i \in Positions /\ toHost'[i] = toHost[i]
              \/ /\ i = Len(toHost) + 1 /\ toHost'[i] = Answer(c, x)[1] /\ Answer(c, x) # <<>>
                 /\ obeyed'[c]
         /\ obeyed[c] => obeyed'[c]
         /\ mode' = mode \/ x.frame = "mode"
<1> USE DEF TypeOK
<1>1. obeyed' = [obeyed EXCEPT ![c] = TRUE] \/ UNCHANGED obeyed
  BY DEF Sends
<1>2. obeyed[c] => obeyed'[c]
  BY <1>1 DEF HistoryTypes
<1>3. mode' = mode \/ x.frame = "mode"
  BY DEF Sends, Reacts, motorVars
<1>4. CASE toHost' = toHost
  BY <1>2, <1>3, <1>4 DEF Positions
<1>5. CASE /\ toHost' = toHost \o Answer(c, x)
           /\ obeyed' = [obeyed EXCEPT ![c] = TRUE]
  <2>1. \A s, u \in Seq(Answers) :
          /\ Len(s) \in Nat /\ Len(s \o u) = Len(s) + Len(u)
          /\ \A i \in 1 .. Len(s) : (s \o u)[i] = s[i]
          /\ Len(u) = 1 => (s \o u)[Len(s) + 1] = u[1]
          /\ Len(u) # 0 => u # <<>>
    OBVIOUS
  <2>2. PICK u : u = Answer(c, x)
    OBVIOUS
  <2>3. u \in Seq(Answers) /\ Len(u) <= 1 /\ toHost \in Seq(Answers) /\ toHost' = toHost \o u
    BY <1>5, <2>2, AnswerTypes DEF MotorTypes
  <2>4. obeyed'[c]
    BY <1>5 DEF HistoryTypes
  <2>5. PICK s : s = toHost
    OBVIOUS
  <2>6. /\ Len(s) \in Nat /\ Len(u) \in Nat /\ Len(toHost') = Len(s) + Len(u)
        /\ \A i \in 1 .. Len(s) : toHost'[i] = s[i]
        /\ Len(u) = 1 => toHost'[Len(s) + 1] = u[1]
        /\ Len(u) # 0 => u # <<>>
    BY <2>1, <2>3, <2>5
  <2>7. \A i \in 1 .. Len(toHost') :
          \/ i \in 1 .. Len(s) /\ toHost'[i] = s[i]
          \/ i = Len(s) + 1 /\ toHost'[i] = u[1] /\ u # <<>>
    BY <2>3, <2>6
  <2> QED
    BY <1>2, <1>3, <2>2, <2>4, <2>5, <2>7 DEF Positions
<1> QED
  BY <1>4, <1>5 DEF Sends

LEMMA QueueTail ==
  ASSUME TypeOK, ProcessFeedbackFrame
  PROVE  /\ 1 \in Positions /\ toHost[1] = Head(toHost)
         /\ \A i \in 1 .. Len(toHost') : i + 1 \in Positions /\ toHost'[i] = toHost[i + 1]
<1>1. \A s \in Seq(Answers) : s # <<>> =>
        /\ 1 \in 1 .. Len(s) /\ s[1] = Head(s) /\ Len(s) \in Nat /\ Len(Tail(s)) = Len(s) - 1
        /\ \A i \in 1 .. Len(s) - 1 : Tail(s)[i] = s[i + 1]
  OBVIOUS
<1>2. toHost \in Seq(Answers) /\ toHost # <<>> /\ toHost' = Tail(toHost)
  BY DEF ProcessFeedbackFrame, TypeOK, MotorTypes
<1>3. PICK s : s = toHost
  OBVIOUS
<1>4. PICK t : t = Tail(s)
  OBVIOUS
<1>5. /\ 1 \in 1 .. Len(s) /\ s[1] = Head(s) /\ Len(s) \in Nat /\ Len(t) = Len(s) - 1
      /\ \A i \in 1 .. Len(s) - 1 : t[i] = s[i + 1]
  BY <1>1, <1>2, <1>3, <1>4
<1>6. \A i \in 1 .. Len(t) : i + 1 \in 1 .. Len(s) /\ t[i] = s[i + 1]
  BY <1>5
<1> QED
  BY <1>2, <1>3, <1>4, <1>5, <1>6 DEF Positions

LEMMA NewCallKeeps ==
  ASSUME OneThread, CallInv, NEW c \in Callers, NewCall(c) PROVE CallInv'
<1>1. PICK m \in setup.calls[c], v \in Modes, flag \in BOOLEAN :
        /\ op' = [op EXCEPT ![c] = m] /\ want' = [want EXCEPT ![c] = v]
        /\ todo' = [todo EXCEPT ![c] = Script(m, v, flag)]
        /\ Goto(c, IF m = "ensure" THEN "look" ELSE "send")
  BY DEF NewCall
<1>2. TypeOK'
  BY NewCallTypes DEF CallInv
<1>3. /\ op'[c] = m /\ want'[c] = v /\ todo'[c] = Script(m, v, flag)
      /\ pc'[c] = IF m = "ensure" THEN "look" ELSE "send"
  BY <1>1 DEF CallInv, TypeOK, CallTypes, Goto
<1>4. toHost' = toHost
  BY DEF NewCall, wireVars
<1>5. \A i \in Positions : toHost[i].kind \notin {"status", "value"}
  <2>1. \A i \in Positions : i \in DOMAIN toHost
    BY DEF Positions, CallInv, TypeOK, MotorTypes
  <2>2. \A i \in Positions : toHost[i].to # c
    BY <2>1 DEF NewCall, OneThread, NoAnswerFor
  <2> QED
    BY <2>2 DEF CallInv, Addressed, OneThread
<1>6. Addressed'
  BY <1>4 DEF CallInv, Addressed, Positions
<1>7. op'[c] \in Acknowledged => Head(todo'[c]).ack = "status"
  <2>1. \A x : Head(<<x>>) = x
    OBVIOUS
  <2>2. \A x, y : Head(<<x, y>>) = x
    OBVIOUS
  <2>3. \A f : Control(f).ack = "status"
    BY DEF Control, Exchange
  <2>4. CASE m \in {"enable", "disable"}
    <3>1. Script(m, v, flag) = <<Control(m)>>
      BY <2>4 DEF Script
    <3> QED
      BY <1>3, <2>1, <2>3, <3>1
  <2>5. CASE m = "clear_error"
    <3>1. Script(m, v, flag) = <<Control("clear")>>
      BY <2>5 DEF Script
    <3> QED
      BY <1>3, <2>1, <2>3, <3>1
  <2>6. CASE m = "set_zero"
    <3>1. Script(m, v, flag) = <<Control("zero"), Write("zero_sta", Unknown)>>
      BY <2>6 DEF Script
    <3> QED
      BY <1>3, <2>2, <2>3, <3>1
  <2> QED
    BY <1>3, <2>4, <2>5, <2>6 DEF Acknowledged
<1>8. StatusIsObeyed(c)'
  BY <1>3, <1>4, <1>5, <1>7 DEF StatusIsObeyed, Positions
<1>9. EnsureHolds(c)'
  <2>1. SUFFICES ASSUME m = "ensure" PROVE EnsureHolds(c)'
    BY <1>3 DEF EnsureHolds
  <2>2. Script(m, v, flag) = <<Control("disable")>>
    BY <2>1 DEF Script
  <2>3. pc'[c] = "look" /\ NoValues'
    BY <1>3, <1>4, <1>5, <2>1 DEF NoValues, Positions
  <2>4. todo'[c] \in EnsureScripts(c)'
    BY <1>3, <2>2 DEF EnsureScripts, Control, Exchange
  <2> QED
    BY <2>3, <2>4 DEF EnsureHolds, AwaitsValue
<1> QED
  BY <1>2, <1>6, <1>8, <1>9 DEF CallInv, OneThread

-----------------------------------------------------------------------------
(***************************************************************************)
(* How a call goes on from an exchange, for the two kinds of call.         *)
(***************************************************************************)
(* A step of a call leaves its method alone, and ends it, goes on sending  *)
(* or waits.                                                               *)
Ending(c) == pc'[c] = "idle"
Going(c, t) == pc'[c] = "send" /\ todo'[c] = t

LEMMA Moves ==
  ASSUME TypeOK, NEW c \in Callers
  PROVE  /\ \A r : Returns(c, r) => Ending(c) /\ result'[c] = r
         /\ \A t : Perform(c, t) => Going(c, t) /\ UNCHANGED result
         /\ Goto(c, "send") /\ UNCHANGED todo => Going(c, todo[c])
         /\ Goto(c, "await") => pc'[c] = "await"
  BY DEF TypeOK, CallTypes, Returns, Perform, Goto, Ending, Going

RoundOf(c) == <<Write("mode", want[c]), Read("mode")>>

LEMMA EnsureFails ==
  ASSUME TypeOK, NEW c \in Callers, op[c] = "ensure", NextHost(c)
  PROVE  (Ending(c) /\ result'[c] = "err") \/ Going(c, RoundOf(c)) \/ Going(c, todo[c])
<1>1. CASE MoreHosts(c)
  BY <1>1, Moves DEF NextHost
<1>2. CASE ~MoreHosts(c)
  <2>1. Round(c) \/ NextRound(c)
    BY <1>2 DEF NextHost, Failed
  <2> QED
    BY <2>1, Moves DEF NextRound, Round, RoundOf
<1> QED
  BY <1>1, <1>2

LEMMA EnsureFailsAtOnce ==
  ASSUME TypeOK, NEW c \in Callers, op[c] = "ensure", Failed(c)
  PROVE  (Ending(c) /\ result'[c] = "err") \/ Going(c, RoundOf(c))
<1>1. Round(c) \/ NextRound(c)
  BY DEF Failed
<1> QED
  BY <1>1, Moves DEF NextRound, Round, RoundOf

LEMMA OthersFail ==
  ASSUME TypeOK, NEW c \in Callers, op[c] # "ensure", NextHost(c) \/ Failed(c)
  PROVE  (Ending(c) /\ result'[c] = "err") \/ Going(c, todo[c])
<1>1. Failed(c) => Returns(c, "err")
  BY DEF Failed
<1> QED
  BY <1>1, Moves DEF NextHost

(* Succeeding, ensure_control_mode returns Ok only for a verified read.    *)
LEMMA EnsureSucceeds ==
  ASSUME TypeOK, NEW c \in Callers, op[c] = "ensure", todo[c] \in EnsureScripts(c),
         NEW v, Succeeded(c, v)
  PROVE  \/ Ending(c) /\ (result'[c] = "ok" => Head(todo[c]).frame = "read" /\ v.raw = want[c])
         \/ Going(c, RoundOf(c))
         \/ Going(c, <<Read("mode")>>)
<1>1. \A x : Head(<<x>>) = x
  OBVIOUS
<1>2. \A x, y : Head(<<x, y>>) = x /\ Tail(<<x, y>>) = <<y>>
  OBVIOUS
<1>3. Control("disable").frame = "disable" /\ Read("mode").frame = "read"
      /\ Write("mode", want[c]).frame = "mode"
  BY DEF Control, Read, Write, Exchange
<1>4. CASE todo[c] = <<Control("disable")>>
  <2>1. Head(todo[c]).frame = "disable"
    BY <1>1, <1>3, <1>4
  <2>2. Round(c)
    BY <2>1 DEF Succeeded
  <2> QED
    BY <2>2, Moves DEF Round, RoundOf
<1>5. CASE todo[c] = RoundOf(c)
  <2>1. Head(todo[c]).frame = "mode" /\ Tail(todo[c]) = <<Read("mode")>>
    BY <1>2, <1>3, <1>5 DEF RoundOf
  <2>2. Tail(todo[c]) # <<>>
    <3>1. <<Read("mode")>> # <<>>
      OBVIOUS
    <3> QED
      BY <2>1, <3>1
  <2>3. Perform(c, Tail(todo[c]))
    BY <2>1, <2>2 DEF Succeeded
  <2> QED
    BY <2>1, <2>3, Moves
<1>6. CASE todo[c] = <<Read("mode")>>
  <2>1. Head(todo[c]).frame = "read"
    BY <1>1, <1>3, <1>6
  <2>2. CASE Verified(c, v.raw)
    <3>1. Returns(c, "ok")
      BY <2>1, <2>2 DEF Succeeded
    <3> QED
      BY <2>1, <2>2, <3>1, Moves DEF Verified
  <2>3. CASE ~Verified(c, v.raw)
    <3>1. NextRound(c)
      BY <2>1, <2>3 DEF Succeeded
    <3>2. Returns(c, "err") \/ Round(c)
      BY <3>1 DEF NextRound
    <3>3. Returns(c, "err") => Ending(c) /\ result'[c] = "err"
      BY Moves
    <3>4. Round(c) => Going(c, RoundOf(c))
      BY Moves DEF Round, RoundOf
    <3> QED
      BY <3>2, <3>3, <3>4
  <2> QED
    BY <2>2, <2>3
<1> QED
  BY <1>4, <1>5, <1>6 DEF EnsureScripts, RoundOf

LEMMA AcknowledgedSucceeds ==
  ASSUME TypeOK, NEW c \in Callers, op[c] \in Acknowledged, NEW v, Succeeded(c, v)
  PROVE  Ending(c) \/ Going(c, Tail(todo[c]))
<1>1. op[c] \notin {"ensure", "stop"}
  BY DEF Acknowledged
<1>2. IF Tail(todo[c]) = <<>> THEN Returns(c, "ok") ELSE Perform(c, Tail(todo[c]))
  BY <1>1 DEF Succeeded
<1> QED
  BY <1>2, Moves

LEMMA AnswerIs ==
  ASSUME NEW c \in Callers, NEW x \in Exchanges, Answer(c, x) # <<>>
  PROVE  /\ Answer(c, x)[1].to = c
         /\ Answer(c, x)[1].kind \in {"value", "ping", "reply", "status"}
         /\ Answer(c, x)[1].kind = "value" => x.frame = "read"
         /\ x.frame = "read" => Answer(c, x)[1].of = x.arg
         /\ x.frame = "read" /\ x.arg = "mode" => Answer(c, x)[1].raw = mode
<1>1. \A a : <<a>>[1] = a
  OBVIOUS
<1>2. CASE x.frame = "read"
  <2>1. Answer(c, x) = <<[kind |-> "value", of |-> x.arg,
                         raw |-> IF x.arg = "mode" THEN mode ELSE Unknown, to |-> c]>>
    BY <1>2 DEF Answer
  <2> QED
    BY <1>1, <1>2, <2>1
<1>3. CASE x.frame # "read"
  <2>1. PICK k \in {"ping", "reply", "status"} :
          Answer(c, x) = <<[kind |-> k, of |-> Unknown, raw |-> Unknown, to |-> c]>>
    BY <1>3 DEF Answer, Unknown
  <2> QED
    BY <1>1, <1>3, <2>1
<1> QED
  BY <1>2, <1>3

LEMMA SendAddresses ==
  ASSUME CallInv, NEW c \in Callers, NEW x \in Exchanges, NEW h, Sends(c, x, h)
  PROVE  Addressed'
<1>1. ASSUME NEW i \in 1 .. Len(toHost')
      PROVE  /\ toHost'[i].kind # "report"
             /\ toHost'[i].kind \in {"status", "value"} => toHost'[i].to \in Callers
  <2>1. CASE i \in Positions /\ toHost'[i] = toHost[i]
    BY <2>1 DEF CallInv, Addressed
  <2>2. CASE toHost'[i] = Answer(c, x)[1] /\ Answer(c, x) # <<>>
    BY <2>2, AnswerIs
  <2> QED
    BY <2>1, <2>2, QueueAfterSend DEF CallInv
<1> QED
  BY <1>1 DEF Addressed, Positions

LEMMA Places ==
  ASSUME TypeOK, NEW c \in Callers
  PROVE  /\ \A v : Succeeded(c, v) => pc'[c] \in {"idle", "send"}
         /\ Failed(c) \/ NextHost(c) => pc'[c] \in {"idle", "send"}
<1>1. \A p : Goto(c, p) => pc'[c] = p
  BY DEF Goto, TypeOK, CallTypes
<1>2. Round(c) \/ NextRound(c) => pc'[c] \in {"idle", "send"}
  BY <1>1 DEF NextRound, Round, Perform, Returns
<1>3. \A v : Succeeded(c, v) => pc'[c] \in {"idle", "send"}
  BY <1>1, <1>2 DEF Succeeded, Perform, Returns
<1>4. Failed(c) \/ NextHost(c) => pc'[c] \in {"idle", "send"}
  BY <1>1, <1>2 DEF Failed, NextHost, Returns
<1> QED
  BY <1>3, <1>4

LEMMA SendObeys ==
  ASSUME CallInv, NEW c \in Callers, Send(c)
  PROVE  /\ pc'[c] # "idle" => StatusIsObeyed(c)'
         /\ ReturnsOk(c) /\ op[c] \in Acknowledged => obeyed[c]
<1> USE DEF CallInv
<1> DEFINE x == Head(todo[c])
<1>1. x \in Exchanges /\ pc[c] = "send" /\ op' = op /\ StatusIsObeyed(c)
  BY HeadTail DEF Send, TypeOK, callVars
<1>2. Sends(c, x, host[c]) /\ fresh' = [fresh EXCEPT ![c] = {}]
  BY DEF Send, Prepare, TakeSequence
<1>3. \/ x.ack = "none" /\ Succeeded(c, NoValue)
      \/ x.ack # "none" /\ Waits(c, "await")
  BY DEF Send
<1>4. obeyed[c] => obeyed'[c]
  BY <1>1, <1>2, QueueAfterSend
<1>5. \A i \in 1 .. Len(toHost') : toHost'[i].kind = "status" => obeyed'[c]
  BY <1>1, <1>2, QueueAfterSend DEF StatusIsObeyed
<1>6. "status" \notin fresh'[c]
  BY <1>2 DEF TypeOK, DriverTypes
<1>7. op[c] \in Acknowledged /\ x.ack = "none" => obeyed[c]
  BY <1>1 DEF StatusIsObeyed
<1> HIDE DEF x
<1>8. CASE x.ack = "none" /\ Succeeded(c, NoValue)
  <2>1. pc'[c] # "look"
    BY <1>8, Places
  <2> QED
    BY <1>1, <1>4, <1>5, <1>6, <1>7, <1>8, <2>1 DEF StatusIsObeyed, Positions
<1>9. CASE x.ack # "none" /\ Waits(c, "await")
  <2>1. pc'[c] = "await" /\ todo' = todo
    BY <1>9, Moves DEF Waits
  <2> QED
    BY <1>1, <1>4, <1>5, <1>6, <2>1 DEF StatusIsObeyed, Positions, ReturnsOk
<1> QED
  BY <1>3, <1>8, <1>9

(* Nothing is sent or received: the call is where it was, or over.         *)
LEMMA FailureObeys ==
  ASSUME CallInv, NEW c \in Callers, pc[c] \in {"send", "await"}, NextHost(c) \/ Failed(c),
         UNCHANGED <<op, toHost, obeyed>>
  PROVE  /\ pc'[c] # "idle" => StatusIsObeyed(c)'
         /\ ReturnsOk(c) /\ op[c] \in Acknowledged => obeyed[c]
<1> USE DEF CallInv
<1>1. StatusIsObeyed(c)
  OBVIOUS
<1>2. pc'[c] \in {"idle", "send"}
  BY Places
<1>3. CASE op[c] \notin Acknowledged
  BY <1>1, <1>2, <1>3 DEF StatusIsObeyed, Positions
<1>4. CASE op[c] \in Acknowledged
  <2>1. op[c] # "ensure"
    BY <1>4 DEF Acknowledged
  <2>2. (Ending(c) /\ result'[c] = "err") \/ Going(c, todo[c])
    BY <2>1, OthersFail
  <2> QED
    BY <1>1, <1>2, <2>2 DEF StatusIsObeyed, Positions, Ending, Going, ReturnsOk
<1> QED
  BY <1>3, <1>4

LEMMA GotAnswerObeys ==
  ASSUME CallInv, NEW c \in Callers, GotAnswer(c)
  PROVE  /\ pc'[c] # "idle" => StatusIsObeyed(c)'
         /\ ReturnsOk(c) /\ op[c] \in Acknowledged => obeyed[c]
<1> USE DEF CallInv
<1>1. /\ StatusIsObeyed(c) /\ pc[c] = "await" /\ Arrived(c)
      /\ UNCHANGED <<op, toHost, obeyed, fresh>>
  BY DEF GotAnswer, callVars, wireVars, history
<1>2. PICK v : Succeeded(c, v)
  BY DEF GotAnswer
<1>3. pc'[c] \in {"idle", "send"}
  BY <1>2, Places
<1>4. op[c] \in Acknowledged => obeyed[c]
  <2>1. Head(todo[c]).ack = "status" => "status" \in fresh[c]
    BY <1>1 DEF Arrived
  <2> QED
    BY <1>1, <2>1 DEF StatusIsObeyed
<1> QED
  BY <1>1, <1>3, <1>4 DEF StatusIsObeyed, Positions

LEMMA StepObeys ==
  ASSUME CallInv, NEW c \in Callers, Step(c)
  PROVE  /\ pc'[c] # "idle" => StatusIsObeyed(c)'
         /\ ReturnsOk(c) /\ op[c] \in Acknowledged => obeyed[c]
         /\ Addressed'
<1> USE DEF CallInv
<1>1. CASE Look(c)
  <2>1. /\ pc[c] = "look" /\ StatusIsObeyed(c) /\ UNCHANGED <<op, toHost, obeyed, fresh>>
        /\ Returns(c, "ok") \/ Waits(c, "send")
    BY <1>1 DEF Look, callVars, wireVars, history
  <2>2. Ending(c) \/ Going(c, todo[c])
    BY <2>1, Moves DEF Waits
  <2>3. op[c] \notin Acknowledged
    BY <2>1 DEF StatusIsObeyed, Acknowledged
  <2> QED
    BY <2>1, <2>2, <2>3 DEF StatusIsObeyed, Positions, Ending, Going, Addressed
<1>2. CASE Send(c)
  <2>1. Head(todo[c]) \in Exchanges
    BY <1>2, HeadTail DEF Send, TypeOK
  <2> QED
    BY <1>2, <2>1, SendObeys, SendAddresses DEF Send
<1>3. CASE SendFails(c)
  <2>1. pc[c] = "send" /\ (NextHost(c) \/ Failed(c)) /\ UNCHANGED <<op, toHost, obeyed>>
    BY <1>3 DEF SendFails, wireVars, callVars, history
  <2> QED
    BY <2>1, FailureObeys DEF Addressed, Positions
<1>4. CASE GotAnswer(c)
  <2>1. toHost' = toHost
    BY <1>4 DEF GotAnswer, wireVars
  <2> QED
    BY <1>4, <2>1, GotAnswerObeys DEF Addressed, Positions
<1>5. CASE TimesOut(c)
  <2>1. pc[c] = "await" /\ NextHost(c) /\ UNCHANGED <<op, toHost, obeyed>>
    BY <1>5 DEF TimesOut, wireVars, callVars, history
  <2> QED
    BY <2>1, FailureObeys DEF Addressed, Positions
<1> QED
  BY <1>1, <1>2, <1>3, <1>4, <1>5 DEF Step

-----------------------------------------------------------------------------
(***************************************************************************)
(* ensure_control_mode.                                                    *)
(***************************************************************************)
LEMMA EnsureHeads ==
  ASSUME NEW c \in Callers, todo[c] \in EnsureScripts(c)
  PROVE  /\ Head(todo[c]).frame \in {"disable", "mode", "read"}
         /\ Head(todo[c]).frame = "read" => Head(todo[c]) = Read("mode")
<1>1. \A x : Head(<<x>>) = x
  OBVIOUS
<1>2. \A x, y : Head(<<x, y>>) = x
  OBVIOUS
<1>3. Head(todo[c]) \in {Control("disable"), Write("mode", want[c]), Read("mode")}
  BY <1>1, <1>2 DEF EnsureScripts
<1>4. Control("disable").frame = "disable" /\ Read("mode").frame = "read"
      /\ Write("mode", want[c]).frame = "mode"
  BY DEF Control, Read, Write, Exchange
<1> QED
  BY <1>3, <1>4

LEMMA EnsureContinues ==
  ASSUME NEW c \in Callers, todo[c] \in EnsureScripts(c), UNCHANGED <<want, setup>>, NoValues',
         \/ Ending(c)
         \/ Going(c, RoundOf(c))
         \/ Going(c, todo[c])
         \/ Going(c, <<Read("mode")>>)
  PROVE  pc'[c] # "idle" => EnsureHolds(c)'
<1>1. EnsureScripts(c)' = EnsureScripts(c)
  BY DEF EnsureScripts, Write, Read, Control, Exchange
<1>2. RoundOf(c) \in EnsureScripts(c) /\ <<Read("mode")>> \in EnsureScripts(c)
  BY DEF RoundOf, EnsureScripts
<1> QED
  BY <1>1, <1>2 DEF Going, Ending, EnsureHolds, AwaitsValue

LEMMA SendEnsures ==
  ASSUME CallInv, NEW c \in Callers, op[c] = "ensure", Send(c)
  PROVE  pc'[c] # "idle" => EnsureHolds(c)'
<1> USE DEF CallInv
<1> DEFINE x == Head(todo[c])
<1>1. /\ x \in Exchanges /\ pc[c] = "send" /\ op' = op /\ want' = want
      /\ todo[c] \in EnsureScripts(c) /\ NoValues
  BY HeadTail DEF Send, TypeOK, callVars, EnsureHolds, AwaitsValue
<1>2. /\ Prepare(c, x) /\ Sends(c, x, host[c]) /\ setup' = setup
      /\ \/ x.ack = "none" /\ Succeeded(c, NoValue)
         \/ x.ack # "none" /\ Waits(c, "await")
  BY DEF Send, Sends, Reacts, motorVars
<1>3. /\ x.frame \in {"disable", "mode", "read"}
      /\ x.frame = "read" => x = Read("mode")
  BY <1>1, EnsureHeads
<1> HIDE DEF x
<1>4. \A i \in 1 .. Len(toHost') : toHost'[i].kind = "value" =>
        /\ i = Len(toHost) + 1 /\ x.frame = "read"
        /\ toHost'[i] = Answer(c, x)[1] /\ Answer(c, x) # <<>>
  BY <1>1, <1>2, QueueAfterSend, AnswerIs DEF NoValues
<1>5. EnsureScripts(c)' = EnsureScripts(c)
  BY <1>1, <1>2 DEF EnsureScripts, Write, Read, Control, Exchange
<1>6. CASE x.frame # "read"
  <2>1. NoValues'
    BY <1>4, <1>6 DEF NoValues, Positions
  <2>2. CASE Succeeded(c, NoValue)
    <3>1. Ending(c) \/ Going(c, RoundOf(c)) \/ Going(c, <<Read("mode")>>)
      BY <1>1, <2>2, EnsureSucceeds
    <3> QED
      BY <1>1, <1>2, <2>1, <3>1, EnsureContinues
  <2>3. CASE Waits(c, "await")
    <3>1. todo' = todo
      BY <2>3 DEF Waits
    <3>2. ~AwaitsValue(c)'
      BY <1>6, <3>1 DEF AwaitsValue, x
    <3> QED
      BY <1>1, <1>5, <2>1, <3>1, <3>2 DEF EnsureHolds
  <2> QED
    BY <1>2, <2>2, <2>3
<1>7. CASE x.frame = "read"
  <2>1. x.arg = "mode" /\ x.ack = "value"
    BY <1>3, <1>7 DEF Read, Exchange
  <2>2. pc'[c] = "await" /\ todo' = todo
    BY <1>2, <2>1, Moves DEF Waits
  <2>3. AwaitsValue(c)'
    BY <1>7, <2>2 DEF AwaitsValue, x
  <2>4. mode' = mode
    BY <1>1, <1>2, <1>7, QueueAfterSend
  <2>5. pending' = "mode" /\ values'["mode"] = NoValue
    BY <1>2, <1>7, <2>1 DEF Prepare, Forget, TypeOK, DriverTypes, Params
  <2>6. \A i \in 1 .. Len(toHost') : toHost'[i].kind = "value" =>
          i = Len(toHost) + 1 /\ toHost'[i].of = "mode" /\ toHost'[i].raw = mode
    BY <1>1, <1>4, <1>7, <2>1, AnswerIs
  <2>7. ModeIsRead(c)'
    BY <2>4, <2>5, <2>6 DEF ModeIsRead, Positions, NoValue
  <2> QED
    BY <1>1, <1>5, <2>2, <2>3, <2>7 DEF EnsureHolds
<1> QED
  BY <1>6, <1>7

LEMMA StepEnsures ==
  ASSUME OneThread, CallInv, NEW c \in Callers, op[c] = "ensure", Step(c)
  PROVE  /\ pc'[c] # "idle" => EnsureHolds(c)'
         /\ ReturnsOk(c) /\ pc[c] = "await" => mode' = want[c]
<1> USE DEF CallInv
<1>1. CASE Look(c)
  <2>1. /\ pc[c] = "look" /\ UNCHANGED <<op, want, setup, toHost>>
        /\ Returns(c, "ok") \/ Waits(c, "send")
    BY <1>1 DEF Look, callVars, wireVars, motorVars
  <2>2. todo[c] \in EnsureScripts(c) /\ NoValues
    BY <2>1 DEF EnsureHolds, AwaitsValue
  <2>3. NoValues'
    BY <2>1, <2>2 DEF NoValues, Positions
  <2>4. Ending(c) \/ Going(c, todo[c])
    BY <2>1, Moves DEF Waits
  <2> QED
    BY <2>1, <2>2, <2>3, <2>4, EnsureContinues DEF ReturnsOk
<1>2. CASE Send(c)
  BY <1>2, SendEnsures DEF Send, ReturnsOk
<1>3. CASE SendFails(c)
  <2>1. pc[c] = "send" /\ (NextHost(c) \/ Failed(c)) /\ UNCHANGED <<op, want, setup, toHost>>
    BY <1>3 DEF SendFails, wireVars, callVars, motorVars
  <2>2. todo[c] \in EnsureScripts(c) /\ NoValues
    BY <2>1 DEF EnsureHolds, AwaitsValue
  <2>3. NoValues'
    BY <2>1, <2>2 DEF NoValues, Positions
  <2>4. Ending(c) \/ Going(c, RoundOf(c)) \/ Going(c, todo[c])
    BY <2>1, EnsureFails, EnsureFailsAtOnce
  <2> QED
    BY <2>1, <2>2, <2>3, <2>4, EnsureContinues DEF ReturnsOk
<1>4. CASE GotAnswer(c)
  <2>1. pc[c] = "await" /\ Arrived(c) /\ UNCHANGED <<op, want, setup, mode, toHost>>
    BY <1>4 DEF GotAnswer, wireVars, callVars, motorVars
  <2>2. todo[c] \in EnsureScripts(c)
    BY <2>1 DEF EnsureHolds
  <2>3. PICK v : /\ Succeeded(c, v)
                 /\ Head(todo[c]).ack = "value" => v = values[Head(todo[c]).arg]
    BY <1>4 DEF GotAnswer
  <2>4. Head(todo[c]).frame = "read" =>
          Head(todo[c]).ack = "value" /\ Head(todo[c]).arg = "mode"
    BY <2>2, EnsureHeads DEF Read, Exchange
  <2>5. NoValues /\ (Head(todo[c]).frame = "read" => v.raw = mode)
    <3>1. CASE Head(todo[c]).frame = "read"
      <4>1. ModeIsRead(c) /\ values["mode"].of # Unknown
        BY <2>1, <2>4, <3>1 DEF EnsureHolds, AwaitsValue, Arrived
      <4> QED
        BY <2>3, <2>4, <3>1, <4>1 DEF ModeIsRead
    <3>2. CASE Head(todo[c]).frame # "read"
      BY <2>1, <3>2 DEF EnsureHolds, AwaitsValue
    <3> QED
      BY <3>1, <3>2
  <2>6. NoValues'
    BY <2>1, <2>5 DEF NoValues, Positions
  <2>7. \/ /\ Ending(c)
           /\ result'[c] = "ok" => Head(todo[c]).frame = "read" /\ v.raw = want[c]
        \/ Going(c, RoundOf(c))
        \/ Going(c, <<Read("mode")>>)
    BY <2>2, <2>3, EnsureSucceeds
  <2>8. pc'[c] # "idle" => EnsureHolds(c)'
    BY <2>1, <2>2, <2>6, <2>7, EnsureContinues
  <2>9. ReturnsOk(c) => mode' = want[c]
    BY <2>1, <2>5, <2>7 DEF ReturnsOk, Going
  <2> QED
    BY <2>8, <2>9
<1>5. CASE TimesOut(c)
  <2>1. pc[c] = "await" /\ NextHost(c) /\ UNCHANGED <<op, want, setup, toHost>>
    BY <1>5 DEF TimesOut, wireVars, callVars, motorVars
  <2>2. todo[c] \in EnsureScripts(c)
    BY <2>1 DEF EnsureHolds
  <2>3. NoValues
    <3>1. \A i \in Positions : i \in DOMAIN toHost
      BY DEF Positions, TypeOK, MotorTypes
    <3>2. \A i \in Positions : toHost[i].to # c
      BY <1>5, <3>1 DEF TimesOut, MayTimeOut, OneThread, NoAnswerFor
    <3> QED
      BY <3>2 DEF Addressed, OneThread, NoValues
  <2>4. NoValues'
    BY <2>1, <2>3 DEF NoValues, Positions
  <2>5. (Ending(c) /\ result'[c] = "err") \/ Going(c, RoundOf(c)) \/ Going(c, todo[c])
    BY <2>1, EnsureFails
  <2> QED
    BY <2>1, <2>2, <2>4, <2>5, EnsureContinues DEF ReturnsOk, Ending, Going
<1> QED
  BY <1>1, <1>2, <1>3, <1>4, <1>5 DEF Step

-----------------------------------------------------------------------------
LEMMA ProcessFeedbackFrameKeeps == ASSUME CallInv, ProcessFeedbackFrame PROVE CallInv'
<1> USE DEF CallInv
<1> DEFINE a == Head(toHost)
<1>1. /\ \A i \in 1 .. Len(toHost') : i + 1 \in Positions /\ toHost'[i] = toHost[i + 1]
      /\ 1 \in Positions /\ toHost[1] = a
  BY QueueTail
<1>2. UNCHANGED <<mode, setup, pc, op, want, todo, obeyed>>
  BY DEF ProcessFeedbackFrame, motorVars, callVars, history
<1>3. fresh' = [c \in Callers |->
                  IF pc[c] # "await" THEN fresh[c] ELSE fresh[c] \cup {"any"}
                    \cup (IF a.kind \in {"status", "report"} THEN {"status"} ELSE {})]
  BY DEF ProcessFeedbackFrame
<1>4. \/ /\ a.kind = "value"
         /\ \E raw \in (IF FiledUnder(a) = a.of THEN {a.raw} ELSE Modes \cup {Unknown}) :
              values' = [values EXCEPT ![FiledUnder(a)] = [of |-> a.of, raw |-> raw]]
      \/ a.kind # "value" /\ UNCHANGED <<pending, values>>
  BY DEF ProcessFeedbackFrame
<1> HIDE DEF a
<1>5. TypeOK'
  BY WireStepTypes
<1>6. Addressed'
  BY <1>1 DEF Addressed, Positions
<1>7. ASSUME NEW c \in Callers, pc[c] # "idle" PROVE StatusIsObeyed(c)'
  <2>1. \A i \in 1 .. Len(toHost') : toHost'[i].kind = "status" => obeyed[c]
    BY <1>1, <1>7 DEF StatusIsObeyed
  <2>2. a.kind # "report" /\ (a.kind = "status" => obeyed[c])
    BY <1>1, <1>7 DEF StatusIsObeyed, Addressed
  <2>3. pc[c] = "await" /\ "status" \in fresh'[c] => obeyed[c]
    BY <1>3, <1>7, <2>2 DEF StatusIsObeyed
  <2> QED
    BY <1>2, <1>7, <2>1, <2>3 DEF StatusIsObeyed, Positions
<1>8. ASSUME NEW c \in Callers, pc[c] # "idle", op[c] = "ensure" PROVE EnsureHolds(c)'
  <2>1. EnsureScripts(c)' = EnsureScripts(c) /\ (AwaitsValue(c)' <=> AwaitsValue(c))
    BY <1>2 DEF EnsureScripts, AwaitsValue, Write, Read, Control, Exchange
  <2>2. todo[c] \in EnsureScripts(c)
    BY <1>8 DEF EnsureHolds
  <2>3. CASE ~AwaitsValue(c)
    <3>1. NoValues'
      BY <1>1, <1>8, <2>3 DEF EnsureHolds, NoValues, Positions
    <3> QED
      BY <1>2, <2>1, <2>2, <2>3, <3>1 DEF EnsureHolds
  <2>4. CASE AwaitsValue(c)
    <3>1. ModeIsRead(c)
      BY <1>8, <2>4 DEF EnsureHolds
    <3>2. ModeIsRead(c)'
      <4>1. CASE a.kind = "value"
        <5>1. \A i \in 1 .. Len(toHost') : toHost'[i].kind # "value"
          BY <1>1, <3>1, <4>1 DEF ModeIsRead
        <5>2. a.of = "mode" /\ a.raw = mode /\ pending = "mode"
          BY <1>1, <3>1, <4>1 DEF ModeIsRead
        <5>3. FiledUnder(a) = "mode"
          BY <5>2 DEF FiledUnder, Unknown
        <5>4. values' = [values EXCEPT !["mode"] = [of |-> "mode", raw |-> mode]]
          BY <1>4, <4>1, <5>2, <5>3
        <5>5. values'["mode"].raw = mode
          BY <5>4 DEF TypeOK, DriverTypes, Params
        <5> QED
          BY <1>2, <5>1, <5>5 DEF ModeIsRead, NoValues, Positions
      <4>2. CASE a.kind # "value"
        <5>1. UNCHANGED <<pending, values>>
          BY <1>4, <4>2
        <5>2. \A i, j \in 1 .. Len(toHost') :
                toHost'[i].kind = "value" /\ toHost'[j].kind = "value" => i = j
          <6> SUFFICES ASSUME NEW i \in 1 .. Len(toHost'), NEW j \in 1 .. Len(toHost'),
                              toHost'[i].kind = "value", toHost'[j].kind = "value"
                       PROVE  i = j
            OBVIOUS
          <6>1. i + 1 = j + 1
            BY <1>1, <3>1 DEF ModeIsRead
          <6> QED
            BY <6>1
        <5>3. \A i \in 1 .. Len(toHost') : toHost'[i].kind = "value" =>
                toHost'[i].of = "mode" /\ toHost'[i].raw = mode /\ pending' = "mode"
          BY <1>1, <3>1, <5>1 DEF ModeIsRead
        <5>4. values["mode"].of # Unknown =>
                values["mode"].raw = mode /\ \A i \in 1 .. Len(toHost') : toHost'[i].kind # "value"
          BY <1>1, <3>1 DEF ModeIsRead, NoValues
        <5> QED
          BY <1>2, <5>1, <5>2, <5>3, <5>4 DEF ModeIsRead, NoValues, Positions
      <4> QED
        BY <4>1, <4>2
    <3> QED
      BY <1>2, <2>1, <2>2, <2>4, <3>2 DEF EnsureHolds
  <2> QED
    BY <2>3, <2>4
<1> QED
  BY <1>2, <1>5, <1>6, <1>7, <1>8 DEF EnsureHolds

LEMMA ReportsKeeps == ASSUME OneThread, CallInv, Reports PROVE CallInv'
<1> USE DEF CallInv
<1>1. PICK k \in setup.unasked :
        toHost' = Append(toHost, [kind |-> k, of |-> Unknown, raw |-> Unknown, to |-> Unknown])
  BY DEF Reports
<1>2. k = "fault"
  BY DEF OneThread, TypeOK, MotorTypes, SetupType, Reported
<1>3. PICK r : r = [kind |-> k, of |-> Unknown, raw |-> Unknown, to |-> Unknown]
  OBVIOUS
<1>4. \A i \in 1 .. Len(toHost') :
        (i \in Positions /\ toHost'[i] = toHost[i]) \/ toHost'[i].kind = "fault"
  <2>1. \A s \in Seq(Answers) : /\ Len(Append(s, r)) = Len(s) + 1 /\ Append(s, r)[Len(s) + 1] = r
                                /\ \A i \in 1 .. Len(s) : Append(s, r)[i] = s[i]
                                /\ Len(s) \in Nat
    OBVIOUS
  <2>2. PICK s : s = toHost
    OBVIOUS
  <2>3. s \in Seq(Answers) /\ toHost' = Append(s, r)
    BY <1>1, <1>3, <2>2 DEF TypeOK, MotorTypes
  <2>4. /\ Len(toHost') = Len(s) + 1 /\ toHost'[Len(s) + 1] = r /\ Len(s) \in Nat
        /\ \A i \in 1 .. Len(s) : toHost'[i] = s[i]
    BY <2>1, <2>3
  <2>5. \A i \in 1 .. Len(toHost') : (i \in 1 .. Len(s) /\ toHost'[i] = s[i]) \/ toHost'[i] = r
    BY <2>4
  <2>6. r.kind = "fault"
    BY <1>2, <1>3
  <2> QED
    BY <2>2, <2>5, <2>6 DEF Positions
<1>5. UNCHANGED <<mode, setup, fresh, values, pending, pc, op, want, todo, obeyed>>
  BY DEF Reports, motorVars, driverVars, callVars, history
<1>6. TypeOK'
  BY WireStepTypes
<1>7. Addressed'
  BY <1>4 DEF Addressed, Positions
<1>8. \A c \in Callers : StatusIsObeyed(c) => StatusIsObeyed(c)'
  BY <1>4, <1>5 DEF StatusIsObeyed, Positions
<1>9. NoValues => NoValues'
  BY <1>4 DEF NoValues, Positions
<1>10. \A c \in Callers : ModeIsRead(c) => ModeIsRead(c)'
  BY <1>4, <1>5, <1>9 DEF ModeIsRead, Positions
<1>11. \A c \in Callers : EnsureHolds(c) => EnsureHolds(c)'
  BY <1>5, <1>9, <1>10 DEF EnsureHolds, EnsureScripts, AwaitsValue, Write, Read, Control, Exchange
<1> QED
  BY <1>5, <1>6, <1>7, <1>8, <1>11

LEMMA StepKeeps == ASSUME OneThread, CallInv, NEW c \in Callers, Step(c) PROVE CallInv'
<1>1. TypeOK' /\ Addressed'
  BY StepTypes, StepObeys DEF CallInv
<1>2. op' = op
  BY DEF Step, Look, Send, SendFails, GotAnswer, TimesOut, callVars
<1>3. pc[c] # "idle"
  BY DEF Step, Look, Send, SendFails, GotAnswer, TimesOut
<1>4. pc'[c] # "idle" => StatusIsObeyed(c)'
  BY StepObeys
<1>5. pc'[c] # "idle" => EnsureHolds(c)'
  <2>1. CASE op[c] = "ensure"
    BY <2>1, StepEnsures
  <2>2. CASE op[c] # "ensure"
    BY <1>2, <2>2 DEF EnsureHolds
  <2> QED
    BY <2>1, <2>2
<1> QED
  BY <1>1, <1>4, <1>5 DEF CallInv, OneThread

LEMMA CallInductive == ASSUME OneThread, CallInv, [Next]_vars PROVE CallInv'
<1>1. CASE UNCHANGED vars
  BY <1>1 DEF vars, motorVars, wireVars, driverVars, callVars, history, CallInv, TypeOK, MotorTypes,
              DriverTypes, CallTypes, HistoryTypes, Addressed, Positions, StatusIsObeyed,
              EnsureHolds, EnsureScripts, AwaitsValue, ModeIsRead, NoValues, Write, Read, Control,
              Exchange
<1> QED
  BY <1>1, NewCallKeeps, StepKeeps, ProcessFeedbackFrameKeeps, ReportsKeeps DEF Next

LEMMA CallsHold == ASSUME OneThread PROVE SafeSpec => []CallInv
<1>1. Init => CallInv
  <2>1. Init => toHost = <<>> /\ \A c \in Callers : pc[c] = "idle"
    BY DEF Init
  <2>2. Init => TypeOK
    BY InitTypes
  <2> QED
    BY <2>1, <2>2 DEF CallInv, Addressed, Positions
<1>2. CallInv /\ [Next]_vars => CallInv'
  BY CallInductive
<1> QED
  BY <1>1, <1>2, PTL DEF SafeSpec

(* Only a step of the call itself ends it. *)
LEMMA OnlyStepsReturn ==
  ASSUME CallInv, Next, NEW c \in Callers, OneThread, ReturnsOk(c)
  PROVE  Step(c)
<1>1. ~NewCall(c)
  BY DEF NewCall, ReturnsOk
<1>2. ~ProcessFeedbackFrame /\ ~Reports
  BY DEF ProcessFeedbackFrame, Reports, ReturnsOk
<1> QED
  BY <1>1, <1>2 DEF Next, OneThread

(* An acknowledged command of a single thread returns Ok only if the motor *)
(* obeyed a frame of it, for any number of losses and candidate hosts, as  *)
(* long as the motor does not report of its own accord.                    *)
THEOREM OkIsObeyed == ASSUME OneThread PROVE SafeSpec => OkMeansObeyed
<1>1. CallInv /\ Next => (\A c \in Callers :
        ReturnsOk(c) /\ op[c] \in Acknowledged /\ alone[c] => obeyed[c])
  BY OnlyStepsReturn, StepObeys
<1>2. UNCHANGED vars => (\A c \in Callers :
        ReturnsOk(c) /\ op[c] \in Acknowledged /\ alone[c] => obeyed[c])
  BY DEF vars, ReturnsOk
<1>3. CallInv /\ [Next]_vars => [\A c \in Callers :
        ReturnsOk(c) /\ op[c] \in Acknowledged /\ alone[c] => obeyed[c]]_vars
  BY <1>1, <1>2
<1> QED
  BY <1>3, CallsHold, PTL DEF SafeSpec, OkMeansObeyed

(* A mode that a single thread's ensure_control_mode verified is the mode  *)
(* the motor is in, for any losses, hosts, attempts and firmware.          *)
THEOREM VerifiedIsTrue == ASSUME OneThread PROVE SafeSpec => VerifiedModeHolds
<1>1. CallInv /\ Next => (\A c \in Callers :
        ReturnsOk(c) /\ op[c] = "ensure" /\ pc[c] = "await" /\ alone[c] => mode' = want[c])
  BY OnlyStepsReturn, StepEnsures
<1>2. CallInv /\ [Next]_vars => [\A c \in Callers :
        ReturnsOk(c) /\ op[c] = "ensure" /\ pc[c] = "await" /\ alone[c] => mode' = want[c]]_vars
  BY <1>1
<1> QED
  BY <1>2, CallsHold, PTL DEF SafeSpec, VerifiedModeHolds
-----------------------------------------------------------------------------
(***************************************************************************)
(* What get_parameter and controlled_stop read.  There is one pending slot *)
(* and the bytes of one parameter decode as any other, so what is read is  *)
(* right only as long as a single thread asks for parameters; the others   *)
(* may send what commands they like.  Then no parameter is on its way when *)
(* the reader begins to read, and from its request on at most one is: the  *)
(* one it asked for, with a value it had since.                            *)
(***************************************************************************)
Reading == {"get", "ensure", "stop", "request"}

OneReader ==
  /\ ~Late
  /\ \A s \in Setups, c, d \in Callers :
       c # d /\ s.calls[c] \cap {"get", "stop"} # {} => s.calls[d] \cap Reading = {}

Allowed == \A c \in Callers : pc[c] # "idle" => op[c] \in setup.calls[c]

ForReaders ==
  \A i \in Positions : toHost[i].kind = "value" =>
    toHost[i].to \in Callers /\ setup.calls[toHost[i].to] \cap Reading # {}

Commands == {x \in Exchanges : x.frame # "read"}
OnlyReadersRead ==
  \A c \in Callers : pc[c] # "idle" /\ op[c] \notin Reading => todo[c] \in Seq(Commands)

AloneIsAlone == \A c, o \in Callers : pc[c] # "idle" /\ alone[c] /\ o # c => pc[o] = "idle"

(* The reply to the request for p, in the queue or in its slot. *)
OneReply(c, p) ==
  /\ \A i, j \in Positions : toHost[i].kind = "value" /\ toHost[j].kind = "value" => i = j
  /\ \A i \in Positions : toHost[i].kind = "value" =>
       /\ toHost[i].of = p /\ pending = p
       /\ p = "mode" => toHost[i].raw \in modesSince[c]
  /\ values[p].of # Unknown =>
       /\ NoValues /\ values[p].of = p
       /\ p = "mode" => values[p].raw \in modesSince[c]

(* controlled_stop's last command, once the mode is known. *)
Halt(m) == IF m = "mit" THEN Plain("hold", "mit") ELSE Write("halt", m)

Shape(c) ==
  IF op[c] = "get" THEN todo[c] \in {<<Read("mode")>>, <<Read("position")>>}
  ELSE todo[c] \in {<<Read("mode")>>, <<Read("position"), Halt(mode)>>, <<Halt(mode)>>}

(* A stop that is undisturbed may only wait for the acknowledgement of a   *)
(* command that already holds the motor.                                   *)
ReadHolds(c) ==
  /\ pc[c] # "look" /\ Shape(c)
  /\ IF AwaitsValue(c) THEN OneReply(c, Head(todo[c]).arg) ELSE NoValues
  /\ op[c] = "stop" =>
       /\ AwaitsValue(c) => modesSince[c] = {mode}
       /\ pc[c] = "await" /\ ~AwaitsValue(c) /\ lossless[c] => mode \in still

Watched(c) == pc[c] # "idle" /\ (op[c] = "get" \/ (op[c] = "stop" /\ alone[c]))

ReadInv ==
  /\ TypeOK /\ Allowed /\ ForReaders /\ OnlyReadersRead /\ AloneIsAlone
  /\ \A c \in Callers : Watched(c) => ReadHolds(c)

(* What no method but a reading one puts on its list. *)
LEMMA CommandLists ==
  /\ \A x \in Commands : <<x>> \in Seq(Commands)
  /\ \A x, y \in Commands : <<x, y>> \in Seq(Commands)
  /\ \A s, t \in Seq(Commands) : s \o t \in Seq(Commands)
  /\ \A s \in Seq(Commands) : s # <<>> => Head(s) \in Commands /\ Tail(s) \in Seq(Commands)
<1> PICK S : S = Commands
  OBVIOUS
<1>1. \A x \in S : <<x>> \in Seq(S)
  OBVIOUS
<1>2. \A x, y \in S : <<x, y>> \in Seq(S)
  OBVIOUS
<1>3. \A s, t \in Seq(S) : s \o t \in Seq(S)
  OBVIOUS
<1>4. \A s \in Seq(S) : s # <<>> => Head(s) \in S /\ Tail(s) \in Seq(S)
  OBVIOUS
<1> QED
  BY <1>1, <1>2, <1>3, <1>4

LEMMA CommandScripts ==
  ASSUME NEW m \in Methods \ Reading, NEW v \in Modes, NEW flag \in BOOLEAN,
         m \in {"velocity", "csp", "pp", "mit"} => m \in Modes
  PROVE  Script(m, v, flag) \in Seq(Commands)
<1>1. \A f \in Frames \ {"mode", "halt", "hold", "read"} :
        {Control(f), Respond(f), Plain(f, Unknown)} \subseteq Commands
  BY SomeExchanges DEF Commands, Control, Respond, Plain, Exchange
<1>2. \A f \in Frames \ {"read"}, n \in Modes : Plain(f, n) \in Commands /\ Write(f, n) \in Commands
  BY SomeExchanges DEF Commands, Plain, Write, Exchange
<1>3. Write("zero_sta", Unknown) \in Commands /\ Ping \in Commands
  BY SomeExchanges DEF Commands, Write, Ping, Exchange
<1>4. CASE m \in {"enable", "disable"}
  <2>1. Control(m) \in Commands /\ Script(m, v, flag) = <<Control(m)>>
    BY <1>1, <1>4 DEF Script, Frames
  <2> QED
    BY <2>1, CommandLists
<1>5. CASE m \in {"clear_error", "save", "active_report", "ping"}
  <2>1. {Control("clear"), Respond("save"), Plain("active", Unknown)} \subseteq Commands
    BY <1>1 DEF Frames
  <2>2. Script(m, v, flag) \in {<<Control("clear")>>, <<Respond("save")>>,
                                <<Plain("active", Unknown)>>, <<Ping>>}
    BY <1>5 DEF Script
  <2> QED
    BY <1>3, <2>1, <2>2, CommandLists
<1>6. CASE m \in {"set_zero", "set_device_id"}
  <2>1. Control("zero") \in Commands /\ Plain("id", Unknown) \in Commands
    BY <1>1 DEF Frames
  <2>2. Script(m, v, flag) \in {<<Control("zero"), Write("zero_sta", Unknown)>>,
                                <<Ping, Plain("id", Unknown)>>}
    BY <1>6 DEF Script
  <2> QED
    BY <1>3, <2>1, <2>2, CommandLists
<1>7. CASE m = "set_protocol"
  <2>1. Respond("protocol") \in Commands /\ Plain("protocol", Unknown) \in Commands
    BY <1>1 DEF Frames
  <2>2. Script(m, v, flag) \in {<<Respond("protocol")>>, <<Plain("protocol", Unknown)>>}
    BY <1>7 DEF Script
  <2> QED
    BY <2>1, <2>2, CommandLists
<1>8. CASE m \in {"set_mode", "velocity", "mit"}
  <2>1. /\ Write("mode", v) \in Commands
        /\ m = "velocity" => Write("target", "velocity") \in Commands
        /\ m = "mit" => Plain("weak", "mit") \in Commands /\ Plain("firm", "mit") \in Commands
    BY <1>2 DEF Frames
  <2>2. \/ Script(m, v, flag) = <<Write("mode", v)>>
        \/ m = "velocity" /\ Script(m, v, flag) = <<Write("target", "velocity")>>
        \/ m = "mit" /\ Script(m, v, flag) \in {<<Plain("weak", "mit")>>, <<Plain("firm", "mit")>>}
    BY <1>8 DEF Script
  <2> QED
    BY <2>1, <2>2, CommandLists
<1>9. CASE m \in {"csp", "pp"}
  <2>1. Script(m, v, flag) = Positioning(m, flag) /\ m \in Modes
    BY <1>9 DEF Script
  <2>2. /\ Write("mode", m) \in Commands /\ Control("enable") \in Commands
        /\ Write("limit", m) \in Commands /\ Write("target", m) \in Commands
    BY <1>1, <1>2, <2>1 DEF Frames
  <2>3. PICK s : s = <<Write("mode", m), Control("enable")>>
    OBVIOUS
  <2>4. PICK t : t = IF flag THEN <<Write("limit", m)>> ELSE <<>>
    OBVIOUS
  <2>5. PICK u : u = <<Write("target", m)>>
    OBVIOUS
  <2>6. <<>> \in Seq(Commands)
    OBVIOUS
  <2>7. s \in Seq(Commands) /\ t \in Seq(Commands) /\ u \in Seq(Commands)
    BY <2>2, <2>3, <2>4, <2>5, <2>6, CommandLists
  <2>8. (s \o t) \o u \in Seq(Commands)
    BY <2>7, CommandLists
  <2> QED
    BY <2>1, <2>3, <2>4, <2>5, <2>8 DEF Positioning
<1> QED
  BY <1>4, <1>5, <1>6, <1>7, <1>8, <1>9 DEF Methods, Reading

LEMMA StopScriptIs ==
  ASSUME NEW m \in Modes
  PROVE  StopScript(m) \in {<<Read("position"), Halt(m)>>, <<Halt(m)>>}
  BY DEF StopScript, Halt, ControlModes

LEMMA SendsSince ==
  ASSUME TypeOK, NEW c \in Callers, NEW x, NEW h, Sends(c, x, h)
  PROVE  /\ x.frame = "read" => modesSince'[c] = {mode}
         /\ \A o \in Callers : o # c /\ pc[o] = "await" => modesSince[o] \subseteq modesSince'[o]
         /\ UNCHANGED <<setup, alone>>
  BY DEF Sends, Reacts, motorVars
LEMMA ReaderStarts ==
  ASSUME OneReader, ReadInv, NEW c \in Callers, NewCall(c)
  PROVE  ReadInv'
<1> USE DEF ReadInv
<1>1. PICK m \in setup.calls[c], v \in Modes, flag \in BOOLEAN :
        /\ m \in {"velocity", "csp", "pp", "mit"} => m \in Modes
        /\ op' = [op EXCEPT ![c] = m] /\ want' = [want EXCEPT ![c] = v]
        /\ todo' = [todo EXCEPT ![c] = Script(m, v, flag)]
        /\ Goto(c, IF m = "ensure" THEN "look" ELSE "send")
  BY DEF NewCall
<1>2. /\ UNCHANGED <<toHost, setup, mode, still, values, pending, modesSince>> /\ pc[c] = "idle"
      /\ NoAnswerFor(c) /\ TypeOK'
      /\ alone' = [o \in Callers |-> IF o = c THEN \A p \in Callers : pc[p] = "idle"
                                     ELSE alone[o] /\ pc[o] = "idle"]
      /\ \A o \in Callers : o # c => lossless'[o] = lossless[o]
  BY NewCallTypes DEF NewCall, OneReader, wireVars, motorVars, driverVars, TypeOK, HistoryTypes
<1>3. /\ op'[c] = m /\ todo'[c] = Script(m, v, flag) /\ pc'[c] \in {"look", "send"}
      /\ m # "ensure" => pc'[c] = "send"
      /\ \A o \in Callers : o # c => pc'[o] = pc[o] /\ op'[o] = op[o] /\ todo'[o] = todo[o]
  BY <1>1 DEF TypeOK, CallTypes, Goto
<1>4. m \in Methods
  BY DEF TypeOK, MotorTypes, SetupType
<1>5. Allowed' /\ ForReaders'
  BY <1>2, <1>3 DEF Allowed, ForReaders, Positions
<1>6. OnlyReadersRead'
  BY <1>1, <1>3, <1>4, CommandScripts DEF OnlyReadersRead
<1>7. AloneIsAlone'
  BY <1>2, <1>3 DEF AloneIsAlone
<1>8. ASSUME m \in {"get", "stop"} PROVE ReadHolds(c)'
  <2>1. NoValues
    <3>1. SUFFICES ASSUME NEW i \in Positions, toHost[i].kind = "value" PROVE FALSE
      BY DEF NoValues
    <3>2. toHost[i].to \in Callers /\ setup.calls[toHost[i].to] \cap Reading # {}
      BY <3>1 DEF ForReaders
    <3>3. m \in setup.calls[c] \cap {"get", "stop"} /\ setup \in Setups
      BY <1>8 DEF TypeOK, MotorTypes
    <3>4. toHost[i].to = c
      BY <3>2, <3>3 DEF OneReader
    <3> QED
      BY <1>2, <3>1, <3>4 DEF NoAnswerFor, Positions, TypeOK, MotorTypes
  <2>2. todo'[c] \in {<<Read("mode")>>, <<Read("position")>>}
        /\ (m = "stop" => todo'[c] = <<Read("mode")>>)
    BY <1>3, <1>8 DEF Script
  <2>3. /\ Read("mode")' = Read("mode") /\ Read("position")' = Read("position")
        /\ pc'[c] = "send" /\ ~AwaitsValue(c)'
    BY <1>3, <1>8 DEF Read, Exchange, AwaitsValue
  <2> QED
    BY <1>2, <1>3, <1>8, <2>1, <2>2, <2>3 DEF ReadHolds, Shape, NoValues, Positions
<1>9. ASSUME NEW o \in Callers, o # c, Watched(o)' PROVE ReadHolds(o)'
  <2>1. Watched(o) /\ op[o] = "get"
    BY <1>2, <1>3, <1>9 DEF Watched
  <2> QED
    BY <1>2, <1>3, <1>9, <2>1 DEF ReadHolds, Shape, AwaitsValue, OneReply, NoValues, Positions, Read, Exchange
<1> QED
  BY <1>2, <1>3, <1>5, <1>6, <1>7, <1>8, <1>9 DEF Watched

(* What a step of one caller leaves to the others. *)
LEMMA OthersRest ==
  ASSUME TypeOK, NEW c \in Callers, Step(c)
  PROVE  /\ \A o \in Callers : o # c => pc'[o] = pc[o] /\ todo'[o] = todo[o]
                                        /\ lossless'[o] = lossless[o]
         /\ pc[c] # "idle" /\ UNCHANGED <<op, setup, alone>>
<1>1. pc[c] # "idle" /\ UNCHANGED <<op, setup, alone>>
  BY DEF Step, Look, Send, SendFails, GotAnswer, TimesOut, Sends, Reacts, callVars, motorVars, history
<1>2. ASSUME NEW o \in Callers, o # c PROVE lossless'[o] = lossless[o]
  BY <1>2 DEF Step, Look, Send, SendFails, GotAnswer, TimesOut, Sends, history, TypeOK, HistoryTypes
<1>3. ASSUME NEW o \in Callers, o # c PROVE pc'[o] = pc[o] /\ todo'[o] = todo[o]
  <2>1. /\ \A p : Goto(c, p) => pc'[o] = pc[o]
        /\ \A t : todo' = [todo EXCEPT ![c] = t] => todo'[o] = todo[o]
    BY <1>3 DEF Goto, TypeOK, CallTypes
  <2>2. /\ \A r : Returns(c, r) => pc'[o] = pc[o] /\ todo'[o] = todo[o]
        /\ \A s : Perform(c, s) => pc'[o] = pc[o] /\ todo'[o] = todo[o]
        /\ \A p : Waits(c, p) => pc'[o] = pc[o] /\ todo'[o] = todo[o]
    BY <2>1 DEF Returns, Perform, Waits
  <2>3. /\ Failed(c) => pc'[o] = pc[o] /\ todo'[o] = todo[o]
        /\ \A v : Succeeded(c, v) => pc'[o] = pc[o] /\ todo'[o] = todo[o]
    BY <2>2 DEF Failed, Succeeded, Round, NextRound
  <2>4. NextHost(c) => pc'[o] = pc[o] /\ todo'[o] = todo[o]
    BY <2>1, <2>3 DEF NextHost
  <2> QED
    BY <2>2, <2>3, <2>4 DEF Step, Look, Send, SendFails, GotAnswer, TimesOut
<1> QED
  BY <1>1, <1>2, <1>3

(* A caller that reads nothing leaves the reader's reply alone. *)
LEMMA CommandsLeaveReader ==
  ASSUME TypeOK, NEW c \in Callers, Step(c), Head(todo[c]).frame # "read", Head(todo[c]) \in Exchanges
  PROVE  /\ UNCHANGED <<values, pending>>
         /\ \A i \in 1 .. Len(toHost') : toHost'[i].kind = "value" =>
              i \in Positions /\ toHost'[i] = toHost[i]
         /\ \A o \in Callers : o # c /\ pc[o] = "await" => modesSince[o] \subseteq modesSince'[o]
<1>1. CASE Send(c)
  <2>1. Sends(c, Head(todo[c]), host[c]) /\ UNCHANGED <<values, pending>>
    BY <1>1 DEF Send, Prepare, Forget
  <2>2. \A i \in 1 .. Len(toHost') : toHost'[i].kind = "value" => i \in Positions /\ toHost'[i] = toHost[i]
    BY <2>1, QueueAfterSend, AnswerIs
  <2> QED
    BY <2>1, <2>2, SendsSince
<1>2. CASE Look(c) \/ SendFails(c) \/ GotAnswer(c) \/ TimesOut(c)
  <2>1. UNCHANGED <<values, pending, toHost, modesSince>>
    BY <1>2 DEF Look, SendFails, GotAnswer, TimesOut, Prepare, Forget, wireVars, driverVars, history
  <2> QED
    BY <2>1 DEF Positions
<1> QED
  BY <1>1, <1>2 DEF Step

LEMMA ReaderUndisturbed ==
  ASSUME OneReader, ReadInv, NEW c \in Callers, Step(c), NEW o \in Callers, o # c, Watched(o)'
  PROVE  ReadHolds(o)'
<1> USE DEF ReadInv
<1>1. /\ pc'[o] = pc[o] /\ todo'[o] = todo[o] /\ op' = op /\ alone' = alone /\ pc[c] # "idle"
  BY OthersRest
<1>2. Watched(o) /\ op[o] = "get"
  BY <1>1 DEF Watched, AloneIsAlone
<1>3. op[c] \notin Reading
  <2>1. op[o] \in setup.calls[o] /\ op[c] \in setup.calls[c] /\ setup \in Setups
    BY <1>1, <1>2 DEF Allowed, Watched, TypeOK, MotorTypes
  <2> QED
    BY <1>2, <2>1 DEF OneReader
<1>4. Head(todo[c]) \in Commands
  BY <1>1, <1>3, CommandLists DEF OnlyReadersRead, TypeOK, CallTypes
<1>5. Head(todo[c]).frame # "read" /\ Head(todo[c]) \in Exchanges
  BY <1>4 DEF Commands
<1>6. /\ UNCHANGED <<values, pending>>
      /\ \A i \in 1 .. Len(toHost') : toHost'[i].kind = "value" =>
           i \in Positions /\ toHost'[i] = toHost[i]
      /\ pc[o] = "await" => modesSince[o] \subseteq modesSince'[o]
  BY <1>5, CommandsLeaveReader
<1>7. /\ ReadHolds(o) /\ (AwaitsValue(o)' <=> AwaitsValue(o))
      /\ Read("mode")' = Read("mode") /\ Read("position")' = Read("position")
  BY <1>1, <1>2 DEF AwaitsValue, Read, Exchange
<1>8. NoValues => NoValues'
  BY <1>6 DEF NoValues, Positions
<1>9. ASSUME pc[o] = "await", NEW p, OneReply(o, p) PROVE OneReply(o, p)'
  BY <1>6, <1>8, <1>9 DEF OneReply, Positions
<1>10. CASE AwaitsValue(o)
  <2>1. PICK p : p = Head(todo[o]).arg
    OBVIOUS
  <2>2. pc[o] = "await" /\ OneReply(o, p)
    BY <1>7, <1>10, <2>1 DEF ReadHolds, AwaitsValue
  <2>3. OneReply(o, p)'
    BY <1>9, <2>2
  <2>4. OneReply(o, Head(todo[o]).arg)'
    BY <1>1, <2>1, <2>3 DEF OneReply
  <2> QED
    BY <1>1, <1>2, <1>7, <1>10, <2>4 DEF ReadHolds, Shape
<1>11. CASE ~AwaitsValue(o)
  BY <1>1, <1>2, <1>7, <1>8, <1>11 DEF ReadHolds, Shape
<1> QED
  BY <1>10, <1>11
-----------------------------------------------------------------------------
(* How the reader's own call goes on. *)
LEMMA ReaderLists ==
  /\ \A x : Head(<<x>>) = x /\ Tail(<<x>>) = <<>>
  /\ \A x, y : Head(<<x, y>>) = x /\ Tail(<<x, y>>) = <<y>> /\ <<y>> # <<>>
  OBVIOUS

LEMMA HaltIs ==
  ASSUME NEW m \in Modes
  PROVE  /\ Halt(m).frame \in {"halt", "hold"} /\ Halt(m).arg = m
         /\ Halt(m).ack \in {"none", "status"} /\ Halt(m).frame # "read"
         /\ Halt(m) \in Exchanges
<1>1. Plain("hold", m) \in Exchanges /\ Write("halt", m) \in Exchanges
  BY SomeExchanges DEF Frames
<1> QED
  BY <1>1 DEF Halt, Plain, Write, Exchange

LEMMA ReadIs ==
  ASSUME NEW p \in Params
  PROVE  Read(p) \in Exchanges /\ Read(p).frame = "read" /\ Read(p).arg = p /\ Read(p).ack = "value"
  BY SomeExchanges DEF Read, Exchange

LEMMA HaltHolds ==
  ASSUME TypeOK, NEW c \in Callers, NEW h, Sends(c, Halt(mode), h)
  PROVE  mode' = mode /\ (lossless'[c] => mode' \in still')
<1>1. Halt(mode).frame \in {"halt", "hold"} /\ Halt(mode).arg = mode
  BY HaltIs DEF TypeOK, MotorTypes
<1>2. PICK x : x = Halt(mode)
  OBVIOUS
<1>3. HoldGains \in {"firm", "default"}
  BY DEF HoldGains
<1>4. Reacts(x) => mode' = mode /\ mode' \in still'
  BY <1>1, <1>2, <1>3 DEF Reacts
<1>5. Reacts(x) \/ (lossless'[c] = FALSE /\ mode' = mode)
  BY <1>2 DEF Sends, motorVars, TypeOK, HistoryTypes
<1>6. lossless' = [lossless EXCEPT ![c] = FALSE] => ~lossless'[c]
  BY DEF TypeOK, HistoryTypes
<1> QED
  BY <1>4, <1>5

(* What is next on the reader's list, and what follows it. *)
LEMMA ReaderHeads ==
  ASSUME TypeOK, NEW c \in Callers, Shape(c), op[c] \in {"get", "stop"}
  PROVE  \/ \E p \in Params : /\ Head(todo[c]) = Read(p) /\ Tail(todo[c]) = <<>>
                              /\ op[c] = "get" \/ p = "mode"
         \/ op[c] = "stop" /\ Head(todo[c]) = Read("position") /\ Tail(todo[c]) = <<Halt(mode)>>
         \/ op[c] = "stop" /\ Head(todo[c]) = Halt(mode) /\ Tail(todo[c]) = <<>>
  BY ReaderLists DEF Shape, Params

LEMMA ReaderSucceeds ==
  ASSUME TypeOK, NEW c \in Callers, Shape(c), op[c] \in {"get", "stop"}, NEW v, Succeeded(c, v),
         op[c] = "stop" /\ Head(todo[c]) = Read("mode") => v.raw = mode
  PROVE  \/ Ending(c)
         \/ op[c] = "stop" /\ Going(c, <<Halt(mode)>>)
         \/ op[c] = "stop" /\ Going(c, <<Read("position"), Halt(mode)>>)
<1>1. CASE op[c] = "get"
  <2>1. Tail(todo[c]) = <<>>
    BY <1>1, ReaderHeads
  <2> QED
    BY <1>1, <2>1, Moves DEF Succeeded
<1>2. CASE op[c] = "stop" /\ Head(todo[c]) = Read("mode") /\ Tail(todo[c]) = <<>>
  <2>1. Read("mode").frame = "read"
    BY DEF Read, Exchange
  <2>2. IF v.raw \in Modes THEN Perform(c, StopScript(v.raw)) ELSE Returns(c, "err")
    BY <1>2, <2>1 DEF Succeeded
  <2>3. v.raw = mode /\ mode \in Modes
    BY <1>2 DEF TypeOK, MotorTypes
  <2> QED
    BY <1>2, <2>2, <2>3, StopScriptIs, Moves
<1>3. CASE op[c] = "stop" /\ Tail(todo[c]) = <<Halt(mode)>>
  <2>1. Tail(todo[c]) # <<>>
    BY <1>3, ReaderLists
  <2>2. Perform(c, Tail(todo[c]))
    BY <1>3, <2>1 DEF Succeeded
  <2> QED
    BY <1>3, <2>2, Moves
<1>4. CASE op[c] = "stop" /\ Head(todo[c]) = Halt(mode) /\ Tail(todo[c]) = <<>>
  <2>1. Head(todo[c]).frame # "read"
    BY <1>4, HaltIs DEF TypeOK, MotorTypes
  <2>2. Returns(c, "ok")
    BY <1>4, <2>1 DEF Succeeded
  <2> QED
    BY <2>2, Moves
<1> QED
  BY <1>1, <1>2, <1>3, <1>4, ReaderHeads

LEMMA ValuesAreTheReaders ==
  ASSUME OneReader, ReadInv, NEW c \in Callers, Watched(c), NEW i \in Positions, toHost[i].kind = "value"
  PROVE  toHost[i].to = c
<1>1. toHost[i].to \in Callers /\ setup.calls[toHost[i].to] \cap Reading # {}
  BY DEF ReadInv, ForReaders
<1>2. op[c] \in setup.calls[c] \cap {"get", "stop"} /\ setup \in Setups
  BY DEF ReadInv, Allowed, Watched, TypeOK, MotorTypes
<1> QED
  BY <1>1, <1>2 DEF OneReader

(* Between exchanges, or waiting for something else, nothing read is on    *)
(* its way.                                                                *)
LEMMA ReaderGoes ==
  ASSUME TypeOK, NEW c \in Callers, op[c] \in {"get", "stop"}, NoValues, Shape(c),
         UNCHANGED <<op, mode, setup, toHost>>,
         \/ Going(c, todo[c])
         \/ op[c] = "stop" /\ Going(c, <<Halt(mode)>>)
         \/ op[c] = "stop" /\ Going(c, <<Read("position"), Halt(mode)>>)
  PROVE  ReadHolds(c)'
<1>1. Halt(mode)' = Halt(mode) /\ Read("mode")' = Read("mode") /\ Read("position")' = Read("position")
  BY DEF Halt, Plain, Write, Read, Exchange
<1>2. pc'[c] = "send" /\ ~AwaitsValue(c)'
  BY DEF Going, AwaitsValue
<1>3. Shape(c)'
  BY <1>1 DEF Shape, Going
<1> QED
  BY <1>2, <1>3 DEF ReadHolds, NoValues, Positions

LEMMA ReaderSends ==
  ASSUME OneReader, ReadInv, NEW c \in Callers, Send(c), Watched(c)
  PROVE  /\ pc'[c] # "idle" => ReadHolds(c)'
         /\ ReturnsOk(c) => op[c] = "stop" /\ (lossless'[c] => mode' \in still')
<1> USE DEF ReadInv
<1> DEFINE x == Head(todo[c])
<1>1. /\ x \in Exchanges /\ pc[c] = "send" /\ op' = op /\ op[c] \in {"get", "stop"} /\ ReadHolds(c)
      /\ NoValues /\ Shape(c) /\ mode \in Modes
  BY HeadTail DEF Send, TypeOK, MotorTypes, callVars, Watched, ReadHolds, AwaitsValue
<1>2. /\ Prepare(c, x) /\ Sends(c, x, host[c]) /\ setup' = setup
      /\ \/ x.ack = "none" /\ Succeeded(c, NoValue)
         \/ x.ack # "none" /\ Waits(c, "await")
  BY DEF Send, Sends, Reacts, motorVars
<1>3. \/ \E p \in Params : x = Read(p)
      \/ op[c] = "stop" /\ x = Halt(mode)
  BY <1>1, ReaderHeads DEF Params
<1>4. \A i \in 1 .. Len(toHost') : toHost'[i].kind = "value" =>
        /\ i = Len(toHost) + 1 /\ x.frame = "read"
        /\ toHost'[i] = Answer(c, x)[1] /\ Answer(c, x) # <<>>
  BY <1>1, <1>2, QueueAfterSend, AnswerIs DEF NoValues
<1>5. CASE \E p \in Params : x = Read(p)
  <2>1. PICK p \in Params : x = Read(p)
    BY <1>5
  <2>2. x.frame = "read" /\ x.arg = p /\ x.ack = "value"
    BY <2>1, ReadIs
  <2>3. pc'[c] = "await" /\ todo' = todo /\ mode' = mode
    BY <1>1, <1>2, <2>2, Moves, QueueAfterSend DEF Waits
  <2>4. pending' = p /\ values'[p] = NoValue /\ modesSince'[c] = {mode}
    BY <1>2, <2>2, SendsSince DEF Prepare, Forget, TypeOK, DriverTypes
  <2>5. \A i \in 1 .. Len(toHost') : toHost'[i].kind = "value" =>
          i = Len(toHost) + 1 /\ toHost'[i].of = p /\ (p = "mode" => toHost'[i].raw = mode)
    BY <1>1, <1>4, <2>2, AnswerIs
  <2>6. OneReply(c, p)'
    BY <2>4, <2>5 DEF OneReply, Positions, NoValue
  <2>7. AwaitsValue(c)' /\ Head(todo'[c]).arg = p
    BY <2>2, <2>3 DEF AwaitsValue
  <2>8. OneReply(c, Head(todo[c]).arg)'
    BY <2>3, <2>6, <2>7 DEF OneReply
  <2>9. Shape(c)'
    BY <1>1, <1>2, <2>3 DEF Shape, Halt, Plain, Write, Read, Exchange
  <2> QED
    BY <2>3, <2>4, <2>7, <2>8, <2>9 DEF ReadHolds, ReturnsOk
<1>6. CASE op[c] = "stop" /\ x = Halt(mode)
  <2>1. x.frame # "read" /\ x.ack \in {"none", "status"}
    BY <1>1, <1>6, HaltIs
  <2>2. mode' = mode /\ (lossless'[c] => mode' \in still')
    BY <1>2, <1>6, HaltHolds
  <2>3. CASE x.ack = "none" /\ Succeeded(c, NoValue)
    <3>1. Tail(todo[c]) = <<>>
      <4>1. \A p \in Params : x # Read(p)
        BY <2>1, ReadIs
      <4> QED
        BY <1>1, <4>1, ReaderHeads DEF Params
    <3>2. Returns(c, "ok")
      BY <1>6, <2>1, <2>3, <3>1 DEF Succeeded
    <3> QED
      BY <1>6, <2>2, <3>2, Moves DEF Ending
  <2>4. CASE x.ack # "none" /\ Waits(c, "await")
    <3>1. pc'[c] = "await" /\ todo' = todo
      BY <2>4, Moves DEF Waits
    <3>2. ~AwaitsValue(c)'
      BY <2>1, <3>1 DEF AwaitsValue
    <3>3. Shape(c)'
      BY <1>1, <1>2, <2>2, <3>1 DEF Shape, Halt, Plain, Write, Read, Exchange
    <3>4. NoValues'
      BY <1>4, <2>1 DEF NoValues, Positions
    <3> QED
      BY <2>2, <3>1, <3>2, <3>3, <3>4 DEF ReadHolds, ReturnsOk
  <2> QED
    BY <1>2, <2>3, <2>4
<1> QED
  BY <1>3, <1>5, <1>6

LEMMA ReaderGets ==
  ASSUME OneReader, ReadInv, NEW c \in Callers, GotAnswer(c), Watched(c)
  PROVE  /\ pc'[c] # "idle" => ReadHolds(c)'
         /\ ReturnsOk(c) /\ op[c] = "get" =>
              /\ got'[c].of = Head(todo[c]).arg
              /\ got'[c].of = "mode" => got'[c].raw \in modesSince[c]
         /\ ReturnsOk(c) /\ op[c] = "stop" /\ lossless'[c] => mode' \in still'
<1> USE DEF ReadInv
<1> DEFINE x == Head(todo[c])
<1> DEFINE v == IF x.ack = "value" THEN values[x.arg] ELSE NoValue
<1>1. /\ pc[c] = "await" /\ Arrived(c) /\ UNCHANGED <<op, mode, setup, still, toHost, lossless>>
      /\ got' = [got EXCEPT ![c] = IF op[c] = "get" THEN v ELSE NoValue]
      /\ Succeeded(c, v) /\ op[c] \in {"get", "stop"} /\ ReadHolds(c) /\ Shape(c) /\ mode \in Modes
  BY DEF GotAnswer, motorVars, wireVars, callVars, history, Watched, ReadHolds, TypeOK, MotorTypes
<1> HIDE DEF v
<1>2. \/ \E p \in Params : x = Read(p) /\ (Tail(todo[c]) = <<>> => op[c] = "get" \/ p = "mode")
      \/ op[c] = "stop" /\ x = Halt(mode)
  <2>1. <<Halt(mode)>> # <<>>
    BY ReaderLists
  <2> QED
    BY <1>1, <2>1, ReaderHeads DEF Params
<1>3. CASE \E p \in Params : x = Read(p)
  <2>1. PICK p \in Params : x = Read(p)
    BY <1>3
  <2>2. x.frame = "read" /\ x.arg = p /\ x.ack = "value"
    BY <2>1, ReadIs
  <2>3. AwaitsValue(c) /\ v = values[p] /\ v.of # Unknown
    BY <1>1, <2>2 DEF AwaitsValue, v, Arrived
  <2>4. NoValues /\ v.of = p /\ (p = "mode" => v.raw \in modesSince[c])
    BY <1>1, <2>2, <2>3 DEF ReadHolds, OneReply
  <2>5. op[c] = "stop" /\ x = Read("mode") => v.raw = mode
    <3>1. x = Read("mode") => p = "mode"
      BY <2>2, ReadIs DEF Params
    <3> QED
      BY <1>1, <2>3, <2>4, <3>1 DEF ReadHolds
  <2>6. pc'[c] # "idle" => ReadHolds(c)'
    <3>1. \/ Ending(c)
          \/ op[c] = "stop" /\ Going(c, <<Halt(mode)>>)
          \/ op[c] = "stop" /\ Going(c, <<Read("position"), Halt(mode)>>)
      BY <1>1, <2>5, ReaderSucceeds
    <3> QED
      BY <1>1, <2>4, <3>1, ReaderGoes DEF Ending
  <2>7. op[c] = "get" => got'[c] = v
    BY <1>1 DEF TypeOK, CallTypes
  <2>8. op[c] = "stop" => ~ReturnsOk(c)
    <3>1. SUFFICES ASSUME op[c] = "stop" PROVE ~ReturnsOk(c)
      OBVIOUS
    <3>2. CASE Tail(todo[c]) # <<>>
      <4>1. Perform(c, Tail(todo[c]))
        BY <1>1, <3>1, <3>2 DEF Succeeded
      <4> QED
        BY <4>1, Moves DEF ReturnsOk, Going
    <3>3. CASE Tail(todo[c]) = <<>>
      <4>1. Perform(c, StopScript(v.raw)) \/ Returns(c, "err")
        BY <1>1, <2>2, <3>1, <3>3 DEF Succeeded
      <4> QED
        BY <4>1, Moves DEF ReturnsOk, Going, Ending
    <3> QED
      BY <3>2, <3>3
  <2> QED
    BY <2>2, <2>4, <2>6, <2>7, <2>8
<1>4. CASE op[c] = "stop" /\ x = Halt(mode)
  <2>1. x.frame # "read"
    BY <1>1, <1>4, HaltIs
  <2>2. ~AwaitsValue(c) /\ NoValues /\ (lossless[c] => mode \in still)
    BY <1>1, <1>4, <2>1 DEF AwaitsValue, ReadHolds
  <2>3. x # Read("mode")
    BY <2>1, ReadIs DEF Params
  <2>4. \/ Ending(c)
        \/ op[c] = "stop" /\ Going(c, <<Halt(mode)>>)
        \/ op[c] = "stop" /\ Going(c, <<Read("position"), Halt(mode)>>)
    BY <1>1, <2>3, ReaderSucceeds
  <2>5. pc'[c] # "idle" => ReadHolds(c)'
    BY <1>1, <2>2, <2>4, ReaderGoes DEF Ending
  <2> QED
    BY <1>1, <1>4, <2>2, <2>5
<1> QED
  BY <1>2, <1>3, <1>4

LEMMA ReaderFails ==
  ASSUME OneReader, ReadInv, NEW c \in Callers, SendFails(c) \/ TimesOut(c), Watched(c)
  PROVE  /\ pc'[c] # "idle" => ReadHolds(c)'
         /\ ~ReturnsOk(c)
<1> USE DEF ReadInv
<1>1. /\ UNCHANGED <<op, mode, setup, toHost>> /\ (NextHost(c) \/ Failed(c))
      /\ op[c] \in {"get", "stop"} /\ ReadHolds(c) /\ Shape(c)
  BY DEF SendFails, TimesOut, motorVars, wireVars, callVars, Watched, ReadHolds
<1>2. NoValues
  <2>1. CASE SendFails(c)
    BY <1>1, <2>1 DEF SendFails, ReadHolds, AwaitsValue
  <2>2. CASE TimesOut(c)
    <3>1. NoAnswerFor(c)
      BY <2>2 DEF TimesOut, MayTimeOut, OneReader
    <3>2. \A i \in Positions : toHost[i].to # c
      BY <3>1 DEF NoAnswerFor, Positions, TypeOK, MotorTypes
    <3> QED
      BY <3>2, ValuesAreTheReaders DEF NoValues
  <2> QED
    BY <2>1, <2>2
<1>3. (Ending(c) /\ result'[c] = "err") \/ Going(c, todo[c])
  BY <1>1, OthersFail
<1>4. Going(c, todo[c]) => ReadHolds(c)'
  BY <1>1, <1>2, ReaderGoes
<1>5. ~ReturnsOk(c)
  BY <1>3 DEF Ending, Going, ReturnsOk
<1> QED
  BY <1>3, <1>4, <1>5 DEF Ending
-----------------------------------------------------------------------------
LEMMA SendReads ==
  ASSUME OneReader, ReadInv, NEW c \in Callers, Send(c) PROVE ForReaders'
<1> USE DEF ReadInv
<1>1. /\ Head(todo[c]) \in Exchanges /\ pc[c] # "idle" /\ Sends(c, Head(todo[c]), host[c])
      /\ setup' = setup
  BY HeadTail DEF Send, Sends, Reacts, motorVars, TypeOK
<1>2. op[c] \in setup.calls[c] /\ (op[c] \notin Reading => Head(todo[c]).frame # "read")
  <2>1. op[c] \notin Reading => Head(todo[c]) \in Commands
    BY <1>1, CommandLists DEF OnlyReadersRead, TypeOK, CallTypes
  <2> QED
    BY <1>1, <2>1 DEF Allowed, Commands
<1>3. ASSUME NEW i \in 1 .. Len(toHost'), toHost'[i].kind = "value"
      PROVE  toHost'[i].to \in Callers /\ setup.calls[toHost'[i].to] \cap Reading # {}
  <2>1. CASE i \in Positions /\ toHost'[i] = toHost[i]
    BY <1>3, <2>1 DEF ForReaders
  <2>2. CASE toHost'[i] = Answer(c, Head(todo[c]))[1] /\ Answer(c, Head(todo[c])) # <<>>
    BY <1>1, <1>2, <1>3, <2>2, AnswerIs
  <2> QED
    BY <1>1, <2>1, <2>2, QueueAfterSend
<1> QED
  BY <1>1, <1>3 DEF ForReaders, Positions

LEMMA CommandsStay ==
  ASSUME TypeOK, NEW c \in Callers, Step(c), op[c] \notin Reading, todo[c] \in Seq(Commands)
  PROVE  pc'[c] # "idle" => todo'[c] \in Seq(Commands)
<1>1. /\ op[c] \notin {"ensure", "stop"} /\ pc[c] # "idle" /\ Tail(todo[c]) \in Seq(Commands)
  BY CommandLists, OthersRest DEF Reading, TypeOK, CallTypes
<1>2. \A v : Succeeded(c, v) => Ending(c) \/ Going(c, Tail(todo[c]))
  BY <1>1, Moves DEF Succeeded
<1>3. NextHost(c) \/ Failed(c) => Ending(c) \/ Going(c, todo[c])
  BY <1>1, OthersFail
<1>4. \A p : Waits(c, p) => todo'[c] = todo[c]
  BY DEF Waits
<1>5. Returns(c, "ok") => Ending(c)
  BY Moves
<1> QED
  BY <1>1, <1>2, <1>3, <1>4, <1>5 DEF Step, Look, Send, SendFails, GotAnswer, TimesOut, Ending, Going

LEMMA ReaderSteps == ASSUME OneReader, ReadInv, NEW c \in Callers, Step(c) PROVE ReadInv'
<1> USE DEF ReadInv
<1>1. /\ \A o \in Callers : o # c => pc'[o] = pc[o] /\ todo'[o] = todo[o]
      /\ pc[c] # "idle" /\ UNCHANGED <<op, setup, alone>> /\ TypeOK'
  BY OthersRest, StepTypes
<1>2. Allowed' /\ AloneIsAlone'
  BY <1>1 DEF Allowed, AloneIsAlone
<1>3. OnlyReadersRead'
  <2>1. op[c] \notin Reading => todo[c] \in Seq(Commands)
    BY <1>1 DEF OnlyReadersRead
  <2> QED
    BY <1>1, <2>1, CommandsStay DEF OnlyReadersRead
<1>4. ForReaders'
  <2>1. CASE Send(c)
    BY <2>1, SendReads
  <2>2. CASE ~Send(c)
    <3>1. toHost' = toHost
      BY <2>2 DEF Step, Look, SendFails, GotAnswer, TimesOut, wireVars
    <3> QED
      BY <1>1, <3>1 DEF ForReaders, Positions
  <2> QED
    BY <2>1, <2>2
<1>5. ASSUME Watched(c)' PROVE ReadHolds(c)'
  <2>1. Watched(c) /\ pc'[c] # "idle"
    BY <1>1, <1>5 DEF Watched
  <2>2. ~Look(c)
    BY <2>1 DEF Look, ReadHolds
  <2> QED
    BY <2>1, <2>2, ReaderSends, ReaderGets, ReaderFails DEF Step
<1>6. ASSUME NEW o \in Callers, o # c, Watched(o)' PROVE ReadHolds(o)'
  BY <1>6, ReaderUndisturbed
<1> QED
  BY <1>1, <1>2, <1>3, <1>4, <1>5, <1>6

LEMMA ReplyIsFiled == ASSUME OneReader, ReadInv, ProcessFeedbackFrame PROVE ReadInv'
<1> USE DEF ReadInv
<1> DEFINE a == Head(toHost)
<1>1. /\ \A i \in 1 .. Len(toHost') : i + 1 \in Positions /\ toHost'[i] = toHost[i + 1]
      /\ 1 \in Positions /\ toHost[1] = a
  BY QueueTail
<1>2. UNCHANGED <<mode, still, setup, pc, op, todo, lossless, alone, modesSince>> /\ TypeOK'
  BY WireStepTypes DEF ProcessFeedbackFrame, motorVars, callVars, history
<1>3. \/ /\ a.kind = "value"
         /\ \E raw \in (IF FiledUnder(a) = a.of THEN {a.raw} ELSE Modes \cup {Unknown}) :
              values' = [values EXCEPT ![FiledUnder(a)] = [of |-> a.of, raw |-> raw]]
      \/ a.kind # "value" /\ UNCHANGED <<pending, values>>
  BY DEF ProcessFeedbackFrame
<1> HIDE DEF a
<1>4. ForReaders' /\ Allowed' /\ OnlyReadersRead' /\ AloneIsAlone'
  BY <1>1, <1>2 DEF ForReaders, Allowed, OnlyReadersRead, AloneIsAlone, Positions
<1>5. ASSUME NEW c \in Callers, Watched(c) PROVE ReadHolds(c)'
  <2>1. ReadHolds(c) /\ Shape(c)' /\ (AwaitsValue(c)' <=> AwaitsValue(c))
    BY <1>2, <1>5 DEF ReadHolds, Shape, AwaitsValue, Halt, Plain, Write, Read, Exchange
  <2>2. NoValues => NoValues'
    BY <1>1 DEF NoValues, Positions
  <2>3. ASSUME NEW p \in Params, OneReply(c, p) PROVE OneReply(c, p)'
    <3>1. \A i, j \in 1 .. Len(toHost') :
            toHost'[i].kind = "value" /\ toHost'[j].kind = "value" => i = j
      <4> SUFFICES ASSUME NEW i \in 1 .. Len(toHost'), NEW j \in 1 .. Len(toHost'),
                          toHost'[i].kind = "value", toHost'[j].kind = "value"
                   PROVE  i = j
        OBVIOUS
      <4>1. i + 1 = j + 1
        BY <1>1, <2>3 DEF OneReply
      <4> QED
        BY <4>1
    <3>2. CASE a.kind = "value"
      <4>1. \A i \in 1 .. Len(toHost') : toHost'[i].kind # "value"
        BY <1>1, <2>3, <3>2 DEF OneReply
      <4>2. a.of = p /\ pending = p /\ (p = "mode" => a.raw \in modesSince[c])
        BY <1>1, <2>3, <3>2 DEF OneReply
      <4>3. FiledUnder(a) = p
        BY <4>2 DEF FiledUnder, Unknown, Params
      <4>4. values' = [values EXCEPT ![p] = [of |-> p, raw |-> a.raw]]
        BY <1>3, <3>2, <4>2, <4>3
      <4>5. values'[p].of = p /\ values'[p].raw = a.raw
        BY <4>4 DEF TypeOK, DriverTypes
      <4> QED
        BY <1>2, <4>1, <4>2, <4>5 DEF OneReply, NoValues, Positions
    <3>3. CASE a.kind # "value"
      <4>1. UNCHANGED <<pending, values>>
        BY <1>3, <3>3
      <4>2. \A i \in 1 .. Len(toHost') : toHost'[i].kind = "value" =>
              /\ toHost'[i].of = p /\ pending' = p
              /\ p = "mode" => toHost'[i].raw \in modesSince[c]
        BY <1>1, <2>3, <4>1 DEF OneReply
      <4> QED
        BY <1>2, <2>2, <2>3, <3>1, <4>1, <4>2 DEF OneReply, Positions
    <3> QED
      BY <3>2, <3>3
  <2>4. CASE AwaitsValue(c)
    <3>1. PICK p : p = Head(todo[c]).arg
      OBVIOUS
    <3>2. p \in Params /\ OneReply(c, p)
      <4>1. Head(todo[c]) \in Exchanges
        BY <2>4, HeadTail DEF AwaitsValue, TypeOK
      <4> QED
        BY <2>1, <2>4, <3>1, <4>1 DEF ReadHolds, AwaitsValue, Exchanges
    <3>3. OneReply(c, p)'
      BY <2>3, <3>2
    <3>4. OneReply(c, Head(todo[c]).arg)'
      BY <1>2, <3>1, <3>3 DEF OneReply
    <3> QED
      BY <1>2, <2>1, <2>4, <3>4 DEF ReadHolds
  <2>5. CASE ~AwaitsValue(c)
    BY <1>2, <2>1, <2>2, <2>5 DEF ReadHolds
  <2> QED
    BY <2>4, <2>5
<1> QED
  BY <1>2, <1>4, <1>5 DEF Watched

LEMMA ReportsReadNothing == ASSUME ReadInv, Reports PROVE ReadInv'
<1> USE DEF ReadInv
<1>1. PICK k \in setup.unasked :
        toHost' = Append(toHost, [kind |-> k, of |-> Unknown, raw |-> Unknown, to |-> Unknown])
  BY DEF Reports
<1>2. k # "value"
  BY DEF TypeOK, MotorTypes, SetupType, Reported
<1>3. PICK r : r = [kind |-> k, of |-> Unknown, raw |-> Unknown, to |-> Unknown]
  OBVIOUS
<1>4. \A i \in 1 .. Len(toHost') : (i \in Positions /\ toHost'[i] = toHost[i]) \/ toHost'[i] = r
  <2>1. \A s \in Seq(Answers) : /\ Len(Append(s, r)) = Len(s) + 1 /\ Append(s, r)[Len(s) + 1] = r
                                /\ \A i \in 1 .. Len(s) : Append(s, r)[i] = s[i]
                                /\ Len(s) \in Nat
    OBVIOUS
  <2>2. PICK s : s = toHost
    OBVIOUS
  <2>3. s \in Seq(Answers) /\ toHost' = Append(s, r)
    BY <1>1, <1>3, <2>2 DEF TypeOK, MotorTypes
  <2>4. /\ Len(toHost') = Len(s) + 1 /\ toHost'[Len(s) + 1] = r /\ Len(s) \in Nat
        /\ \A i \in 1 .. Len(s) : toHost'[i] = s[i]
    BY <2>1, <2>3
  <2>5. \A i \in 1 .. Len(toHost') : (i \in 1 .. Len(s) /\ toHost'[i] = s[i]) \/ toHost'[i] = r
    BY <2>4
  <2> QED
    BY <2>2, <2>5 DEF Positions
<1>5. /\ UNCHANGED <<mode, still, setup, values, pending, pc, op, todo, alone, lossless, modesSince>>
      /\ r.kind # "value" /\ TypeOK'
  BY <1>2, <1>3, WireStepTypes DEF Reports, motorVars, driverVars, callVars, history
<1>6. ForReaders' /\ Allowed' /\ OnlyReadersRead' /\ AloneIsAlone' /\ (NoValues => NoValues')
  BY <1>4, <1>5 DEF ForReaders, Allowed, OnlyReadersRead, AloneIsAlone, NoValues, Positions
<1>7. ASSUME NEW c \in Callers, NEW p, OneReply(c, p) PROVE OneReply(c, p)'
  BY <1>4, <1>5, <1>6, <1>7 DEF OneReply, Positions
<1>8. ASSUME NEW c \in Callers, ReadHolds(c) PROVE ReadHolds(c)'
  <2>1. PICK p : p = Head(todo[c]).arg
    OBVIOUS
  <2>2. OneReply(c, p) => OneReply(c, Head(todo[c]).arg)'
    BY <1>5, <1>7, <2>1 DEF OneReply
  <2> QED
    BY <1>5, <1>6, <1>8, <2>1, <2>2 DEF ReadHolds, Shape, AwaitsValue, Halt, Plain, Write, Read, Exchange
<1> QED
  BY <1>5, <1>6, <1>8 DEF Watched

LEMMA ReadsHold == ASSUME OneReader PROVE SafeSpec => []ReadInv
<1>1. Init => ReadInv
  <2>1. Init => toHost = <<>> /\ \A c \in Callers : pc[c] = "idle"
    BY DEF Init
  <2> QED
    BY <2>1, InitTypes DEF ReadInv, Allowed, ForReaders, OnlyReadersRead, AloneIsAlone, Watched,
                           Positions
<1>2. ReadInv /\ UNCHANGED vars => ReadInv'
  <2> SUFFICES ASSUME ReadInv, UNCHANGED vars PROVE ReadInv'
    OBVIOUS
  <2>1. TypeOK'
    BY DEF ReadInv, vars, motorVars, wireVars, driverVars, callVars, history, TypeOK, MotorTypes,
           DriverTypes, CallTypes, HistoryTypes
  <2>2. UNCHANGED <<mode, still, setup, toHost, values, pending, pc, op, todo, alone, lossless,
                    modesSince>>
    BY DEF vars, motorVars, wireVars, driverVars, callVars, history
  <2>3. Allowed' /\ ForReaders' /\ OnlyReadersRead' /\ AloneIsAlone'
    BY <2>2 DEF ReadInv, Allowed, ForReaders, OnlyReadersRead, AloneIsAlone, Positions
  <2>4. \A c \in Callers : ReadHolds(c) => ReadHolds(c)'
    BY <2>2 DEF ReadHolds, Shape, AwaitsValue, OneReply, NoValues, Positions, Halt, Plain, Write,
                Read, Exchange
  <2> QED
    BY <2>1, <2>2, <2>3, <2>4 DEF ReadInv, Watched
<1>3. ReadInv /\ [Next]_vars => ReadInv'
  BY <1>2, ReaderStarts, ReaderSteps, ReplyIsFiled, ReportsReadNothing DEF Next
<1> QED
  BY <1>1, <1>3, PTL DEF SafeSpec

(* Only a step of the call itself ends it. *)
LEMMA OwnStepReturns ==
  ASSUME TypeOK, Next, NEW c \in Callers, ReturnsOk(c)
  PROVE  Step(c)
<1>1. ~ProcessFeedbackFrame /\ ~Reports
  BY DEF ProcessFeedbackFrame, Reports, ReturnsOk
<1>2. \A o \in Callers : NewCall(o) => pc[o] = "idle" /\ (o # c => pc'[c] = pc[c])
  BY DEF NewCall, Goto, TypeOK, CallTypes
<1>3. \A o \in Callers : Step(o) => o = c \/ pc'[c] = pc[c]
  BY OthersRest
<1> QED
  BY <1>1, <1>2, <1>3 DEF Next, ReturnsOk

(* get_parameter returns the parameter it was asked for, and a mode the    *)
(* motor had after the request, whatever is lost and whatever the other    *)
(* threads command, as long as they do not read (ParameterState.pending,   *)
(* get_parameter).                                                         *)
THEOREM ReadsAreItsOwn == ASSUME OneReader PROVE SafeSpec => ReadsItsOwn
<1> DEFINE P == \A c \in Callers : ReturnsOk(c) /\ op[c] = "get" =>
                  /\ got'[c].of = Head(todo[c]).arg
                  /\ got'[c].of = "mode" => got'[c].raw \in modesSince[c]
<1>1. ReadInv /\ Next => P
  <2> SUFFICES ASSUME ReadInv, Next, NEW c \in Callers, ReturnsOk(c), op[c] = "get"
               PROVE  /\ got'[c].of = Head(todo[c]).arg
                      /\ got'[c].of = "mode" => got'[c].raw \in modesSince[c]
    OBVIOUS
  <2>1. Step(c) /\ Watched(c)
    BY OwnStepReturns DEF ReadInv, ReturnsOk, Watched
  <2>2. ~Look(c)
    BY <2>1 DEF Look, ReadInv, ReadHolds
  <2>3. ~Send(c) /\ ~SendFails(c) /\ ~TimesOut(c)
    BY <2>1, ReaderSends, ReaderFails
  <2> QED
    BY <2>1, <2>2, <2>3, ReaderGets DEF Step
<1>2. ReadInv /\ [Next]_vars => [P]_vars
  BY <1>1
<1> QED
  BY <1>2, ReadsHold, PTL DEF SafeSpec, ReadsItsOwn

(* After a controlled_stop beside which nothing else was called and of     *)
(* which nothing was lost, the motor is in a mode whose last command holds *)
(* it: the mode that was read is the one it is in, the command sent is     *)
(* that mode's, and it reached the motor before the call returned.         *)
THEOREM StopsHold == ASSUME OneReader PROVE SafeSpec => StopHolds
<1> DEFINE P == \A c \in Callers :
                  ReturnsOk(c) /\ op[c] = "stop" /\ Undisturbed(c) => mode' \in still'
<1>1. ReadInv /\ Next => P
  <2> SUFFICES ASSUME ReadInv, Next, NEW c \in Callers, ReturnsOk(c), op[c] = "stop", Undisturbed(c)
               PROVE  mode' \in still'
    OBVIOUS
  <2>1. Step(c) /\ Watched(c) /\ lossless'[c]
    BY OwnStepReturns DEF ReadInv, ReturnsOk, Watched, Undisturbed
  <2>2. ~Look(c)
    BY <2>1 DEF Look, ReadInv, ReadHolds
  <2> QED
    BY <2>1, <2>2, ReaderSends, ReaderGets, ReaderFails DEF Step
<1>2. ReadInv /\ [Next]_vars => [P]_vars
  BY <1>1
<1> QED
  BY <1>2, ReadsHold, PTL DEF SafeSpec, StopHolds
=============================================================================
