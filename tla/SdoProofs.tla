------------------------------ MODULE SdoProofs ------------------------------
(***************************************************************************)
(* Theorems about SdoMotor for any set-ups, mishaps and queue lengths, and *)
(* for any threads whose calls wait under different keys (Sharing).        *)
(*                                                                         *)
(* CallInv holds two things together.  Every reply on the wire or in the   *)
(* queue is the one answer to, or refusal of, the exchange its caller      *)
(* waits for.  And what is left of a call's list is enough, from the state *)
(* the drive is in, to do what the call is for (Ready), unless the         *)
(* exchange awaited got no answer, and then the call ends with an error.   *)
(***************************************************************************)
EXTENDS SdoMotor, SequenceTheorems, TLAPS

USE SdoAssumption DEF SdoAssumption

-----------------------------------------------------------------------------
(***************************************************************************)
(* Scripts.                                                                *)
(***************************************************************************)
Lists == Seq(Exchanges) \ {<<>>}

LEMMA Listing ==
  /\ \A x \in Exchanges : <<x>> \in Lists
  /\ \A x, y \in Exchanges : <<x, y>> \in Lists
  /\ \A x, y, z \in Exchanges : <<x, y, z>> \in Lists
  /\ \A w, x, y, z \in Exchanges : <<w, x, y, z>> \in Lists
  /\ \A s \in Lists, t \in Seq(Exchanges) : s \o t \in Lists
<1> HIDE SdoAssumption
<1>1. \A x \in Exchanges : <<x>> \in Lists
  BY DEF Lists
<1>2. \A x, y \in Exchanges : <<x, y>> \in Lists
  BY DEF Lists
<1>3. \A x, y, z \in Exchanges : <<x, y, z>> \in Lists
  BY DEF Lists
<1>4. \A w, x, y, z \in Exchanges : <<w, x, y, z>> \in Lists
  BY DEF Lists
<1>5. \A s, t \in Seq(Exchanges) : s \o t \in Seq(Exchanges) /\ Len(s \o t) = Len(s) + Len(t)
  OBVIOUS
<1>6. \A s \in Seq(Exchanges) : Len(s) \in Nat /\ (s # <<>> <=> Len(s) # 0)
  OBVIOUS
<1>7. \A s \in Lists, t \in Seq(Exchanges) : s \o t \in Lists
  BY <1>5, <1>6 DEF Lists
<1> QED
  BY <1>1, <1>2, <1>3, <1>4, <1>7

LEMMA Writes ==
  /\ \A w \in Words : Control(w) \in Exchanges
  /\ \A o \in Writable, m \in Modes : SdoWrite(o, m) \in Exchanges
  /\ \A m \in Modes : /\ SdoWrite("mode", m) \in Exchanges /\ SdoWrite("limit", m) \in Exchanges
                      /\ SdoWrite("target", m) \in Exchanges
  /\ \A o \in Objects : SdoRead(o) \in Exchanges
  /\ StartNode \in Exchanges
  /\ \A x \in Exchanges : Tolerated(x) \in Exchanges
<1>1. \A w \in Words : Control(w) \in Exchanges
  BY DEF Control, SdoWrite, Exchange, Exchanges, Objects, Writable, Readable, Frames, Keys, Sorts
<1>6. \A o \in Writable, m \in Modes : SdoWrite(o, m) \in Exchanges
  BY DEF SdoWrite, Exchange, Exchanges, Objects, Writable, Readable, Frames, Keys, Sorts
<1>2. \A m \in Modes : /\ SdoWrite("mode", m) \in Exchanges /\ SdoWrite("limit", m) \in Exchanges
                       /\ SdoWrite("target", m) \in Exchanges
  BY <1>6 DEF Writable
<1>3. \A o \in Objects : SdoRead(o) \in Exchanges
  BY DEF SdoRead, Exchange, Exchanges, Frames, Keys, Sorts
<1>4. StartNode \in Exchanges
  BY DEF StartNode, Exchange, Exchanges, Frames
<1>5. \A x \in Exchanges : Tolerated(x) \in Exchanges
  BY DEF Tolerated, Exchanges
<1> QED
  BY <1>1, <1>2, <1>3, <1>4, <1>5, <1>6

LEMMA HostExchanges ==
  /\ \A f \in Frames \ {"mode", "target"} : Host(f, None) \in Exchanges
  /\ \A f \in Frames, m \in Modes : Host(f, m) \in Exchanges
  /\ Unique("id") \in Exchanges /\ Enable \in Exchanges
  /\ Exchange("param", None, "param", "frame") \in Exchanges
  BY DEF Host, Unique, Enable, Exchange, Exchanges, Frames, Objects, Writable, Readable, Keys, Sorts

LEMMA EnableDrives == EnableDrive \in Lists /\ Tail(EnableDrive) \in Lists
<1>1. {"shutdown", "switch_on", "enable"} \subseteq Words
  BY DEF Words
<1>2. /\ Control("shutdown") \in Exchanges /\ Control("switch_on") \in Exchanges
      /\ Control("enable") \in Exchanges /\ StartNode \in Exchanges
  BY <1>1, Writes
<1>3. \A w, x, y, z : Tail(<<w, x, y, z>>) = <<x, y, z>>
  OBVIOUS
<1>4. Tail(EnableDrive) = <<Control("shutdown"), Control("switch_on"), Control("enable")>>
  BY <1>3 DEF EnableDrive
<1>5. EnableDrive \in Lists
  BY <1>2, Listing DEF EnableDrive
<1>6. Tail(EnableDrive) \in Lists
  BY <1>2, <1>4, Listing
<1> QED
  BY <1>5, <1>6

LEMMA ModeScripts ==
  ASSUME NEW m \in Modes
  PROVE  PrepareModeDisabled(m) \in Lists /\ EnsureModeEnabled(m) \in Lists
<1>1. PrepareModeDisabled(m) \in Lists
  <2>1. Tolerated(Control("disable")) \in Exchanges
    BY Writes DEF Words
  <2> QED
    BY <2>1, Writes, Listing DEF PrepareModeDisabled
<1>2. <<StartNode, SdoWrite("mode", m)>> \in Lists
  BY Writes, Listing
<1>3. \A s, t \in Lists : s \o t \in Lists
  BY Listing DEF Lists
<1>4. CASE setup.driver = "hexfellow"
  <2>1. EnsureModeEnabled(m) = <<StartNode, SdoWrite("mode", m)>> \o Tail(EnableDrive)
    BY <1>4 DEF EnsureModeEnabled
  <2> QED
    BY <1>1, <1>2, <1>3, <2>1, EnableDrives
<1>5. CASE setup.driver # "hexfellow"
  <2>1. EnsureModeEnabled(m) = PrepareModeDisabled(m) \o EnableDrive
    BY <1>5 DEF EnsureModeEnabled
  <2> QED
    BY <1>1, <1>3, <2>1, EnableDrives
<1> QED
  BY <1>4, <1>5

LEMMA HexfellowTargets ==
  ASSUME NEW m \in Modes
  PROVE  HexfellowTarget(m) \in Lists
<1>1. \A s, t \in Lists : s \o t \in Lists
  BY Listing DEF Lists
<1>2. SetPoint \in Lists
  <2>1. Control("immediate") \in Exchanges /\ Control("new_setpoint") \in Exchanges
    BY Writes DEF Words
  <2> QED
    BY <2>1, Listing DEF SetPoint
<1>3. <<SdoWrite("limit", m), SdoWrite("target", m)>> \in Lists
  BY Writes, Listing
<1>4. MitTarget(m) \in Lists
  <2>1. /\ SdoWrite("target_velocity", m) \in Exchanges /\ SdoWrite("target_torque", m) \in Exchanges
        /\ SdoWrite("kp", m) \in Exchanges /\ SdoWrite("kd", m) \in Exchanges
    BY Writes DEF Writable
  <2>2. /\ <<SdoWrite("target", m), SdoWrite("target_velocity", m), SdoWrite("target_torque", m)>> \in Lists
        /\ <<SdoWrite("kp", m), SdoWrite("kd", m), SdoWrite("limit", m)>> \in Lists
    BY <2>1, Writes, Listing
  <2> QED
    BY <1>1, <2>2 DEF MitTarget
<1> QED
  BY <1>1, <1>2, <1>3, <1>4 DEF HexfellowTarget

LEMMA CommandScripts ==
  ASSUME NEW m \in Modes
  PROVE  /\ Cia402Command(m) \in Lists /\ HexfellowCommand(m) \in Lists
         /\ MitCommand(m) \in Lists
<1>1. \A s \in Lists, t \in Seq(Exchanges) : s \o t \in Lists
  BY Listing
<1>2. \A s, t \in Lists : s \o t \in Lists
  BY Listing DEF Lists
<1>3. /\ <<SdoWrite("limit", m)>> \in Lists /\ <<SdoWrite("target", m)>> \in Lists
  BY Writes, Listing
<1>4. <<>> \in Seq(Exchanges)
  OBVIOUS
<1>5. Cia402Command(m) \in Lists
  <2>1. PICK p : p = PrepareModeDisabled(m)
    OBVIOUS
  <2>2. PICK l : l = IF m = "torque" THEN <<>> ELSE <<SdoWrite("limit", m)>>
    OBVIOUS
  <2>3. PICK e : e = EnableDrive
    OBVIOUS
  <2>4. PICK t : t = <<SdoWrite("target", m)>>
    OBVIOUS
  <2>5. p \in Lists /\ e \in Lists /\ t \in Lists /\ l \in Seq(Exchanges)
    BY <1>3, <1>4, <2>1, <2>2, <2>3, <2>4, ModeScripts, EnableDrives DEF Lists
  <2>6. Cia402Command(m) = ((p \o l) \o e) \o t
    BY <2>1, <2>2, <2>3, <2>4 DEF Cia402Command
  <2> QED
    BY <1>1, <1>2, <2>5, <2>6
<1>6. HexfellowCommand(m) \in Lists
  <2>1. PICK p : p = EnsureModeEnabled(m)
    OBVIOUS
  <2>2. PICK t : t = HexfellowTarget(m)
    OBVIOUS
  <2>3. p \in Lists /\ t \in Lists
    BY <2>1, <2>2, ModeScripts, HexfellowTargets
  <2> QED
    BY <1>2, <2>1, <2>2, <2>3 DEF HexfellowCommand
<1>7. MitCommand(m) \in Lists
  <2>1. Host("target", m) \in Exchanges /\ Host("mode", m) \in Exchanges /\ Enable \in Exchanges
    BY HostExchanges DEF Frames, Objects, Writable, Readable
  <2> QED
    BY <2>1, Listing DEF MitCommand
<1> QED
  BY <1>5, <1>6, <1>7

LEMMA Queries == Query \in Lists
<1>1. /\ SdoRead("mode_display") \in Exchanges /\ SdoRead("statusword") \in Exchanges
      /\ SdoRead("actual") \in Exchanges /\ Tolerated(SdoRead("actual")) \in Exchanges
      /\ Tolerated(SdoRead("actual_torque")) \in Exchanges
  BY Writes DEF Objects, Readable
<1>2. Tolerated(Host("query_fault", None)) \in Exchanges
  BY HostExchanges, Writes DEF Frames, Objects, Writable, Readable
<1>3. /\ <<SdoRead("mode_display"), SdoRead("statusword"), Tolerated(SdoRead("actual"))>> \in Lists
      /\ <<SdoRead("mode_display"), SdoRead("statusword"), SdoRead("actual"),
           Tolerated(SdoRead("actual_torque"))>> \in Lists
      /\ <<Tolerated(Host("query_fault", None))>> \in Lists
  BY <1>1, <1>2, Listing
<1> QED
  BY <1>3 DEF Query

LEMMA Scripts ==
  ASSUME NEW m \in Methods, NEW v \in Modes
  PROVE  Script(m, v) \in Lists
<1>1. /\ \A w \in Words : <<Control(w)>> \in Lists
      /\ <<Control("fault_reset"), Control("zero")>> \in Lists
      /\ <<SdoWrite("mode", v)>> \in Lists /\ <<SdoWrite("limit", v)>> \in Lists
  BY Writes, Listing DEF Words
<1>2. /\ EnableDrive \in Lists /\ EnsureModeEnabled(v) \in Lists /\ Query \in Lists
      /\ Cia402Command(v) \in Lists /\ HexfellowCommand(v) \in Lists /\ MitCommand(v) \in Lists
      /\ EnsureModeEnabled("position") \in Lists
  BY EnableDrives, ModeScripts, CommandScripts, Queries DEF Modes
<1>3. PrepareModeDisabled("homing") \o <<Control("enable")>> \in Lists
  <2>1. \A s, t \in Lists : s \o t \in Lists
    BY Listing DEF Lists
  <2>2. PrepareModeDisabled("homing") \in Lists
    BY ModeScripts DEF Modes
  <2> QED
    BY <1>1, <2>1, <2>2 DEF Words
<1>4. /\ \A f \in Frames \ {"mode", "target"} : <<Host(f, None)>> \in Lists
      /\ \A f \in Frames : <<Host(f, v)>> \in Lists
      /\ <<Enable>> \in Lists /\ <<Unique("id")>> \in Lists
      /\ <<Exchange("param", None, "param", "frame")>> \in Lists
  BY HostExchanges, Listing
<1>5. MitScript(m, v) \in Lists
  BY <1>2, <1>4 DEF MitScript, Frames, Objects, Writable, Readable
<1>6. SdoScript(m, v) \in Lists
  BY <1>1, <1>2, <1>3 DEF SdoScript, Words
<1> QED
  BY <1>5, <1>6 DEF Script

-----------------------------------------------------------------------------
(***************************************************************************)
(* Types.                                                                  *)
(***************************************************************************)
LEMMA HeadTail ==
  ASSUME TypeOK, NEW c \in Callers, pc[c] # "idle"
  PROVE  /\ Head(todo[c]) \in Exchanges /\ Tail(todo[c]) \in Seq(Exchanges)
         /\ Head(todo[c]).key \in Keys \cup {None} /\ Head(todo[c]).may_fail \in BOOLEAN
<1>1. \A s \in Seq(Exchanges) : s # <<>> => Head(s) \in Exchanges /\ Tail(s) \in Seq(Exchanges)
  OBVIOUS
<1>2. Head(todo[c]) \in Exchanges /\ Tail(todo[c]) \in Seq(Exchanges)
  BY <1>1 DEF TypeOK, CallTypes
<1>3. \A x \in Exchanges : x.key \in Keys \cup {None} /\ x.may_fail \in BOOLEAN
  BY DEF Exchanges
<1> QED
  BY <1>2, <1>3

(* What a step does to the caller's own call. *)
Ending(c) == pc'[c] = "idle" /\ todo'[c] = <<>>
Going(c) == pc'[c] = "send" /\ todo'[c] = Tail(todo[c]) /\ Tail(todo[c]) # <<>>

LEMMA ContinueTypes ==
  ASSUME TypeOK, NEW c \in Callers, pc[c] # "idle", Continue(c) \/ Failed(c)
  PROVE  CallTypes' /\ (Ending(c) \/ Going(c))
<1>1. Tail(todo[c]) \in Seq(Exchanges)
  BY HeadTail
<1>2. <<>> \in Seq(Exchanges) /\ "query" \in Methods /\ "position" \in Modes
  BY DEF Methods, Modes
<1>3. ASSUME NEW r \in {"ok", "err"}, Returns(c, r) PROVE CallTypes' /\ Ending(c)
  <2>1. /\ pc' = [pc EXCEPT ![c] = "idle"] /\ result' = [result EXCEPT ![c] = r]
        /\ todo' = [todo EXCEPT ![c] = <<>>] /\ op' = [op EXCEPT ![c] = "query"]
        /\ want' = [want EXCEPT ![c] = "position"]
    BY <1>3 DEF Returns
  <2>2. \A o \in Callers : /\ pc'[o] = IF o = c THEN "idle" ELSE pc[o]
                           /\ todo'[o] = IF o = c THEN <<>> ELSE todo[o]
    BY <2>1 DEF TypeOK, CallTypes
  <2> QED
    BY <1>2, <2>1, <2>2 DEF TypeOK, CallTypes, Ending
<1>4. ASSUME Continue(c), Tail(todo[c]) # <<>> PROVE CallTypes' /\ Going(c)
  <2>1. /\ pc' = [pc EXCEPT ![c] = "send"] /\ todo' = [todo EXCEPT ![c] = Tail(todo[c])]
        /\ UNCHANGED <<op, want, result>>
    BY <1>4 DEF Continue
  <2>2. \A o \in Callers : /\ pc'[o] = IF o = c THEN "send" ELSE pc[o]
                           /\ todo'[o] = IF o = c THEN Tail(todo[c]) ELSE todo[o]
    BY <2>1 DEF TypeOK, CallTypes
  <2> QED
    BY <1>1, <1>4, <2>1, <2>2 DEF TypeOK, CallTypes, Going
<1>5. Continue(c) => CallTypes' /\ (Ending(c) \/ Going(c))
  BY <1>3, <1>4 DEF Continue
<1>6. Failed(c) => Continue(c) \/ Returns(c, "err")
  BY DEF Failed
<1> QED
  BY <1>3, <1>5, <1>6

LEMMA RepliesTyped ==
  ASSUME TypeOK, NEW c \in Callers, NEW x \in Exchanges, x.key # None
  PROVE  Reply(c, x) \in Seq(Replies) /\ Abort(c, x) \in Seq(Replies)
<1>1. x.key \in Keys /\ x.sort \in Sorts \cup {None} /\ x.frame \in Frames
  BY DEF Exchanges
<1>2. mode \in Modes /\ power \in Powers
  BY DEF TypeOK, DriveTypes
<1>3. \A r \in Replies : <<r>> \in Seq(Replies)
  OBVIOUS
<1>4. Abort(c, x) \in Seq(Replies)
  <2>1. [key |-> x.key, sort |-> "abort", of |-> x.frame, to |-> c, val |-> None] \in Replies
    BY <1>1 DEF Replies
  <2> QED
    BY <1>3, <2>1 DEF Abort
<1>5. Reply(c, x) \in Seq(Replies)
  <2>1. PICK v \in Modes \cup Powers \cup {None} :
          v = IF x.frame = "upload" /\ x.arg = "mode_display" THEN mode
              ELSE IF x.frame = "upload" /\ x.arg = "statusword" THEN power ELSE None
    BY <1>2
  <2>2. [key |-> x.key, sort |-> x.sort, of |-> x.frame, to |-> c, val |-> v] \in Replies
    BY <1>1 DEF Replies
  <2>3. <<>> \in Seq(Replies)
    OBVIOUS
  <2>4. Reply(c, x) \in {<<>>,
          <<[key |-> x.key, sort |-> x.sort, of |-> x.frame, to |-> c, val |-> v]>>}
    BY <2>1 DEF Reply
  <2> QED
    BY <1>3, <2>2, <2>3, <2>4
<1> QED
  BY <1>4, <1>5

(* Whether or not it is obeyed, an exchange adds at most one reply. *)
LEMMA SendsQueue ==
  ASSUME TypeOK, NEW c \in Callers, NEW x \in Exchanges, Sends(c, x)
  PROVE  \E s \in Seq(Replies) :
           /\ toHost' = toHost \o s
           /\ s = <<>> \/ (x.key # None /\ s \in {Reply(c, x), Abort(c, x)} /\ Len(s) = 1)
<1>1. <<>> \in Seq(Replies) /\ \A s \in Seq(Replies) : s \o <<>> = s
  OBVIOUS
<1>2. \/ toHost' = toHost \o Reply(c, x)
      \/ x.key # None /\ toHost' = toHost \o Abort(c, x)
      \/ toHost' = toHost
  BY DEF Sends
<1>3. Reply(c, x) = <<>> \/ (x.key # None /\ Len(Reply(c, x)) = 1)
  BY DEF Reply
<1>4. Len(Abort(c, x)) = 1
  BY DEF Abort
<1>5. toHost \in Seq(Replies)
  BY DEF TypeOK, WireTypes
<1> QED
  BY <1>1, <1>2, <1>3, <1>4, <1>5, RepliesTyped

LEMMA DrivesTyped ==
  ASSUME TypeOK, NEW x \in Exchanges, Reacts(x) \/ UNCHANGED driveVars
  PROVE  DriveTypes'
<1>1. PowerAfter(x) \in Powers
  BY DEF PowerAfter, TypeOK, DriveTypes, Powers
<1>2. x.frame \in {"mode", "target"} => x.arg \in Modes
  BY DEF Exchanges
<1> QED
  BY <1>1, <1>2 DEF Reacts, driveVars, TypeOK, DriveTypes

LEMMA SendsTypes ==
  ASSUME TypeOK, NEW c \in Callers, NEW x \in Exchanges, Sends(c, x), replies' = replies
  PROVE  DriveTypes' /\ WireTypes' /\ HistoryTypes'
<1>1. DriveTypes'
  BY DrivesTyped DEF Sends
<1>2. WireTypes'
  <2>1. PICK s \in Seq(Replies) : toHost' = toHost \o s /\ (s = <<>> \/ Len(s) = 1)
    BY SendsQueue
  <2>2. \A q, t \in Seq(Replies) :
          /\ q \o t \in Seq(Replies) /\ Len(q \o t) = Len(q) + Len(t) /\ Len(q) \in Nat
          /\ Len(t) \in Nat /\ (t = <<>> => Len(t) = 0)
    OBVIOUS
  <2>3. toHost' \in Seq(Replies) /\ Len(toHost') <= MaxReplies
    BY <2>1, <2>2 DEF Sends, TypeOK, WireTypes
  <2>4. reports' = reports /\ (mishaps' = mishaps \/ (mishaps < MaxMishaps /\ mishaps' = mishaps + 1))
    BY DEF Sends
  <2> QED
    BY <2>3, <2>4 DEF TypeOK, WireTypes
<1>3. HistoryTypes'
  <2>1. alone' = alone /\ (intact' = intact \/ intact' = [intact EXCEPT ![c] = FALSE])
    BY DEF Sends
  <2>2. since' = [o \in Callers |-> IF o = c THEN {mode, power}
                                    ELSE IF pc[o] = "await" THEN since[o] \cup {mode', power'}
                                    ELSE {}]
    BY DEF Sends
  <2> QED
    BY <1>1, <2>1, <2>2 DEF TypeOK, HistoryTypes, DriveTypes
<1> QED
  BY <1>1, <1>2, <1>3

(* What stays of the queue when the reply at i is taken out. *)
LEMMA TakesOut ==
  ASSUME NEW q \in Seq(Replies), NEW i \in 1 .. Len(q)
  PROVE  SubSeq(q, i + 1, Len(q)) \o SubSeq(q, 1, i - 1) \in Seq(Replies)
<1>1. \A s \in Seq(Replies), a, b \in Nat :
        (1 <= a /\ b <= Len(s)) => SubSeq(s, a, b) \in Seq(Replies)
  BY SubSeqProperties
<1>2. Len(q) \in Nat /\ i \in Nat /\ i - 1 \in Nat /\ 1 <= i + 1 /\ i - 1 <= Len(q)
  OBVIOUS
<1>3. SubSeq(q, i + 1, Len(q)) \in Seq(Replies) /\ SubSeq(q, 1, i - 1) \in Seq(Replies)
  BY <1>1, <1>2
<1>4. \A s, t \in Seq(Replies) : s \o t \in Seq(Replies)
  OBVIOUS
<1> QED
  BY <1>3, <1>4

LEMMA PopTypes ==
  ASSUME TypeOK, NEW c \in Callers, PopReply(c)
  PROVE  replies' \in Seq(Replies) /\ (Continue(c) \/ Failed(c))
<1>1. PICK i \in First(Head(todo[c]).key) :
        replies' = TakeOut(i) /\ (Continue(c) \/ Failed(c))
  BY DEF PopReply
<1>2. i \in 1 .. Len(replies)
  BY <1>1 DEF First, Matching, TypeOK, WireTypes
<1> QED
  BY <1>1, <1>2, TakesOut DEF TakeOut, TypeOK, WireTypes

LEMMA StepTypes == ASSUME TypeOK, NEW c \in Callers, Step(c) PROVE TypeOK'
<1>1. CASE Send(c)
  <2> DEFINE x == Head(todo[c])
  <2>1. /\ pc[c] = "send" /\ Sends(c, x) /\ replies' = replies
        /\ IF x.key = None THEN Continue(c)
           ELSE pc' = [pc EXCEPT ![c] = "await"] /\ UNCHANGED <<op, want, todo, result>>
    BY <1>1 DEF Send
  <2>2. x \in Exchanges
    BY <2>1, HeadTail
  <2> HIDE DEF x
  <2>3. DriveTypes' /\ WireTypes' /\ HistoryTypes'
    BY <2>1, <2>2, SendsTypes
  <2>4. CallTypes'
    <3>1. CASE x.key = None
      BY <2>1, <3>1, ContinueTypes
    <3>2. CASE x.key # None
      <4>1. pc' = [pc EXCEPT ![c] = "await"] /\ UNCHANGED <<op, want, todo, result>>
        BY <2>1, <3>2
      <4>2. \A o \in Callers : pc'[o] = IF o = c THEN "await" ELSE pc[o]
        BY <4>1 DEF TypeOK, CallTypes
      <4> QED
        BY <2>1, <4>1, <4>2 DEF TypeOK, CallTypes
    <3> QED
      BY <3>1, <3>2
  <2> QED
    BY <2>3, <2>4 DEF TypeOK
<1>2. CASE SendFails(c)
  <2>1. /\ pc[c] = "send" /\ Failed(c) /\ intact' = [intact EXCEPT ![c] = FALSE]
        /\ UNCHANGED <<driveVars, wireVars, replies, alone, since>>
    BY <1>2 DEF SendFails
  <2>2. CallTypes'
    BY <2>1, ContinueTypes
  <2>3. HistoryTypes'
    BY <2>1 DEF TypeOK, HistoryTypes
  <2> QED
    BY <2>1, <2>2, <2>3 DEF driveVars, wireVars, TypeOK, DriveTypes, WireTypes
<1>3. CASE PopReply(c)
  <2>1. pc[c] = "await" /\ UNCHANGED <<driveVars, wireVars, history>>
    BY <1>3 DEF PopReply
  <2>2. replies' \in Seq(Replies) /\ CallTypes'
    BY <1>3, <2>1, PopTypes, ContinueTypes
  <2> QED
    BY <2>1, <2>2 DEF driveVars, wireVars, history, TypeOK, DriveTypes, WireTypes, HistoryTypes
<1>4. CASE TimesOut(c)
  <2>1. pc[c] = "await" /\ Failed(c) /\ UNCHANGED <<driveVars, wireVars, replies, history>>
    BY <1>4 DEF TimesOut
  <2>2. CallTypes'
    BY <2>1, ContinueTypes
  <2> QED
    BY <2>1, <2>2 DEF driveVars, wireVars, history, TypeOK, DriveTypes, WireTypes, HistoryTypes
<1> QED
  BY <1>1, <1>2, <1>3, <1>4 DEF Step

LEMMA NewCallTypes == ASSUME TypeOK, NEW c \in Callers, NewCall(c) PROVE TypeOK'
<1>1. PICK m \in setup.calls[c], v \in setup.want[c] :
        /\ op' = [op EXCEPT ![c] = m] /\ want' = [want EXCEPT ![c] = v]
        /\ todo' = [todo EXCEPT ![c] = Script(m, v)]
  BY DEF NewCall
<1>2. m \in Methods /\ v \in Modes
  BY DEF TypeOK, DriveTypes, SetupType
<1>3. Script(m, v) \in Seq(Exchanges) /\ Script(m, v) # <<>>
  BY <1>2, Scripts DEF Lists
<1>4. /\ pc' = [pc EXCEPT ![c] = "send"] /\ result' = [result EXCEPT ![c] = None]
      /\ alone' = [o \in Callers |-> IF o = c THEN \A p \in Callers : pc[p] = "idle"
                                     ELSE alone[o] /\ pc[o] = "idle"]
      /\ intact' = [intact EXCEPT ![c] = (setup.present /\ reports = 0)]
      /\ UNCHANGED <<driveVars, wireVars, replies, since>>
  BY DEF NewCall
<1>5. CallTypes'
  <2>1. \A o \in Callers : todo'[o] = IF o = c THEN Script(m, v) ELSE todo[o]
    BY <1>1 DEF TypeOK, CallTypes
  <2>2. \A o \in Callers : pc'[o] = IF o = c THEN "send" ELSE pc[o]
    BY <1>4 DEF TypeOK, CallTypes
  <2>3. todo' \in [Callers -> Seq(Exchanges)]
    BY <1>1, <1>3 DEF TypeOK, CallTypes
  <2>4. \A o \in Callers : pc'[o] # "idle" => todo'[o] # <<>>
    BY <1>3, <2>1, <2>2 DEF TypeOK, CallTypes
  <2> QED
    BY <1>1, <1>2, <1>4, <2>3, <2>4 DEF TypeOK, CallTypes
<1>6. HistoryTypes'
  <2>1. alone' \in [Callers -> BOOLEAN]
    BY <1>4
  <2>2. intact' \in [Callers -> BOOLEAN]
    BY <1>4 DEF TypeOK, HistoryTypes
  <2> QED
    BY <1>4, <2>1, <2>2 DEF TypeOK, HistoryTypes
<1> QED
  BY <1>4, <1>5, <1>6 DEF driveVars, wireVars, TypeOK, DriveTypes, WireTypes

LEMMA QueueTypes == ASSUME TypeOK, ProcessFeedbackFrame \/ Reports PROVE TypeOK'
<1>1. CASE ProcessFeedbackFrame
  <2>1. \A s \in Seq(Replies) : s # <<>> =>
          Head(s) \in Replies /\ Tail(s) \in Seq(Replies) /\ Len(Tail(s)) = Len(s) - 1
    OBVIOUS
  <2>2. \A s \in Seq(Replies), r \in Replies : Append(s, r) \in Seq(Replies)
    OBVIOUS
  <2>3. /\ toHost # <<>> /\ replies' = Append(replies, Head(toHost)) /\ toHost' = Tail(toHost)
        /\ UNCHANGED <<driveVars, mishaps, reports, pc, op, want, todo, result, history>>
    BY <1>1 DEF ProcessFeedbackFrame
  <2>4. Head(toHost) \in Replies /\ toHost' \in Seq(Replies) /\ Len(toHost') = Len(toHost) - 1
    BY <2>1, <2>3 DEF TypeOK, WireTypes
  <2>5. replies' \in Seq(Replies)
    BY <2>2, <2>3, <2>4 DEF TypeOK, WireTypes
  <2>6. Len(toHost) \in Nat /\ Len(toHost) <= MaxReplies
    BY DEF TypeOK, WireTypes
  <2>7. WireTypes'
    BY <2>3, <2>4, <2>5, <2>6 DEF TypeOK, WireTypes
  <2> QED
    BY <2>3, <2>7 DEF driveVars, history, TypeOK, DriveTypes, CallTypes, HistoryTypes
<1>2. CASE Reports
  <2>1. [key |-> "host", sort |-> "frame", of |-> "report", val |-> None, to |-> None] \in Replies
    BY DEF Replies, Keys, Sorts, Frames
  <2>2. \A s \in Seq(Replies), r \in Replies :
          Append(s, r) \in Seq(Replies) /\ Len(Append(s, r)) = Len(s) + 1 /\ Len(s) \in Nat
    OBVIOUS
  <2>3. /\ reports < MaxReports /\ Len(toHost) < MaxReplies /\ reports' = reports + 1
        /\ toHost' = Append(toHost, [key |-> "host", sort |-> "frame", of |-> "report",
                                     val |-> None, to |-> None])
        /\ UNCHANGED <<driveVars, mishaps, replies, pc, op, want, todo, result, history>>
    BY <1>2 DEF Reports
  <2>4. WireTypes'
    BY <2>1, <2>2, <2>3 DEF TypeOK, WireTypes
  <2> QED
    BY <2>3, <2>4 DEF driveVars, history, TypeOK, DriveTypes, CallTypes, HistoryTypes
<1> QED
  BY <1>1, <1>2

LEMMA InitTypes == Init => TypeOK
<1> SUFFICES ASSUME Init PROVE TypeOK
  OBVIOUS
<1>1. <<>> \in Seq(Replies) /\ <<>> \in Seq(Exchanges) /\ Len(<<>>) = 0
  OBVIOUS
<1>2. DriveTypes
  BY DEF Init, DriveTypes, SetupType, Powers, Modes
<1>3. WireTypes
  BY <1>1 DEF Init, WireTypes
<1>4. CallTypes
  BY <1>1 DEF Init, CallTypes, Methods, Modes
<1>5. HistoryTypes
  BY DEF Init, HistoryTypes
<1> QED
  BY <1>2, <1>3, <1>4, <1>5 DEF TypeOK

(* Whatever is lost, refused, reported unasked or late, and whoever calls: *)
(* the reply queue holds replies, and a call in progress has a next frame. *)
THEOREM RepliesHaveTypes == SafeSpec => []TypeOK
<1>1. TypeOK /\ UNCHANGED vars => TypeOK'
  BY DEF vars, driveVars, wireVars, history, TypeOK, DriveTypes, WireTypes, CallTypes, HistoryTypes
<1>2. TypeOK /\ [Next]_vars => TypeOK'
  BY <1>1, NewCallTypes, StepTypes, QueueTypes DEF Next
<1> QED
  BY <1>2, InitTypes, PTL DEF SafeSpec

-----------------------------------------------------------------------------
(***************************************************************************)
(* Whose a reply is.  The queue of replies is shared and is searched by    *)
(* key alone, so what a call finds there is an answer to it only if no     *)
(* other thread waits under the same key: Sharing.  Nothing else is asked  *)
(* of the threads.                                                         *)
(***************************************************************************)
Asking == {"query", "query_fault", "set_id", "active_report", "param"}

(* The keys a method of a driver waits under. *)
KeysOf(d, m) ==
  IF d = "mit" THEN (IF m = "set_id" THEN {"unique"} ELSE IF m = "param" THEN {"param"} ELSE {"host"})
  ELSE IF m \in Asking THEN Readable
  ELSE {"controlword"} \cup Writable

(* The MIT driver has no method that ensures a mode. *)
Offered == \A s \in Setups, c \in Callers : s.driver = "mit" => "ensure_mode" \notin s.calls[c]

Sharing ==
  /\ ~Late
  /\ \A s \in Setups, c, d \in Callers : c # d =>
       \A m \in s.calls[c], n \in s.calls[d] : KeysOf(s.driver, m) \cap KeysOf(s.driver, n) = {}

Allowed == \A c \in Callers : pc[c] # "idle" => op[c] \in setup.calls[c]
OfKeys(K) == {x \in Exchanges : x.key \in K \cup {None}}
KeysFit == \A c \in Callers : pc[c] # "idle" => todo[c] \in Seq(OfKeys(KeysOf(setup.driver, op[c])))

(* A reply on the wire or in the queue is the answer, or the refusal, of   *)
(* the one exchange its caller waits for.                                  *)
Answers(c, r) ==
  /\ pc[c] = "await" /\ r.to = c
  /\ r.key = Head(todo[c]).key /\ r.of = Head(todo[c]).frame
  /\ r.val = None \/ r.val \in since[c]

AtMostOne(q, c) == \A i, j \in 1 .. Len(q) : q[i].to = c /\ q[j].to = c => i = j
NoneOf(q, c) == \A i \in 1 .. Len(q) : q[i].to # c
Own(q, c) == AtMostOne(q, c) /\ \A i \in 1 .. Len(q) : q[i].to = c => Answers(c, q[i])
Addressed(q) == \A i \in 1 .. Len(q) : q[i].to \in Callers

RepliesOwned ==
  /\ Addressed(toHost) /\ Addressed(replies)
  /\ \A c \in Callers : Own(toHost, c) /\ Own(replies, c) /\ (NoneOf(toHost, c) \/ NoneOf(replies, c))

(* The exchange is answered as it should be. *)
AnsweredIn(q, c) == \E i \in 1 .. Len(q) : q[i].to = c /\ q[i].sort = Head(todo[c]).sort

(* A call of which nothing was lost is answered. *)
IntactHolds(c) ==
  pc[c] # "idle" /\ intact[c] =>
    setup.present /\ (pc[c] = "await" => AnsweredIn(toHost, c) \/ AnsweredIn(replies, c))

-----------------------------------------------------------------------------
(***************************************************************************)
(* What a list of exchanges does to the drive: how it is ordered, and what *)
(* must hold of the drive for the rest of it to do what the call is for.   *)
(***************************************************************************)
Word(x, w) == x.frame = "controlword" /\ x.arg = w
Enables(x) == x.frame = "enable" \/ Word(x, "enable")
Lowers(x) ==
  /\ x.frame # "enable"
  /\ \/ x.frame = "stop" \/ x.arg \in {"disable", "quick_stop", "zero", "fault_reset"}
     \/ Word(x, "shutdown") \/ Word(x, "switch_on")
(* The list goes on whatever becomes of it. *)
Skippable(x) == x.key = None \/ x.may_fail

Ordered(w, s) ==
  \A i \in 1 .. Len(s) :
    /\ s[i].frame \in {"mode", "target"} => s[i].arg = w
    /\ s[i].frame = "enable" => s[i].arg = None
    /\ Skippable(s[i]) => (s[i].frame = "nmt" /\ s[i].arg = None) \/ Word(s[i], "disable")
    /\ Lowers(s[i]) => \E j \in i + 1 .. Len(s) : Enables(s[j])
    /\ i > 1 /\ Word(s[i], "enable") => Word(s[i - 1], "switch_on")
    /\ i > 1 /\ Word(s[i], "switch_on") => Word(s[i - 1], "shutdown")
    /\ s[i].frame = "target" => \A j \in i .. Len(s) : s[j].frame # "mode"

Steering == {"enable", "set_mode", "ensure_mode", "command"}
Fits(m, w, s) ==
  /\ m \in Steering => Ordered(w, s)
  /\ m = "disable" => \A i \in 1 .. Len(s) : Lowers(s[i]) /\ ~Skippable(s[i])

Frameless(s, f) == \A i \in 1 .. Len(s) : s[i].frame # f
NeverEnables(s) == \A i \in 1 .. Len(s) : ~Enables(s[i])
Loose(w) == setup.driver = "mit" /\ w = "mit"

Ready(m, w, s) ==
  /\ \/ m \in {"set_mode", "ensure_mode"}
     \/ m = "command" /\ ~Loose(w)
     => (Frameless(s, "mode") => mode = w)
  /\ m = "command" => (Frameless(s, "target") => target = w)
  /\ m = "enable" \/ (m = "command" /\ ~Loose(w)) =>
       /\ NeverEnables(s) => power = "enabled"
       /\ s # <<>> /\ Word(s[1], "enable") => power = "switched"
       /\ s # <<>> /\ Word(s[1], "switch_on") => power # "off"
  /\ m = "disable" => (s = <<>> => power # "enabled")

AloneIsAlone == \A c, o \in Callers : pc[c] # "idle" /\ alone[c] /\ o # c => pc[o] = "idle"

ListHolds(c) ==
  /\ Fits(op[c], want[c], todo[c])
  /\ alone[c] =>
       /\ pc[c] = "send" => Ready(op[c], want[c], todo[c])
       /\ pc[c] = "await" =>
            \/ Ready(op[c], want[c], Tail(todo[c]))
            \/ ~Head(todo[c]).may_fail /\ ~AnsweredIn(toHost, c) /\ ~AnsweredIn(replies, c)

CallHolds(c) == pc[c] # "idle" => IntactHolds(c) /\ ListHolds(c)

CallInv ==
  /\ TypeOK /\ Allowed /\ KeysFit /\ AloneIsAlone
  /\ setup.driver # "mit" => reports = 0
  /\ reports = 0 =>
       /\ RepliesOwned
       /\ \A c \in Callers : CallHolds(c)

-----------------------------------------------------------------------------
(***************************************************************************)
(* Lists are built from the end, one exchange before the others.           *)
(***************************************************************************)
Cons(x, s) == <<x>> \o s

LEMMA ConsEnds ==
  ASSUME NEW S, NEW x \in S, NEW s \in Seq(S), NEW t, t = Cons(x, s)
  PROVE  Head(t) = x /\ Tail(t) = s
<1> HIDE SdoAssumption
<1>1. /\ t \in Seq(S) /\ Len(t) = Len(s) + 1 /\ t # <<>> /\ t[1] = x
      /\ \A i \in 1 .. Len(s) : t[i + 1] = s[i]
  BY ConcatProperties DEF Cons
<1>2. /\ Tail(t) \in Seq(S) /\ Len(Tail(t)) = Len(t) - 1
      /\ \A i \in 1 .. Len(Tail(t)) : Tail(t)[i] = t[i + 1]
  BY <1>1, HeadTailProperties
<1>3. Len(s) \in Nat
  OBVIOUS
<1>4. Len(Tail(t)) = Len(s) /\ \A i \in 1 .. Len(Tail(t)) : Tail(t)[i] = s[i]
  BY <1>1, <1>2, <1>3
<1> QED
  BY <1>1, <1>2, <1>4, SeqEqual

LEMMA JoinTwo == ASSUME NEW x \in Exchanges, NEW y \in Exchanges
  PROVE  <<x>> \o <<y>> = <<x,y>>
<1> HIDE SdoAssumption
<1> PICK s, t : s = <<x>> \o <<y>> /\ t = <<x,y>>
  OBVIOUS
<1>1. s \in Seq(Exchanges) /\ Len(s) = 2 /\ s[1] = x /\ s[2] = y
  OBVIOUS
<1>2. t \in Seq(Exchanges) /\ Len(t) = 2 /\ t[1] = x /\ t[2] = y
  OBVIOUS
<1>3. ASSUME NEW i \in 1 .. 2 PROVE s[i] = t[i]
  <2>1. i = 1 \/ i = 2
    OBVIOUS
  <2> QED
    BY <1>1, <1>2, <2>1
<1> QED
  BY <1>1, <1>2, <1>3, SeqEqual

LEMMA JoinThree == ASSUME NEW x \in Exchanges, NEW y \in Exchanges, NEW z \in Exchanges
  PROVE  <<x>> \o <<y,z>> = <<x,y,z>>
<1> HIDE SdoAssumption
<1> PICK s, t : s = <<x>> \o <<y,z>> /\ t = <<x,y,z>>
  OBVIOUS
<1>1. s \in Seq(Exchanges) /\ Len(s) = 3 /\ s[1] = x /\ s[2] = y /\ s[3] = z
  OBVIOUS
<1>2. t \in Seq(Exchanges) /\ Len(t) = 3 /\ t[1] = x /\ t[2] = y /\ t[3] = z
  OBVIOUS
<1>3. \A i \in 1 .. 3 : s[i] = t[i]
  BY <1>1, <1>2
<1> QED
  BY <1>1, <1>2, <1>3, SeqEqual

LEMMA JoinFour == ASSUME NEW w \in Exchanges, NEW x \in Exchanges, NEW y \in Exchanges, NEW z \in Exchanges
  PROVE  <<w>> \o <<x,y,z>> = <<w,x,y,z>>
<1> HIDE SdoAssumption
<1> PICK s, t : s = <<w>> \o <<x,y,z>> /\ t = <<w,x,y,z>>
  OBVIOUS
<1>1. s \in Seq(Exchanges) /\ Len(s) = 4 /\ s[1] = w /\ s[2] = x /\ s[3] = y /\ s[4] = z
  OBVIOUS
<1>2. t \in Seq(Exchanges) /\ Len(t) = 4 /\ t[1] = w /\ t[2] = x /\ t[3] = y /\ t[4] = z
  OBVIOUS
<1>3. \A i \in 1 .. 4 : s[i] = t[i]
  BY <1>1, <1>2
<1> QED
  BY <1>1, <1>2, <1>3, SeqEqual

LEMMA ConsJoins ==
  ASSUME NEW x \in Exchanges, NEW p \in Seq(Exchanges), NEW s \in Seq(Exchanges)
  PROVE  (<<x>> \o p) \o s = <<x>> \o (p \o s)
<1> HIDE SdoAssumption
<1>1. <<x>> \in Seq(Exchanges)
  OBVIOUS
<1> QED
  BY <1>1, ConcatAssociative

Join(s, t) == s \o t

LEMMA Joins ==
  ASSUME NEW S, NEW x \in Seq(S), NEW y \in Seq(S)
  PROVE  Join(x, y) \in Seq(S)
  BY ConcatProperties DEF Join

LEMMA JoinsTwice ==
  ASSUME NEW S, NEW x \in Seq(S), NEW y \in Seq(S), NEW z \in Seq(S)
  PROVE  Join(Join(x, y), z) = Join(x, Join(y, z))
  BY ConcatAssociative DEF Join

LEMMA JoinLists ==
  ASSUME NEW S, NEW p \in Seq(S), NEW l \in Seq(S), NEW e \in Seq(S), NEW g \in Seq(S)
  PROVE  Join(Join(Join(p, l), e), g) = Join(p, Join(l, Join(e, g)))
<1>1. Join(p, l) \in Seq(S) /\ Join(e, g) \in Seq(S)
  BY Joins
<1>2. Join(Join(Join(p, l), e), g) = Join(Join(p, l), Join(e, g))
  BY <1>1, JoinsTwice
<1>3. Join(Join(p, l), Join(e, g)) = Join(p, Join(l, Join(e, g)))
  BY <1>1, JoinsTwice
<1> QED
  BY <1>2, <1>3

LEMMA ConsTwo ==
  ASSUME NEW s \in Seq(Exchanges), NEW b \in Exchanges, NEW e \in Exchanges
  PROVE  <<b, e>> \o s = Cons(b, Cons(e, s))
<1> HIDE SdoAssumption
<1>1. (<<b>> \o <<e>>) \o s = <<b>> \o (<<e>> \o s)
  <2>1. ASSUME NEW p \in Seq(Exchanges) PROVE (<<b>> \o p) \o s = <<b>> \o (p \o s)
    BY ConsJoins
  <2>2. <<e>> \in Seq(Exchanges)
    OBVIOUS
  <2> QED
    BY <2>1, <2>2
<1>2. <<b, e>> = <<b>> \o <<e>>
  BY JoinTwo
<1> QED
  BY <1>1, <1>2 DEF Cons

LEMMA ConsThree ==
  ASSUME NEW s \in Seq(Exchanges), NEW r \in Exchanges, NEW b \in Exchanges, NEW e \in Exchanges
  PROVE  <<r, b, e>> \o s = Cons(r, Cons(b, Cons(e, s)))
<1> HIDE SdoAssumption
<1>1. <<b, e>> \in Seq(Exchanges)
  OBVIOUS
<1>2. (<<r>> \o <<b, e>>) \o s = <<r>> \o (<<b, e>> \o s)
  BY <1>1, ConsJoins
<1>3. <<r, b, e>> = <<r>> \o <<b, e>>
  BY JoinThree
<1>4. <<b, e>> \o s = Cons(b, Cons(e, s))
  BY ConsTwo
<1> QED
  BY <1>2, <1>3, <1>4 DEF Cons

(* A sequence of three, one exchange put before another. *)
LEMMA ThreeCons ==
  ASSUME NEW r \in Exchanges, NEW b \in Exchanges, NEW e \in Exchanges
  PROVE  <<r, b, e>> = Cons(r, Cons(b, Cons(e, <<>>)))
<1> HIDE SdoAssumption
<1>1. ASSUME NEW s \in Seq(Exchanges) PROVE <<r, b, e>> \o s = Cons(r, Cons(b, Cons(e, s)))
  BY ConsThree
<1>2. <<>> \in Seq(Exchanges)
  OBVIOUS
<1>3. <<r, b, e>> \o <<>> = Cons(r, Cons(b, Cons(e, <<>>)))
  BY ONLY <1>1, <1>2, Zenon
<1>4. <<r, b, e>> \o <<>> = <<r, b, e>>
  <2>1. <<r, b, e>> \in Seq(Exchanges)
    OBVIOUS
  <2> QED
    BY <2>1, ConcatEmptySeq
<1> QED
  BY ONLY <1>3, <1>4, Zenon

LEMMA ConsFour ==
  ASSUME NEW s \in Seq(Exchanges), NEW n \in Exchanges, NEW r \in Exchanges,
         NEW b \in Exchanges, NEW e \in Exchanges
  PROVE  <<n, r, b, e>> \o s = Cons(n, Cons(r, Cons(b, Cons(e, s))))
<1> HIDE SdoAssumption
<1>1. <<r, b, e>> \in Seq(Exchanges)
  OBVIOUS
<1>2. (<<n>> \o <<r, b, e>>) \o s = <<n>> \o (<<r, b, e>> \o s)
  BY <1>1, ConsJoins
<1>3. <<n, r, b, e>> = <<n>> \o <<r, b, e>>
  BY JoinFour
<1>4. <<r, b, e>> \o s = Cons(r, Cons(b, Cons(e, s)))
  BY ConsThree
<1> QED
  BY <1>2, <1>3, <1>4 DEF Cons

(* A list that may follow anything. *)
Calm(s) == s # <<>> => ~Word(s[1], "enable") /\ ~Word(s[1], "switch_on")
Proper(w, s) == s \in Seq(Exchanges) /\ Ordered(w, s)
Keeps(s, t) ==
  /\ ~NeverEnables(s) => ~NeverEnables(t)
  /\ \A f : ~Frameless(s, f) => ~Frameless(t, f)

LEMMA ConsKeeps ==
  ASSUME NEW x \in Exchanges, NEW s \in Seq(Exchanges)
  PROVE  /\ Keeps(s, Cons(x, s)) /\ ~Frameless(Cons(x, s), x.frame)
         /\ Enables(x) => ~NeverEnables(Cons(x, s))
         /\ ~Word(x, "enable") /\ ~Word(x, "switch_on") => Calm(Cons(x, s))
<1> HIDE SdoAssumption
<1> PICK t : t = Cons(x, s)
  OBVIOUS
<1>1. t = Cons(x, s)
  OBVIOUS
<1>2. /\ t \in Seq(Exchanges) /\ Len(t) = Len(s) + 1 /\ t[1] = x
      /\ \A i \in 1 .. Len(s) : t[i + 1] = s[i]
  BY <1>1, ConcatProperties DEF Cons
<1> HIDE SdoAssumption
<1>3. Len(s) \in Nat
  OBVIOUS
<1>4. 1 \in 1 .. Len(t) /\ \A i \in 1 .. Len(s) : i + 1 \in 1 .. Len(t)
  BY <1>2, <1>3
<1>5. Keeps(s, t)
  BY <1>2, <1>4 DEF Keeps, NeverEnables, Frameless
<1>6. /\ ~Frameless(t, x.frame) /\ (Enables(x) => ~NeverEnables(t))
      /\ ~Word(x, "enable") /\ ~Word(x, "switch_on") => Calm(t)
  BY <1>2, <1>4 DEF NeverEnables, Frameless, Calm
<1> QED
  BY <1>1, <1>5, <1>6

LEMMA ConsProper ==
  ASSUME NEW w, NEW s, Proper(w, s), NEW x \in Exchanges,
         x.frame \in {"mode", "target"} => x.arg = w, x.frame = "enable" => x.arg = None,
         Skippable(x) => (x.frame = "nmt" /\ x.arg = None) \/ Word(x, "disable"),
         Lowers(x) => ~NeverEnables(s),
         \/ Calm(s)
         \/ Word(x, "switch_on") /\ ~Word(s[1], "switch_on")
         \/ Word(x, "shutdown") /\ ~Word(s[1], "enable"),
         x.frame = "target" => Frameless(s, "mode")
  PROVE  Proper(w, Cons(x, s))
<1> HIDE SdoAssumption
<1>1. PICK t : t = Cons(x, s)
  OBVIOUS
<1> HIDE SdoAssumption
<1>2. s \in Seq(Exchanges) /\ Len(s) \in Nat
  BY DEF Proper
<1>3. /\ t \in Seq(Exchanges) /\ Len(t) = Len(s) + 1 /\ t[1] = x
      /\ \A i \in 1 .. Len(s) : t[i + 1] = s[i]
      /\ \A i \in 1 .. Len(s) + 1 : i > 1 => t[i] = s[i - 1]
  BY <1>1, <1>2, ConcatProperties DEF Cons
<1>4. \A j \in 1 .. Len(s) : j + 1 \in 2 .. Len(t) /\ t[j + 1] = s[j]
  BY <1>2, <1>3
<1>6. ASSUME NEW j \in 1 .. Len(t), j > 1 PROVE j - 1 \in 1 .. Len(s) /\ t[j] = s[j - 1]
  BY <1>2, <1>3, <1>6
<1>5. ASSUME NEW i \in 1 .. Len(t) PROVE
        /\ t[i].frame \in {"mode", "target"} => t[i].arg = w
        /\ t[i].frame = "enable" => t[i].arg = None
        /\ Skippable(t[i]) => (t[i].frame = "nmt" /\ t[i].arg = None) \/ Word(t[i], "disable")
        /\ Lowers(t[i]) => \E j \in i + 1 .. Len(t) : Enables(t[j])
        /\ i > 1 /\ Word(t[i], "enable") => Word(t[i - 1], "switch_on")
        /\ i > 1 /\ Word(t[i], "switch_on") => Word(t[i - 1], "shutdown")
        /\ t[i].frame = "target" => \A j \in i .. Len(t) : t[j].frame # "mode"
  <2>1. CASE i = 1
    <3>1. Lowers(x) => \E j \in 2 .. Len(t) : Enables(t[j])
      BY <1>4 DEF NeverEnables
    <3>2. x.frame = "target" => \A j \in 1 .. Len(t) : t[j].frame # "mode"
      <4>1. ASSUME NEW j \in 1 .. Len(t), x.frame = "target" PROVE t[j].frame # "mode"
        <5>1. CASE j = 1
          BY <1>3, <4>1, <5>1
        <5>2. CASE j > 1
          BY <1>6, <4>1, <5>2 DEF Frameless
        <5> QED
          BY <5>1, <5>2
      <4> QED
        BY <4>1
    <3> QED
      BY <1>3, <2>1, <3>1, <3>2
  <2>2. CASE i > 1
    <3>1. PICK k \in 1 .. Len(s) : i = k + 1 /\ t[i] = s[k]
      <4>1. i = (i - 1) + 1
        BY <1>2, <1>3
      <4> QED
        BY <1>6, <2>2, <4>1
    <3>2. /\ s[k].frame \in {"mode", "target"} => s[k].arg = w
          /\ s[k].frame = "enable" => s[k].arg = None
          /\ Skippable(s[k]) => (s[k].frame = "nmt" /\ s[k].arg = None) \/ Word(s[k], "disable")
          /\ Lowers(s[k]) => \E j \in k + 1 .. Len(s) : Enables(s[j])
          /\ k > 1 /\ Word(s[k], "enable") => Word(s[k - 1], "switch_on")
          /\ k > 1 /\ Word(s[k], "switch_on") => Word(s[k - 1], "shutdown")
          /\ s[k].frame = "target" => \A j \in k .. Len(s) : s[j].frame # "mode"
      BY DEF Proper, Ordered
    <3>3. Lowers(t[i]) => \E j \in i + 1 .. Len(t) : Enables(t[j])
      <4>1. \A j \in k + 1 .. Len(s) : j + 1 \in i + 1 .. Len(t) /\ t[j + 1] = s[j]
        BY <1>2, <1>3, <3>1
      <4> QED
        BY <3>1, <3>2, <4>1
    <3>4. t[i].frame = "target" => \A j \in i .. Len(t) : t[j].frame # "mode"
      <4>1. ASSUME NEW j \in i .. Len(t) PROVE j - 1 \in k .. Len(s) /\ t[j] = s[j - 1]
        <5>1. j \in 1 .. Len(t) /\ j > 1
          BY <1>2, <1>3, <2>2
        <5> QED
          BY <1>2, <1>3, <1>6, <3>1, <5>1
      <4> QED
        BY <3>1, <3>2, <4>1
    <3>5. /\ Word(t[i], "enable") => Word(t[i - 1], "switch_on")
          /\ Word(t[i], "switch_on") => Word(t[i - 1], "shutdown")
      <4>1. CASE k > 1
        <5>1. t[i - 1] = s[k - 1]
          BY <1>2, <1>3, <3>1, <4>1
        <5> QED
          BY <3>1, <3>2, <4>1, <5>1
      <4>2. CASE k = 1
        <5>1. t[i - 1] = x /\ t[i] = s[1] /\ s # <<>>
          BY <1>3, <3>1, <4>2
        <5>2. ~(Word(x, "switch_on") /\ Word(x, "shutdown"))
          BY DEF Word
        <5> QED
          BY <5>1, <5>2 DEF Calm, Word
      <4> QED
        BY <4>1, <4>2
    <3> QED
      BY <3>1, <3>2, <3>3, <3>4, <3>5
  <2> QED
    BY <2>1, <2>2
<1> QED
  BY <1>1, <1>3, <1>5 DEF Proper, Ordered

(* The exchanges the scripts of a steering call are made of. *)
LEMMA Kinds ==
  /\ \A w \in Words : /\ Control(w).frame = "controlword" /\ Control(w).arg = w
                      /\ ~Skippable(Control(w))
  /\ \A m \in Modes : /\ SdoWrite("mode", m).frame = "mode" /\ SdoWrite("mode", m).arg = m
                      /\ SdoWrite("target", m).frame = "target" /\ SdoWrite("target", m).arg = m
                      /\ SdoWrite("limit", m).frame = "limit" /\ SdoWrite("limit", m).arg = m
                      /\ ~Skippable(SdoWrite("mode", m)) /\ ~Skippable(SdoWrite("target", m))
                      /\ ~Skippable(SdoWrite("limit", m))
  /\ \A o \in Writable, m \in Modes : /\ SdoWrite(o, m).frame = o /\ SdoWrite(o, m).arg = m
                                      /\ ~Skippable(SdoWrite(o, m))
  /\ StartNode.frame = "nmt" /\ StartNode.arg = None
  /\ LET d == Tolerated(Control("disable"))
     IN d \in Exchanges /\ d.frame = "controlword" /\ d.arg = "disable"
  BY Writes DEF Words, Writable, Control, SdoWrite, StartNode, Tolerated, Exchange, Skippable, None,
                Modes

(* One exchange before a calm list. *)
LEMMA ConsCalm ==
  ASSUME NEW w, NEW s, Proper(w, s), Calm(s), NEW x \in Exchanges,
         x.frame \in {"mode", "target"} => x.arg = w, x.frame = "enable" => x.arg = None,
         Skippable(x) => (x.frame = "nmt" /\ x.arg = None) \/ Word(x, "disable"),
         Lowers(x) => ~NeverEnables(s),
         ~Word(x, "enable") /\ ~Word(x, "switch_on"),
         x.frame = "target" => Frameless(s, "mode"),
         NEW t, t = Cons(x, s)
  PROVE  /\ Proper(w, t) /\ Calm(t) /\ Keeps(s, t) /\ ~Frameless(t, x.frame)
         /\ Enables(x) => ~NeverEnables(t)
  BY ConsProper, ConsKeeps DEF Proper

LEMMA KeepsOn ==
  ASSUME NEW r, NEW s, NEW t, Keeps(r, s), Keeps(s, t)
  PROVE  Keeps(r, t)
  BY DEF Keeps

LEMMA Enabling ==
  ASSUME NEW w, NEW s, Proper(w, s), Calm(s), NEW t \in {EnableDrive \o s, Tail(EnableDrive) \o s}
  PROVE  Proper(w, t) /\ Calm(t) /\ Keeps(s, t) /\ ~NeverEnables(t)
<1> HIDE SdoAssumption
<1> PICK n, r, b, e : /\ n = StartNode /\ r = Control("shutdown")
                      /\ b = Control("switch_on") /\ e = Control("enable")
  OBVIOUS
<1>1. /\ n \in Exchanges /\ r \in Exchanges /\ b \in Exchanges /\ e \in Exchanges
      /\ n.frame = "nmt" /\ n.arg = None /\ r.frame = "controlword" /\ r.arg = "shutdown"
      /\ b.frame = "controlword" /\ b.arg = "switch_on"
      /\ e.frame = "controlword" /\ e.arg = "enable"
      /\ ~Skippable(r) /\ ~Skippable(b) /\ ~Skippable(e)
  BY Writes, Kinds DEF Words
<1>2. s \in Seq(Exchanges)
  BY DEF Proper
<1> PICK s1, s2, s3, s4 :
      s1 = Cons(e, s) /\ s2 = Cons(b, s1) /\ s3 = Cons(r, s2) /\ s4 = Cons(n, s3)
  OBVIOUS
<1>3. s1 \in Seq(Exchanges) /\ s2 \in Seq(Exchanges) /\ s3 \in Seq(Exchanges)
  BY <1>1, <1>2, ConcatProperties DEF Cons
<1>4. s1[1] = e /\ s2[1] = b
  BY <1>1, <1>2, <1>3, ConcatProperties DEF Cons
<1>5. Tail(EnableDrive) = <<r, b, e>> /\ EnableDrive = <<n, r, b, e>>
  BY DEF EnableDrive
<1>6. t = s4 \/ t = s3
  <2>1. <<r, b, e>> \o s = s3
    BY <1>1, <1>2, ConsThree
  <2>2. <<n, r, b, e>> \o s = s4
    BY <1>1, <1>2, ConsFour
  <2> QED
    BY <1>5, <2>1, <2>2
<1>7. Proper(w, s1) /\ ~NeverEnables(s1) /\ Keeps(s, s1)
  BY <1>1, <1>2, ConsProper, ConsKeeps DEF Lowers, Enables, Word
<1>8. Proper(w, s2) /\ ~NeverEnables(s2) /\ Keeps(s1, s2)
  <2>1. Proper(w, s2)
    BY <1>1, <1>4, <1>7, ConsProper DEF Word
  <2> QED
    BY <1>1, <1>3, <1>7, <2>1, ConsKeeps DEF Keeps
<1>9. Proper(w, s3) /\ Calm(s3) /\ ~NeverEnables(s3) /\ Keeps(s2, s3)
  <2>1. Proper(w, s3)
    BY <1>1, <1>4, <1>8, ConsProper DEF Word
  <2> QED
    BY <1>1, <1>3, <1>8, <2>1, ConsKeeps DEF Keeps, Word
<1>10. Proper(w, s4) /\ Calm(s4) /\ ~NeverEnables(s4) /\ Keeps(s3, s4)
  <2>1. ~Word(n, "enable") /\ ~Word(n, "switch_on") /\ ~Lowers(n)
    BY <1>1 DEF Word, Lowers, None
  <2> QED
    BY <1>1, <1>9, <2>1, ConsCalm DEF Keeps
<1> QED
  BY <1>6, <1>7, <1>8, <1>9, <1>10, KeepsOn

LEMMA Preparing ==
  ASSUME NEW m \in Modes, NEW s, Proper(m, s), Calm(s), ~NeverEnables(s),
         NEW t \in {PrepareModeDisabled(m) \o s, <<StartNode, SdoWrite("mode", m)>> \o s}
  PROVE  Proper(m, t) /\ Calm(t) /\ Keeps(s, t) /\ ~NeverEnables(t) /\ ~Frameless(t, "mode")
<1> HIDE SdoAssumption
<1> PICK n, d, g : n = StartNode /\ d = Tolerated(Control("disable")) /\ g = SdoWrite("mode", m)
  OBVIOUS
<1>1. /\ n \in Exchanges /\ d \in Exchanges /\ g \in Exchanges
      /\ n.frame = "nmt" /\ n.arg = None /\ d.frame = "controlword" /\ d.arg = "disable"
      /\ g.frame = "mode" /\ g.arg = m /\ ~Skippable(g)
  BY Writes, Kinds DEF Words
<1>2. s \in Seq(Exchanges)
  BY DEF Proper
<1> PICK s1, s2, s3, s4 :
      s1 = Cons(g, s) /\ s2 = Cons(d, s1) /\ s3 = Cons(n, s2) /\ s4 = Cons(n, s1)
  OBVIOUS
<1>3. t = s3 \/ t = s4
  <2>1. <<n, d, g>> \o s = s3
    BY <1>1, <1>2, ConsThree
  <2>2. <<n, g>> \o s = s4
    BY <1>1, <1>2, ConsTwo
  <2> QED
    BY <2>1, <2>2 DEF PrepareModeDisabled
<1>4. Proper(m, s1) /\ Calm(s1) /\ ~NeverEnables(s1) /\ Keeps(s, s1) /\ ~Frameless(s1, "mode")
  <2>1. ~Word(g, "enable") /\ ~Word(g, "switch_on") /\ ~Lowers(g)
    BY <1>1 DEF Word, Lowers, Modes
  <2> QED
    BY <1>1, <2>1, ConsCalm DEF Keeps
<1>5. Proper(m, s2) /\ Calm(s2) /\ ~NeverEnables(s2) /\ Keeps(s1, s2) /\ ~Frameless(s2, "mode")
  <2>1. ~Word(d, "enable") /\ ~Word(d, "switch_on") /\ Word(d, "disable")
    BY <1>1 DEF Word
  <2>2. Proper(m, s2) /\ Calm(s2) /\ Keeps(s1, s2)
    BY <1>1, <1>4, <2>1, ConsCalm
  <2> QED
    BY <1>4, <2>2 DEF Keeps
<1>6. ~Word(n, "enable") /\ ~Word(n, "switch_on") /\ ~Lowers(n)
  BY <1>1 DEF Word, Lowers, None
<1>7. Proper(m, s3) /\ Calm(s3) /\ Keeps(s2, s3)
  BY <1>1, <1>5, <1>6, ConsCalm
<1>8. Proper(m, s4) /\ Calm(s4) /\ Keeps(s1, s4)
  BY <1>1, <1>4, <1>6, ConsCalm
<1>9. Keeps(s, s3) /\ Keeps(s, s4)
  BY <1>4, <1>5, <1>7, <1>8, KeepsOn
<1> QED
  BY <1>3, <1>4, <1>5, <1>7, <1>8, <1>9 DEF Keeps

(* The ends of the lists: nothing, or a target. *)
LEMMA Endings ==
  ASSUME NEW m \in Modes
  PROVE  /\ Proper(m, <<>>) /\ Calm(<<>>)
         /\ LET t == <<SdoWrite("target", m)>>
            IN Proper(m, t) /\ Calm(t) /\ ~Frameless(t, "target")
<1> HIDE SdoAssumption
<1> PICK g : g = SdoWrite("target", m)
  OBVIOUS
<1>1. g \in Exchanges /\ g.frame = "target" /\ g.arg = m /\ ~Skippable(g)
  BY Writes, Kinds
<1>2. Proper(m, <<>>) /\ Calm(<<>>)
  BY DEF Proper, Calm, Ordered
<1>3. Cons(g, <<>>) = <<g>>
  <2>1. <<g>> \in Seq(Exchanges)
    BY <1>1
  <2> QED
    BY <2>1, ConcatEmptySeq DEF Cons
<1>4. ~Word(g, "enable") /\ ~Word(g, "switch_on") /\ ~Lowers(g)
  BY <1>1 DEF Word, Lowers, Modes
<1>5. Frameless(<<>>, "mode")
  BY DEF Frameless
<1>6. Proper(m, <<g>>) /\ Calm(<<g>>) /\ ~Frameless(<<g>>, "target")
  BY <1>1, <1>2, <1>3, <1>4, <1>5, ConsCalm
<1> QED
  BY <1>2, <1>6

(* What neither enables nor lowers the drive nor sets its mode. *)
Mild(m, x) ==
  /\ x \in Exchanges /\ ~Skippable(x) /\ ~Lowers(x) /\ ~Word(x, "enable") /\ ~Word(x, "switch_on")
  /\ x.frame \notin {"mode", "enable"} /\ (x.frame = "target" => x.arg = m)

Gentle(m, s) == Proper(m, s) /\ Calm(s) /\ Frameless(s, "mode")

LEMMA ConsGentle ==
  ASSUME NEW m, NEW x, Mild(m, x), NEW s, Gentle(m, s), NEW t, t = Cons(x, s)
  PROVE  /\ Gentle(m, t) /\ (x.frame = "target" => ~Frameless(t, "target"))
         /\ (~Frameless(s, "target") => ~Frameless(t, "target"))
<1>1. s \in Seq(Exchanges)
  BY DEF Gentle, Proper
<1>2. Proper(m, t) /\ Calm(t) /\ Keeps(s, t) /\ ~Frameless(t, x.frame)
  BY ConsCalm DEF Mild, Gentle
<1>3. Frameless(t, "mode")
  <2>1. /\ Len(s) \in Nat /\ Len(t) = Len(s) + 1 /\ t[1] = x
        /\ \A i \in 1 .. Len(t) : i > 1 => i - 1 \in 1 .. Len(s) /\ t[i] = s[i - 1]
    BY <1>1, ConcatProperties DEF Cons, Mild
  <2>2. ASSUME NEW i \in 1 .. Len(t) PROVE t[i].frame # "mode"
    <3>1. CASE i = 1
      BY <2>1, <3>1 DEF Mild
    <3>2. CASE i > 1
      BY <2>1, <3>2 DEF Gentle, Frameless
    <3> QED
      BY <2>1, <3>1, <3>2
  <2> QED
    BY <2>2 DEF Frameless
<1> QED
  BY <1>2, <1>3 DEF Gentle, Keeps

LEMMA MildOnes ==
  ASSUME NEW m \in Modes
  PROVE  /\ \A w \in {"immediate", "new_setpoint"} : Mild(m, Control(w))
         /\ \A o \in Writable \ {"mode"} : Mild(m, SdoWrite(o, m))
<1>1. ASSUME NEW w \in {"immediate", "new_setpoint"} PROVE Mild(m, Control(w))
  <2> PICK x : x = Control(w)
    OBVIOUS
  <2>1. x \in Exchanges /\ x.frame = "controlword" /\ x.arg = w /\ ~Skippable(x)
    BY Writes, Kinds DEF Words
  <2>2. Mild(m, x)
    BY <2>1 DEF Mild, Word, Lowers
  <2> QED
    BY <2>2
<1>2. ASSUME NEW o \in Writable \ {"mode"} PROVE Mild(m, SdoWrite(o, m))
  <2> PICK x : x = SdoWrite(o, m)
    OBVIOUS
  <2>1. x \in Exchanges /\ x.frame = o /\ x.arg = m /\ ~Skippable(x)
    BY Writes, Kinds
  <2>2. Mild(m, x)
    BY <2>1 DEF Mild, Word, Lowers, Modes, Writable
  <2> QED
    BY <2>2
<1> QED
  BY <1>1, <1>2

LEMMA Targets ==
  ASSUME NEW m \in Modes
  PROVE  LET t == HexfellowTarget(m) IN Proper(m, t) /\ Calm(t) /\ ~Frameless(t, "target")
<1> HIDE SdoAssumption
<1>1. Gentle(m, <<>>)
  <2>1. Proper(m, <<>>) /\ Calm(<<>>)
    BY Endings
  <2>2. Frameless(<<>>, "mode")
    BY DEF Frameless
  <2> QED
    BY <2>1, <2>2 DEF Gentle
<1>2. ASSUME NEW x, Mild(m, x) PROVE x \in Exchanges
  BY <1>2 DEF Mild
<1>3. ASSUME NEW s, Gentle(m, s) PROVE s \in Seq(Exchanges)
  BY <1>3 DEF Gentle, Proper
<1>4. CASE m = "position"
  <2> PICK l, g, i, n : /\ l = SdoWrite("limit", m) /\ g = SdoWrite("target", m)
                        /\ i = Control("immediate") /\ n = Control("new_setpoint")
    OBVIOUS
  <2>1. Mild(m, l) /\ Mild(m, g) /\ Mild(m, i) /\ Mild(m, n) /\ g.frame = "target"
    BY MildOnes, Kinds DEF Writable
  <2>2. l \in Exchanges /\ g \in Exchanges /\ i \in Exchanges /\ n \in Exchanges
    BY <1>2, <2>1
  <2> PICK s1, s2, s3, s4, s5 : /\ s1 = Cons(i, <<>>) /\ s2 = Cons(n, s1) /\ s3 = Cons(i, s2)
                                /\ s4 = Cons(g, s3) /\ s5 = Cons(l, s4)
    OBVIOUS
  <2>3. Gentle(m, s1) /\ Gentle(m, s2) /\ Gentle(m, s3)
    BY <1>1, <2>1, ConsGentle
  <2>4. Gentle(m, s4) /\ ~Frameless(s4, "target")
    BY <2>1, <2>3, ConsGentle
  <2>5. Gentle(m, s5) /\ ~Frameless(s5, "target")
    BY <2>1, <2>4, ConsGentle
  <2>6. <<i, n, i>> = s3
    <3>1. <<i, n, i>> = Cons(i, Cons(n, Cons(i, <<>>)))
      BY <2>2, ThreeCons
    <3> QED
      BY <3>1
  <2>7. <<l, g>> \o s3 = s5
    BY <1>3, <2>2, <2>3, ConsTwo
  <2>8. HexfellowTarget(m) = s5
    BY <1>4, <2>6, <2>7 DEF HexfellowTarget, SetPoint
  <2> QED
    BY <2>5, <2>8 DEF Gentle
<1>5. CASE m # "position"
  <2> PICK g, v, u, p, d, l : /\ g = SdoWrite("target", m) /\ v = SdoWrite("target_velocity", m)
                              /\ u = SdoWrite("target_torque", m) /\ p = SdoWrite("kp", m)
                              /\ d = SdoWrite("kd", m) /\ l = SdoWrite("limit", m)
    OBVIOUS
  <2>1. /\ Mild(m, g) /\ Mild(m, v) /\ Mild(m, u) /\ Mild(m, p) /\ Mild(m, d) /\ Mild(m, l)
        /\ g.frame = "target"
    BY MildOnes, Kinds DEF Writable
  <2>2. /\ g \in Exchanges /\ v \in Exchanges /\ u \in Exchanges
        /\ p \in Exchanges /\ d \in Exchanges /\ l \in Exchanges
    BY <1>2, <2>1
  <2> PICK s1, s2, s3, s4, s5, s6 :
        /\ s1 = Cons(l, <<>>) /\ s2 = Cons(d, s1) /\ s3 = Cons(p, s2)
        /\ s4 = Cons(u, s3) /\ s5 = Cons(v, s4) /\ s6 = Cons(g, s5)
    OBVIOUS
  <2>3. Gentle(m, s1) /\ Gentle(m, s2) /\ Gentle(m, s3)
    BY <1>1, <2>1, ConsGentle
  <2>4. Gentle(m, s4) /\ Gentle(m, s5)
    BY <2>1, <2>3, ConsGentle
  <2>5. Gentle(m, s6) /\ ~Frameless(s6, "target")
    BY <2>1, <2>4, ConsGentle
  <2>6. <<p, d, l>> = s3
    <3>1. <<p, d, l>> = Cons(p, Cons(d, Cons(l, <<>>)))
      BY <2>2, ThreeCons
    <3> QED
      BY <3>1
  <2>7. <<g, v, u>> \o s3 = s6
    <3>1. s3 \in Seq(Exchanges)
      BY <1>3, <2>3
    <3>2. <<g, v, u>> \o s3 = Cons(g, Cons(v, Cons(u, s3)))
      BY <2>2, <3>1, ConsThree
    <3> QED
      BY <3>2
  <2>8. HexfellowTarget(m) = s6
    BY <1>5, <2>6, <2>7 DEF HexfellowTarget, MitTarget
  <2> QED
    BY <2>5, <2>8 DEF Gentle
<1> QED
  BY <1>4, <1>5

(* What a list does when it is run to its end, by the method. *)
Complete(m, w, s) ==
  /\ Fits(m, w, s) /\ (m \in Steering => Calm(s))
  /\ m \in {"set_mode", "ensure_mode"} \/ (m = "command" /\ ~Loose(w)) => ~Frameless(s, "mode")
  /\ m = "command" => ~Frameless(s, "target")
  /\ m = "enable" \/ (m = "command" /\ ~Loose(w)) => ~NeverEnables(s)
  /\ m = "disable" => s # <<>>

LEMMA EnablingAlone ==
  ASSUME NEW w \in Modes
  PROVE  /\ Proper(w, EnableDrive) /\ Calm(EnableDrive) /\ ~NeverEnables(EnableDrive)
         /\ LET t == Tail(EnableDrive) IN Proper(w, t) /\ Calm(t) /\ ~NeverEnables(t)
<1>1. EnableDrive \o <<>> = EnableDrive /\ Tail(EnableDrive) \o <<>> = Tail(EnableDrive)
  BY EnableDrives, ConcatEmptySeq DEF Lists
<1>2. Proper(w, <<>>) /\ Calm(<<>>)
  BY Endings
<1> QED
  BY <1>1, <1>2, Enabling

LEMMA ModeComplete ==
  ASSUME NEW m \in Modes
  PROVE  LET t == EnsureModeEnabled(m)
         IN Proper(m, t) /\ Calm(t) /\ ~NeverEnables(t) /\ ~Frameless(t, "mode")
<1> PICK e, f : e = EnableDrive /\ f = Tail(EnableDrive)
  OBVIOUS
<1>1. /\ Proper(m, e) /\ Calm(e) /\ ~NeverEnables(e)
      /\ Proper(m, f) /\ Calm(f) /\ ~NeverEnables(f)
  BY EnablingAlone
<1>2. EnsureModeEnabled(m) \in {PrepareModeDisabled(m) \o e,
                                <<StartNode, SdoWrite("mode", m)>> \o f}
  BY DEF EnsureModeEnabled
<1> PICK a, b : a = PrepareModeDisabled(m) \o e /\ b = <<StartNode, SdoWrite("mode", m)>> \o f
  OBVIOUS
<1>3. Proper(m, a) /\ Calm(a) /\ ~NeverEnables(a) /\ ~Frameless(a, "mode")
  BY <1>1, Preparing
<1>4. Proper(m, b) /\ Calm(b) /\ ~NeverEnables(b) /\ ~Frameless(b, "mode")
  BY <1>1, Preparing
<1> QED
  BY <1>2, <1>3, <1>4

LEMMA CommandComplete ==
  ASSUME NEW m \in Modes, NEW t,
         t = IF setup.driver = "hexfellow" THEN HexfellowCommand(m) ELSE Cia402Command(m)
  PROVE  /\ Proper(m, t) /\ Calm(t) /\ ~NeverEnables(t)
         /\ ~Frameless(t, "mode") /\ ~Frameless(t, "target")
<1> PICK e, f, p, q : /\ e = EnableDrive /\ f = Tail(EnableDrive)
                      /\ p = PrepareModeDisabled(m)
                      /\ q = <<StartNode, SdoWrite("mode", m)>>
  OBVIOUS
<1>1. e \in Seq(Exchanges) /\ f \in Seq(Exchanges) /\ p \in Seq(Exchanges) /\ q \in Seq(Exchanges)
  BY EnableDrives, ModeScripts, Writes, Listing DEF Lists
<1>2. CASE setup.driver # "hexfellow"
  <2> PICK l, g : /\ l = IF m = "torque" THEN <<>> ELSE <<SdoWrite("limit", m)>>
                  /\ g = <<SdoWrite("target", m)>>
    OBVIOUS
  <2>1. l \in Seq(Exchanges) /\ g \in Seq(Exchanges)
    BY Writes
  <2> PICK s1, s2, s3 : s1 = e \o g /\ s2 = l \o s1 /\ s3 = p \o s2
    OBVIOUS
  <2>2. s1 \in Seq(Exchanges) /\ s2 \in Seq(Exchanges)
    BY <1>1, <2>1, ConcatProperties
  <2>3. t = s3
    <3>1. t = ((p \o l) \o e) \o g
      BY <1>2 DEF Cia402Command
    <3>2. Join(Join(Join(p, l), e), g) = Join(p, Join(l, Join(e, g)))
      BY ONLY <1>1, <2>1, JoinLists
    <3>3. ((p \o l) \o e) \o g = p \o (l \o (e \o g))
      BY ONLY <3>2 DEF Join
    <3> QED
      BY <3>1, <3>3
  <2>4. Proper(m, s1) /\ Calm(s1) /\ ~NeverEnables(s1) /\ ~Frameless(s1, "target")
    BY Endings, Enabling DEF Keeps
  <2>5. Proper(m, s2) /\ Calm(s2) /\ ~NeverEnables(s2) /\ ~Frameless(s2, "target")
    <3>1. CASE l = <<>>
      BY <2>2, <2>4, <3>1, ConcatEmptySeq
    <3>2. CASE l = <<SdoWrite("limit", m)>>
      <4> PICK x : x = SdoWrite("limit", m)
        OBVIOUS
      <4>1. x \in Exchanges /\ x.frame = "limit" /\ x.arg = m /\ ~Skippable(x)
        BY Writes, Kinds
      <4>2. ~Word(x, "enable") /\ ~Word(x, "switch_on") /\ ~Lowers(x)
        BY <4>1 DEF Word, Lowers, Modes
      <4>3. s2 = Cons(x, s1)
        BY <3>2 DEF Cons
      <4>4. Proper(m, s2) /\ Calm(s2) /\ Keeps(s1, s2)
        BY <2>4, <4>1, <4>2, <4>3, ConsCalm
      <4> QED
        BY <2>4, <4>4 DEF Keeps
    <3> QED
      BY <3>1, <3>2
  <2>6. /\ Proper(m, s3) /\ Calm(s3) /\ ~NeverEnables(s3) /\ ~Frameless(s3, "mode")
        /\ Keeps(s2, s3)
    BY <2>5, Preparing
  <2> QED
    BY <2>3, <2>5, <2>6 DEF Keeps
<1>3. CASE setup.driver = "hexfellow"
  <2> PICK s0, s1, s2 : s0 = HexfellowTarget(m) /\ s1 = f \o s0 /\ s2 = q \o s1
    OBVIOUS
  <2>2. s0 \in Seq(Exchanges)
    BY HexfellowTargets DEF Lists
  <2>3. t = s2
    <3>1. t = (q \o f) \o s0
      BY <1>3 DEF HexfellowCommand, EnsureModeEnabled
    <3>2. (q \o f) \o s0 = q \o (f \o s0)
      BY <1>1, <2>2, ConcatAssociative
    <3> QED
      BY <3>1, <3>2
  <2>4. Proper(m, s0) /\ Calm(s0) /\ ~Frameless(s0, "target")
    BY Targets
  <2>5. Proper(m, s1) /\ Calm(s1) /\ ~NeverEnables(s1) /\ ~Frameless(s1, "target")
    BY <2>4, Enabling DEF Keeps
  <2>6. /\ Proper(m, s2) /\ Calm(s2) /\ ~NeverEnables(s2) /\ ~Frameless(s2, "mode")
        /\ Keeps(s1, s2)
    BY <2>5, Preparing
  <2> QED
    BY <2>3, <2>5, <2>6 DEF Keeps
<1> QED
  BY <1>2, <1>3

LEMMA SingleComplete ==
  ASSUME NEW m \in Methods, NEW w \in Modes, NEW x \in Exchanges, ~Skippable(x),
         ~Word(x, "enable") /\ ~Word(x, "switch_on"), m \notin {"command", "ensure_mode"},
         m \in Steering => ~Lowers(x),
         x.frame \in {"mode", "target"} => x.arg = w, x.frame = "enable" => x.arg = None,
         m = "set_mode" => x.frame = "mode", m = "enable" => Enables(x), m = "disable" => Lowers(x)
  PROVE  Complete(m, w, <<x>>)
<1>1. Len(<<x>>) = 1 /\ <<x>>[1] = x /\ <<x>> # <<>>
  OBVIOUS
<1>2. \A i \in 1 .. 1 : i = 1
  OBVIOUS
<1> PICK s : s = <<x>>
  OBVIOUS
<1>3. Len(s) = 1 /\ s[1] = x /\ s # <<>>
  BY <1>1
<1>4. m \in Steering => Ordered(w, s)
  BY <1>2, <1>3 DEF Ordered
<1>5. Fits(m, w, s)
  BY <1>2, <1>3, <1>4 DEF Fits
<1>6. Calm(s)
  BY <1>3 DEF Calm
<1>7. m = "set_mode" => ~Frameless(s, "mode")
  BY <1>3 DEF Frameless
<1>8. m = "enable" => ~NeverEnables(s)
  BY <1>3 DEF NeverEnables
<1> QED
  BY <1>3, <1>5, <1>6, <1>7, <1>8 DEF Complete

LEMMA MitComplete ==
  ASSUME NEW m \in Modes, setup.driver = "mit"
  PROVE  Complete("command", m, MitCommand(m))
<1> PICK g, e, t : g = Host("mode", m) /\ e = Enable /\ t = Host("target", m)
  OBVIOUS
<1>1. /\ g \in Exchanges /\ g.frame = "mode" /\ g.arg = m /\ ~Skippable(g)
      /\ e \in Exchanges /\ e.frame = "enable" /\ e.arg = None /\ ~Skippable(e)
      /\ t \in Exchanges /\ t.frame = "target" /\ t.arg = m /\ ~Skippable(t)
  <2>1. g \in Exchanges /\ e \in Exchanges /\ t \in Exchanges
    BY HostExchanges DEF Frames, Objects, Writable, Readable
  <2> QED
    BY <2>1 DEF Host, Enable, Exchange, Skippable, None
<1>2. /\ ~Word(g, "enable") /\ ~Word(g, "switch_on") /\ ~Lowers(g)
      /\ ~Word(e, "enable") /\ ~Word(e, "switch_on") /\ ~Lowers(e)
      /\ ~Word(t, "enable") /\ ~Word(t, "switch_on") /\ ~Lowers(t)
  BY <1>1 DEF Word, Lowers, Modes, None
<1>3. Enables(e)
  BY <1>1 DEF Enables
<1> PICK s1, s2, s3 : s1 = Cons(t, <<>>) /\ s2 = Cons(e, s1) /\ s3 = Cons(g, s2)
  OBVIOUS
<1>4. Proper(m, <<>>) /\ Calm(<<>>) /\ Frameless(<<>>, "mode")
  <2>1. Frameless(<<>>, "mode")
    BY DEF Frameless
  <2> QED
    BY <2>1, Endings
<1>5. Proper(m, s1) /\ Calm(s1) /\ ~Frameless(s1, "target")
  BY <1>1, <1>2, <1>4, ConsCalm
<1>6. Proper(m, s2) /\ Calm(s2) /\ ~NeverEnables(s2) /\ Keeps(s1, s2)
  BY <1>1, <1>2, <1>3, <1>5, ConsCalm
<1>7. Proper(m, s3) /\ Calm(s3) /\ Keeps(s2, s3) /\ ~Frameless(s3, "mode")
  BY <1>1, <1>2, <1>6, ConsCalm
<1>8. MitCommand(m) = IF m = "mit" THEN s1 ELSE s3
  <2>1. s1 = <<t>>
    <3>1. <<t>> \in Seq(Exchanges)
      BY <1>1
    <3> QED
      BY <3>1, ConcatEmptySeq DEF Cons
  <2>2. s3 = <<g, e, t>>
    <3>1. <<g, e, t>> \o <<>> = Cons(g, Cons(e, Cons(t, <<>>)))
      <4>1. <<>> \in Seq(Exchanges)
        OBVIOUS
      <4> QED
        BY ONLY <1>1, <4>1, ConsThree
    <3>2. <<g, e, t>> \in Seq(Exchanges)
      BY <1>1
    <3> QED
      BY <3>1, <3>2, ConcatEmptySeq
  <2> QED
    BY <2>1, <2>2 DEF MitCommand
<1>9. CASE m = "mit"
  BY <1>5, <1>8, <1>9 DEF Complete, Fits, Loose, Proper
<1>10. CASE m # "mit"
  BY <1>5, <1>6, <1>7, <1>8, <1>10 DEF Complete, Fits, Loose, Proper, Keeps
<1> QED
  BY <1>9, <1>10

LEMMA SdoComplete ==
  ASSUME NEW m \in Steering \cup {"disable"}, NEW v \in Modes, setup.driver # "mit",
         m \in {"set_mode", "ensure_mode", "command"} \/ v = "position"
  PROVE  Complete(m, v, SdoScript(m, v))
<1>1. CASE m = "enable"
  <2>1. v = "position"
    BY <1>1
  <2> PICK s : s = SdoScript(m, v)
    OBVIOUS
  <2>2. s \in {EnableDrive, EnsureModeEnabled(v)}
    BY <1>1, <2>1 DEF SdoScript
  <2>3. Proper(v, s) /\ Calm(s) /\ ~NeverEnables(s)
    BY <2>2, EnablingAlone, ModeComplete
  <2> QED
    BY <1>1, <2>3 DEF Complete, Fits, Proper
<1>2. CASE m = "disable"
  <2> PICK x : x = Control(IF setup.driver = "hexfellow" THEN "shutdown" ELSE "disable")
    OBVIOUS
  <2>1. /\ x \in Exchanges /\ x.frame = "controlword" /\ x.arg \in {"shutdown", "disable"}
        /\ ~Skippable(x)
    BY Writes, Kinds DEF Words
  <2>2. ~Word(x, "enable") /\ ~Word(x, "switch_on") /\ Lowers(x)
    BY <2>1 DEF Word, Lowers
  <2>3. Complete(m, v, <<x>>)
    BY <1>2, <2>1, <2>2, SingleComplete DEF Methods, Steering
  <2> QED
    BY <1>2, <2>3 DEF SdoScript
<1>3. CASE m = "set_mode"
  <2> PICK x : x = SdoWrite("mode", v)
    OBVIOUS
  <2>1. x \in Exchanges /\ x.frame = "mode" /\ x.arg = v /\ ~Skippable(x)
    BY Writes, Kinds
  <2>2. ~Word(x, "enable") /\ ~Word(x, "switch_on") /\ ~Lowers(x)
    BY <2>1 DEF Word, Lowers, Modes
  <2>3. Complete(m, v, <<x>>)
    BY <1>3, <2>1, <2>2, SingleComplete DEF Methods
  <2> QED
    BY <1>3, <2>3 DEF SdoScript
<1>4. CASE m = "ensure_mode"
  <2> PICK s : s = EnsureModeEnabled(v)
    OBVIOUS
  <2>1. Proper(v, s) /\ Calm(s) /\ ~Frameless(s, "mode")
    BY ModeComplete
  <2>2. Complete(m, v, s)
    BY <1>4, <2>1 DEF Complete, Fits, Proper
  <2> QED
    BY <1>4, <2>2 DEF SdoScript
<1>5. CASE m = "command"
  <2> PICK s : s = IF setup.driver = "hexfellow" THEN HexfellowCommand(v) ELSE Cia402Command(v)
    OBVIOUS
  <2>1. /\ Proper(v, s) /\ Calm(s) /\ ~NeverEnables(s)
        /\ ~Frameless(s, "mode") /\ ~Frameless(s, "target")
    BY CommandComplete
  <2>2. Complete(m, v, s)
    BY <1>5, <2>1 DEF Complete, Fits, Proper
  <2> QED
    BY <1>5, <2>2 DEF SdoScript
<1> QED
  BY <1>1, <1>2, <1>3, <1>4, <1>5 DEF Steering

(* A drive in any state may be handed the list of a call: what the list    *)
(* does not say must hold already is nothing.                              *)
LEMMA ScriptReady ==
  ASSUME NEW m \in Methods, NEW v \in Modes, setup.driver = "mit" => m # "ensure_mode",
         m \in {"set_mode", "ensure_mode", "command", "set_object"} \/ v = "position",
         NEW s, s = Script(m, v)
  PROVE  Fits(m, v, s) /\ Ready(m, v, s)
<1>1. CASE m \in Steering \cup {"disable"}
  <2>1. Complete(m, v, s)
    <3>1. CASE setup.driver # "mit"
      BY <1>1, <3>1, SdoComplete DEF Script, Steering
    <3>2. CASE setup.driver = "mit"
      <4>1. CASE m = "command"
        BY <3>2, <4>1, MitComplete DEF Script, MitScript
      <4>2. CASE m = "set_mode"
        <5> PICK x : x = Host("mode", v)
          OBVIOUS
        <5>1. x \in Exchanges /\ x.frame = "mode" /\ x.arg = v /\ ~Skippable(x)
          <6>1. x \in Exchanges
            BY HostExchanges DEF Frames, Objects, Writable, Readable
          <6> QED
            BY <6>1 DEF Host, Exchange, Skippable, None
        <5>2. ~Word(x, "enable") /\ ~Word(x, "switch_on") /\ ~Lowers(x)
          BY <5>1 DEF Word, Lowers, Modes
        <5>3. Complete(m, v, <<x>>)
          BY <4>2, <5>1, <5>2, SingleComplete
        <5> QED
          BY <3>2, <4>2, <5>3 DEF Script, MitScript
      <4>3. CASE m = "enable"
        <5> PICK x : x = Enable
          OBVIOUS
        <5>1. x \in Exchanges /\ x.frame = "enable" /\ x.arg = None /\ ~Skippable(x)
          BY HostExchanges DEF Enable, Host, Exchange, Skippable, None
        <5>2. ~Word(x, "enable") /\ ~Word(x, "switch_on") /\ ~Lowers(x) /\ Enables(x)
          BY <5>1 DEF Word, Lowers, Enables, None
        <5>3. Complete(m, v, <<x>>)
          BY <4>3, <5>1, <5>2, SingleComplete
        <5> QED
          BY <3>2, <4>3, <5>3 DEF Script, MitScript
      <4>4. CASE m = "disable"
        <5> PICK x : x = Host("stop", None)
          OBVIOUS
        <5>1. x \in Exchanges /\ x.frame = "stop" /\ ~Skippable(x)
          <6>1. x \in Exchanges
            BY HostExchanges DEF Frames, Objects, Writable, Readable
          <6> QED
            BY <6>1 DEF Host, Exchange, Skippable, None
        <5>2. ~Word(x, "enable") /\ ~Word(x, "switch_on") /\ Lowers(x)
          BY <5>1 DEF Word, Lowers
        <5>3. Complete(m, v, <<x>>)
          BY <4>4, <5>1, <5>2, SingleComplete DEF Steering
        <5> QED
          BY <3>2, <4>4, <5>3 DEF Script, MitScript
      <4> QED
        BY <1>1, <3>2, <4>1, <4>2, <4>3, <4>4 DEF Steering
    <3> QED
      BY <3>1, <3>2
  <2>2. s # <<>> => (m \in Steering => ~Word(s[1], "enable") /\ ~Word(s[1], "switch_on"))
    BY <2>1 DEF Complete, Calm
  <2> QED
    BY <2>1, <2>2 DEF Complete, Ready, Steering
<1>2. CASE m \notin Steering \cup {"disable"}
  BY <1>2 DEF Fits, Ready, Steering
<1> QED
  BY <1>1, <1>2

-----------------------------------------------------------------------------
(* A method waits under its own keys. *)
Writing == {"controlword"} \cup Writable

LEMMA WritingKeys ==
  ASSUME NEW S, S = OfKeys(Writing)
  PROVE  /\ \A w \in Words : Control(w) \in S
         /\ \A o \in Writable, m \in Modes : SdoWrite(o, m) \in S
         /\ \A m \in Modes : /\ SdoWrite("mode", m) \in S /\ SdoWrite("limit", m) \in S
                             /\ SdoWrite("target", m) \in S
         /\ StartNode \in S /\ Tolerated(Control("disable")) \in S
  BY Writes DEF OfKeys, Writing, Writable, Words, Control, SdoWrite, StartNode, Tolerated, Exchange

LEMMA SdoKeys ==
  ASSUME NEW m \in Methods \ Asking, NEW v \in Modes
  PROVE  SdoScript(m, v) \in Seq(OfKeys(Writing))
<1> HIDE SdoAssumption
<1> PICK S : S = OfKeys(Writing)
  OBVIOUS
<1>1. \A s, t \in Seq(S) : s \o t \in Seq(S)
  BY ConcatProperties
<1>2. /\ \A x \in S : <<x>> \in Seq(S)
      /\ \A x, y \in S : <<x, y>> \in Seq(S)
      /\ \A x, y, z \in S : <<x, y, z>> \in Seq(S)
      /\ \A w, x, y, z \in S : <<w, x, y, z>> \in Seq(S)
      /\ <<>> \in Seq(S)
  OBVIOUS
<1>3. /\ Control("shutdown") \in S /\ Control("switch_on") \in S /\ Control("enable") \in S
      /\ Control("disable") \in S /\ Control("quick_stop") \in S /\ Control("fault_reset") \in S
      /\ Control("zero") \in S /\ Control("new_setpoint") \in S
      /\ Control("immediate") \in S /\ StartNode \in S
      /\ Tolerated(Control("disable")) \in S
  BY WritingKeys DEF Words
<1>4. \A w \in Modes : /\ SdoWrite("mode", w) \in S /\ SdoWrite("limit", w) \in S
                       /\ SdoWrite("target", w) \in S
  BY WritingKeys
<1>5. EnableDrive \in Seq(S) /\ Tail(EnableDrive) \in Seq(S)
  <2>1. /\ EnableDrive = <<StartNode, Control("shutdown"), Control("switch_on"), Control("enable")>>
        /\ Tail(EnableDrive) = <<Control("shutdown"), Control("switch_on"), Control("enable")>>
    BY DEF EnableDrive
  <2> QED
    BY <1>2, <1>3, <2>1
<1>6. ASSUME NEW w \in Modes
      PROVE  PrepareModeDisabled(w) \in Seq(S) /\ EnsureModeEnabled(w) \in Seq(S)
  <2>1. PrepareModeDisabled(w) \in Seq(S)
    BY <1>2, <1>3, <1>4 DEF PrepareModeDisabled
  <2>2. <<StartNode, SdoWrite("mode", w)>> \in Seq(S)
    BY <1>2, <1>3, <1>4
  <2> PICK p, q, e, f : /\ p = PrepareModeDisabled(w) /\ q = <<StartNode, SdoWrite("mode", w)>>
                        /\ e = EnableDrive /\ f = Tail(EnableDrive)
    OBVIOUS
  <2>3. EnsureModeEnabled(w) \in {q \o f, p \o e}
    BY DEF EnsureModeEnabled
  <2>4. p \in Seq(S) /\ q \in Seq(S) /\ e \in Seq(S) /\ f \in Seq(S)
    BY <1>5, <2>1, <2>2
  <2> QED
    BY <1>1, <2>1, <2>3, <2>4
<1>7. Cia402Command(v) \in Seq(S)
  <2> PICK p, l, e, g : /\ p = PrepareModeDisabled(v) /\ e = EnableDrive
                        /\ l = IF v = "torque" THEN <<>> ELSE <<SdoWrite("limit", v)>>
                        /\ g = <<SdoWrite("target", v)>>
    OBVIOUS
  <2>1. p \in Seq(S) /\ l \in Seq(S) /\ e \in Seq(S) /\ g \in Seq(S)
    BY <1>2, <1>4, <1>5, <1>6
  <2>2. Cia402Command(v) = ((p \o l) \o e) \o g
    BY DEF Cia402Command
  <2> QED
    BY <1>1, <2>1, <2>2
<1>8. HexfellowCommand(v) \in Seq(S)
  <2>1. SetPoint \in Seq(S) /\ <<SdoWrite("limit", v), SdoWrite("target", v)>> \in Seq(S)
    BY <1>2, <1>3, <1>4 DEF SetPoint
  <2>2. MitTarget(v) \in Seq(S)
    <3>1. /\ SdoWrite("target_velocity", v) \in S /\ SdoWrite("target_torque", v) \in S
          /\ SdoWrite("kp", v) \in S /\ SdoWrite("kd", v) \in S
      BY WritingKeys DEF Writable
    <3>2. /\ <<SdoWrite("target", v), SdoWrite("target_velocity", v),
               SdoWrite("target_torque", v)>> \in Seq(S)
          /\ <<SdoWrite("kp", v), SdoWrite("kd", v), SdoWrite("limit", v)>> \in Seq(S)
      BY <1>2, <1>4, <3>1
    <3> QED
      BY <1>1, <3>2 DEF MitTarget
  <2>3. HexfellowTarget(v) \in Seq(S)
    BY <1>1, <2>1, <2>2 DEF HexfellowTarget
  <2>4. EnsureModeEnabled(v) \in Seq(S)
    BY <1>6
  <2> QED
    BY <1>1, <2>3, <2>4 DEF HexfellowCommand
<1>9. PrepareModeDisabled("homing") \o <<Control("enable")>> \in Seq(S)
  <2> PICK p, e : p = PrepareModeDisabled("homing") /\ e = <<Control("enable")>>
    OBVIOUS
  <2>1. p \in Seq(S) /\ e \in Seq(S)
    BY <1>2, <1>3, <1>6 DEF Modes
  <2> QED
    BY <1>1, <2>1
<1>10. "position" \in Modes
  BY DEF Modes
<1>11. /\ \A w \in Words : Control(w) \in S => <<Control(w)>> \in Seq(S)
       /\ <<Control("fault_reset"), Control("zero")>> \in Seq(S)
       /\ <<SdoWrite("mode", v)>> \in Seq(S) /\ <<SdoWrite("limit", v)>> \in Seq(S)
  BY <1>2, <1>3, <1>4
<1>12. /\ <<Control(IF setup.driver = "hexfellow" THEN "shutdown" ELSE "disable")>> \in Seq(S)
       /\ <<Control("quick_stop")>> \in Seq(S)
  BY <1>3, <1>11 DEF Words
<1>13. EnsureModeEnabled("position") \in Seq(S) /\ EnsureModeEnabled(v) \in Seq(S)
  BY <1>6, <1>10
<1> QED
  BY <1>5, <1>7, <1>8, <1>9, <1>11, <1>12, <1>13 DEF SdoScript, Methods, Asking

LEMMA ScriptKeys ==
  ASSUME NEW m \in Methods, NEW v \in Modes, setup.driver \in Drivers
  PROVE  Script(m, v) \in Seq(OfKeys(KeysOf(setup.driver, m)))
<1> HIDE SdoAssumption
<1>1. CASE setup.driver # "mit" /\ m \notin Asking
  BY <1>1, SdoKeys DEF Script, KeysOf, Writing
<1>2. CASE setup.driver # "mit" /\ m \in Asking
  <2> PICK S : S = OfKeys(Readable)
    OBVIOUS
  <2> PICK a, b, c, d, e : /\ a = SdoRead("mode_display") /\ b = SdoRead("statusword")
                           /\ c = SdoRead("actual") /\ d = Tolerated(SdoRead("actual"))
                           /\ e = Tolerated(SdoRead("actual_torque"))
    OBVIOUS
  <2>1. a \in Exchanges /\ b \in Exchanges /\ c \in Exchanges /\ d \in Exchanges /\ e \in Exchanges
    BY Writes DEF Objects, Readable
  <2>2. a \in S /\ b \in S /\ c \in S /\ d \in S /\ e \in S
    BY <2>1 DEF OfKeys, SdoRead, Tolerated, Exchange, Readable
  <2>3. <<a, b, d>> \in Seq(S) /\ <<a, b, c, e>> \in Seq(S)
    BY <2>2
  <2>4. Script(m, v) = Query /\ KeysOf(setup.driver, m) = Readable
    BY <1>2 DEF Script, SdoScript, KeysOf, Asking
  <2> QED
    BY <1>2, <2>3, <2>4 DEF Query, Drivers
<1>3. CASE setup.driver = "mit"
  <2> PICK S : S = OfKeys(KeysOf("mit", m))
    OBVIOUS
  <2>1. /\ m \notin {"set_id", "param"} =>
             /\ \A f \in Frames \ {"mode", "target"} : Host(f, None) \in S
             /\ \A f \in Frames : Host(f, v) \in S
             /\ Enable \in S /\ Tolerated(Host("query_fault", None)) \in S
        /\ m = "set_id" => Unique("id") \in S
        /\ m = "param" => Exchange("param", None, "param", "frame") \in S
    <3>1. \A x \in Exchanges : Tolerated(x) \in Exchanges /\ Tolerated(x).key = x.key
      BY Writes DEF Tolerated, Exchanges
    <3>2. Host("query_fault", None) \in Exchanges
      BY HostExchanges DEF Frames, Objects, Writable, Readable
    <3>3. \A f, a : Host(f, a).key = "host"
      BY DEF Host, Exchange
    <3>4. Unique("id").key = "unique" /\ Exchange("param", None, "param", "frame").key = "param"
      BY DEF Unique, Exchange
    <3> QED
      BY <3>1, <3>2, <3>3, <3>4, HostExchanges DEF OfKeys, KeysOf, Enable
  <2>2. /\ \A x \in S : <<x>> \in Seq(S)
        /\ \A x, y, z \in S : <<x, y, z>> \in Seq(S)
    OBVIOUS
  <2>3. CASE m \in {"set_id", "param"}
    BY <1>3, <2>1, <2>2, <2>3 DEF Script, MitScript
  <2>4. CASE m \notin {"set_id", "param"}
    <3>1. /\ <<Enable>> \in Seq(S) /\ <<Host("stop", None)>> \in Seq(S)
          /\ <<Host("zero", None)>> \in Seq(S) /\ <<Host("clear", None)>> \in Seq(S)
          /\ <<Host("query_fault", None)>> \in Seq(S) /\ <<Host("mode", v)>> \in Seq(S)
          /\ <<Host("report", v)>> \in Seq(S)
          /\ <<Tolerated(Host("query_fault", None))>> \in Seq(S)
      BY <2>1, <2>2, <2>4 DEF Frames, Objects, Writable, Readable
    <3>2. MitCommand(v) \in Seq(S)
      <4>1. Host("target", v) \in S /\ Host("mode", v) \in S /\ Enable \in S
        BY <2>1, <2>4 DEF Frames, Objects, Writable, Readable
      <4> QED
        BY <2>2, <4>1 DEF MitCommand
    <3>3. Query = <<Tolerated(Host("query_fault", None))>>
      BY <1>3 DEF Query
    <3> QED
      BY <1>3, <2>4, <3>1, <3>2, <3>3 DEF Script, MitScript
  <2> QED
    BY <2>3, <2>4
<1> QED
  BY <1>1, <1>2, <1>3

-----------------------------------------------------------------------------
(***************************************************************************)
(* What becomes of the drive and of the rest of the list.                  *)
(***************************************************************************)
LEMMA Rest ==
  ASSUME NEW s \in Seq(Exchanges), s # <<>>, NEW t, t = Tail(s)
  PROVE  /\ t \in Seq(Exchanges) /\ Len(t) \in Nat /\ Len(s) = Len(t) + 1
         /\ 1 \in 1 .. Len(s) /\ s[1] = Head(s) /\ s[1] \in Exchanges
         /\ \A i \in 1 .. Len(t) : i + 1 \in 1 .. Len(s) /\ t[i] = s[i + 1]
         /\ \A i \in 1 .. Len(s) : i # 1 => i - 1 \in 1 .. Len(t) /\ s[i] = t[i - 1]
<1> HIDE SdoAssumption
<1>1. /\ t \in Seq(Exchanges) /\ Len(t) = Len(s) - 1
      /\ \A i \in 1 .. Len(t) : t[i] = s[i + 1]
  BY HeadTailProperties
<1>2. Len(s) \in Nat /\ Len(s) > 0 /\ Head(s) = s[1]
  OBVIOUS
<1>3. Len(t) \in Nat /\ Len(s) = Len(t) + 1 /\ 1 \in 1 .. Len(s)
  BY <1>1, <1>2
<1>4. s[1] \in Exchanges
  BY <1>3
<1>5. \A i \in 1 .. Len(t) : i + 1 \in 1 .. Len(s) /\ t[i] = s[i + 1]
  BY <1>1, <1>3
<1>6. ASSUME NEW i \in 1 .. Len(s), i # 1 PROVE i - 1 \in 1 .. Len(t) /\ s[i] = t[i - 1]
  <2>1. i - 1 \in 1 .. Len(t) /\ (i - 1) + 1 = i
    BY <1>3, <1>6
  <2> QED
    BY <1>5, <2>1
<1> QED
  BY <1>1, <1>2, <1>3, <1>4, <1>5, <1>6

LEMMA OrderedRest ==
  ASSUME NEW w, NEW s \in Seq(Exchanges), s # <<>>, Ordered(w, s), NEW t, t = Tail(s)
  PROVE  Ordered(w, t)
<1> HIDE SdoAssumption
<1>1. /\ t \in Seq(Exchanges) /\ Len(t) \in Nat /\ Len(s) = Len(t) + 1
      /\ \A i \in 1 .. Len(t) : i + 1 \in 1 .. Len(s) /\ t[i] = s[i + 1]
      /\ \A i \in 1 .. Len(s) : i # 1 => i - 1 \in 1 .. Len(t) /\ s[i] = t[i - 1]
  BY Rest
<1>2. ASSUME NEW i \in 1 .. Len(t) PROVE
        /\ t[i].frame \in {"mode", "target"} => t[i].arg = w
        /\ t[i].frame = "enable" => t[i].arg = None
        /\ Skippable(t[i]) => (t[i].frame = "nmt" /\ t[i].arg = None) \/ Word(t[i], "disable")
        /\ Lowers(t[i]) => \E j \in i + 1 .. Len(t) : Enables(t[j])
        /\ i > 1 /\ Word(t[i], "enable") => Word(t[i - 1], "switch_on")
        /\ i > 1 /\ Word(t[i], "switch_on") => Word(t[i - 1], "shutdown")
        /\ t[i].frame = "target" => \A j \in i .. Len(t) : t[j].frame # "mode"
  <2> PICK k : k = i + 1
    OBVIOUS
  <2>1. k \in 1 .. Len(s) /\ t[i] = s[k] /\ k > 1
    BY <1>1
  <2>2. /\ s[k].frame \in {"mode", "target"} => s[k].arg = w
        /\ s[k].frame = "enable" => s[k].arg = None
        /\ Skippable(s[k]) => (s[k].frame = "nmt" /\ s[k].arg = None) \/ Word(s[k], "disable")
        /\ Lowers(s[k]) => \E j \in k + 1 .. Len(s) : Enables(s[j])
        /\ Word(s[k], "enable") => Word(s[k - 1], "switch_on")
        /\ Word(s[k], "switch_on") => Word(s[k - 1], "shutdown")
        /\ s[k].frame = "target" => \A j \in k .. Len(s) : s[j].frame # "mode"
    BY <2>1 DEF Ordered
  <2>3. Lowers(t[i]) => \E j \in i + 1 .. Len(t) : Enables(t[j])
    <3>1. ASSUME NEW j \in k + 1 .. Len(s) PROVE j - 1 \in i + 1 .. Len(t) /\ s[j] = t[j - 1]
      BY <1>1, <2>1
    <3> QED
      BY <2>1, <2>2, <3>1
  <2>4. i > 1 => t[i - 1] = s[k - 1]
    <3>1. i > 1 => i - 1 \in 1 .. Len(t) /\ (i - 1) + 1 = k - 1
      BY <1>1
    <3> QED
      BY <1>1, <3>1
  <2>5. t[i].frame = "target" => \A j \in i .. Len(t) : t[j].frame # "mode"
    <3>1. ASSUME NEW j \in i .. Len(t) PROVE j + 1 \in k .. Len(s) /\ t[j] = s[j + 1]
      BY <1>1
    <3> QED
      BY <2>1, <2>2, <3>1
  <2> QED
    BY <2>1, <2>2, <2>3, <2>4, <2>5
<1> QED
  BY <1>2 DEF Ordered

LEMMA FitsRest ==
  ASSUME NEW m, NEW w, NEW s \in Seq(Exchanges), s # <<>>, Fits(m, w, s), NEW t, t = Tail(s)
  PROVE  Fits(m, w, t)
<1>1. \A i \in 1 .. Len(t) : i + 1 \in 1 .. Len(s) /\ t[i] = s[i + 1]
  BY Rest
<1> QED
  BY <1>1, OrderedRest DEF Fits

(* What the head of a list tells of the rest. *)
Leads(w, s, x, t) ==
  /\ x.frame \in {"mode", "target"} => x.arg = w
  /\ x.frame = "enable" => x.arg = None
  /\ Skippable(x) => (x.frame = "nmt" /\ x.arg = None) \/ Word(x, "disable")
  /\ Lowers(x) => ~NeverEnables(t)
  /\ t # <<>> /\ Word(t[1], "enable") => Word(x, "switch_on")
  /\ t # <<>> /\ Word(t[1], "switch_on") => Word(x, "shutdown")
  /\ Frameless(t, "mode") /\ x.frame # "mode" => Frameless(s, "mode")
  /\ Frameless(t, "target") /\ x.frame # "target" => Frameless(s, "target")
  /\ NeverEnables(t) /\ ~Enables(x) => NeverEnables(s)

LEMMA HeadLeads ==
  ASSUME NEW m \in Steering, NEW w, NEW s \in Seq(Exchanges), s # <<>>, Fits(m, w, s),
         NEW x, x = Head(s), NEW t, t = Tail(s)
  PROVE  Leads(w, s, x, t)
<1> HIDE SdoAssumption
<1>1. /\ t \in Seq(Exchanges) /\ Len(t) \in Nat /\ Len(s) = Len(t) + 1
      /\ 1 \in 1 .. Len(s) /\ s[1] = x
      /\ \A i \in 1 .. Len(t) : i + 1 \in 1 .. Len(s) /\ t[i] = s[i + 1]
      /\ \A i \in 1 .. Len(s) : i # 1 => i - 1 \in 1 .. Len(t) /\ s[i] = t[i - 1]
  BY Rest
<1>2. Ordered(w, s)
  BY DEF Fits
<1>3. /\ x.frame \in {"mode", "target"} => x.arg = w
      /\ x.frame = "enable" => x.arg = None
      /\ Skippable(x) => (x.frame = "nmt" /\ x.arg = None) \/ Word(x, "disable")
      /\ Lowers(x) => \E j \in 2 .. Len(s) : Enables(s[j])
  BY <1>1, <1>2 DEF Ordered
<1>4. Lowers(x) => ~NeverEnables(t)
  <2>1. \A j \in 2 .. Len(s) : j - 1 \in 1 .. Len(t) /\ s[j] = t[j - 1]
    BY <1>1
  <2> QED
    BY <1>3, <2>1 DEF NeverEnables
<1>5. /\ t # <<>> /\ Word(t[1], "enable") => Word(x, "switch_on")
      /\ t # <<>> /\ Word(t[1], "switch_on") => Word(x, "shutdown")
  <2>1. t # <<>> => 1 \in 1 .. Len(t) /\ 2 \in 1 .. Len(s) /\ t[1] = s[2]
    <3>1. t # <<>> => Len(t) # 0
      BY <1>1
    <3> QED
      BY <1>1, <3>1
  <2>2. 2 \in 1 .. Len(s) => /\ Word(s[2], "enable") => Word(s[1], "switch_on")
                             /\ Word(s[2], "switch_on") => Word(s[1], "shutdown")
    BY <1>2 DEF Ordered
  <2> QED
    BY <1>1, <2>1, <2>2
<1>6. /\ Frameless(t, "mode") /\ x.frame # "mode" => Frameless(s, "mode")
      /\ Frameless(t, "target") /\ x.frame # "target" => Frameless(s, "target")
  BY <1>1 DEF Frameless
<1>7. NeverEnables(t) /\ ~Enables(x) => NeverEnables(s)
  BY <1>1 DEF NeverEnables
<1> QED
  BY <1>3, <1>4, <1>5, <1>6, <1>7 DEF Leads

LEMMA ReadyKept ==
  ASSUME NEW m, NEW w, NEW s, UNCHANGED driveVars, Ready(m, w, s)
  PROVE  Ready(m, w, s)'
  BY DEF Ready, Loose, driveVars

(* The drive obeys the head of the list. *)
LEMMA ReadyObeyed ==
  ASSUME NEW m, NEW w, NEW s \in Seq(Exchanges), s # <<>>, Fits(m, w, s), Ready(m, w, s),
         power \in Powers, NEW x, x = Head(s), Reacts(x), NEW t, t = Tail(s)
  PROVE  Ready(m, w, t)'
<1> HIDE SdoAssumption
<1>1. /\ power' = PowerAfter(x)
      /\ mode' = IF x.frame = "mode" THEN x.arg ELSE mode
      /\ target' = IF x.frame = "target" THEN x.arg ELSE target
      /\ setup' = setup
  BY DEF Reacts
<1>2. CASE m \in Steering
  <2>1. /\ x.frame \in {"mode", "target"} => x.arg = w
        /\ x.frame = "enable" => x.arg = None
        /\ Lowers(x) => ~NeverEnables(t)
        /\ t # <<>> /\ Word(t[1], "enable") => Word(x, "switch_on")
        /\ t # <<>> /\ Word(t[1], "switch_on") => Word(x, "shutdown")
        /\ Frameless(t, "mode") /\ x.frame # "mode" => Frameless(s, "mode")
        /\ Frameless(t, "target") /\ x.frame # "target" => Frameless(s, "target")
        /\ NeverEnables(t) /\ ~Enables(x) => NeverEnables(s)
    <3>1. Leads(w, s, x, t)
      BY <1>2, HeadLeads
    <3> QED
      BY <3>1 DEF Leads
  <2>2. s[1] = x
    BY Rest
  <2>3. (\/ m \in {"set_mode", "ensure_mode"}
         \/ m = "command" /\ ~Loose(w))
        => (Frameless(t, "mode") => mode' = w)
    BY <1>1, <2>1 DEF Ready
  <2>4. m = "command" => (Frameless(t, "target") => target' = w)
    BY <1>1, <2>1 DEF Ready
  <2>5. ASSUME m = "enable" \/ (m = "command" /\ ~Loose(w))
        PROVE  /\ NeverEnables(t) => power' = "enabled"
               /\ t # <<>> /\ Word(t[1], "enable") => power' = "switched"
               /\ t # <<>> /\ Word(t[1], "switch_on") => power' # "off"
    <3>1. /\ NeverEnables(s) => power = "enabled"
          /\ Word(x, "enable") => power = "switched"
          /\ Word(x, "switch_on") => power # "off"
      BY <2>2, <2>5 DEF Ready
    <3>2. NeverEnables(t) => power' = "enabled"
      <4>1. CASE Enables(x)
        BY <1>1, <2>1, <3>1, <4>1 DEF Enables, Word, PowerAfter, None
      <4>2. CASE ~Enables(x) /\ NeverEnables(t)
        <5>1. ~Lowers(x) /\ power = "enabled"
          BY <2>1, <3>1, <4>2
        <5> QED
          BY <1>1, <4>2, <5>1 DEF Enables, Lowers, Word, PowerAfter
      <4> QED
        BY <4>1, <4>2
    <3>3. t # <<>> /\ Word(t[1], "enable") => power' = "switched"
      BY <1>1, <2>1, <3>1 DEF Word, PowerAfter
    <3>4. t # <<>> /\ Word(t[1], "switch_on") => power' # "off"
      BY <1>1, <2>1 DEF Word, PowerAfter
    <3> QED
      BY <3>2, <3>3, <3>4
  <2> QED
    BY <1>1, <1>2, <2>3, <2>4, <2>5 DEF Ready, Loose, Steering
<1>3. CASE m = "disable"
  <2>1. Lowers(x)
    BY <1>3, Rest DEF Fits
  <2>2. power' # "enabled"
    BY <1>1, <2>1 DEF Lowers, Word, PowerAfter, Powers
  <2> QED
    BY <1>3, <2>2 DEF Ready
<1>4. CASE m \notin Steering \cup {"disable"}
  BY <1>4 DEF Ready, Steering
<1> QED
  BY <1>2, <1>3, <1>4

(* The head of the list is one the call does not insist on. *)
LEMMA ReadySkipped ==
  ASSUME NEW m, NEW w, NEW s \in Seq(Exchanges), s # <<>>, Fits(m, w, s), Ready(m, w, s),
         NEW x, x = Head(s), Skippable(x), UNCHANGED driveVars, NEW t, t = Tail(s)
  PROVE  Ready(m, w, t)'
<1> HIDE SdoAssumption
<1>1. Ready(m, w, t)
  <2>1. CASE m \in Steering
    <3>1. /\ (x.frame = "nmt" /\ x.arg = None) \/ Word(x, "disable")
          /\ t # <<>> /\ Word(t[1], "enable") => Word(x, "switch_on")
          /\ t # <<>> /\ Word(t[1], "switch_on") => Word(x, "shutdown")
          /\ Frameless(t, "mode") /\ x.frame # "mode" => Frameless(s, "mode")
          /\ Frameless(t, "target") /\ x.frame # "target" => Frameless(s, "target")
          /\ NeverEnables(t) /\ ~Enables(x) => NeverEnables(s)
      <4>1. Leads(w, s, x, t)
        BY <2>1, HeadLeads
      <4> QED
        BY <4>1 DEF Leads
    <3>2. /\ x.frame \notin {"mode", "target"} /\ ~Enables(x)
          /\ ~Word(x, "switch_on") /\ ~Word(x, "shutdown")
      BY <3>1 DEF Word, Enables
    <3> QED
      BY <2>1, <3>1, <3>2 DEF Ready, Steering
  <2>2. m # "disable"
    <3>1. m = "disable" => ~Skippable(s[1])
      BY Rest DEF Fits
    <3> QED
      BY <3>1, Rest
  <2>3. CASE m \notin Steering
    BY <2>2, <2>3 DEF Ready, Steering
  <2> QED
    BY <2>1, <2>3
<1> QED
  BY <1>1, ReadyKept

(* What a call is for is done when nothing is left of its list. *)
LEMMA ReadyDone ==
  ASSUME NEW c, NEW m, NEW w, m = op[c], w = want[c], Ready(m, w, <<>>)', setup' = setup
  PROVE  Done(c)
<1>1. Frameless(<<>>, "mode") /\ Frameless(<<>>, "target") /\ NeverEnables(<<>>)
  BY DEF Frameless, NeverEnables
<1>2. /\ m \in {"set_mode", "ensure_mode"} \/ (m = "command" /\ ~Loose(w)) => mode' = w
      /\ m = "command" => target' = w
      /\ m = "enable" \/ (m = "command" /\ ~Loose(w)) => power' = "enabled"
      /\ m = "disable" => power' # "enabled"
  BY <1>1 DEF Ready, Loose
<1> QED
  BY <1>2 DEF Done, Dynamic, Loose

-----------------------------------------------------------------------------
(***************************************************************************)
(* The two queues.  Plus: t is q and r behind it; Minus: t has what q has  *)
(* but for the entry at i, in some order.                                  *)
(***************************************************************************)
Plus(q, r, t) ==
  /\ Len(q) \in Nat /\ Len(t) = Len(q) + 1 /\ t[Len(t)] = r
  /\ \A i \in 1 .. Len(q) : t[i] = q[i]
Minus(q, i, t) ==
  \E f \in [1 .. Len(t) -> 1 .. Len(q)] :
    /\ \A j \in 1 .. Len(t) : f[j] # i /\ t[j] = q[f[j]]
    /\ \A j, k \in 1 .. Len(t) : f[j] = f[k] => j = k
    /\ \A k \in 1 .. Len(q) : k # i => \E j \in 1 .. Len(t) : f[j] = k

LEMMA PlusAppend ==
  ASSUME NEW q \in Seq(Replies), NEW r \in Replies, NEW t \in {Append(q, r), q \o <<r>>}
  PROVE  Plus(q, r, t)
<1> HIDE SdoAssumption
<1>1. t = Append(q, r)
  BY AppendIsConcat
<1> QED
  BY <1>1 DEF Plus

LEMMA MinusHead ==
  ASSUME NEW q \in Seq(Replies), q # <<>>, NEW t, t = Tail(q)
  PROVE  Minus(q, 1, t) /\ Head(q) = q[1] /\ 1 \in 1 .. Len(q)
<1> HIDE SdoAssumption
<1>1. Len(t) = Len(q) - 1 /\ Len(q) \in Nat /\ Len(q) > 0 /\ \A j \in 1 .. Len(t) : t[j] = q[j + 1]
  <2>1. Len(q) \in Nat /\ Len(q) > 0
    OBVIOUS
  <2> QED
    BY <2>1, HeadTailProperties
<1> DEFINE f == [j \in 1 .. Len(t) |-> j + 1]
<1>2. f \in [1 .. Len(t) -> 1 .. Len(q)]
  BY <1>1
<1>3. \A j \in 1 .. Len(t) : f[j] = j + 1
  OBVIOUS
<1> HIDE DEF f
<1>4. \A j \in 1 .. Len(t) : f[j] # 1 /\ t[j] = q[f[j]]
  BY <1>1, <1>3
<1>5. \A j, k \in 1 .. Len(t) : f[j] = f[k] => j = k
  BY <1>1, <1>3
<1>6. ASSUME NEW k \in 1 .. Len(q), k # 1 PROVE \E j \in 1 .. Len(t) : f[j] = k
  <2>1. k - 1 \in 1 .. Len(t) /\ f[k - 1] = k
    BY <1>1, <1>3, <1>6
  <2> QED
    BY <2>1
<1>7. Minus(q, 1, t)
  BY <1>2, <1>4, <1>5, <1>6 DEF Minus
<1>8. Head(q) = q[1] /\ 1 \in 1 .. Len(q)
  BY <1>1
<1> QED
  BY <1>7, <1>8

LEMMA Places ==
  ASSUME NEW L \in Nat, NEW n \in Nat, NEW i \in Nat, i > 0, n = L - i,
         NEW j \in 1 .. L - 1, NEW k \in 1 .. L - 1,
         (IF j <= n THEN i + j ELSE j - n) = (IF k <= n THEN i + k ELSE k - n)
  PROVE  j = k
  OBVIOUS

(* t is a, what came behind the entry at i of q, and then b, what was before it. *)
Spliced(q, i, n, a, b, t) ==
  /\ Len(q) \in Nat /\ n \in Nat /\ i \in Nat /\ i > 0 /\ n = Len(q) - i
  /\ \A j \in 1 .. n : a[j] = q[i + j]
  /\ \A j \in 1 .. i - 1 : b[j] = q[j]
  /\ Len(t) = Len(q) - 1
  /\ \A j \in 1 .. Len(t) : t[j] = IF j <= n THEN a[j] ELSE b[j - n]

LEMMA MinusSpliced ==
  ASSUME NEW q, NEW a, NEW b, NEW t, NEW n, NEW i, Spliced(q, i, n, a, b, t)
  PROVE  Minus(q, i, t)
<1> USE DEF Spliced
<1> HIDE SdoAssumption
<1> DEFINE f == [j \in 1 .. Len(t) |-> IF j <= n THEN i + j ELSE j - n]
<1>5. f \in [1 .. Len(t) -> 1 .. Len(q)]
  OBVIOUS
<1>6. \A j \in 1 .. Len(t) : f[j] = IF j <= n THEN i + j ELSE j - n
  OBVIOUS
<1> HIDE DEF f
<1>7. ASSUME NEW j \in 1 .. Len(t) PROVE f[j] # i /\ t[j] = q[f[j]]
  <2>1. CASE j <= n
    <3>1. j \in 1 .. n /\ t[j] = a[j] /\ f[j] = i + j
      BY <1>6, <2>1
    <3> QED
      BY <3>1
  <2>2. CASE j > n
    <3>1. ~(j <= n) /\ j - n \in 1 .. i - 1
      BY <2>2
    <3>2. t[j] = b[j - n] /\ f[j] = j - n
      BY <1>6, <3>1
    <3> QED
      BY <3>1, <3>2
  <2> QED
    BY <2>1, <2>2
<1>8. ASSUME NEW j \in 1 .. Len(t), NEW k \in 1 .. Len(t), f[j] = f[k] PROVE j = k
  <2>1. /\ f[j] = IF j <= n THEN i + j ELSE j - n
        /\ f[k] = IF k <= n THEN i + k ELSE k - n
    BY <1>6
  <2>2. Len(t) = Len(q) - 1
    OBVIOUS
  <2> QED
    BY ONLY <1>8, <2>1, <2>2, Len(q) \in Nat, n \in Nat, i \in Nat, i > 0, n = Len(q) - i, Places
<1>9. ASSUME NEW k \in 1 .. Len(q), k # i PROVE \E j \in 1 .. Len(t) : f[j] = k
  <2>1. CASE k > i
    <3>1. k - i \in 1 .. Len(t) /\ k - i <= n /\ i + (k - i) = k
      BY <2>1
    <3> QED
      BY <1>6, <3>1
  <2>2. CASE k < i
    <3>1. k + n \in 1 .. Len(t) /\ ~(k + n <= n) /\ (k + n) - n = k
      BY <2>2
    <3> QED
      BY <1>6, <3>1
  <2> QED
    BY <1>9, <2>1, <2>2
<1> QED
  BY <1>5, <1>7, <1>8, <1>9 DEF Minus

LEMMA Concatenated ==
  ASSUME NEW a \in Seq(Replies), NEW b \in Seq(Replies), NEW t, t = a \o b
  PROVE  /\ Len(t) = Len(a) + Len(b)
         /\ \A j \in 1 .. Len(a) + Len(b) : t[j] = IF j <= Len(a) THEN a[j] ELSE b[j - Len(a)]
  BY ConcatProperties

LEMMA Parts ==
  ASSUME NEW q \in Seq(Replies), NEW i \in 1 .. Len(q), NEW n, n = Len(q) - i,
         NEW a, a = SubSeq(q, i + 1, Len(q)), NEW b, b = SubSeq(q, 1, i - 1)
  PROVE  /\ Len(q) \in Nat /\ n \in Nat /\ i \in Nat
         /\ a \in Seq(Replies) /\ Len(a) = n /\ \A j \in 1 .. n : a[j] = q[i + j]
         /\ b \in Seq(Replies) /\ Len(b) = i - 1 /\ \A j \in 1 .. i - 1 : b[j] = q[j]
<1> HIDE SdoAssumption
<1>1. Len(q) \in Nat /\ n \in Nat /\ i \in Nat /\ n = Len(q) - i
  OBVIOUS
<1>2. /\ a \in Seq(Replies) /\ Len(a) = n /\ \A j \in 1 .. n : a[j] = q[i + j]
  <2>1. /\ a \in Seq(Replies) /\ Len(a) = IF i + 1 <= Len(q) THEN Len(q) - (i + 1) + 1 ELSE 0
        /\ \A j \in 1 .. Len(q) - (i + 1) + 1 : a[j] = q[(i + 1) + j - 1]
    BY SubSeqProperties
  <2>2. Len(a) = n
    BY <1>1, <2>1
  <2>3. ASSUME NEW j \in 1 .. n PROVE a[j] = q[i + j]
    <3>1. j \in 1 .. Len(q) - (i + 1) + 1 /\ (i + 1) + j - 1 = i + j
      BY <1>1
    <3> QED
      BY <2>1, <3>1
  <2> QED
    BY <2>1, <2>2, <2>3
<1>3. /\ b \in Seq(Replies) /\ Len(b) = i - 1 /\ \A j \in 1 .. i - 1 : b[j] = q[j]
  <2>1. /\ b \in Seq(Replies) /\ Len(b) = IF 1 <= i - 1 THEN (i - 1) - 1 + 1 ELSE 0
        /\ \A j \in 1 .. (i - 1) - 1 + 1 : b[j] = q[1 + j - 1]
    BY SubSeqProperties
  <2>2. Len(b) = i - 1
    BY <1>1, <2>1
  <2>3. ASSUME NEW j \in 1 .. i - 1 PROVE b[j] = q[j]
    <3>1. j \in 1 .. (i - 1) - 1 + 1 /\ 1 + j - 1 = j
      BY <1>1
    <3> QED
      BY <2>1, <3>1
  <2> QED
    BY <2>1, <2>2, <2>3
<1> QED
  BY <1>1, <1>2, <1>3

LEMMA MinusTaken ==
  ASSUME NEW q \in Seq(Replies), NEW i \in 1 .. Len(q),
         NEW t, t = SubSeq(q, i + 1, Len(q)) \o SubSeq(q, 1, i - 1)
  PROVE  Minus(q, i, t)
<1> HIDE SdoAssumption
<1> PICK n, a, b : n = Len(q) - i /\ a = SubSeq(q, i + 1, Len(q)) /\ b = SubSeq(q, 1, i - 1)
  OBVIOUS
<1>1. /\ Len(q) \in Nat /\ n \in Nat /\ i \in Nat
      /\ a \in Seq(Replies) /\ Len(a) = n /\ \A j \in 1 .. n : a[j] = q[i + j]
      /\ b \in Seq(Replies) /\ Len(b) = i - 1 /\ \A j \in 1 .. i - 1 : b[j] = q[j]
  <2>1. n = Len(q) - i /\ a = SubSeq(q, i + 1, Len(q)) /\ b = SubSeq(q, 1, i - 1)
    OBVIOUS
  <2> QED
    BY ONLY <2>1, Parts
<1>2. t = a \o b
  OBVIOUS
<1>3. /\ Len(t) = Len(a) + Len(b)
      /\ \A j \in 1 .. Len(a) + Len(b) : t[j] = IF j <= Len(a) THEN a[j] ELSE b[j - Len(a)]
  BY ONLY <1>1, <1>2, Concatenated
<1>4. n = Len(q) - i
  OBVIOUS
<1>5. Len(t) = Len(q) - 1 /\ \A j \in 1 .. Len(t) : t[j] = IF j <= n THEN a[j] ELSE b[j - n]
  BY ONLY <1>1, <1>3, <1>4
<1>6. i > 0
  OBVIOUS
<1> QED
  <2>1. Spliced(q, i, n, a, b, t)
    BY ONLY <1>1, <1>4, <1>5, <1>6 DEF Spliced
  <2> QED
    BY <2>1, MinusSpliced

(* What is in a queue after such a change. *)
Within(t, q) == \A j \in 1 .. Len(t) : \E i \in 1 .. Len(q) : t[j] = q[i]

LEMMA PlusEntries ==
  ASSUME NEW q, NEW r, NEW t, Plus(q, r, t)
  PROVE  /\ \A j \in 1 .. Len(t) : t[j] = r \/ \E i \in 1 .. Len(q) : t[j] = q[i]
         /\ Within(q, t) /\ \E j \in 1 .. Len(t) : t[j] = r
<1>1. /\ Len(q) \in Nat /\ Len(t) = Len(q) + 1 /\ t[Len(t)] = r
      /\ \A i \in 1 .. Len(q) : t[i] = q[i] /\ i \in 1 .. Len(t)
  BY DEF Plus
<1>2. ASSUME NEW j \in 1 .. Len(t) PROVE t[j] = r \/ \E i \in 1 .. Len(q) : t[j] = q[i]
  <2>1. j = Len(t) \/ j \in 1 .. Len(q)
    BY <1>1
  <2> QED
    BY <1>1, <2>1
<1>3. Len(t) \in 1 .. Len(t)
  BY <1>1
<1> QED
  BY <1>1, <1>2, <1>3 DEF Within

LEMMA PlusCounts ==
  ASSUME NEW q, NEW r, NEW t, Plus(q, r, t), NEW c
  PROVE  /\ NoneOf(q, c) /\ r.to # c => NoneOf(t, c)
         /\ NoneOf(q, c) \/ (r.to # c /\ AtMostOne(q, c)) => AtMostOne(t, c)
<1>1. /\ Len(q) \in Nat /\ Len(t) = Len(q) + 1 /\ t[Len(t)] = r
      /\ \A i \in 1 .. Len(q) : t[i] = q[i]
  BY DEF Plus
<1>2. \A j \in 1 .. Len(t) : j = Len(t) \/ j \in 1 .. Len(q)
  BY <1>1
<1>3. NoneOf(q, c) /\ r.to # c => NoneOf(t, c)
  BY <1>1, <1>2 DEF NoneOf
<1>4. ASSUME NoneOf(q, c) \/ (r.to # c /\ AtMostOne(q, c)),
             NEW i \in 1 .. Len(t), NEW j \in 1 .. Len(t), t[i].to = c, t[j].to = c
      PROVE  i = j
  BY <1>1, <1>2, <1>4 DEF NoneOf, AtMostOne
<1> QED
  BY <1>3, <1>4 DEF AtMostOne

LEMMA MinusEntries ==
  ASSUME NEW q, NEW i, NEW t, Minus(q, i, t)
  PROVE  /\ Within(t, q)
         /\ \A k \in 1 .. Len(q) : k # i => \E j \in 1 .. Len(t) : t[j] = q[k]
<1> PICK f \in [1 .. Len(t) -> 1 .. Len(q)] :
    /\ \A j \in 1 .. Len(t) : f[j] # i /\ t[j] = q[f[j]]
    /\ \A k \in 1 .. Len(q) : k # i => \E j \in 1 .. Len(t) : f[j] = k
  BY DEF Minus
<1>1. Within(t, q)
  BY DEF Within
<1>2. ASSUME NEW k \in 1 .. Len(q), k # i PROVE \E j \in 1 .. Len(t) : t[j] = q[k]
  BY <1>2
<1> QED
  BY <1>1, <1>2

LEMMA MinusCounts ==
  ASSUME NEW q, NEW i \in 1 .. Len(q), NEW t, Minus(q, i, t), NEW c
  PROVE  /\ NoneOf(q, c) => NoneOf(t, c)
         /\ AtMostOne(q, c) => AtMostOne(t, c)
         /\ AtMostOne(q, c) /\ q[i].to = c => NoneOf(t, c)
<1> PICK f \in [1 .. Len(t) -> 1 .. Len(q)] :
    /\ \A j \in 1 .. Len(t) : f[j] # i /\ t[j] = q[f[j]]
    /\ \A j, k \in 1 .. Len(t) : f[j] = f[k] => j = k
  BY DEF Minus
<1>1. NoneOf(q, c) => NoneOf(t, c)
  BY DEF NoneOf
<1>2. AtMostOne(q, c) => AtMostOne(t, c)
  BY DEF AtMostOne
<1>3. AtMostOne(q, c) /\ q[i].to = c => NoneOf(t, c)
  BY DEF AtMostOne, NoneOf
<1> QED
  BY <1>1, <1>2, <1>3

-----------------------------------------------------------------------------
(***************************************************************************)
(* What a step does to the calls.                                          *)
(***************************************************************************)
Untouched(o) == pc'[o] = pc[o] /\ op'[o] = op[o] /\ want'[o] = want[o] /\ todo'[o] = todo[o]
Onward(c) == Going(c) /\ op'[c] = op[c] /\ want'[c] = want[c]
Closing(c, r) == Ending(c) /\ result'[c] = r

LEMMA ReturnsCase ==
  ASSUME TypeOK, NEW c \in Callers, NEW r, Returns(c, r)
  PROVE  Closing(c, r) /\ \A o \in Callers : o # c => Untouched(o)
<1>1. /\ pc' = [pc EXCEPT ![c] = "idle"] /\ result' = [result EXCEPT ![c] = r]
      /\ todo' = [todo EXCEPT ![c] = <<>>] /\ op' = [op EXCEPT ![c] = "query"]
      /\ want' = [want EXCEPT ![c] = "position"]
  BY DEF Returns
<1>2. pc'[c] = "idle" /\ todo'[c] = <<>> /\ result'[c] = r
  BY <1>1 DEF TypeOK, CallTypes
<1>3. \A o \in Callers : o # c => Untouched(o)
  BY <1>1 DEF TypeOK, CallTypes, Untouched
<1> QED
  BY <1>2, <1>3 DEF Closing, Ending

LEMMA ContinueCase ==
  ASSUME TypeOK, NEW c \in Callers, Continue(c)
  PROVE  /\ Onward(c) \/ (Closing(c, "ok") /\ Tail(todo[c]) = <<>>)
         /\ \A o \in Callers : o # c => Untouched(o)
<1>1. CASE Tail(todo[c]) = <<>>
  <2>1. Returns(c, "ok")
    BY <1>1 DEF Continue
  <2> QED
    BY <1>1, <2>1, ReturnsCase
<1>2. CASE Tail(todo[c]) # <<>>
  <2>1. /\ pc' = [pc EXCEPT ![c] = "send"] /\ todo' = [todo EXCEPT ![c] = Tail(todo[c])]
        /\ UNCHANGED <<op, want, result>>
    BY <1>2 DEF Continue
  <2>2. pc'[c] = "send" /\ todo'[c] = Tail(todo[c]) /\ op'[c] = op[c] /\ want'[c] = want[c]
    BY <2>1 DEF TypeOK, CallTypes
  <2>3. \A o \in Callers : o # c => Untouched(o)
    BY <2>1 DEF TypeOK, CallTypes, Untouched
  <2> QED
    BY <1>2, <2>2, <2>3 DEF Onward, Going
<1> QED
  BY <1>1, <1>2

LEMMA FailedCase ==
  ASSUME TypeOK, NEW c \in Callers, Failed(c)
  PROVE  /\ (Head(todo[c]).may_fail /\ Continue(c)) \/ (~Head(todo[c]).may_fail /\ Closing(c, "err"))
         /\ \A o \in Callers : o # c => Untouched(o)
  BY ReturnsCase, ContinueCase DEF Failed

LEMMA AwaitCase ==
  ASSUME TypeOK, NEW c \in Callers, pc' = [pc EXCEPT ![c] = "await"],
         UNCHANGED <<op, want, todo, result>>
  PROVE  /\ pc'[c] = "await" /\ op'[c] = op[c] /\ want'[c] = want[c] /\ todo'[c] = todo[c]
         /\ \A o \in Callers : o # c => Untouched(o)
  BY DEF TypeOK, CallTypes, Untouched

(* To a step of another thread a caller is a bystander. *)
Bystander(o) ==
  /\ Untouched(o) /\ intact'[o] = intact[o] /\ (alone'[o] => alone[o])
  /\ pc[o] = "await" => since[o] \subseteq since'[o]

LEMMA StepUntouched ==
  ASSUME TypeOK, NEW c \in Callers, Step(c), NEW o \in Callers, o # c
  PROVE  Untouched(o)
<1>1. CASE Send(c)
  <2>1. CASE Head(todo[c]).key = None
    BY <1>1, <2>1, ContinueCase DEF Send
  <2>2. CASE Head(todo[c]).key # None
    BY <1>1, <2>2, AwaitCase DEF Send
  <2> QED
    BY <2>1, <2>2
<1>2. CASE SendFails(c)
  BY <1>2, FailedCase DEF SendFails
<1>3. CASE PopReply(c)
  <2>1. Continue(c) \/ Failed(c)
    BY <1>3, PopTypes
  <2> QED
    BY <2>1, ContinueCase, FailedCase
<1>4. CASE TimesOut(c)
  BY <1>4, FailedCase DEF TimesOut
<1> QED
  BY <1>1, <1>2, <1>3, <1>4 DEF Step

LEMMA StepBystander ==
  ASSUME TypeOK, NEW c \in Callers, Step(c), NEW o \in Callers, o # c
  PROVE  Bystander(o) /\ alone'[o] = alone[o]
<1>1. Untouched(o)
  BY StepUntouched
<1>2. CASE Send(c)
  <2> PICK x : Sends(c, x)
    BY <1>2 DEF Send
  <2>1. alone' = alone /\ (intact' = intact \/ intact' = [intact EXCEPT ![c] = FALSE])
    BY DEF Sends
  <2>2. since' = [p \in Callers |-> IF p = c THEN {mode, power}
                                    ELSE IF pc[p] = "await" THEN since[p] \cup {mode', power'}
                                    ELSE {}]
    BY DEF Sends
  <2>3. intact'[o] = intact[o]
    BY <2>1 DEF TypeOK, HistoryTypes
  <2>4. pc[o] = "await" => since[o] \subseteq since'[o]
    BY <2>2
  <2> QED
    BY <1>1, <2>1, <2>3, <2>4 DEF Bystander
<1>3. CASE SendFails(c)
  <2>1. alone' = alone /\ since' = since /\ intact' = [intact EXCEPT ![c] = FALSE]
    BY <1>3 DEF SendFails
  <2>2. intact'[o] = intact[o]
    BY <2>1 DEF TypeOK, HistoryTypes
  <2> QED
    BY <1>1, <2>1, <2>2 DEF Bystander
<1>4. CASE PopReply(c) \/ TimesOut(c)
  <2>1. alone' = alone /\ since' = since /\ intact' = intact
    BY <1>4 DEF PopReply, TimesOut, history
  <2> QED
    BY <1>1, <2>1 DEF Bystander
<1> QED
  BY <1>2, <1>3, <1>4 DEF Step

LEMMA StepKeeps ==
  ASSUME TypeOK, NEW c \in Callers, Step(c)
  PROVE  pc[c] # "idle" /\ setup' = setup /\ reports' = reports /\ alone'[c] = alone[c]
  BY DEF Step, Send, Sends, Reacts, SendFails, PopReply, TimesOut, driveVars, wireVars, history,
         TypeOK, HistoryTypes

(* The caller's own call goes on, waits, or ends. *)
LEMMA StepOwn ==
  ASSUME TypeOK, NEW c \in Callers, Step(c)
  PROVE  \/ Onward(c) \/ Closing(c, "ok") \/ Closing(c, "err")
         \/ /\ pc'[c] = "await" /\ op'[c] = op[c] /\ want'[c] = want[c] /\ todo'[c] = todo[c]
<1>1. Continue(c) => Onward(c) \/ Closing(c, "ok")
  BY ContinueCase
<1>2. Failed(c) => Onward(c) \/ Closing(c, "ok") \/ Closing(c, "err")
  BY <1>1, FailedCase
<1>3. CASE Send(c)
  <2>1. CASE Head(todo[c]).key = None
    BY <1>1, <1>3, <2>1 DEF Send
  <2>2. CASE Head(todo[c]).key # None
    BY <1>3, <2>2, AwaitCase DEF Send
  <2> QED
    BY <2>1, <2>2
<1>4. CASE SendFails(c) \/ TimesOut(c)
  BY <1>2, <1>4 DEF SendFails, TimesOut
<1>5. CASE PopReply(c)
  BY <1>1, <1>2, <1>5, PopTypes
<1> QED
  BY <1>3, <1>4, <1>5 DEF Step

-----------------------------------------------------------------------------
(***************************************************************************)
(* What a step does to the replies of a caller.                            *)
(***************************************************************************)
LEMMA AnswersKept ==
  ASSUME NEW o \in Callers, Bystander(o), NEW r, Answers(o, r)
  PROVE  Answers(o, r)'
  BY DEF Bystander, Untouched, Answers

LEMMA OwnKept ==
  ASSUME NEW o \in Callers, Bystander(o), NEW q, Own(q, o), NEW t, AtMostOne(t, o),
         \A j \in 1 .. Len(t) : t[j].to = o => \E i \in 1 .. Len(q) : t[j] = q[i]
  PROVE  Own(t, o)'
<1>1. ASSUME NEW j \in 1 .. Len(t), t[j].to = o PROVE Answers(o, t[j])'
  BY <1>1, AnswersKept DEF Own
<1>2. AtMostOne(t, o)'
  BY DEF AtMostOne
<1> QED
  BY <1>1, <1>2 DEF Own, Answers

LEMMA NotAwaiting ==
  ASSUME NEW c \in Callers, pc[c] # "await", NEW q, Own(q, c)
  PROVE  NoneOf(q, c)
  BY DEF Own, Answers, NoneOf

LEMMA NoneOwn ==
  ASSUME NEW c, NEW t, NoneOf(t, c)
  PROVE  Own(t, c)' /\ NoneOf(t, c)'
<1>1. NoneOf(t, c)' /\ AtMostOne(t, c)'
  BY DEF NoneOf, AtMostOne
<1>2. (\A i \in 1 .. Len(t) : t[i].to = c => Answers(c, t[i]))'
  BY DEF NoneOf
<1> QED
  BY <1>1, <1>2 DEF Own

(* Between q and t only replies to c came or went. *)
OnlyAbout(c, q, t) ==
  /\ \A j \in 1 .. Len(t) : t[j].to # c => \E i \in 1 .. Len(q) : t[j] = q[i]
  /\ \A i \in 1 .. Len(q) : q[i].to # c => \E j \in 1 .. Len(t) : t[j] = q[i]
  /\ \A o \in Callers : o # c => /\ NoneOf(q, o) => NoneOf(t, o)
                                 /\ AtMostOne(q, o) => AtMostOne(t, o)

LEMMA Unchanged == ASSUME NEW c, NEW q PROVE OnlyAbout(c, q, q)
  BY DEF OnlyAbout

LEMMA PlusAbout ==
  ASSUME NEW c, NEW q, NEW r, r.to = c, NEW t, Plus(q, r, t)
  PROVE  OnlyAbout(c, q, t)
<1>1. \A j \in 1 .. Len(t) : t[j].to # c => \E i \in 1 .. Len(q) : t[j] = q[i]
  BY PlusEntries
<1>2. \A i \in 1 .. Len(q) : \E j \in 1 .. Len(t) : t[j] = q[i]
  <2>1. Within(q, t)
    BY PlusEntries
  <2> QED
    BY <2>1 DEF Within
<1>3. \A o \in Callers : o # c => /\ NoneOf(q, o) => NoneOf(t, o)
                                  /\ AtMostOne(q, o) => AtMostOne(t, o)
  BY PlusCounts
<1> QED
  BY <1>1, <1>2, <1>3 DEF OnlyAbout

LEMMA MinusAbout ==
  ASSUME NEW c, NEW q, NEW i \in 1 .. Len(q), q[i].to = c, NEW t, Minus(q, i, t)
  PROVE  OnlyAbout(c, q, t)
<1>1. \A j \in 1 .. Len(t) : \E k \in 1 .. Len(q) : t[j] = q[k]
  BY MinusEntries DEF Within
<1>2. \A k \in 1 .. Len(q) : q[k].to # c => \E j \in 1 .. Len(t) : t[j] = q[k]
  BY MinusEntries
<1>3. \A o \in Callers : /\ NoneOf(q, o) => NoneOf(t, o)
                         /\ AtMostOne(q, o) => AtMostOne(t, o)
  BY MinusCounts
<1> QED
  BY <1>1, <1>2, <1>3 DEF OnlyAbout

LEMMA OthersOwn ==
  ASSUME NEW c, NEW o \in Callers, o # c, Bystander(o), NEW q, NEW t, OnlyAbout(c, q, t), Own(q, o)
  PROVE  Own(t, o)' /\ (NoneOf(q, o) => NoneOf(t, o)')
<1>1. /\ AtMostOne(t, o) /\ (NoneOf(q, o) => NoneOf(t, o))
      /\ \A j \in 1 .. Len(t) : t[j].to = o => \E i \in 1 .. Len(q) : t[j] = q[i]
  BY DEF OnlyAbout, Own
<1>2. Own(t, o)'
  BY <1>1, OwnKept
<1>3. NoneOf(q, o) => NoneOf(t, o)'
  BY <1>1 DEF NoneOf
<1> QED
  BY <1>2, <1>3

LEMMA StillAddressed ==
  ASSUME NEW c \in Callers, NEW q, NEW t, OnlyAbout(c, q, t), Addressed(q)
  PROVE  Addressed(t)'
  BY DEF OnlyAbout, Addressed

(* A reply to o stays where it is while others come and go. *)
LEMMA StillAnswered ==
  ASSUME NEW c, NEW o, o # c, NEW q, NEW t, OnlyAbout(c, q, t), AnsweredIn(q, o),
         todo'[o] = todo[o]
  PROVE  AnsweredIn(t, o)'
  BY DEF OnlyAbout, AnsweredIn

(* A thread beside the one that steps: its call, if it has one, is as it   *)
(* was, and is not alone.                                                  *)
LEMMA BystanderHolds ==
  ASSUME TypeOK, NEW c \in Callers, NEW o \in Callers, o # c, Bystander(o), CallHolds(o),
         ~(alone'[o] /\ pc[o] # "idle"), setup' = setup,
         OnlyAbout(c, toHost, toHost'), OnlyAbout(c, replies, replies')
  PROVE  CallHolds(o)'
<1> SUFFICES ASSUME pc'[o] # "idle" PROVE IntactHolds(o)' /\ ListHolds(o)'
  BY DEF CallHolds
<1>1. /\ pc'[o] = pc[o] /\ op'[o] = op[o] /\ want'[o] = want[o] /\ todo'[o] = todo[o]
      /\ intact'[o] = intact[o] /\ pc[o] # "idle" /\ ~alone'[o]
  BY DEF Bystander, Untouched
<1>2. IntactHolds(o) /\ ListHolds(o)
  BY <1>1 DEF CallHolds
<1>3. AnsweredIn(toHost, o) => AnsweredIn(toHost, o)'
  <2> PICK q, t : q = toHost /\ t = toHost'
    OBVIOUS
  <2>1. AnsweredIn(q, o) => AnsweredIn(t, o)'
    BY <1>1, StillAnswered
  <2> QED
    BY <2>1 DEF AnsweredIn
<1>4. AnsweredIn(replies, o) => AnsweredIn(replies, o)'
  <2> PICK q, t : q = replies /\ t = replies'
    OBVIOUS
  <2>1. AnsweredIn(q, o) => AnsweredIn(t, o)'
    BY <1>1, StillAnswered
  <2> QED
    BY <2>1 DEF AnsweredIn
<1>5. IntactHolds(o)'
  BY <1>1, <1>2, <1>3, <1>4 DEF IntactHolds
<1>6. Fits(op[o], want[o], todo[o])'
  <2> PICK m, w, s : m = op[o] /\ w = want[o] /\ s = todo[o]
    OBVIOUS
  <2>1. Fits(m, w, s)
    BY <1>2 DEF ListHolds
  <2>2. op'[o] = m /\ want'[o] = w /\ todo'[o] = s
    BY <1>1
  <2> QED
    BY <2>1, <2>2 DEF Fits, Ordered
<1> QED
  BY <1>1, <1>5, <1>6 DEF ListHolds

(* The replies after a step of c that leaves those of c in order. *)
OwnReplies(c) == Own(toHost, c) /\ Own(replies, c) /\ (NoneOf(toHost, c) \/ NoneOf(replies, c))

LEMMA RepliesStayOwned ==
  ASSUME NEW c \in Callers, RepliesOwned, OwnReplies(c)',
         \A o \in Callers : o # c => Bystander(o),
         OnlyAbout(c, toHost, toHost'), OnlyAbout(c, replies, replies')
  PROVE  RepliesOwned'
<1> PICK q, t, r, s : q = toHost /\ t = toHost' /\ r = replies /\ s = replies'
  OBVIOUS
<1>1. Addressed(q) /\ Addressed(r) /\ OnlyAbout(c, q, t) /\ OnlyAbout(c, r, s)
  BY DEF RepliesOwned
<1>2. Addressed(t)' /\ Addressed(s)'
  BY <1>1, StillAddressed
<1>3. Addressed(toHost)' /\ Addressed(replies)'
  BY <1>2 DEF Addressed
<1>4. ASSUME NEW o \in Callers, o # c PROVE OwnReplies(o)'
  <2>1. Own(q, o) /\ Own(r, o) /\ (NoneOf(q, o) \/ NoneOf(r, o)) /\ Bystander(o)
    BY <1>4 DEF RepliesOwned
  <2>2. Own(t, o)' /\ (NoneOf(q, o) => NoneOf(t, o)')
    BY <1>1, <1>4, <2>1, OthersOwn
  <2>3. Own(s, o)' /\ (NoneOf(r, o) => NoneOf(s, o)')
    BY <1>1, <1>4, <2>1, OthersOwn
  <2> QED
    BY <2>1, <2>2, <2>3 DEF OwnReplies, Own, AtMostOne, Answers, NoneOf
<1>5. \A o \in Callers : OwnReplies(o)'
  BY <1>4
<1> QED
  BY <1>3, <1>5 DEF RepliesOwned, OwnReplies

(* The call goes on to the rest of its list. *)
LEMMA OnwardHolds ==
  ASSUME TypeOK, NEW c \in Callers, pc[c] # "idle", Onward(c), Fits(op[c], want[c], todo[c]),
         NEW m, NEW w, NEW t, m = op[c], w = want[c], t = Tail(todo[c]),
         alone'[c] => Ready(m, w, t)', intact'[c] => setup'.present
  PROVE  CallHolds(c)'
<1>1. pc'[c] = "send" /\ todo'[c] = t /\ op'[c] = m /\ want'[c] = w
  BY DEF Onward, Going
<1>2. Fits(m, w, t)
  <2>1. todo[c] \in Seq(Exchanges) /\ todo[c] # <<>>
    BY DEF TypeOK, CallTypes
  <2> QED
    BY <2>1, FitsRest
<1>3. Fits(op[c], want[c], todo[c])'
  BY <1>1, <1>2 DEF Fits, Ordered
<1>4. alone'[c] => Ready(op[c], want[c], todo[c])'
  BY <1>1 DEF Ready, Loose, Frameless, NeverEnables
<1> QED
  BY <1>1, <1>3, <1>4 DEF CallHolds, IntactHolds, ListHolds

-----------------------------------------------------------------------------
(***************************************************************************)
(* A step of a call, and the replies of its caller.                        *)
(***************************************************************************)
Answered(c, x, r) ==
  /\ x.key # None /\ Plus(toHost, r, toHost')
  /\ r.to = c /\ r.key = x.key /\ r.of = x.frame /\ r.val \in {None, mode, power}
  /\ \/ r.sort = x.sort /\ Reacts(x)
     \/ r.sort = "abort" /\ ~intact'[c]
Unanswered(c, x) == toHost' = toHost /\ (intact'[c] => x.key = None \/ ~setup.present)

LEMMA SendParts ==
  ASSUME TypeOK, NEW c \in Callers, NEW x \in Exchanges, Sends(c, x)
  PROVE  /\ Reacts(x) \/ UNCHANGED driveVars
         /\ (\E r \in Replies : Answered(c, x, r)) \/ Unanswered(c, x)
         /\ since'[c] = {mode, power} /\ (intact'[c] => intact[c])
<1>1. /\ Reacts(x) \/ UNCHANGED driveVars
      /\ since'[c] = {mode, power} /\ (intact'[c] => intact[c])
  BY DEF Sends, TypeOK, HistoryTypes
<1>2. toHost \in Seq(Replies)
  BY DEF TypeOK, WireTypes
<1>3. ASSUME Reacts(x), toHost' = toHost \o Reply(c, x)
      PROVE  (\E r \in Replies : Answered(c, x, r)) \/ Unanswered(c, x)
  <2>1. CASE x.key = None \/ ~setup.present
    <3>1. Reply(c, x) = <<>>
      BY <2>1 DEF Reply
    <3>2. toHost' = toHost
      BY <1>2, <1>3, <3>1, ConcatEmptySeq
    <3> QED
      BY <2>1, <3>2 DEF Unanswered
  <2>2. CASE x.key # None /\ setup.present
    <3> PICK r : r = [key |-> x.key, sort |-> x.sort, of |-> x.frame, to |-> c,
                      val |-> IF x.frame = "upload" /\ x.arg = "mode_display" THEN mode
                              ELSE IF x.frame = "upload" /\ x.arg = "statusword" THEN power
                              ELSE None]
      OBVIOUS
    <3>1. /\ r.to = c /\ r.key = x.key /\ r.of = x.frame /\ r.val \in {None, mode, power}
          /\ r.sort = x.sort
      OBVIOUS
    <3>2. Reply(c, x) = <<r>>
      BY <2>2 DEF Reply
    <3>3. r \in Replies
      <4>1. x.key \in Keys /\ x.sort \in Sorts \cup {None} /\ x.frame \in Frames
        BY <2>2 DEF Exchanges
      <4>2. mode \in Modes /\ power \in Powers
        BY DEF TypeOK, DriveTypes
      <4> QED
        BY <4>1, <4>2 DEF Replies
    <3>4. Plus(toHost, r, toHost')
      BY <1>2, <1>3, <3>2, <3>3, PlusAppend
    <3>5. Answered(c, x, r)
      BY <1>3, <2>2, <3>1, <3>4 DEF Answered
    <3> QED
      BY <3>3, <3>5
  <2> QED
    BY <2>1, <2>2
<1>4. ASSUME x.key # None, ~intact'[c], toHost' = toHost \o Abort(c, x)
      PROVE  \E r \in Replies : Answered(c, x, r)
  <2> PICK r : r = [key |-> x.key, sort |-> "abort", of |-> x.frame, to |-> c, val |-> None]
    OBVIOUS
  <2>1. /\ r.to = c /\ r.key = x.key /\ r.of = x.frame /\ r.val \in {None, mode, power}
        /\ r.sort = "abort"
    OBVIOUS
  <2>2. Abort(c, x) = <<r>>
    BY DEF Abort
  <2>3. r \in Replies
    BY <1>4 DEF Exchanges, Replies
  <2>4. Plus(toHost, r, toHost')
    BY <1>2, <1>4, <2>2, <2>3, PlusAppend
  <2>5. Answered(c, x, r)
    BY <1>4, <2>1, <2>4 DEF Answered
  <2> QED
    BY <2>3, <2>5
<1>5. \/ Reacts(x) /\ toHost' = toHost \o Reply(c, x)
      \/ x.key # None /\ ~intact'[c] /\ toHost' = toHost \o Abort(c, x)
      \/ toHost' = toHost /\ ~intact'[c]
  BY DEF Sends, TypeOK, HistoryTypes
<1> QED
  BY <1>1, <1>3, <1>4, <1>5 DEF Unanswered

(* A caller that does not wait, and one whose request is answered. *)
LEMMA NoneOwned ==
  ASSUME NEW c, NoneOf(toHost', c), NoneOf(replies', c)
  PROVE  OwnReplies(c)'
<1> PICK t, s : t = toHost' /\ s = replies'
  OBVIOUS
<1>1. Own(t, c)' /\ Own(s, c)' /\ NoneOf(t, c)'
  BY NoneOwn
<1> QED
  BY <1>1 DEF OwnReplies, Own, AtMostOne, Answers, NoneOf

LEMMA AnswerOwned ==
  ASSUME NEW c, NoneOf(toHost, c), NoneOf(replies, c), replies' = replies,
         NEW r, Plus(toHost, r, toHost'), Answers(c, r)'
  PROVE  OwnReplies(c)'
<1> PICK q, t : q = toHost /\ t = toHost'
  OBVIOUS
<1>1. Plus(q, r, t) /\ NoneOf(q, c)
  OBVIOUS
<1>2. /\ AtMostOne(t, c)
      /\ \A j \in 1 .. Len(t) : t[j] = r \/ \E i \in 1 .. Len(q) : t[j] = q[i]
  BY <1>1, PlusEntries, PlusCounts
<1>3. \A j \in 1 .. Len(t) : t[j].to = c => t[j] = r
  BY <1>1, <1>2 DEF NoneOf
<1>4. Own(t, c)'
  BY <1>2, <1>3 DEF Own, AtMostOne
<1>5. Own(replies, c)' /\ NoneOf(replies, c)'
  BY NoneOwn
<1> QED
  BY <1>4, <1>5 DEF OwnReplies, Own, AtMostOne, Answers, NoneOf

(* The step of a call, what it leaves of the replies, and of the call. *)
StepHolds(c) ==
  /\ OnlyAbout(c, toHost, toHost') /\ OnlyAbout(c, replies, replies')
  /\ OwnReplies(c)' /\ CallHolds(c)'

LEMMA SendHolds ==
  ASSUME TypeOK, NEW c \in Callers, OwnReplies(c), CallHolds(c), Send(c),
         NEW m, NEW w, NEW t, m = op[c], w = want[c], t = Tail(todo[c])
  PROVE  /\ StepHolds(c)
         /\ alone[c] /\ (Onward(c) \/ Closing(c, "ok")) => Ready(m, w, t)'
         /\ ~Closing(c, "err")
<1> PICK x, s : x = Head(todo[c]) /\ s = todo[c]
  OBVIOUS
<1>1. /\ pc[c] = "send" /\ Sends(c, x) /\ replies' = replies /\ setup' = setup
      /\ alone'[c] = alone[c]
  BY StepKeeps DEF Send, Step
<1>2. /\ x \in Exchanges /\ s \in Seq(Exchanges) /\ s # <<>> /\ x = Head(s) /\ t = Tail(s)
      /\ power \in Powers
  BY <1>1, HeadTail DEF TypeOK, CallTypes, DriveTypes
<1>3. NoneOf(toHost, c) /\ NoneOf(replies, c)
  BY <1>1, NotAwaiting DEF OwnReplies
<1>4. /\ Fits(m, w, s) /\ (alone[c] => Ready(m, w, s)) /\ (intact[c] => setup.present)
  BY <1>1 DEF CallHolds, ListHolds, IntactHolds
<1>5. /\ Reacts(x) \/ UNCHANGED driveVars
      /\ (\E r \in Replies : Answered(c, x, r)) \/ Unanswered(c, x)
      /\ since'[c] = {mode, power} /\ (intact'[c] => intact[c])
  BY <1>1, <1>2, SendParts
<1>6. alone[c] /\ (Reacts(x) \/ Skippable(x)) => Ready(m, w, t)'
  BY <1>2, <1>4, <1>5, ReadyObeyed, ReadySkipped
<1>7. OnlyAbout(c, replies, replies')
  BY <1>1, Unchanged
<1>8. CASE x.key = None
  <2>1. Continue(c)
    BY <1>8 DEF Send
  <2>2. Onward(c) \/ Closing(c, "ok")
    BY <2>1, ContinueCase
  <2>3. toHost' = toHost
    BY <1>5, <1>8 DEF Answered, Unanswered
  <2>4. OnlyAbout(c, toHost, toHost') /\ OwnReplies(c)'
    BY <1>1, <1>3, <2>3, Unchanged, NoneOwned
  <2>5. alone[c] => Ready(m, w, t)'
    BY <1>6, <1>8 DEF Skippable
  <2>6. CallHolds(c)'
    <3>1. CASE Onward(c)
      <4>1. Fits(op[c], want[c], todo[c])
        BY <1>4
      <4>2. alone'[c] => Ready(m, w, t)'
        BY <1>1, <2>5
      <4>3. intact'[c] => setup'.present
        BY <1>1, <1>4, <1>5
      <4>4. pc[c] # "idle"
        BY <1>1
      <4> QED
        BY <3>1, <4>1, <4>2, <4>3, <4>4, OnwardHolds
    <3>2. CASE Closing(c, "ok")
      BY <3>2 DEF Closing, Ending, CallHolds
    <3> QED
      BY <2>2, <3>1, <3>2
  <2>7. ~Closing(c, "err")
    BY <2>2 DEF Onward, Going, Closing, Ending
  <2> QED
    BY <1>7, <2>4, <2>5, <2>6, <2>7 DEF StepHolds
<1>9. CASE x.key # None
  <2>1. pc' = [pc EXCEPT ![c] = "await"] /\ UNCHANGED <<op, want, todo, result>>
    BY <1>9 DEF Send
  <2>2. pc'[c] = "await" /\ op'[c] = m /\ want'[c] = w /\ todo'[c] = s
    BY <2>1, AwaitCase
  <2>3. /\ OnlyAbout(c, toHost, toHost') /\ OwnReplies(c)'
        /\ intact'[c] => AnsweredIn(toHost, c)'
        /\ Reacts(x) \/ (~AnsweredIn(toHost, c)' /\ ~AnsweredIn(replies, c)')
    <3>1. ~AnsweredIn(replies, c)'
      BY <1>1, <1>3 DEF AnsweredIn, NoneOf
    <3>2. ASSUME NEW r \in Replies, Answered(c, x, r)
          PROVE  /\ OnlyAbout(c, toHost, toHost') /\ OwnReplies(c)'
                 /\ intact'[c] => AnsweredIn(toHost, c)'
                 /\ Reacts(x) \/ ~AnsweredIn(toHost, c)'
      <4>1. /\ Plus(toHost, r, toHost') /\ r.to = c
            /\ r.key = x.key /\ r.of = x.frame /\ r.val \in {None, mode, power}
            /\ (r.sort = x.sort /\ Reacts(x)) \/ (r.sort = "abort" /\ ~intact'[c])
        BY <3>2 DEF Answered
      <4>2. OnlyAbout(c, toHost, toHost')
        BY <4>1, PlusAbout
      <4>3. Answers(c, r)'
        BY <1>2, <1>5, <2>2, <4>1 DEF Answers
      <4>4. OwnReplies(c)'
        BY <1>1, <1>3, <4>1, <4>3, AnswerOwned
      <4>5. /\ \A j \in 1 .. Len(toHost') :
                 toHost'[j] = r \/ \E i \in 1 .. Len(toHost) : toHost'[j] = toHost[i]
            /\ \E j \in 1 .. Len(toHost') : toHost'[j] = r
        BY <4>1, PlusEntries
      <4>6. r.sort = x.sort => AnsweredIn(toHost, c)'
        BY <1>2, <2>2, <4>1, <4>5 DEF AnsweredIn
      <4>7. r.sort # x.sort => ~AnsweredIn(toHost, c)'
        BY <1>2, <1>3, <2>2, <4>5 DEF AnsweredIn, NoneOf
      <4>8. r.sort = "abort" => r.sort # x.sort
        BY <1>2 DEF Exchanges, Sorts, None
      <4> QED
        BY <4>1, <4>2, <4>4, <4>6, <4>7, <4>8
    <3>3. CASE Unanswered(c, x)
      <4>1. toHost' = toHost /\ ~intact'[c]
        BY <1>4, <1>5, <1>9, <3>3 DEF Unanswered
      <4>2. OnlyAbout(c, toHost, toHost') /\ OwnReplies(c)'
        BY <1>1, <1>3, <4>1, Unchanged, NoneOwned
      <4>3. ~AnsweredIn(toHost, c)'
        BY <1>3, <4>1 DEF AnsweredIn, NoneOf
      <4> QED
        BY <3>1, <4>1, <4>2, <4>3
    <3> QED
      BY <1>5, <3>1, <3>2, <3>3
  <2>4. Fits(op[c], want[c], todo[c])'
    BY <1>4, <2>2 DEF Fits, Ordered
  <2>5. alone'[c] => \/ Ready(op[c], want[c], Tail(todo[c]))'
                     \/ ~Head(todo[c]).may_fail' /\ ~AnsweredIn(toHost, c)' /\ ~AnsweredIn(replies, c)'
    <3>1. CASE Reacts(x) \/ Skippable(x)
      <4>1. alone[c] => Ready(m, w, t)'
        BY <1>6, <3>1
      <4>2. Tail(todo'[c]) = t
        BY <1>2, <2>2
      <4> QED
        BY <1>1, <2>2, <4>1, <4>2 DEF Ready, Loose, Frameless, NeverEnables
    <3>2. CASE ~(Reacts(x) \/ Skippable(x))
      BY <1>2, <2>2, <2>3, <3>2 DEF Skippable
    <3> QED
      BY <3>1, <3>2
  <2>6. CallHolds(c)'
    <3>1. ListHolds(c)'
      BY <2>2, <2>4, <2>5 DEF ListHolds
    <3>2. IntactHolds(c)'
      BY <1>1, <1>4, <1>5, <2>3 DEF IntactHolds
    <3> QED
      BY <3>1, <3>2 DEF CallHolds
  <2>7. ~Onward(c) /\ ~Closing(c, "ok") /\ ~Closing(c, "err")
    BY <2>2 DEF Onward, Going, Closing, Ending
  <2> QED
    BY <1>7, <2>3, <2>6, <2>7 DEF StepHolds
<1> QED
  BY <1>8, <1>9

LEMMA FailsHolds ==
  ASSUME TypeOK, NEW c \in Callers, OwnReplies(c), CallHolds(c), SendFails(c),
         NEW m, NEW w, NEW t, m = op[c], w = want[c], t = Tail(todo[c])
  PROVE  /\ StepHolds(c) /\ ~intact'[c]
         /\ alone[c] /\ (Onward(c) \/ Closing(c, "ok")) => Ready(m, w, t)'
<1> PICK x, s : x = Head(todo[c]) /\ s = todo[c]
  OBVIOUS
<1>1. /\ pc[c] = "send" /\ Failed(c) /\ ~intact'[c] /\ alone'[c] = alone[c]
      /\ replies' = replies /\ toHost' = toHost /\ UNCHANGED driveVars
  BY DEF SendFails, wireVars, TypeOK, HistoryTypes
<1>2. /\ x \in Exchanges /\ s \in Seq(Exchanges) /\ s # <<>> /\ x = Head(s) /\ t = Tail(s)
  BY <1>1, HeadTail DEF TypeOK, CallTypes
<1>3. NoneOf(toHost, c) /\ NoneOf(replies, c)
  BY <1>1, NotAwaiting DEF OwnReplies
<1>4. /\ Fits(m, w, s) /\ (alone[c] => Ready(m, w, s))
  BY <1>1 DEF CallHolds, ListHolds
<1>5. OnlyAbout(c, toHost, toHost') /\ OnlyAbout(c, replies, replies') /\ OwnReplies(c)'
  BY <1>1, <1>3, Unchanged, NoneOwned
<1>6. CASE x.may_fail
  <2>1. Onward(c) \/ Closing(c, "ok")
    BY <1>1, <1>6, FailedCase, ContinueCase
  <2>2. alone[c] => Ready(m, w, t)'
    <3>1. Skippable(x)
      BY <1>6 DEF Skippable
    <3> QED
      BY <1>1, <1>2, <1>4, <3>1, ReadySkipped
  <2>3. CallHolds(c)'
    <3>1. CASE Onward(c)
      <4>1. /\ Fits(op[c], want[c], todo[c]) /\ pc[c] # "idle"
            /\ alone'[c] => Ready(m, w, t)'
        BY <1>1, <1>4, <2>2
      <4> QED
        BY <1>1, <3>1, <4>1, OnwardHolds
    <3>2. CASE Closing(c, "ok")
      BY <3>2 DEF Closing, Ending, CallHolds
    <3> QED
      BY <2>1, <3>1, <3>2
  <2> QED
    BY <1>1, <1>5, <2>2, <2>3 DEF StepHolds
<1>7. CASE ~x.may_fail
  <2>1. Closing(c, "err")
    BY <1>1, <1>7, FailedCase
  <2>2. CallHolds(c)' /\ ~Onward(c) /\ ~Closing(c, "ok")
    BY <2>1 DEF Closing, Ending, Onward, Going, CallHolds
  <2> QED
    BY <1>1, <1>5, <2>2 DEF StepHolds
<1> QED
  BY <1>6, <1>7

(* The wait is over, with the answer to c taken or with none to come. *)
LEMMA WaitHolds ==
  ASSUME TypeOK, NEW c \in Callers, OwnReplies(c), CallHolds(c), pc[c] = "await",
         UNCHANGED <<driveVars, history>>, NEW x, x = Head(todo[c]),
         \/ Continue(c) /\ (AnsweredIn(toHost, c) \/ AnsweredIn(replies, c))
         \/ Failed(c) /\ ~AnsweredIn(toHost, c) /\ ~AnsweredIn(replies, c),
         NEW m, NEW w, NEW t, m = op[c], w = want[c], t = Tail(todo[c])
  PROVE  /\ CallHolds(c)' /\ (Closing(c, "err") => ~intact'[c])
         /\ alone[c] /\ (Onward(c) \/ Closing(c, "ok")) => Ready(m, w, t)'
<1>1. UNCHANGED driveVars /\ alone'[c] = alone[c] /\ intact'[c] = intact[c] /\ pc[c] # "idle"
  BY DEF history
<1>2. /\ Fits(op[c], want[c], todo[c])
      /\ alone[c] => \/ Ready(m, w, t)
                     \/ ~x.may_fail /\ ~AnsweredIn(toHost, c) /\ ~AnsweredIn(replies, c)
      /\ intact[c] => setup.present /\ (AnsweredIn(toHost, c) \/ AnsweredIn(replies, c))
  BY DEF CallHolds, ListHolds, IntactHolds
<1>3. Onward(c) \/ Closing(c, "ok") \/ Closing(c, "err")
  BY FailedCase, ContinueCase
<1>4. Closing(c, "err") => ~intact'[c] /\ ~Onward(c) /\ ~Closing(c, "ok")
  <2>1. Continue(c) => Onward(c) \/ Closing(c, "ok")
    BY ContinueCase
  <2>2. ~(Closing(c, "err") /\ (Onward(c) \/ Closing(c, "ok")))
    BY DEF Closing, Ending, Onward, Going
  <2> QED
    BY <1>1, <1>2, <2>1, <2>2
<1>5. alone[c] /\ (Onward(c) \/ Closing(c, "ok")) => Ready(m, w, t)'
  <2>1. Onward(c) \/ Closing(c, "ok") => x.may_fail \/ AnsweredIn(toHost, c) \/ AnsweredIn(replies, c)
    BY <1>4, FailedCase
  <2>2. Ready(m, w, t) => Ready(m, w, t)'
    BY <1>1, ReadyKept
  <2> QED
    BY <1>2, <2>1, <2>2
<1>6. CallHolds(c)'
  <2>1. CASE Onward(c)
    <3>1. /\ alone'[c] => Ready(m, w, t)'
          /\ intact'[c] => setup'.present
      BY <1>1, <1>2, <1>5, <2>1 DEF driveVars
    <3> QED
      BY <1>1, <1>2, <2>1, <3>1, OnwardHolds
  <2>2. CASE Closing(c, "ok") \/ Closing(c, "err")
    BY <2>2 DEF Closing, Ending, CallHolds
  <2> QED
    BY <1>3, <2>1, <2>2
<1> QED
  BY <1>4, <1>5, <1>6

(* A wait without Late ends only when no reply to the caller is left. *)
LEMMA TimesOutHolds ==
  ASSUME TypeOK, ~Late, NEW c \in Callers, OwnReplies(c), CallHolds(c), TimesOut(c),
         NEW m, NEW w, NEW t, m = op[c], w = want[c], t = Tail(todo[c])
  PROVE  /\ StepHolds(c) /\ (Closing(c, "err") => ~intact'[c])
         /\ alone[c] /\ (Onward(c) \/ Closing(c, "ok")) => Ready(m, w, t)'
<1> PICK x : x = Head(todo[c])
  OBVIOUS
<1>1. /\ pc[c] = "await" /\ Failed(c) /\ UNCHANGED <<driveVars, history>>
      /\ replies' = replies /\ toHost' = toHost
  BY DEF TimesOut, wireVars
<1>2. Matching(x.key) = {} /\ ~Pending(c)
  BY DEF TimesOut, MayTimeOut
<1>3. NoneOf(toHost, c)
  BY <1>2 DEF Pending, NoneOf, TypeOK, WireTypes
<1>4. NoneOf(replies, c)
  BY <1>2 DEF Matching, OwnReplies, Own, Answers, NoneOf, TypeOK, WireTypes
<1>5. ~AnsweredIn(toHost, c) /\ ~AnsweredIn(replies, c)
  BY <1>3, <1>4 DEF NoneOf, AnsweredIn
<1>6. OnlyAbout(c, toHost, toHost') /\ OnlyAbout(c, replies, replies') /\ OwnReplies(c)'
  BY <1>1, <1>3, <1>4, Unchanged, NoneOwned
<1>7. /\ CallHolds(c)' /\ (Closing(c, "err") => ~intact'[c])
      /\ alone[c] /\ (Onward(c) \/ Closing(c, "ok")) => Ready(m, w, t)'
  BY <1>1, <1>5, WaitHolds
<1> QED
  BY <1>6, <1>7 DEF StepHolds

(* What is found under the key awaited is the caller's own answer. *)
LEMMA FindsItsOwn ==
  ASSUME TypeOK, Allowed, KeysFit, Sharing, RepliesOwned, NEW c \in Callers, pc[c] = "await",
         NEW i \in First(Head(todo[c]).key)
  PROVE  i \in 1 .. Len(replies) /\ replies[i].to = c /\ Answers(c, replies[i])
<1> PICK x, r : x = Head(todo[c]) /\ r = replies[i]
  OBVIOUS
<1>1. i \in 1 .. Len(replies) /\ r.key = x.key
  BY DEF First, Matching, TypeOK, WireTypes
<1>2. r \in Replies
  BY <1>1 DEF TypeOK, WireTypes
<1>3. r.key \in Keys
  BY <1>2 DEF Replies
<1>4. PICK o \in Callers : r.to = o /\ Answers(o, r)
  BY <1>1 DEF RepliesOwned, Addressed, Own
<1>5. ASSUME NEW d \in Callers, pc[d] # "idle"
      PROVE  Head(todo[d]).key \in KeysOf(setup.driver, op[d]) \cup {None}
  <2>1. \A S : \A s \in Seq(S) : s # <<>> => Head(s) \in S
    OBVIOUS
  <2>2. Head(todo[d]) \in OfKeys(KeysOf(setup.driver, op[d]))
    BY <1>5, <2>1 DEF KeysFit, TypeOK, CallTypes
  <2> QED
    BY <2>2 DEF OfKeys
<1>6. None \notin Keys
  BY DEF None, Keys, Objects, Writable, Readable
<1>7. o = c
  <2>1. pc[o] # "idle" /\ r.key = Head(todo[o]).key
    BY <1>4 DEF Answers
  <2>2. r.key \in KeysOf(setup.driver, op[o]) /\ r.key \in KeysOf(setup.driver, op[c])
    BY <1>1, <1>3, <1>5, <1>6, <2>1
  <2>3. op[o] \in setup.calls[o] /\ op[c] \in setup.calls[c] /\ setup \in Setups
    BY <2>1 DEF Allowed, TypeOK, DriveTypes
  <2> QED
    BY <2>2, <2>3 DEF Sharing
<1> QED
  BY <1>1, <1>4, <1>7

LEMMA PopHolds ==
  ASSUME TypeOK, Allowed, KeysFit, Sharing, RepliesOwned, NEW c \in Callers, CallHolds(c),
         PopReply(c), NEW m, NEW w, NEW t, m = op[c], w = want[c], t = Tail(todo[c])
  PROVE  /\ StepHolds(c) /\ (Closing(c, "err") => ~intact'[c])
         /\ alone[c] /\ (Onward(c) \/ Closing(c, "ok")) => Ready(m, w, t)'
<1> PICK x : x = Head(todo[c])
  OBVIOUS
<1>1. /\ pc[c] = "await" /\ UNCHANGED <<driveVars, history>> /\ toHost' = toHost
  BY DEF PopReply, wireVars
<1>2. PICK i \in First(x.key) :
        /\ replies' = TakeOut(i)
        /\ IF Accepted(x, replies[i]) THEN Continue(c) ELSE Failed(c)
  BY DEF PopReply
<1>3. i \in 1 .. Len(replies) /\ replies[i].to = c
  BY <1>1, <1>2, FindsItsOwn
<1>4. OwnReplies(c)
  BY DEF RepliesOwned, OwnReplies
<1>5. Minus(replies, i, replies')
  BY <1>2, <1>3, MinusTaken DEF TakeOut, TypeOK, WireTypes
<1>6. AtMostOne(replies, c) /\ NoneOf(toHost, c)
  BY <1>3, <1>4 DEF OwnReplies, Own, NoneOf
<1>7. NoneOf(replies', c)
  BY <1>3, <1>5, <1>6, MinusCounts
<1>8. OnlyAbout(c, toHost, toHost') /\ OnlyAbout(c, replies, replies') /\ OwnReplies(c)'
  BY <1>1, <1>3, <1>5, <1>6, <1>7, Unchanged, MinusAbout, NoneOwned
<1>9. AnsweredIn(replies, c) <=> Accepted(x, replies[i])
  BY <1>3, <1>6 DEF AnsweredIn, Accepted, AtMostOne
<1>10. ~AnsweredIn(toHost, c)
  BY <1>6 DEF NoneOf, AnsweredIn
<1>11. \/ Continue(c) /\ (AnsweredIn(toHost, c) \/ AnsweredIn(replies, c))
       \/ Failed(c) /\ ~AnsweredIn(toHost, c) /\ ~AnsweredIn(replies, c)
  BY <1>2, <1>9, <1>10
<1>12. /\ CallHolds(c)' /\ (Closing(c, "err") => ~intact'[c])
       /\ alone[c] /\ (Onward(c) \/ Closing(c, "ok")) => Ready(m, w, t)'
  BY <1>1, <1>4, <1>11, WaitHolds
<1> QED
  BY <1>8, <1>12 DEF StepHolds

-----------------------------------------------------------------------------
(***************************************************************************)
(* The invariant is inductive.                                             *)
(***************************************************************************)
Held == reports = 0 => RepliesOwned /\ \A c \in Callers : CallHolds(c)

LEMMA StepHeld ==
  ASSUME CallInv, Sharing, reports = 0, NEW c \in Callers, Step(c),
         NEW m, NEW w, NEW t, m = op[c], w = want[c], t = Tail(todo[c])
  PROVE  /\ StepHolds(c) /\ (Closing(c, "err") => ~intact'[c])
         /\ alone[c] /\ (Onward(c) \/ Closing(c, "ok")) => Ready(m, w, t)'
<1>1. /\ TypeOK /\ Allowed /\ KeysFit /\ RepliesOwned /\ CallHolds(c) /\ OwnReplies(c) /\ ~Late
  BY DEF CallInv, RepliesOwned, OwnReplies, Sharing
<1>2. CASE Send(c)
  BY <1>1, <1>2, SendHolds
<1>3. CASE SendFails(c)
  BY <1>1, <1>3, FailsHolds
<1>4. CASE PopReply(c)
  BY <1>1, <1>4, PopHolds
<1>5. CASE TimesOut(c)
  BY <1>1, <1>5, TimesOutHolds
<1> QED
  BY <1>2, <1>3, <1>4, <1>5 DEF Step

LEMMA StepKeepsHeld ==
  ASSUME CallInv, Sharing, NEW c \in Callers, Step(c)
  PROVE  Held'
<1> SUFFICES ASSUME reports' = 0 PROVE RepliesOwned' /\ \A o \in Callers : CallHolds(o)'
  BY DEF Held
<1>1. /\ TypeOK /\ setup' = setup /\ reports = 0 /\ pc[c] # "idle"
  BY StepKeeps DEF CallInv
<1>2. StepHolds(c)
  BY <1>1, StepHeld
<1>3. /\ OnlyAbout(c, toHost, toHost') /\ OnlyAbout(c, replies, replies')
      /\ OwnReplies(c)' /\ CallHolds(c)'
  BY <1>2 DEF StepHolds
<1>4. ASSUME NEW o \in Callers, o # c PROVE Bystander(o) /\ alone'[o] = alone[o]
  BY <1>1, <1>4, StepBystander
<1>5. RepliesOwned'
  BY <1>1, <1>3, <1>4, RepliesStayOwned DEF CallInv
<1>6. ASSUME NEW o \in Callers, o # c PROVE CallHolds(o)'
  <2>1. ~(alone'[o] /\ pc[o] # "idle")
    BY <1>1, <1>4, <1>6 DEF CallInv, AloneIsAlone
  <2> QED
    BY <1>1, <1>3, <1>4, <1>6, <2>1, BystanderHolds DEF CallInv
<1> QED
  BY <1>3, <1>5, <1>6

(* A call begins with the list of its method. *)
LEMMA BeginsWith ==
  ASSUME TypeOK, NEW c \in Callers, NewCall(c)
  PROVE  \E m \in setup.calls[c], v \in setup.want[c] :
           /\ m \in {"set_mode", "ensure_mode", "command", "set_object"} \/ v = "position"
           /\ pc'[c] = "send" /\ op'[c] = m /\ want'[c] = v /\ todo'[c] = Script(m, v)
           /\ m \in Methods /\ v \in Modes
<1> PICK m \in setup.calls[c], v \in setup.want[c] :
      /\ m \in {"set_mode", "ensure_mode", "command", "set_object"} \/ v = "position"
      /\ op' = [op EXCEPT ![c] = m] /\ want' = [want EXCEPT ![c] = v]
      /\ todo' = [todo EXCEPT ![c] = Script(m, v)]
  BY DEF NewCall
<1>1. pc'[c] = "send" /\ op'[c] = m /\ want'[c] = v /\ todo'[c] = Script(m, v)
  BY DEF NewCall, TypeOK, CallTypes
<1>2. m \in Methods /\ v \in Modes
  BY DEF TypeOK, DriveTypes, SetupType
<1> QED
  BY <1>1, <1>2

LEMMA NewCallBystander ==
  ASSUME TypeOK, NEW c \in Callers, NewCall(c), NEW o \in Callers, o # c
  PROVE  Bystander(o) /\ ~(alone'[o] /\ pc[o] # "idle")
<1>1. Untouched(o)
  BY DEF NewCall, Untouched, TypeOK, CallTypes
<1>2. /\ alone' = [p \in Callers |-> IF p = c THEN \A d \in Callers : pc[d] = "idle"
                                     ELSE alone[p] /\ pc[p] = "idle"]
      /\ intact' = [intact EXCEPT ![c] = (setup.present /\ reports = 0)] /\ since' = since
  BY DEF NewCall
<1>3. alone'[o] = (alone[o] /\ pc[o] = "idle") /\ intact'[o] = intact[o]
  BY <1>2 DEF TypeOK, HistoryTypes
<1> QED
  BY <1>1, <1>2, <1>3 DEF Bystander

LEMMA NewCallKeepsHeld ==
  ASSUME CallInv, Offered, NEW c \in Callers, NewCall(c)
  PROVE  Held'
<1> SUFFICES ASSUME reports' = 0 PROVE RepliesOwned' /\ \A o \in Callers : CallHolds(o)'
  BY DEF Held
<1>1. /\ pc[c] = "idle" /\ toHost' = toHost /\ replies' = replies /\ UNCHANGED driveVars
      /\ reports' = reports /\ setup' = setup
  BY DEF NewCall, wireVars, driveVars
<1>2. /\ TypeOK /\ RepliesOwned /\ \A o \in Callers : CallHolds(o)
  BY <1>1 DEF CallInv
<1>3. NoneOf(toHost, c) /\ NoneOf(replies, c)
  BY <1>1, <1>2, NotAwaiting DEF RepliesOwned
<1>4. OnlyAbout(c, toHost, toHost') /\ OnlyAbout(c, replies, replies') /\ OwnReplies(c)'
  BY <1>1, <1>3, Unchanged, NoneOwned
<1>5. RepliesOwned'
  BY <1>2, <1>4, NewCallBystander, RepliesStayOwned
<1>6. ASSUME NEW o \in Callers, o # c PROVE CallHolds(o)'
  BY <1>1, <1>2, <1>4, <1>6, NewCallBystander, BystanderHolds
<1>7. CallHolds(c)'
  <2> PICK m \in setup.calls[c], v \in setup.want[c] :
        /\ m \in {"set_mode", "ensure_mode", "command", "set_object"} \/ v = "position"
        /\ pc'[c] = "send" /\ op'[c] = m /\ want'[c] = v /\ todo'[c] = Script(m, v)
        /\ m \in Methods /\ v \in Modes
    BY <1>2, BeginsWith
  <2> PICK s : s = Script(m, v)
    OBVIOUS
  <2>1. setup.driver = "mit" => m # "ensure_mode"
    BY <1>2 DEF Offered, TypeOK, DriveTypes
  <2>2. Fits(m, v, s) /\ Ready(m, v, s)
    BY <2>1, ScriptReady
  <2>3. Fits(op[c], want[c], todo[c])'
    BY <2>2 DEF Fits, Ordered
  <2>4. Ready(m, v, s)'
    BY <1>1, <2>2, ReadyKept
  <2>5. Ready(op[c], want[c], todo[c])'
    BY <2>4 DEF Ready, Loose, Frameless, NeverEnables
  <2>6. intact'[c] => setup'.present
    BY <1>1, <1>2 DEF NewCall, TypeOK, HistoryTypes
  <2> QED
    BY <2>3, <2>5, <2>6 DEF CallHolds, ListHolds, IntactHolds
<1> QED
  BY <1>5, <1>6, <1>7

(* The polling thread moves the reply at the head of the wire to the queue. *)
LEMMA QueueKeepsHeld ==
  ASSUME CallInv, ProcessFeedbackFrame
  PROVE  Held'
<1> SUFFICES ASSUME reports' = 0 PROVE RepliesOwned' /\ \A o \in Callers : CallHolds(o)'
  BY DEF Held
<1>1. /\ toHost # <<>> /\ replies' = Append(replies, Head(toHost)) /\ toHost' = Tail(toHost)
      /\ UNCHANGED <<driveVars, reports, pc, op, want, todo, history>> /\ setup' = setup
  BY DEF ProcessFeedbackFrame, driveVars
<1>2. /\ TypeOK /\ RepliesOwned /\ \A o \in Callers : CallHolds(o)
  BY <1>1 DEF CallInv
<1> PICK r, h, g, q, p : /\ r = Head(toHost) /\ h = toHost /\ g = toHost'
                         /\ q = replies /\ p = replies'
  OBVIOUS
<1>3. /\ Minus(h, 1, g) /\ r = h[1] /\ 1 \in 1 .. Len(h)
  BY <1>1, <1>2, MinusHead DEF TypeOK, WireTypes
<1>4. Plus(q, r, p)
  <2>1. r \in Replies /\ q \in Seq(Replies)
    BY <1>2, <1>3 DEF TypeOK, WireTypes
  <2> QED
    BY <1>1, <2>1, PlusAppend
<1>5. Within(g, h) /\ \A k \in 1 .. Len(h) : k # 1 => \E j \in 1 .. Len(g) : g[j] = h[k]
  BY <1>3, MinusEntries
<1>6. /\ \A j \in 1 .. Len(p) : p[j] = r \/ \E i \in 1 .. Len(q) : p[j] = q[i]
      /\ \E j \in 1 .. Len(p) : p[j] = r
  BY <1>4, PlusEntries
<1>7. Within(q, p)
  BY <1>4, PlusEntries
<1>8. Addressed(toHost)' /\ Addressed(replies)'
  <2>1. Addressed(h) /\ Addressed(q)
    BY <1>2 DEF RepliesOwned
  <2>2. Addressed(g)'
    BY <1>5, <2>1 DEF Within, Addressed
  <2>3. r.to \in Callers
    BY <1>3, <2>1 DEF Addressed
  <2>4. Addressed(p)'
    BY <1>6, <2>1, <2>3 DEF Addressed
  <2> QED
    BY <2>2, <2>4 DEF Addressed
<1>9. ASSUME NEW o \in Callers PROVE OwnReplies(o)'
  <2>1. Own(h, o) /\ Own(q, o) /\ (NoneOf(h, o) \/ NoneOf(q, o))
    BY <1>2 DEF RepliesOwned
  <2>2. Bystander(o)
    BY <1>1 DEF Bystander, Untouched, history
  <2>3. AtMostOne(g, o) /\ AtMostOne(p, o) /\ (NoneOf(g, o) \/ NoneOf(p, o))
    <3>1. /\ NoneOf(h, o) => NoneOf(g, o)
          /\ AtMostOne(h, o) => AtMostOne(g, o)
          /\ AtMostOne(h, o) /\ h[1].to = o => NoneOf(g, o)
      BY <1>3, MinusCounts
    <3>2. /\ NoneOf(q, o) /\ r.to # o => NoneOf(p, o)
          /\ NoneOf(q, o) \/ (r.to # o /\ AtMostOne(q, o)) => AtMostOne(p, o)
      BY <1>4, PlusCounts
    <3>3. AtMostOne(h, o) /\ AtMostOne(q, o) /\ (r.to = o => ~NoneOf(h, o))
      BY <1>3, <2>1 DEF Own, NoneOf
    <3> QED
      BY <1>3, <2>1, <3>1, <3>2, <3>3
  <2>4. Own(g, o)'
    <3>1. \A j \in 1 .. Len(g) : \E i \in 1 .. Len(h) : g[j] = h[i]
      BY <1>5 DEF Within
    <3> QED
      BY <2>1, <2>2, <2>3, <3>1, OwnKept
  <2>5. Own(p, o)'
    <3>1. ASSUME NEW j \in 1 .. Len(p), p[j].to = o PROVE Answers(o, p[j])
      BY <1>3, <1>6, <2>1, <3>1 DEF Own
    <3>2. \A j \in 1 .. Len(p) : p[j].to = o => Answers(o, p[j])'
      BY <2>2, <3>1, AnswersKept
    <3> QED
      BY <2>3, <3>2 DEF Own, AtMostOne
  <2> QED
    BY <2>3, <2>4, <2>5 DEF OwnReplies, Own, AtMostOne, Answers, NoneOf
<1>10. RepliesOwned'
  BY <1>8, <1>9 DEF RepliesOwned, OwnReplies
<1>11. ASSUME NEW o \in Callers PROVE CallHolds(o)'
  <2>1. /\ pc'[o] = pc[o] /\ op'[o] = op[o] /\ want'[o] = want[o] /\ todo'[o] = todo[o]
        /\ intact'[o] = intact[o] /\ alone'[o] = alone[o] /\ setup' = setup
    BY <1>1 DEF history
  <2>2. AnsweredIn(toHost, o) \/ AnsweredIn(replies, o) => AnsweredIn(toHost, o)' \/ AnsweredIn(replies, o)'
    <3>1. ASSUME AnsweredIn(h, o) PROVE AnsweredIn(g, o)' \/ AnsweredIn(p, o)'
      <4>1. PICK i \in 1 .. Len(h) : h[i].to = o /\ h[i].sort = Head(todo[o]).sort
        BY <3>1 DEF AnsweredIn
      <4>2. CASE i = 1
        BY <1>3, <1>6, <2>1, <4>1, <4>2 DEF AnsweredIn
      <4>3. CASE i # 1
        BY <1>5, <2>1, <4>1, <4>3 DEF AnsweredIn
      <4> QED
        BY <4>2, <4>3
    <3>2. AnsweredIn(q, o) => AnsweredIn(p, o)'
      BY <1>7, <2>1 DEF Within, AnsweredIn
    <3> QED
      BY <3>1, <3>2 DEF AnsweredIn
  <2>3. AnsweredIn(toHost, o)' \/ AnsweredIn(replies, o)' => AnsweredIn(toHost, o) \/ AnsweredIn(replies, o)
    <3>1. AnsweredIn(g, o)' => AnsweredIn(h, o)
      BY <1>5, <2>1 DEF Within, AnsweredIn
    <3>2. AnsweredIn(p, o)' => AnsweredIn(h, o) \/ AnsweredIn(q, o)
      BY <1>3, <1>6, <2>1 DEF AnsweredIn
    <3> QED
      BY <3>1, <3>2 DEF AnsweredIn
  <2> PICK m, w, s, t : m = op[o] /\ w = want[o] /\ s = todo[o] /\ t = Tail(todo[o])
    OBVIOUS
  <2>4. (Ready(m, w, s) => Ready(m, w, s)') /\ (Ready(m, w, t) => Ready(m, w, t)')
    BY <1>1, ReadyKept
  <2>5. /\ Ready(op[o], want[o], todo[o]) => Ready(op[o], want[o], todo[o])'
        /\ Ready(op[o], want[o], Tail(todo[o])) => Ready(op[o], want[o], Tail(todo[o]))'
    <3>1. m = op'[o] /\ w = want'[o] /\ s = todo'[o] /\ t = Tail(todo'[o])
      BY <2>1
    <3>2. Ready(op[o], want[o], todo[o]) => Ready(op[o], want[o], todo[o])'
      BY <2>4, <3>1 DEF Ready, Loose, Frameless, NeverEnables
    <3>3. Ready(op[o], want[o], Tail(todo[o])) => Ready(op[o], want[o], Tail(todo[o]))'
      BY <2>4, <3>1 DEF Ready, Loose, Frameless, NeverEnables
    <3> QED
      BY <3>2, <3>3
  <2>6. Fits(op[o], want[o], todo[o]) => Fits(op[o], want[o], todo[o])'
    BY <2>1 DEF Fits, Ordered
  <2>7. ListHolds(o) => ListHolds(o)'
    BY <2>1, <2>3, <2>5, <2>6 DEF ListHolds
  <2>8. IntactHolds(o) => IntactHolds(o)'
    BY <2>1, <2>2 DEF IntactHolds
  <2> QED
    BY <1>2, <2>1, <2>7, <2>8 DEF CallHolds
<1> QED
  BY <1>10, <1>11

(* What a call may be, the keys of its list, and who is alone. *)
Frame == setup' = setup /\ Allowed' /\ KeysFit' /\ AloneIsAlone'

LEMMA TailFits ==
  ASSUME NEW S, NEW s \in Seq(S), s # <<>>
  PROVE  Tail(s) \in Seq(S)
  OBVIOUS

LEMMA StepKeepsFrame ==
  ASSUME CallInv, NEW c \in Callers, Step(c)
  PROVE  Frame /\ (reports' = reports)
<1>1. /\ TypeOK /\ Allowed /\ KeysFit /\ AloneIsAlone
  BY DEF CallInv
<1>2. /\ pc[c] # "idle" /\ setup' = setup /\ reports' = reports /\ alone'[c] = alone[c]
  BY <1>1, StepKeeps
<1>3. ASSUME NEW o \in Callers, o # c PROVE Untouched(o) /\ alone'[o] = alone[o]
  BY <1>1, <1>3, StepBystander DEF Bystander
<1>4. \/ pc'[c] = "idle"
      \/ op'[c] = op[c] /\ todo'[c] \in {todo[c], Tail(todo[c])}
  BY <1>1, StepOwn DEF Onward, Going, Closing, Ending
<1>5. Allowed'
  BY <1>1, <1>2, <1>3, <1>4 DEF Allowed, Untouched
<1>6. KeysFit'
  <2>1. ASSUME NEW o \in Callers, pc'[o] # "idle"
        PROVE  todo'[o] \in Seq(OfKeys(KeysOf(setup'.driver, op'[o])))
    <3>1. CASE o # c
      BY <1>1, <1>2, <1>3, <2>1, <3>1 DEF KeysFit, Untouched
    <3>2. CASE o = c
      <4>1. todo[c] # <<>> /\ todo[c] \in Seq(OfKeys(KeysOf(setup.driver, op[c])))
        BY <1>1, <1>2 DEF KeysFit, TypeOK, CallTypes
      <4>2. Tail(todo[c]) \in Seq(OfKeys(KeysOf(setup.driver, op[c])))
        BY <4>1, TailFits
      <4> QED
        BY <1>2, <1>4, <2>1, <3>2, <4>1, <4>2
    <3> QED
      BY <3>1, <3>2
  <2> QED
    BY <2>1 DEF KeysFit, OfKeys
<1>7. AloneIsAlone'
  BY <1>1, <1>2, <1>3 DEF AloneIsAlone, Untouched
<1> QED
  BY <1>2, <1>5, <1>6, <1>7 DEF Frame

LEMMA NewCallKeepsFrame ==
  ASSUME CallInv, NEW c \in Callers, NewCall(c)
  PROVE  Frame /\ (reports' = reports)
<1>1. /\ TypeOK /\ Allowed /\ KeysFit /\ AloneIsAlone
  BY DEF CallInv
<1>2. /\ setup' = setup /\ reports' = reports
      /\ alone' = [p \in Callers |-> IF p = c THEN \A d \in Callers : pc[d] = "idle"
                                     ELSE alone[p] /\ pc[p] = "idle"]
  BY DEF NewCall, driveVars, wireVars
<1>3. ASSUME NEW o \in Callers, o # c
      PROVE  Untouched(o) /\ alone'[o] = (alone[o] /\ pc[o] = "idle")
  BY <1>1, <1>2, <1>3, NewCallBystander DEF Bystander
<1> PICK m \in setup.calls[c], v \in setup.want[c] :
      /\ m \in {"set_mode", "ensure_mode", "command", "set_object"} \/ v = "position"
      /\ pc'[c] = "send" /\ op'[c] = m /\ want'[c] = v /\ todo'[c] = Script(m, v)
      /\ m \in Methods /\ v \in Modes
  BY <1>1, BeginsWith
<1>4. Allowed'
  BY <1>1, <1>2, <1>3 DEF Allowed, Untouched
<1>5. KeysFit'
  <2>1. ASSUME NEW o \in Callers, pc'[o] # "idle"
        PROVE  todo'[o] \in Seq(OfKeys(KeysOf(setup'.driver, op'[o])))
    <3>1. CASE o # c
      BY <1>1, <1>2, <1>3, <2>1, <3>1 DEF KeysFit, Untouched
    <3>2. CASE o = c
      <4>1. setup.driver \in Drivers
        BY <1>1 DEF TypeOK, DriveTypes, SetupType
      <4>2. Script(m, v) \in Seq(OfKeys(KeysOf(setup.driver, m)))
        BY <4>1, ScriptKeys
      <4> QED
        BY <1>2, <3>2, <4>2
    <3> QED
      BY <3>1, <3>2
  <2> QED
    BY <2>1 DEF KeysFit, OfKeys
<1>6. AloneIsAlone'
  <2>1. alone'[c] = (\A d \in Callers : pc[d] = "idle")
    BY <1>2
  <2>2. pc[c] = "idle"
    BY DEF NewCall
  <2> QED
    BY <1>1, <1>3, <2>1, <2>2 DEF AloneIsAlone, Untouched
<1> QED
  BY <1>2, <1>4, <1>5, <1>6 DEF Frame

LEMMA QueueKeepsFrame ==
  ASSUME CallInv, UNCHANGED <<setup, pc, op, todo, alone>>
  PROVE  Frame
  BY DEF CallInv, Frame, Allowed, KeysFit, AloneIsAlone, OfKeys

LEMMA CallInductive ==
  ASSUME Sharing, Offered, CallInv, [Next]_vars
  PROVE  CallInv'
<1>1. TypeOK'
  <2>1. UNCHANGED vars => TypeOK'
    BY DEF CallInv, vars, driveVars, wireVars, history, TypeOK, DriveTypes, WireTypes, CallTypes,
           HistoryTypes
  <2> QED
    BY <2>1, NewCallTypes, StepTypes, QueueTypes DEF Next, CallInv
<1>2. ASSUME Frame, reports' = reports, Held' PROVE CallInv'
  BY <1>1, <1>2 DEF CallInv, Frame, Held
<1>3. ASSUME NEW c \in Callers, Step(c) PROVE CallInv'
  BY <1>2, <1>3, StepKeepsFrame, StepKeepsHeld
<1>4. ASSUME NEW c \in Callers, NewCall(c) PROVE CallInv'
  BY <1>2, <1>4, NewCallKeepsFrame, NewCallKeepsHeld
<1>5. CASE ProcessFeedbackFrame
  <2>1. UNCHANGED <<setup, pc, op, todo, alone>> /\ reports' = reports
    BY <1>5 DEF ProcessFeedbackFrame, driveVars, history
  <2> QED
    BY <1>2, <1>5, <2>1, QueueKeepsFrame, QueueKeepsHeld
<1>6. CASE Reports
  <2>1. UNCHANGED <<setup, pc, op, todo, alone>> /\ reports' = reports + 1 /\ setup.driver = "mit"
    BY <1>6 DEF Reports, driveVars, history
  <2>2. Frame /\ reports' # 0
    BY <2>1, QueueKeepsFrame DEF CallInv, TypeOK, WireTypes
  <2> QED
    BY <1>1, <2>1, <2>2 DEF CallInv, Frame
<1>7. CASE UNCHANGED vars
  <2>1. UNCHANGED <<setup, pc, op, want, todo, alone, intact, since, power, mode, target,
                    toHost, replies, reports>>
    BY <1>7 DEF vars, driveVars, wireVars, history
  <2>2. Frame
    BY <2>1, QueueKeepsFrame
  <2>3. Held'
    BY <2>1 DEF CallInv, Held, RepliesOwned, Addressed, Own, AtMostOne, NoneOf, Answers, CallHolds,
                IntactHolds, ListHolds, AnsweredIn, Fits, Ordered, Ready, Loose, Frameless,
                NeverEnables
  <2> QED
    BY <1>2, <2>1, <2>2, <2>3
<1> QED
  BY <1>3, <1>4, <1>5, <1>6, <1>7 DEF Next

LEMMA InitHolds == Init => CallInv
<1> SUFFICES ASSUME Init PROVE CallInv
  OBVIOUS
<1>1. TypeOK
  BY InitTypes
<1>2. /\ toHost = <<>> /\ replies = <<>> /\ reports = 0
      /\ \A c \in Callers : pc[c] = "idle"
  BY DEF Init
<1>3. RepliesOwned
  BY <1>2 DEF RepliesOwned, Addressed, Own, AtMostOne, NoneOf
<1> QED
  BY <1>1, <1>2, <1>3 DEF CallInv, Allowed, KeysFit, AloneIsAlone, CallHolds

LEMMA CallsHold ==
  ASSUME Sharing, Offered
  PROVE  SafeSpec => []CallInv
<1>1. CallInv /\ [Next]_vars => CallInv'
  BY CallInductive
<1> QED
  BY <1>1, InitHolds, PTL DEF SafeSpec

-----------------------------------------------------------------------------
(***************************************************************************)
(* What follows for the callers.                                           *)
(***************************************************************************)

(* Only a step of its own ends a call. *)
LEMMA OwnEnd ==
  ASSUME CallInv, [Next]_vars, NEW c \in Callers, pc[c] # "idle", pc'[c] = "idle"
  PROVE  Step(c)
<1>1. TypeOK
  BY DEF CallInv
<1>2. ~UNCHANGED vars /\ ~ProcessFeedbackFrame /\ ~Reports
  BY DEF vars, ProcessFeedbackFrame, Reports
<1>3. ASSUME NEW o \in Callers, NewCall(o) PROVE FALSE
  BY <1>1, <1>3 DEF NewCall, TypeOK, CallTypes
<1>4. \A o \in Callers : Step(o) => o = c
  BY <1>1, StepUntouched DEF Untouched
<1> QED
  BY <1>2, <1>3, <1>4 DEF Next

(* A call returns Ok when nothing is left of its list. *)
LEMMA OkIsLast ==
  ASSUME CallInv, NEW c \in Callers, Step(c), Closing(c, "ok")
  PROVE  Tail(todo[c]) = <<>>
<1>1. TypeOK
  BY DEF CallInv
<1>2. Continue(c) => Tail(todo[c]) = <<>>
  <2>1. ~Onward(c)
    BY DEF Closing, Ending, Onward, Going
  <2> QED
    BY <1>1, <2>1, ContinueCase
<1>3. Failed(c) => Continue(c)
  BY <1>1, FailedCase DEF Closing
<1>4. CASE Send(c)
  <2>1. Head(todo[c]).key # None => FALSE
    BY <1>1, <1>4, AwaitCase DEF Send, Closing, Ending
  <2> QED
    BY <1>2, <1>4, <2>1 DEF Send
<1>5. CASE SendFails(c) \/ TimesOut(c)
  BY <1>2, <1>3, <1>5 DEF SendFails, TimesOut
<1>6. CASE PopReply(c)
  BY <1>1, <1>2, <1>3, <1>6, PopTypes
<1> QED
  BY <1>4, <1>5, <1>6 DEF Step

(* A call beside no other that returns Ok did what it is for, whatever was *)
(* lost, refused or not sent on the way: enabled means enabled, a command  *)
(* leaves the drive enabled in its mode with its target.  The threads that *)
(* share the motor need only wait under keys of their own.                 *)
THEOREM OkIsDone ==
  ASSUME Sharing, Offered PROVE SafeSpec => OkMeansDone
<1>1. ASSUME CallInv, [Next]_vars, NEW c \in Callers, Ends(c, "ok"), alone[c], reports = 0
      PROVE  Done(c)
  <2>1. Step(c)
    BY <1>1, OwnEnd DEF Ends
  <2>2. setup' = setup /\ TypeOK
    BY <1>1, <2>1, StepKeeps DEF CallInv
  <2>3. Closing(c, "ok")
    <3>1. pc'[c] = "idle" /\ result'[c] = "ok"
      BY <1>1 DEF Ends
    <3> QED
      BY <2>1, <2>2, <3>1, StepOwn DEF Onward, Going, Closing
  <2> PICK m, w, t : m = op[c] /\ w = want[c] /\ t = Tail(todo[c])
    OBVIOUS
  <2>4. Ready(m, w, t)'
    BY <1>1, <2>1, <2>3, StepHeld
  <2>5. t = <<>>
    BY <1>1, <2>1, <2>3, OkIsLast
  <2>6. Ready(m, w, <<>>)'
    BY <2>4, <2>5
  <2> QED
    BY <2>2, <2>6, ReadyDone
<1>2. CallInv /\ [Next]_vars =>
        [\A c \in Callers : Ends(c, "ok") /\ alone[c] /\ reports = 0 => Done(c)]_vars
  BY <1>1
<1> QED
  BY <1>2, CallsHold, PTL DEF SafeSpec, OkMeansDone

(* No motion target reaches an enabled drive in a mode it is not for: what *)
(* is left of a command's list once its target is next sets no mode, so    *)
(* the drive is in the mode already.                                       *)
THEOREM TargetsFit ==
  ASSUME Sharing, Offered PROVE SafeSpec => TargetFitsMode
<1>1. ASSUME CallInv, NEW c \in Callers, pc[c] = "send", Head(todo[c]).frame = "target",
             op[c] = "command", alone[c], reports = 0, want[c] # "mit"
      PROVE  mode = want[c]
  <2> PICK s : s = todo[c]
    OBVIOUS
  <2>1. s \in Seq(Exchanges) /\ s # <<>>
    BY <1>1 DEF CallInv, TypeOK, CallTypes
  <2>2. Fits("command", want[c], s) /\ Ready("command", want[c], s)
    BY <1>1 DEF CallInv, CallHolds, ListHolds
  <2>3. s[1].frame = "target" /\ 1 \in 1 .. Len(s)
    BY <1>1, <2>1, Rest
  <2>4. Frameless(s, "mode")
    <3>1. Ordered(want[c], s)
      BY <2>2 DEF Fits, Steering
    <3>2. \A j \in 1 .. Len(s) : s[j].frame # "mode"
      BY <2>3, <3>1 DEF Ordered
    <3> QED
      BY <3>2 DEF Frameless
  <2> QED
    BY <1>1, <2>2, <2>4 DEF Ready, Loose
<1>2. CallInv =>
        (\A c \in Callers :
           /\ pc[c] = "send" /\ Head(todo[c]).frame = "target" /\ op[c] = "command"
           /\ alone[c] /\ reports = 0 /\ power = "enabled" /\ want[c] # "mit"
           => mode = want[c])
  BY <1>1
<1>3. CallInv /\ [Next]_vars =>
        [\A c \in Callers :
           /\ pc[c] = "send" /\ Head(todo[c]).frame = "target" /\ op[c] = "command"
           /\ alone[c] /\ reports = 0 /\ power = "enabled" /\ want[c] # "mit"
           => mode = want[c]]_vars
  BY <1>2
<1> QED
  BY <1>3, CallsHold, PTL DEF SafeSpec, TargetFitsMode

(* A call none of whose frames were lost or refused returns Ok, also while *)
(* other threads take replies out of the queue and put the rest in another *)
(* order: what it waits for stays on the wire or in the queue, and is the  *)
(* only thing it finds.                                                    *)
THEOREM IntactCallsSucceed ==
  ASSUME Sharing, Offered PROVE SafeSpec => IntactSucceeds
<1>1. ASSUME CallInv, [Next]_vars, NEW c \in Callers, Ends(c, "err"), reports = 0
      PROVE  ~intact'[c]
  <2>1. Step(c)
    BY <1>1, OwnEnd DEF Ends
  <2>2. Closing(c, "err")
    <3>1. pc'[c] = "idle" /\ result'[c] = "err"
      BY <1>1 DEF Ends
    <3> QED
      BY <1>1, <2>1, <3>1, StepOwn DEF Onward, Going, Closing, CallInv
  <2> QED
    BY <1>1, <2>1, <2>2, StepHeld
<1>2. CallInv => reports \in Nat
  BY DEF CallInv, TypeOK, WireTypes
<1>3. CallInv /\ [Next]_vars =>
        [\A c \in Callers : Ends(c, "err") => ~intact'[c] \/ reports > 0]_vars
  BY <1>1, <1>2
<1> QED
  BY <1>3, CallsHold, PTL DEF SafeSpec, IntactSucceeds

ServiceObjects == \A s \in Setups : s.driver # "mit"

(* The status a thread reads from a CANopen drive is one the drive had     *)
(* since it was asked for, whatever was lost or refused before and         *)
(* whatever other threads write meanwhile: what is found under the key     *)
(* awaited answers the request in hand.                                    *)
THEOREM StatusIsFresh ==
  ASSUME Sharing, ServiceObjects PROVE SafeSpec => QueryIsFresh
<1>1. Offered
  BY DEF ServiceObjects, Offered
<1>2. ASSUME CallInv, NEW c \in Callers, PopReply(c), NEW i \in First(Head(todo[c]).key),
             replies[i].val # None
      PROVE  replies[i].of = Head(todo[c]).frame /\ replies[i].val \in since[c]
  <2>1. setup.driver # "mit"
    BY <1>2 DEF CallInv, TypeOK, DriveTypes, ServiceObjects
  <2>2. TypeOK /\ Allowed /\ KeysFit /\ RepliesOwned
    BY <1>2, <2>1 DEF CallInv
  <2>3. Answers(c, replies[i])
    BY <1>2, <2>2, FindsItsOwn DEF PopReply
  <2> QED
    BY <1>2, <2>3 DEF Answers
<1>3. CallInv => (\A c \in Callers : PopReply(c) =>
        \A i \in First(Head(todo[c]).key) :
          Accepted(Head(todo[c]), replies[i]) /\ replies[i].val # None
          => replies[i].of = Head(todo[c]).frame /\ replies[i].val \in since[c])
  BY <1>2
<1>4. CallInv /\ [Next]_vars => [\A c \in Callers : PopReply(c) =>
        \A i \in First(Head(todo[c]).key) :
          Accepted(Head(todo[c]), replies[i]) /\ replies[i].val # None
          => replies[i].of = Head(todo[c]).frame /\ replies[i].val \in since[c]]_vars
  BY <1>3
<1> QED
  BY <1>1, <1>4, CallsHold, PTL DEF SafeSpec, QueryIsFresh
=============================================================================
