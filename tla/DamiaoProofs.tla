---------------------------- MODULE DamiaoProofs ----------------------------
(***************************************************************************)
(* The guards around a Damiao motor's flash and zero position, and its     *)
(* mode: what an accepted switch leaves it in, what a read returns, and    *)
(* that it stands still as it switches.  For any callers, modes and        *)
(* numbers of attempts.                                                    *)
(***************************************************************************)
EXTENDS DamiaoMotor, TLAPS

(* One call at a time, a motor that starts disabled, and a bus that loses  *)
(* nothing and answers in time.  The guards are the host's belief about    *)
(* the motor, so without any one of these they can be wrong.               *)
Orderly == Serialized /\ ~StartsEnabled /\ MaxLost = 0 /\ ~Late

USE DamiaoAssumption DEF DamiaoAssumption

GuardType ==
  /\ on \in BOOLEAN /\ mode \in Modes /\ cachedOn \in BOOLEAN
  /\ toHost \in Seq(Answers)
  /\ fresh \in [Callers -> SUBSET Kinds]
  /\ pc \in [Callers -> Places] /\ op \in [Callers -> Methods]
  /\ want \in [Callers -> Modes]

Alone == \A c, o \in Callers : pc[c] # "idle" /\ pc[o] # "idle" => c = o

(* The hint is right except between enable's frame and its store. *)
HintHolds == hint => ~on \/ \E c \in Callers : pc[c] = "enabled"

(* Places a call reaches only with the motor disabled. *)
DisabledPlaces == {"disabled", "zero", "store"}
PlacesHold == \A c \in Callers : pc[c] \in DisabledPlaces => ~on

(* The status store_parameters waits for tells the truth. *)
QueueTruthful == \A i \in 1 .. Len(toHost) : toHost[i].kind = "state" => toHost[i].on = on
CacheTruthful(c) == "state" \in fresh[c] => cachedOn = on
StatusHolds ==
  \A c \in Callers : /\ pc[c] \in {"ask", "await state"} => QueueTruthful
                     /\ pc[c] = "await state" => CacheTruthful(c)

(* Only enable itself enables; store_parameters never passes there. *)
OnlyEnable == \A c \in Callers : pc[c] \in {"enable", "enabled"} => op[c] = "enable"

GuardInv ==
  /\ GuardType /\ lost = 0
  /\ Alone /\ HintHolds /\ PlacesHold /\ StatusHolds /\ OnlyEnable

-----------------------------------------------------------------------------
(* With no loss the motor gets what is sent, and its answer is queued. *)
LEMMA SendsReach ==
  ASSUME GuardType, lost = 0, MaxLost = 0, NEW k, NEW v, k = "write" => v \in Modes,
         Sends(k, v)
  PROVE  /\ on' = (k = "enable" \/ (on /\ k # "disable"))
         /\ mode' \in Modes /\ lost' = 0
         /\ toHost' = toHost \o Answer(k, v)
         /\ toHost' \in Seq(Answers)
<1>1. /\ on' = (k = "enable" \/ (on /\ k # "disable"))
      /\ mode' = IF k = "write" THEN v ELSE mode
      /\ toHost' = toHost \o Answer(k, v) /\ lost' = lost
  <2>1. ~(lost < MaxLost)
    OBVIOUS
  <2> QED
    BY <2>1, Zenon DEF Sends, Reacts
<1>2. Answer(k, v) \in Seq(Answers)
  <2>1. \A r \in Answers : <<r>> \in Seq(Answers)
    OBVIOUS
  <2>2. CASE k = "read"
    BY <2>1, <2>2 DEF GuardType, Answer, Answers, Kinds
  <2>3. CASE k = "rhold"
    BY <2>1, <2>3 DEF GuardType, Answer, Answers, Kinds
  <2>4. CASE k = "write"
    BY <2>1, <2>4 DEF GuardType, Answer, Answers, Kinds
  <2>5. CASE k = "ask"
    BY <2>1, <2>5 DEF GuardType, Answer, Answers, Kinds
  <2>6. CASE k \notin {"read", "rhold", "write", "ask"}
    <3>1. Answer(k, v) = <<>>
      BY <2>6 DEF Answer
    <3> QED
      BY <3>1
  <2> QED
    BY <2>2, <2>3, <2>4, <2>5, <2>6
<1>3. toHost' \in Seq(Answers)
  BY <1>1, <1>2 DEF GuardType
<1>4. mode' \in Modes
  BY <1>1 DEF GuardType
<1> QED
  BY <1>1, <1>3, <1>4

(* A call starts while nobody else is in one and no answer is on its way. *)
LEMMA BeginAlone ==
  ASSUME Orderly, GuardInv, NEW c \in Callers, NEW m, Begin(c, m)
  PROVE  /\ \A o \in Callers : pc[o] = "idle"
         /\ toHost = <<>> /\ m \in Methods
         /\ op' = [op EXCEPT ![c] = m] /\ op' \in [Callers -> Methods]
         /\ UNCHANGED <<on, mode, toHost, lost, hint, cachedOn, fresh>>
  BY DEF Orderly, GuardInv, GuardType, Begin, motorVars, cacheVars

LEMMA NewCallKeeps ==
  ASSUME Orderly, GuardInv, NEW c \in Callers, NewCall(c)
  PROVE  GuardInv'
<1>1. /\ \A o \in Callers : pc[o] = "idle"
      /\ toHost = <<>> /\ op' \in [Callers -> Methods]
      /\ UNCHANGED <<on, mode, toHost, lost, hint, cachedOn, fresh>>
  BY BeginAlone DEF NewCall, Plain, WithMode, Get, Store, SetZero
<1>2. want' \in [Callers -> Modes]
  BY DEF NewCall, Plain, WithMode, Get, Store, SetZero, GuardInv, GuardType
<1>3. PICK p \in Places :
        /\ pc' = [pc EXCEPT ![c] = p]
        /\ p \notin {"enabled", "disabled", "store", "await state"}
        /\ p = "zero" => hint
        /\ p = "enable" => op' = [op EXCEPT ![c] = "enable"]
  <2>1. CASE Plain(c)
    <3>1. PICK m \in {"enable", "disable"} : Begin(c, m) /\ Goto(c, m)
      BY <2>1 DEF Plain
    <3>2. op' = [op EXCEPT ![c] = m] /\ pc' = [pc EXCEPT ![c] = m]
      BY <3>1, BeginAlone DEF Goto
    <3>3. m \in Places /\ m \notin {"enabled", "disabled", "store", "await state", "zero"}
      BY DEF Places
    <3> QED
      BY <3>2, <3>3
  <2>2. CASE WithMode(c) \/ Get(c) \/ Store(c) \/ SetZero(c)
    BY <2>2 DEF WithMode, Get, Store, SetZero, MayZero, Goto, Places
  <2> QED
    BY <2>1, <2>2 DEF NewCall
<1>4. GuardType' /\ lost' = 0
  BY <1>1, <1>2, <1>3 DEF GuardInv, GuardType
<1>5. \A o \in Callers : pc'[o] = IF o = c THEN p ELSE "idle"
  BY <1>1, <1>3 DEF GuardInv, GuardType
<1>6. hint => ~on
  BY <1>1 DEF GuardInv, HintHolds
<1>7. Alone'
  BY <1>5 DEF Alone
<1>8. HintHolds'
  BY <1>1, <1>6 DEF HintHolds
<1>9. PlacesHold'
  BY <1>1, <1>3, <1>5, <1>6 DEF PlacesHold, DisabledPlaces
<1>10. StatusHolds'
  <2>1. QueueTruthful'
    BY <1>1 DEF QueueTruthful
  <2>2. \A o \in Callers : pc'[o] \in {p, "idle"}
    BY <1>5
  <2>3. p # "await state"
    BY <1>3
  <2> QED
    BY <2>1, <2>2, <2>3 DEF StatusHolds
<1>11. OnlyEnable'
  <2>1. \A o \in Callers : pc'[o] \in {"enable", "enabled"} => o = c /\ p = "enable"
    <3>1. \A o \in Callers : o # c => pc'[o] = "idle"
      BY <1>5
    <3>2. pc'[c] = p
      BY <1>5
    <3>3. p # "enabled"
      BY <1>3
    <3> QED
      BY <3>1, <3>2, <3>3
  <2>2. p = "enable" => op'[c] = "enable"
    BY <1>3 DEF GuardInv, GuardType
  <2> QED
    BY <2>1, <2>2 DEF OnlyEnable
<1> QED
  BY <1>4, <1>7, <1>8, <1>9, <1>10, <1>11 DEF GuardInv

-----------------------------------------------------------------------------
(* Most steps of a call neither switch the motor nor touch the hint, and   *)
(* stay away from the places the invariant speaks of.                      *)
Sensitive == DisabledPlaces \cup {"enable", "enabled", "ask", "await state"}

Quiet(c) ==
  /\ pc[c] \notin {"idle", "enabled"}
  /\ GuardType' /\ lost' = 0 /\ UNCHANGED <<on, hint>>
  /\ \E p \in Places \ Sensitive : pc' = [pc EXCEPT ![c] = p]

LEMMA QuietKeeps ==
  ASSUME GuardInv, NEW c \in Callers, Quiet(c)
  PROVE  GuardInv'
<1>1. PICK p \in Places \ Sensitive : pc' = [pc EXCEPT ![c] = p]
  BY DEF Quiet
<1>2. \A o \in Callers : pc'[o] = IF o = c THEN p ELSE pc[o]
  BY <1>1 DEF GuardInv, GuardType
<1>3. \A o \in Callers \ {c} : pc'[o] = "idle"
  BY <1>2 DEF Quiet, GuardInv, Alone
<1>4. p \notin Sensitive /\ pc[c] # "enabled"
  BY DEF Quiet
<1>5. \A o \in Callers : pc'[o] \notin Sensitive
  BY <1>2, <1>3, <1>4 DEF Sensitive, DisabledPlaces
<1>6. Alone'
  BY <1>3 DEF Alone
<1>7. HintHolds'
  <2>1. \A o \in Callers : pc[o] # "enabled"
    BY <1>2, <1>3, <1>4
  <2> QED
    BY <2>1 DEF HintHolds, GuardInv, Quiet
<1>8. PlacesHold' /\ StatusHolds' /\ OnlyEnable'
  BY <1>5 DEF PlacesHold, StatusHolds, OnlyEnable, Sensitive
<1> QED
  BY <1>6, <1>7, <1>8 DEF GuardInv, Quiet

(* The part of the type that a step leaving through a place p keeps. *)
LEMMA TypeKept ==
  ASSUME GuardType, NEW c \in Callers, NEW p \in Places, pc' = [pc EXCEPT ![c] = p],
         on' \in BOOLEAN, mode' \in Modes, toHost' \in Seq(Answers),
         fresh' = fresh \/ fresh' = [fresh EXCEPT ![c] = {}], UNCHANGED <<cachedOn, op, want>>
  PROVE  GuardType'
  BY DEF GuardType

LEMMA WaitingSteps ==
  ASSUME GuardInv, NEW c \in Callers,
         SendFails(c) \/ ReadOutOfTime(c) \/ GotReply(c) \/ NoReply(c) \/ NoHold(c)
           \/ GotHold(c) \/ ArmAckWait(c) \/ GotAck(c) \/ NoAck(c)
  PROVE  Quiet(c)
<1> DEFINE Dest == Places \ Sensitive
<1>1. /\ UNCHANGED <<on, mode, toHost, lost, hint, cachedOn, op, want>>
      /\ fresh' = fresh \/ fresh' = [fresh EXCEPT ![c] = {}]
  BY DEF SendFails, ReadOutOfTime, GotReply, NoReply, NoHold, GotHold, ArmAckWait, GotAck,
         NoAck, motorVars, cacheVars, callVars, loopVars
<1>2. pc[c] \notin {"idle", "enabled"}
  BY DEF SendFails, ReadOutOfTime, GotReply, NoReply, NoHold, GotHold, ArmAckWait, GotAck, NoAck
<1>3. {"idle", "hold", "clear", "write", "await ack", "finish"} \subseteq Dest
  BY DEF Places, Sensitive, DisabledPlaces
<1>4. \E p \in {"idle", "hold", "clear", "write", "await ack", "finish"} :
        pc' = [pc EXCEPT ![c] = p]
  BY DEF SendFails, ReadOutOfTime, GotReply, NoReply, NoHold, GotHold, ArmAckWait, GotAck,
         NoAck, NotYet, Returns, Goto
<1>5. \E p \in Dest : pc' = [pc EXCEPT ![c] = p]
  BY <1>3, <1>4
<1>6. GuardType' /\ lost' = 0
  BY <1>1, <1>5, TypeKept DEF GuardInv, GuardType
<1> QED
  BY <1>1, <1>2, <1>5, <1>6 DEF Quiet

LEMMA SendingSteps ==
  ASSUME GuardInv, MaxLost = 0, NEW c \in Callers,
         SingleFrame(c) \/ ReadRequest(c) \/ HoldRequest(c) \/ Clear(c) \/ WriteRequest(c)
           \/ FinishModeSwitch(c)
  PROVE  Quiet(c)
<1> DEFINE Dest == Places \ Sensitive
<1>1. /\ UNCHANGED <<hint, cachedOn, op, want>>
      /\ fresh' = fresh \/ fresh' = [fresh EXCEPT ![c] = {}]
      /\ pc[c] \notin {"idle", "enabled"}
  BY DEF SingleFrame, ReadRequest, HoldRequest, Clear, WriteRequest, FinishModeSwitch,
         cacheVars, callVars, loopVars
<1>2. {"idle", "await reply", "await hold", "write", "clear", "arm", "read"} \subseteq Dest
  BY DEF Places, Sensitive, DisabledPlaces
<1>3. \E p \in {"idle", "await reply", "await hold", "write", "clear", "arm", "read"} :
        pc' = [pc EXCEPT ![c] = p]
  BY DEF SingleFrame, ReadRequest, HoldRequest, Clear, WriteRequest, FinishModeSwitch,
         Returns, Goto
<1>4. \E p \in Dest : pc' = [pc EXCEPT ![c] = p]
  BY <1>2, <1>3
<1>5. on' = on /\ mode' \in Modes /\ lost' = 0 /\ toHost' \in Seq(Answers)
  <2>1. ASSUME NEW k \in {"move", "zero", "store", "rhold", "still", "write"}, NEW v,
               k = "write" => v \in Modes, Sends(k, v)
        PROVE  on' = on /\ mode' \in Modes /\ lost' = 0 /\ toHost' \in Seq(Answers)
    <3>1. on' = (k = "enable" \/ (on /\ k # "disable")) /\ mode' \in Modes /\ lost' = 0
          /\ toHost' \in Seq(Answers)
      BY <2>1, SendsReach DEF GuardInv
    <3> QED
      BY <3>1 DEF GuardInv, GuardType
  <2>2. want[c] \in Modes /\ mode \in Modes
    BY DEF GuardInv, GuardType
  <2>3. CASE SingleFrame(c)
    <3>1. CASE Sends("move", want[c])
      BY <2>1, <3>1
    <3>2. CASE pc[c] = "zero" /\ Sends("zero", mode)
      BY <2>1, <3>2
    <3>3. CASE pc[c] = "store" /\ Sends("store", mode)
      BY <2>1, <3>3
    <3> QED
      BY <2>3, <3>1, <3>2, <3>3 DEF SingleFrame
  <2>4. CASE ReadRequest(c)
    <3>1. UNCHANGED <<on, mode>> /\ lost' = lost
      <4>1. ~(lost < MaxLost)
        BY DEF GuardInv
      <4> QED
        BY <2>4, <4>1 DEF ReadRequest, motorVars
    <3>2. toHost' = toHost \o Answer("read", mode) \/ toHost' = toHost
      BY <2>4 DEF ReadRequest
    <3>3. Answer("read", mode) \in Seq(Answers)
      <4>1. Answer("read", mode) = <<[kind |-> "reply", mode |-> mode, on |-> on]>>
        BY DEF Answer
      <4>2. [kind |-> "reply", mode |-> mode, on |-> on] \in Answers
        BY DEF Answers, Kinds, GuardInv, GuardType
      <4>3. \A r \in Answers : <<r>> \in Seq(Answers)
        OBVIOUS
      <4> QED
        BY <4>1, <4>2, <4>3
    <3>4. toHost' \in Seq(Answers)
      <4> HIDE DEF Answers
      <4>1. toHost \in Seq(Answers)
        BY DEF GuardInv, GuardType
      <4>2. CASE toHost' = toHost
        BY <4>1, <4>2
      <4>3. CASE toHost' = toHost \o Answer("read", mode)
        BY <3>3, <4>1, <4>3
      <4> QED
        BY <3>2, <4>2, <4>3
    <3> QED
      BY <3>1, <3>4 DEF GuardInv, GuardType
  <2>5. CASE HoldRequest(c)
    BY <2>1, <2>5 DEF HoldRequest
  <2>6. CASE Clear(c)
    <3>1. CASE Sends("still", Head(left[c]))
      BY <2>1, <3>1
    <3>2. CASE UNCHANGED <<motorVars, toHost, lost>>
      BY <3>2 DEF motorVars, GuardInv, GuardType
    <3> QED
      BY <2>6, <3>1, <3>2 DEF Clear
  <2>7. CASE WriteRequest(c)
    BY <2>1, <2>2, <2>7 DEF WriteRequest
  <2>8. CASE FinishModeSwitch(c)
    <3>1. CASE Sends("still", want[c])
      BY <2>1, <3>1
    <3>2. CASE UNCHANGED <<motorVars, toHost, lost>>
      BY <3>2 DEF motorVars, GuardInv, GuardType
    <3> QED
      BY <2>8, <3>1, <3>2 DEF FinishModeSwitch
  <2> QED
    BY <2>3, <2>4, <2>5, <2>6, <2>7, <2>8
<1>6. on' \in BOOLEAN
  BY <1>5 DEF GuardInv, GuardType
<1>7. GuardType'
  BY <1>1, <1>4, <1>5, <1>6, TypeKept DEF GuardInv
<1> QED
  BY <1>1, <1>4, <1>5, <1>7 DEF Quiet

LEMMA SwitchKeeps == ASSUME GuardInv, MaxLost = 0, NEW c \in Callers, Switch(c) PROVE GuardInv'
<1>1. PICK k \in {"enable", "disable"} :
        /\ Sends(k, mode)
        /\ pc' = [pc EXCEPT ![c] = IF k = "enable" THEN "enabled" ELSE "disabled"]
        /\ k = "enable" => pc[c] = "enable"
  BY DEF Switch, Goto
<1>2. on' = (k = "enable" \/ (on /\ k # "disable")) /\ mode' \in Modes /\ lost' = 0
      /\ toHost' \in Seq(Answers)
  BY <1>1, SendsReach DEF GuardInv
<1>3. on' = (k = "enable")
  BY <1>2
<1> DEFINE p == IF k = "enable" THEN "enabled" ELSE "disabled"
<1>4. p \in Places
  BY DEF Places
<1>5. UNCHANGED <<hint, cachedOn, fresh, op, want>> /\ pc[c] # "idle"
  BY DEF Switch, cacheVars, callVars
<1>6. GuardType'
  BY <1>1, <1>2, <1>3, <1>4, <1>5, TypeKept DEF GuardInv
<1>7. \A o \in Callers : pc'[o] = IF o = c THEN p ELSE "idle"
  BY <1>1, <1>5 DEF GuardInv, GuardType, Alone
<1>8. Alone'
  BY <1>7 DEF Alone
<1>9. HintHolds'
  BY <1>3, <1>7 DEF HintHolds
<1>10. PlacesHold' /\ StatusHolds'
  <2>1. \A o \in Callers : pc'[o] \in DisabledPlaces => k = "disable"
    BY <1>7 DEF DisabledPlaces
  <2>2. \A o \in Callers : pc'[o] \notin {"ask", "await state"}
    BY <1>7
  <2> QED
    BY <1>3, <2>1, <2>2 DEF PlacesHold, StatusHolds
<1>11. OnlyEnable'
  BY <1>1, <1>5, <1>7 DEF OnlyEnable, GuardInv
<1> QED
  BY <1>2, <1>6, <1>8, <1>9, <1>10, <1>11 DEF GuardInv

LEMMA SetHintKeeps == ASSUME GuardInv, NEW c \in Callers, SetHint(c) PROVE GuardInv'
<1>1. /\ pc[c] \in {"enabled", "disabled"} /\ hint' = (pc[c] = "disabled")
      /\ UNCHANGED <<on, mode, toHost, lost, cachedOn, fresh, op, want>>
  BY DEF SetHint, motorVars, cacheVars, callVars
<1>2. PICK p \in {"idle", "store"} :
        /\ pc' = [pc EXCEPT ![c] = p]
        /\ p = "store" => op[c] = "store"
  BY DEF SetHint, Returns, Goto
<1>3. GuardType'
  <2>1. p \in Places
    BY DEF Places
  <2> QED
    BY <1>1, <1>2, <2>1, TypeKept DEF GuardInv, GuardType
<1>4. \A o \in Callers : pc'[o] = IF o = c THEN p ELSE "idle"
  BY <1>1, <1>2 DEF GuardInv, GuardType, Alone
<1>5. pc[c] = "disabled" => ~on
  BY DEF GuardInv, PlacesHold, DisabledPlaces
<1>6. p = "store" => pc[c] = "disabled"
  BY <1>1, <1>2 DEF GuardInv, OnlyEnable
<1>7. HintHolds'
  BY <1>1, <1>5 DEF HintHolds
<1>8. Alone' /\ OnlyEnable'
  BY <1>4 DEF Alone, OnlyEnable
<1>9. PlacesHold' /\ StatusHolds'
  BY <1>1, <1>4, <1>5, <1>6 DEF PlacesHold, StatusHolds, DisabledPlaces
<1> QED
  BY <1>1, <1>3, <1>7, <1>8, <1>9 DEF GuardInv

-----------------------------------------------------------------------------
(* What is appended to a truthful queue about the motor as it is keeps it  *)
(* truthful.                                                               *)
LEMMA TruthfulAppend ==
  ASSUME GuardType, QueueTruthful, NEW r \in Answers, r.on = on,
         toHost' = Append(toHost, r) \/ toHost' = toHost \o <<r>> \/ toHost' = toHost, on' = on
  PROVE  QueueTruthful'
<1>1. toHost \in Seq(Answers)
  BY DEF GuardType
<1>2. toHost' = Append(toHost, r) \/ toHost' = toHost
  BY <1>1
<1>3. CASE toHost' = Append(toHost, r)
  <2>1. /\ Len(toHost') = Len(toHost) + 1
        /\ \A i \in 1 .. Len(toHost) : toHost'[i] = toHost[i]
        /\ toHost'[Len(toHost) + 1] = r
        /\ Len(toHost) \in Nat
    BY <1>1, <1>3
  <2> QED
    BY <2>1 DEF QueueTruthful
<1> QED
  BY <1>2, <1>3 DEF QueueTruthful

LEMMA TruthfulTail ==
  ASSUME GuardType, QueueTruthful, toHost # <<>>, toHost' = Tail(toHost), on' = on
  PROVE  QueueTruthful' /\ (Head(toHost).kind = "state" => Head(toHost).on = on)
<1>1. toHost \in Seq(Answers)
  BY DEF GuardType
<1>2. /\ Len(toHost') = Len(toHost) - 1 /\ Len(toHost) \in Nat \ {0}
      /\ \A i \in 1 .. Len(toHost) - 1 : toHost'[i] = toHost[i + 1]
      /\ Head(toHost) = toHost[1]
  BY <1>1
<1> QED
  BY <1>2 DEF QueueTruthful

LEMMA StatusRequestKeeps ==
  ASSUME GuardInv, MaxLost = 0, NEW c \in Callers, StatusRequest(c)
  PROVE  GuardInv'
<1>1. /\ pc[c] = "ask" /\ fresh' = [fresh EXCEPT ![c] = {}]
      /\ UNCHANGED <<hint, cachedOn, op, want>>
  BY DEF StatusRequest, cacheVars, callVars
<1>2. PICK p \in {"await state", "pre-disable"} : pc' = [pc EXCEPT ![c] = p]
  BY DEF StatusRequest, Goto
<1>3. p \in Places
  BY DEF Places
<1> DEFINE r == [kind |-> "state", mode |-> mode, on |-> on]
<1>4. r \in Answers
  BY DEF Answers, Kinds, GuardInv, GuardType
<1>5. /\ on' = on /\ mode' \in Modes /\ lost' = 0 /\ toHost' \in Seq(Answers)
      /\ toHost' = toHost \o <<r>> \/ toHost' = toHost
  <2>1. CASE Sends("ask", mode)
    <3>1. on' = ("ask" = "enable" \/ (on /\ "ask" # "disable")) /\ mode' \in Modes
          /\ lost' = 0 /\ toHost' \in Seq(Answers) /\ toHost' = toHost \o Answer("ask", mode)
      BY <2>1, SendsReach DEF GuardInv
    <3>2. Answer("ask", mode) = <<r>>
      BY DEF Answer
    <3> QED
      BY <3>1, <3>2 DEF GuardInv, GuardType
  <2>2. CASE UNCHANGED <<motorVars, toHost, lost>>
    BY <2>2 DEF motorVars, GuardInv, GuardType
  <2> QED
    BY <2>1, <2>2 DEF StatusRequest
<1>6. GuardType'
  BY <1>1, <1>2, <1>3, <1>5, TypeKept DEF GuardInv, GuardType
<1>7. \A o \in Callers : pc'[o] = IF o = c THEN p ELSE "idle"
  BY <1>1, <1>2 DEF GuardInv, GuardType, Alone
<1>8. Alone' /\ OnlyEnable'
  BY <1>7 DEF Alone, OnlyEnable
<1>9. HintHolds' /\ PlacesHold'
  <2>1. \A o \in Callers : pc[o] # "enabled"
    BY <1>1 DEF GuardInv, Alone
  <2>2. hint => ~on
    BY <2>1 DEF GuardInv, HintHolds
  <2>3. \A o \in Callers : pc'[o] \notin DisabledPlaces
    BY <1>7 DEF DisabledPlaces
  <2> QED
    BY <1>1, <1>5, <2>2, <2>3 DEF HintHolds, PlacesHold
<1>10. StatusHolds'
  <2>1. QueueTruthful
    BY <1>1 DEF GuardInv, StatusHolds
  <2>2. QueueTruthful'
    BY <1>4, <1>5, <2>1, TruthfulAppend DEF GuardInv
  <2>3. \A o \in Callers : pc'[o] = "await state" => o = c
    BY <1>7
  <2>4. fresh'[c] = {}
    BY <1>1 DEF GuardInv, GuardType
  <2> QED
    BY <2>2, <2>3, <2>4 DEF StatusHolds, CacheTruthful
<1> QED
  BY <1>5, <1>6, <1>8, <1>9, <1>10 DEF GuardInv

LEMMA StatusKnownKeeps ==
  ASSUME GuardInv, NEW c \in Callers, StatusKnown(c)
  PROVE  GuardInv'
<1>1. /\ pc[c] = "await state"
      /\ UNCHANGED <<on, mode, toHost, lost, hint, cachedOn, fresh, op, want>>
  BY DEF StatusKnown, motorVars, cacheVars, callVars
<1>2. PICK p \in {"store", "pre-disable"} :
        /\ pc' = [pc EXCEPT ![c] = p]
        /\ p = "store" => "state" \in fresh[c] /\ ~cachedOn
  BY DEF StatusKnown, Answered, SaysDisabled, Goto
<1>3. GuardType'
  <2>1. p \in Places
    BY DEF Places
  <2> QED
    BY <1>1, <1>2, <2>1, TypeKept DEF GuardInv, GuardType
<1>4. \A o \in Callers : pc'[o] = IF o = c THEN p ELSE "idle"
  BY <1>1, <1>2 DEF GuardInv, GuardType, Alone
<1>5. p = "store" => ~on
  BY <1>1, <1>2 DEF GuardInv, StatusHolds, CacheTruthful
<1>6. Alone' /\ OnlyEnable' /\ StatusHolds'
  BY <1>4 DEF Alone, OnlyEnable, StatusHolds
<1>7. HintHolds'
  <2>1. \A o \in Callers : pc[o] # "enabled"
    BY <1>1 DEF GuardInv, Alone
  <2> QED
    BY <1>1, <2>1 DEF GuardInv, HintHolds
<1>8. PlacesHold'
  <2>1. \A o \in Callers : pc'[o] \in DisabledPlaces => p = "store"
    BY <1>4 DEF DisabledPlaces
  <2> QED
    BY <1>1, <1>5, <2>1 DEF PlacesHold
<1> QED
  BY <1>1, <1>3, <1>6, <1>7, <1>8 DEF GuardInv

LEMMA ProcessFeedbackFrameKeeps == ASSUME GuardInv, ProcessFeedbackFrame PROVE GuardInv'
<1> DEFINE a == Head(toHost)
<1>1. /\ toHost # <<>> /\ toHost' = Tail(toHost)
      /\ cachedOn' = IF a.kind = "state" THEN a.on ELSE cachedOn
      /\ fresh' = [c \in Callers |-> fresh[c] \cup {a.kind}]
      /\ UNCHANGED <<on, mode, lost, hint, pc, op, want>>
  BY DEF ProcessFeedbackFrame, motorVars, callVars
<1>2. a \in Answers /\ toHost' \in Seq(Answers)
  BY <1>1 DEF GuardInv, GuardType
<1>3. a.kind \in Kinds /\ a.on \in BOOLEAN
  BY <1>2 DEF Answers
<1>4. GuardType'
  <2>1. fresh' \in [Callers -> SUBSET Kinds]
    BY <1>1, <1>3 DEF GuardInv, GuardType
  <2>2. cachedOn' \in BOOLEAN
    BY <1>1, <1>3 DEF GuardInv, GuardType
  <2> QED
    BY <1>1, <1>2, <2>1, <2>2 DEF GuardInv, GuardType
<1>5. Alone' /\ HintHolds' /\ PlacesHold' /\ OnlyEnable'
  BY <1>1 DEF GuardInv, Alone, HintHolds, PlacesHold, OnlyEnable
<1>6. StatusHolds'
  <2>1. QueueTruthful => QueueTruthful' /\ (a.kind = "state" => a.on = on)
    BY <1>1, TruthfulTail DEF GuardInv
  <2>2. ASSUME NEW c \in Callers, pc[c] = "await state"
        PROVE  CacheTruthful(c)'
    <3>1. QueueTruthful /\ CacheTruthful(c)
      BY <2>2 DEF GuardInv, StatusHolds
    <3>2. CASE a.kind = "state"
      BY <1>1, <2>1, <3>1, <3>2 DEF CacheTruthful
    <3>3. CASE a.kind # "state"
      <4>1. "state" \in fresh'[c] => "state" \in fresh[c]
        BY <1>1, <3>3
      <4>2. cachedOn' = cachedOn
        BY <1>1, <3>3
      <4> QED
        BY <1>1, <3>1, <4>1, <4>2 DEF CacheTruthful
    <3> QED
      BY <3>2, <3>3
  <2> QED
    BY <1>1, <2>1, <2>2 DEF GuardInv, StatusHolds
<1> QED
  BY <1>1, <1>4, <1>5, <1>6 DEF GuardInv

LEMMA ReportsKeeps == ASSUME GuardInv, Reports PROVE GuardInv'
<1> DEFINE r == [kind |-> "state", mode |-> mode, on |-> on]
<1>1. /\ toHost' = Append(toHost, r)
      /\ UNCHANGED <<on, mode, lost, hint, cachedOn, fresh, pc, op, want>>
  BY DEF Reports, motorVars, cacheVars, callVars
<1>2. r \in Answers
  BY DEF Answers, Kinds, GuardInv, GuardType
<1>3. GuardType'
  BY <1>1, <1>2 DEF GuardInv, GuardType
<1>4. Alone' /\ HintHolds' /\ PlacesHold' /\ OnlyEnable'
  BY <1>1 DEF GuardInv, Alone, HintHolds, PlacesHold, OnlyEnable
<1>5. StatusHolds'
  <2>1. QueueTruthful => QueueTruthful'
    BY <1>1, <1>2, TruthfulAppend DEF GuardInv
  <2>2. \A c \in Callers : CacheTruthful(c) => CacheTruthful(c)'
    BY <1>1 DEF CacheTruthful
  <2> QED
    BY <1>1, <2>1, <2>2 DEF GuardInv, StatusHolds
<1> QED
  BY <1>1, <1>3, <1>4, <1>5 DEF GuardInv

-----------------------------------------------------------------------------
LEMMA GuardInitial == ASSUME Orderly, Init PROVE GuardInv
<1>1. GuardType
  <2>1. <<>> \in Seq(Answers)
    OBVIOUS
  <2>2. "idle" \in Places /\ "get" \in Methods
    BY DEF Places, Methods
  <2>3. on \in BOOLEAN /\ mode \in Modes /\ cachedOn \in BOOLEAN
    BY DEF Orderly, Init
  <2> QED
    BY <2>1, <2>2, <2>3 DEF Init, GuardType
<1>2. ~on /\ lost = 0
  BY DEF Orderly, Init
<1>3. \A c \in Callers : pc[c] = "idle"
  BY DEF Init
<1> QED
  BY <1>1, <1>2, <1>3
  DEF GuardInv, Alone, HintHolds, PlacesHold, StatusHolds, OnlyEnable, DisabledPlaces

LEMMA GuardInductive == ASSUME Orderly, GuardInv, [Next]_vars PROVE GuardInv'
<1>1. MaxLost = 0
  BY DEF Orderly
<1>2. ASSUME NEW c \in Callers, Step(c) PROVE GuardInv'
  <2>1. CASE \/ SendFails(c) \/ ReadOutOfTime(c) \/ GotReply(c) \/ NoReply(c) \/ NoHold(c)
             \/ GotHold(c) \/ ArmAckWait(c) \/ GotAck(c) \/ NoAck(c)
    BY <2>1, WaitingSteps, QuietKeeps
  <2>2. CASE \/ SingleFrame(c) \/ ReadRequest(c) \/ HoldRequest(c) \/ Clear(c)
             \/ WriteRequest(c) \/ FinishModeSwitch(c)
    BY <1>1, <2>2, SendingSteps, QuietKeeps
  <2>3. CASE Switch(c)
    BY <1>1, <2>3, SwitchKeeps
  <2>4. CASE SetHint(c)
    BY <2>4, SetHintKeeps
  <2>5. CASE StatusRequest(c)
    BY <1>1, <2>5, StatusRequestKeeps
  <2>6. CASE StatusKnown(c)
    BY <2>6, StatusKnownKeeps
  <2> QED
    BY <1>2, <2>1, <2>2, <2>3, <2>4, <2>5, <2>6 DEF Step
<1>3. CASE UNCHANGED vars
  <2>1. UNCHANGED <<on, mode, toHost, lost, hint, cachedOn, fresh, pc, op, want>>
    BY <1>3 DEF vars, motorVars, cacheVars, callVars
  <2> QED
    BY <2>1 DEF GuardInv, GuardType, Alone, HintHolds, PlacesHold, StatusHolds, OnlyEnable,
                QueueTruthful, CacheTruthful
<1> QED
  BY <1>2, <1>3, NewCallKeeps, ProcessFeedbackFrameKeeps, ReportsKeeps DEF Next

LEMMA Guarded == ASSUME Orderly PROVE SafeSpec => []GuardInv
<1>1. Init => GuardInv
  BY GuardInitial
<1>2. GuardInv /\ [Next]_vars => GuardInv'
  BY GuardInductive
<1> QED
  BY <1>1, <1>2, PTL DEF SafeSpec

(* Whatever the callers do, set_zero_position and store_parameters reach   *)
(* the motor only while it is disabled.                                    *)
THEOREM WritesAreGuarded == ASSUME Orderly PROVE SafeSpec => WritesOnlyDisabled
<1>1. GuardInv =>
        [\A c \in Callers : pc[c] \in {"zero", "store"} /\ ReturnsOk(c) => ~on]_vars
  BY DEF GuardInv, PlacesHold, DisabledPlaces
<1> QED
  BY <1>1, Guarded, PTL DEF WritesOnlyDisabled

-----------------------------------------------------------------------------
(***************************************************************************)
(* Types, whatever is lost, late or failing and whoever calls.             *)
(***************************************************************************)
LEMMA OneAnswer ==
  ASSUME mode \in Modes, on \in BOOLEAN, NEW k, NEW v, k = "write" => v \in Modes
  PROVE  Answer(k, v) \in Seq(Answers) /\ Len(Answer(k, v)) <= 1
<1>1. \A r \in Answers : <<r>> \in Seq(Answers) /\ Len(<<r>>) = 1
  OBVIOUS
<1>2. CASE k = "read"
  <2>1. [kind |-> "reply", mode |-> mode, on |-> on] \in Answers
    BY DEF Answers, Kinds
  <2> QED
    BY <1>1, <1>2, <2>1 DEF Answer
<1>3. CASE k = "rhold"
  <2>1. [kind |-> "hold", mode |-> mode, on |-> on] \in Answers
    BY DEF Answers, Kinds
  <2> QED
    BY <1>1, <1>3, <2>1 DEF Answer
<1>4. CASE k = "write"
  <2>1. [kind |-> "ack", mode |-> v, on |-> on] \in Answers
    BY <1>4 DEF Answers, Kinds
  <2> QED
    BY <1>1, <1>4, <2>1 DEF Answer
<1>5. CASE k = "ask"
  <2>1. [kind |-> "state", mode |-> mode, on |-> on] \in Answers
    BY DEF Answers, Kinds
  <2> QED
    BY <1>1, <1>5, <2>1 DEF Answer
<1>6. CASE k \notin {"read", "rhold", "write", "ask"}
  <2>1. Answer(k, v) = <<>>
    BY <1>6 DEF Answer
  <2> QED
    BY <2>1
<1> QED
  BY <1>2, <1>3, <1>4, <1>5, <1>6

LEMMA QueueGrows ==
  ASSUME WireTypes, Len(toHost) < MaxAnswers, NEW t \in Seq(Answers), Len(t) <= 1
  PROVE  toHost \o t \in Seq(Answers) /\ Len(toHost \o t) <= MaxAnswers
<1>1. \A s, u \in Seq(Answers) : s \o u \in Seq(Answers) /\ Len(s \o u) = Len(s) + Len(u)
  OBVIOUS
<1>2. \A s \in Seq(Answers) : Len(s) \in Nat
  OBVIOUS
<1> QED
  BY <1>1, <1>2 DEF WireTypes

LEMMA SendsTypes ==
  ASSUME WireTypes, NEW k, NEW v, k \in {"write", "move"} => v \in Modes, Sends(k, v)
  PROVE  WireTypes'
<1>1. toHost' \in Seq(Answers) /\ Len(toHost') <= MaxAnswers
  <2>1. CASE toHost' = toHost
    BY <2>1 DEF WireTypes
  <2>2. CASE toHost' = toHost \o Answer(k, v)
    <3>1. Len(toHost) < MaxAnswers
      BY DEF Sends
    <3>2. Answer(k, v) \in Seq(Answers) /\ Len(Answer(k, v)) <= 1
      BY OneAnswer DEF WireTypes
    <3> QED
      BY <2>2, <3>1, <3>2, QueueGrows
  <2> QED
    BY <2>1, <2>2 DEF Sends
<1>2. on' \in BOOLEAN /\ mode' \in Modes /\ moving' \in SUBSET Channels
  <2>1. CASE Reacts(k, v)
    <3>1. on' \in BOOLEAN
      BY <2>1, Zenon DEF Reacts
    <3>2. mode' \in Modes
      BY <2>1 DEF Reacts, WireTypes
    <3>3. moving' \in SUBSET Channels
      BY <2>1 DEF Reacts, WireTypes
    <3> QED
      BY <3>1, <3>2, <3>3
  <2>2. CASE UNCHANGED motorVars
    BY <2>2 DEF motorVars, WireTypes
  <2> QED
    BY <2>1, <2>2 DEF Sends
<1>3. lost' \in 0 .. MaxLost
  <2>1. lost' = lost \/ (lost < MaxLost /\ lost' = lost + 1)
    BY DEF Sends
  <2> QED
    BY <2>1 DEF WireTypes
<1>4. modesSince' \in [Callers -> SUBSET Modes]
  BY <1>2 DEF Sends, WireTypes
<1> QED
  BY <1>1, <1>2, <1>3, <1>4 DEF WireTypes

LEMMA WireKept ==
  ASSUME WireTypes, UNCHANGED <<motorVars, toHost, lost, modesSince>> PROVE WireTypes'
  BY DEF WireTypes, motorVars

LEMMA CacheKept ==
  ASSUME CacheTypes, UNCHANGED <<hint, cacheVars>>, fresh' \in [Callers -> SUBSET Kinds]
  PROVE  CacheTypes'
  BY DEF CacheTypes, cacheVars

LEMMA BeginTypes ==
  ASSUME TypeOK, NEW c \in Callers, NEW m, Begin(c, m), NEW p \in Places \ {"hold", "await hold", "clear"}, Goto(c, p),
         want' \in [Callers -> Modes]
  PROVE  TypeOK'
<1>1. WireTypes' /\ CacheTypes'
  BY DEF TypeOK, Begin, WireTypes, CacheTypes, motorVars, cacheVars
<1>2. m \in Methods
  BY DEF Begin
<1> QED
  BY <1>1, <1>2 DEF TypeOK, CallTypes, Begin, Goto

LEMMA NewCallTypes == ASSUME TypeOK, NEW c \in Callers, NewCall(c) PROVE TypeOK'
<1>1. CASE Plain(c)
  <2>1. PICK m \in {"enable", "disable"} : Begin(c, m) /\ Goto(c, m) /\ UNCHANGED want
    BY <1>1 DEF Plain
  <2>2. m \in Places \ {"hold", "await hold", "clear"} /\ want' \in [Callers -> Modes]
    BY <2>1 DEF Places, TypeOK, CallTypes
  <2> QED
    BY <2>1, <2>2, BeginTypes
<1>2. CASE WithMode(c)
  <2>1. PICK m \in {"control", "write", "ensure"}, v \in Modes :
          /\ Begin(c, m) /\ want' = [want EXCEPT ![c] = v]
          /\ Goto(c, IF m = "ensure" THEN "read" ELSE m)
    BY <1>2 DEF WithMode
  <2>2. want' \in [Callers -> Modes]
    BY <2>1 DEF TypeOK, CallTypes
  <2>3. (IF m = "ensure" THEN "read" ELSE m) \in Places \ {"hold", "await hold", "clear"}
    BY DEF Places
  <2> QED
    BY <2>1, <2>2, <2>3, BeginTypes
<1>3. CASE Get(c) \/ Store(c) \/ SetZero(c)
  <2>1. want' \in [Callers -> Modes] /\ {"read", "ask", "zero"} \subseteq Places \ {"hold", "await hold", "clear"}
    BY <1>3 DEF Get, Store, SetZero, Places, TypeOK, CallTypes
  <2> QED
    BY <1>3, <2>1, BeginTypes DEF Get, Store, SetZero
<1> QED
  BY <1>1, <1>2, <1>3 DEF NewCall

(* The call's own variables, at a step to place p that may end it.         *)
LEMMA StepsTo ==
  ASSUME CallTypes, NEW c \in Callers, NEW p \in Places, Goto(c, p),
         UNCHANGED callVars, left' \in [Callers -> Seq(Channels)],
         \A o \in Callers : o # c => left'[o] = left[o],
         p \in {"hold", "await hold", "clear"} => left'[c] # <<>>,
         writes' \in [Callers -> Nat], verifies' \in [Callers -> Nat],
         held' \in [Callers -> BOOLEAN], expired' \in [Callers -> BOOLEAN],
         result' \in [Callers -> {"none", "ok", "err"}]
  PROVE  CallTypes'
<1>1. pc' \in [Callers -> Places] /\ \A o \in Callers : pc'[o] = IF o = c THEN p ELSE pc[o]
  BY DEF CallTypes, Goto
<1>2. \A o \in Callers : pc'[o] \in {"hold", "await hold", "clear"} => left'[o] # <<>>
  BY <1>1 DEF CallTypes
<1> QED
  BY <1>1, <1>2 DEF CallTypes, callVars

LEMMA StillThere ==
  ASSUME CallTypes, NEW c \in Callers, NEW p \in Places \ {"hold", "await hold", "clear"}, Goto(c, p),
         UNCHANGED <<callVars, left, writes, verifies>>,
         held' \in [Callers -> BOOLEAN], expired' \in [Callers -> BOOLEAN],
         result' \in [Callers -> {"none", "ok", "err"}]
  PROVE  CallTypes'
  BY StepsTo DEF CallTypes

LEMMA StepTypes == ASSUME TypeOK, NEW c \in Callers, Step(c) PROVE TypeOK'
<1> USE DEF TypeOK
<1>0. /\ \A p \in {"idle", "enabled", "disabled", "read", "await reply", "hold", "await hold",
                    "clear", "write", "arm", "await ack", "finish", "await state", "pre-disable",
                    "store"} : p \in Places
      /\ \A r \in {"ok", "err"} : [result EXCEPT ![c] = r] \in [Callers -> {"none", "ok", "err"}]
      /\ [expired EXCEPT ![c] = TRUE] \in [Callers -> BOOLEAN]
      /\ [held EXCEPT ![c] = TRUE] \in [Callers -> BOOLEAN]
      /\ [fresh EXCEPT ![c] = {}] \in [Callers -> SUBSET Kinds]
      /\ held \in [Callers -> BOOLEAN] /\ expired \in [Callers -> BOOLEAN]
      /\ result \in [Callers -> {"none", "ok", "err"}] /\ fresh \in [Callers -> SUBSET Kinds]
      /\ want[c] \in Modes
  BY DEF Places, CallTypes, CacheTypes
<1>1. CASE SendFails(c)
  BY <1>0, <1>1, WireKept, CacheKept, StillThere DEF SendFails, Returns, loopVars
<1>2. CASE Switch(c)
  BY <1>0, <1>2, SendsTypes, CacheKept, StillThere DEF Switch, loopVars
<1>3. CASE SetHint(c)
  <2>1. CallTypes'
    BY <1>0, <1>3, StillThere DEF SetHint, Returns, loopVars
  <2>2. CacheTypes'
    BY <1>3 DEF SetHint, CacheTypes, cacheVars
  <2> QED
    BY <1>3, <2>1, <2>2, WireKept DEF SetHint
<1>4. CASE SingleFrame(c)
  <2>1. WireTypes'
    BY <1>0, <1>4, SendsTypes DEF SingleFrame
  <2> QED
    BY <1>0, <1>4, <2>1, CacheKept, StillThere DEF SingleFrame, Returns, loopVars
<1>5. CASE ReadRequest(c)
  <2>1. toHost' \in Seq(Answers) /\ Len(toHost') <= MaxAnswers
    <3>1. Answer("read", mode) \in Seq(Answers) /\ Len(Answer("read", mode)) <= 1
      BY OneAnswer DEF WireTypes
    <3> QED
      BY <1>5, <3>1, QueueGrows DEF ReadRequest, WireTypes
  <2>2. WireTypes'
    <3>1. modesSince' \in [Callers -> SUBSET Modes]
      BY <1>5 DEF ReadRequest, WireTypes
    <3>2. lost' = lost \/ (lost < MaxLost /\ lost' = lost + 1)
      BY <1>5 DEF ReadRequest
    <3>3. lost' \in 0 .. MaxLost
      BY <3>2 DEF WireTypes
    <3> QED
      BY <1>5, <2>1, <3>1, <3>3 DEF ReadRequest, WireTypes, motorVars
  <2> QED
    BY <1>0, <1>5, <2>2, CacheKept, StillThere DEF ReadRequest, Remaining
<1>6. CASE ReadOutOfTime(c)
  BY <1>0, <1>6, WireKept, CacheKept, StillThere DEF ReadOutOfTime, NoTimeLeft, Returns
<1>7. CASE NotYet(c) /\ UNCHANGED <<callVars, verifies, held, expired>>
      /\ UNCHANGED <<motorVars, toHost, lost, hint, cacheVars, fresh, modesSince>>
  <2>1. CASE Goto(c, "clear") /\ left' = [left EXCEPT ![c] = ClearOrder] /\ UNCHANGED <<writes, result>>
    <3>1. ClearOrder \in Seq(Channels) /\ ClearOrder # <<>>
      BY DEF ClearOrder, Channels
    <3> QED
      BY <1>0, <1>7, <2>1, <3>1, WireKept, CacheKept, StepsTo DEF CallTypes
  <2>2. CASE Goto(c, "hold") /\ left' = [left EXCEPT ![c] = ClearOrder] /\ UNCHANGED <<writes, result>>
    <3>1. ClearOrder \in Seq(Channels)
      BY DEF ClearOrder, Channels
    <3>2. ClearOrder # <<>>
      BY DEF ClearOrder
    <3> QED
      BY <1>0, <1>7, <2>2, <3>1, <3>2, WireKept, CacheKept, StepsTo DEF CallTypes
  <2>3. CASE Goto(c, "write") /\ writes' = [writes EXCEPT ![c] = 0] /\ UNCHANGED <<left, result>>
    BY <1>0, <1>7, <2>3, WireKept, CacheKept, StepsTo DEF CallTypes
  <2>4. CASE Returns(c, "err") /\ UNCHANGED <<left, writes>>
    BY <1>0, <1>7, <2>4, WireKept, CacheKept, StillThere DEF Returns
  <2> QED
    BY <1>7, <2>1, <2>2, <2>3, <2>4 DEF NotYet
<1>8. CASE GotReply(c)
  <2>1. CASE Returns(c, "ok") /\ UNCHANGED <<left, writes>>
    BY <1>0, <1>8, <2>1, WireKept, CacheKept, StillThere DEF GotReply, Returns
  <2> QED
    BY <1>7, <1>8, <2>1 DEF GotReply
<1>9. CASE NoReply(c)
  BY <1>7, <1>9 DEF NoReply
<1>10. CASE HoldRequest(c)
  <2>1. left[c] # <<>>
    BY <1>10 DEF HoldRequest, CallTypes
  <2>2. CallTypes'
    BY <1>0, <1>10, <2>1, StepsTo DEF HoldRequest, Remaining, CallTypes
  <2> QED
    BY <1>0, <1>10, <2>2, SendsTypes, CacheKept DEF HoldRequest
<1>11. CASE NoHold(c)
  <2>1. expired' = expired \/ expired' = [expired EXCEPT ![c] = TRUE]
    BY <1>11 DEF NoHold, NoTimeLeft
  <2>2. left[c] # <<>>
    BY <1>11 DEF NoHold, CallTypes
  <2>3. Goto(c, "clear") /\ UNCHANGED <<callVars, left, writes, verifies, held, result>>
    BY <1>11 DEF NoHold
  <2>4. CallTypes'
    <3>1. left' \in [Callers -> Seq(Channels)] /\ writes' \in [Callers -> Nat]
          /\ verifies' \in [Callers -> Nat] /\ left'[c] # <<>>
      BY <2>2, <2>3 DEF CallTypes
    <3>2. held' \in [Callers -> BOOLEAN] /\ result' \in [Callers -> {"none", "ok", "err"}]
          /\ expired' \in [Callers -> BOOLEAN]
      BY <1>0, <2>1, <2>3
    <3> QED
      BY <1>0, <2>3, <3>1, <3>2, StepsTo
  <2> QED
    BY <1>0, <1>11, <2>4, WireKept, CacheKept DEF NoHold
<1>12. CASE GotHold(c)
  <2>1. left[c] # <<>>
    BY <1>12 DEF GotHold, CallTypes
  <2>2. held' \in [Callers -> BOOLEAN]
    BY <1>0, <1>12 DEF GotHold
  <2>3. CallTypes'
    BY <1>0, <1>12, <2>1, <2>2, StepsTo DEF GotHold, CallTypes
  <2> QED
    BY <1>0, <1>12, <2>3, WireKept, CacheKept DEF GotHold
<1>13. CASE Clear(c)
  <2>1. WireTypes'
    BY <1>13, SendsTypes, WireKept DEF Clear
  <2>2. /\ Tail(left[c]) \in Seq(Channels)
        /\ Len(left[c]) # 1 => Tail(left[c]) # <<>>
    <3>1. \A s \in Seq(Channels) : s # <<>> => /\ Tail(s) \in Seq(Channels)
                                               /\ Len(Tail(s)) = Len(s) - 1
                                               /\ Len(s) \in Nat /\ Len(s) # 0
      OBVIOUS
    <3>2. \A s \in Seq(Channels) : s = <<>> => Len(s) = 0
      OBVIOUS
    <3>3. left[c] \in Seq(Channels) /\ left[c] # <<>>
      BY <1>13 DEF Clear, CallTypes
    <3>4. ASSUME NEW s \in Seq(Channels), s # <<>>, Len(s) # 1 PROVE Tail(s) # <<>>
      <4>1. PICK t : t = Tail(s)
        OBVIOUS
      <4>2. t \in Seq(Channels) /\ Len(t) = Len(s) - 1 /\ Len(s) \in Nat /\ Len(s) # 0
        BY <3>1, <3>4, <4>1
      <4>3. Len(t) # 0
        BY <3>4, <4>2
      <4>4. t # <<>>
        BY <3>2, <4>2, <4>3
      <4> QED
        BY <4>1, <4>4
    <3> QED
      BY <3>1, <3>3, <3>4
  <2>3. left' = [left EXCEPT ![c] = Tail(left[c])] /\ left' \in [Callers -> Seq(Channels)]
    BY <1>13, <2>2 DEF Clear, CallTypes
  <2>4. (Goto(c, "clear") /\ Len(left[c]) # 1) \/ Goto(c, "write")
    BY <1>13 DEF Clear
  <2>5. CallTypes'
    BY <1>0, <1>13, <2>2, <2>3, <2>4, StepsTo DEF Clear, CallTypes
  <2> QED
    BY <1>0, <1>13, <2>1, <2>5, CacheKept DEF Clear
<1>14. CASE WriteRequest(c)
  BY <1>0, <1>14, SendsTypes, CacheKept, StillThere DEF WriteRequest, loopVars
<1>15. CASE ArmAckWait(c)
  BY <1>0, <1>15, WireKept, CacheKept, StillThere DEF ArmAckWait, loopVars
<1>16. CASE GotAck(c)
  <2>1. CASE Returns(c, "ok")
    BY <1>0, <1>16, <2>1, WireKept, CacheKept, StillThere DEF GotAck, Returns, loopVars
  <2>2. CASE Goto(c, "finish") /\ UNCHANGED result
    BY <1>0, <1>16, <2>2, WireKept, CacheKept, StillThere DEF GotAck, loopVars
  <2> QED
    BY <1>16, <2>1, <2>2 DEF GotAck
<1>17. CASE NoAck(c)
  <2>1. writes' \in [Callers -> Nat]
    <3>1. writes' = [writes EXCEPT ![c] = writes[c] + 1]
      BY <1>17 DEF NoAck
    <3>2. writes \in [Callers -> Nat]
      BY DEF CallTypes
    <3> QED
      BY <3>1, <3>2
  <2>2. CallTypes'
    BY <1>0, <1>17, <2>1, StepsTo DEF NoAck, Returns, CallTypes
  <2> QED
    BY <1>0, <1>17, <2>2, WireKept, CacheKept DEF NoAck
<1>18. CASE FinishModeSwitch(c)
  <2>1. verifies' \in [Callers -> Nat]
    <3>1. verifies' = [verifies EXCEPT ![c] = verifies[c] + 1]
      BY <1>18 DEF FinishModeSwitch
    <3>2. verifies \in [Callers -> Nat]
      BY DEF CallTypes
    <3> QED
      BY <3>1, <3>2
  <2>2. CallTypes'
    BY <1>0, <1>18, <2>1, StepsTo DEF FinishModeSwitch, CallTypes
  <2> QED
    BY <1>0, <1>18, <2>2, SendsTypes, WireKept, CacheKept DEF FinishModeSwitch
<1>19. CASE StatusRequest(c)
  BY <1>0, <1>19, SendsTypes, WireKept, CacheKept, StillThere DEF StatusRequest, loopVars
<1>20. CASE StatusKnown(c)
  BY <1>0, <1>20, WireKept, CacheKept, StillThere DEF StatusKnown, loopVars
<1> QED
  BY <1>1, <1>2, <1>3, <1>4, <1>5, <1>6, <1>8, <1>9, <1>10, <1>11, <1>12, <1>13, <1>14, <1>15,
     <1>16, <1>17, <1>18, <1>19, <1>20 DEF Step

LEMMA WireStepTypes == ASSUME TypeOK, ProcessFeedbackFrame \/ Reports PROVE TypeOK'
<1> USE DEF TypeOK
<1>1. CASE ProcessFeedbackFrame
  <2>1. Head(toHost) \in Answers /\ Tail(toHost) \in Seq(Answers) /\ Len(Tail(toHost)) <= MaxAnswers
    <3>1. \A s \in Seq(Answers) : s # <<>> => /\ Head(s) \in Answers /\ Tail(s) \in Seq(Answers)
                                             /\ Len(Tail(s)) <= Len(s) /\ Len(s) \in Nat
                                             /\ Len(Tail(s)) \in Nat
      OBVIOUS
    <3> QED
      BY <1>1, <3>1 DEF ProcessFeedbackFrame, WireTypes
  <2>2. WireTypes'
    BY <1>1, <2>1 DEF ProcessFeedbackFrame, WireTypes, motorVars
  <2>3. Head(toHost).kind \in Kinds /\ Head(toHost).mode \in Modes /\ Head(toHost).on \in BOOLEAN
    BY <2>1 DEF Answers
  <2>4. CacheTypes'
    BY <1>1, <2>3 DEF ProcessFeedbackFrame, CacheTypes
  <2> QED
    BY <1>1, <2>2, <2>4 DEF ProcessFeedbackFrame, CallTypes, callVars, loopVars
<1>2. CASE Reports
  <2>1. [kind |-> "state", mode |-> mode, on |-> on] \in Answers
    BY DEF Answers, Kinds, WireTypes
  <2>2. toHost' \in Seq(Answers) /\ Len(toHost') <= MaxAnswers
    <3>1. \A s \in Seq(Answers), r \in Answers :
            Append(s, r) \in Seq(Answers) /\ Len(Append(s, r)) = Len(s) + 1 /\ Len(s) \in Nat
      OBVIOUS
    <3> QED
      BY <1>2, <2>1, <3>1 DEF Reports, WireTypes
  <2> QED
    BY <1>2, <2>2 DEF Reports, WireTypes, CacheTypes, CallTypes, motorVars, cacheVars, callVars, loopVars
<1> QED
  BY <1>1, <1>2

(* The driver's state stays well formed whatever is lost, late or failing. *)
THEOREM DriverTypes == SafeSpec => []TypeOK
<1>1. Init => TypeOK
  <2> SUFFICES ASSUME Init PROVE TypeOK
    OBVIOUS
  <2>1. WireTypes
    <3>1. toHost \in Seq(Answers) /\ Len(toHost) <= MaxAnswers
      BY DEF Init
    <3>2. on \in BOOLEAN /\ mode \in Modes /\ moving \in SUBSET Channels
      BY DEF Init, Channels
    <3>3. lost \in 0 .. MaxLost /\ modesSince \in [Callers -> SUBSET Modes]
      BY DEF Init
    <3> QED
      BY <3>1, <3>2, <3>3 DEF WireTypes
  <2>2. CacheTypes
    BY DEF Init, CacheTypes
  <2>3. CallTypes
    BY DEF Init, CallTypes, Places, Methods
  <2> QED
    BY <2>1, <2>2, <2>3 DEF TypeOK
<1>2. TypeOK /\ [Next]_vars => TypeOK'
  <2>1. TypeOK /\ UNCHANGED vars => TypeOK'
    BY DEF vars, motorVars, cacheVars, callVars, loopVars, TypeOK, WireTypes, CacheTypes, CallTypes
  <2> QED
    BY <2>1, NewCallTypes, StepTypes, WireStepTypes DEF Next
<1> QED
  BY <1>1, <1>2, PTL DEF SafeSpec

-----------------------------------------------------------------------------
(***************************************************************************)
(* The mode of the motor.  What a read or a write of CTRL_MODE concludes   *)
(* from an answer is right as long as one call at a time changes the       *)
(* register and no answer outlives the wait for it; frames may be lost and *)
(* sends may fail at will.  Without either the answers of another call, or *)
(* of an earlier one, can be taken for one's own.                          *)
(***************************************************************************)
OneWriter == \E w \in Callers : \A c \in Callers \ {w} : Calls[c] \cap {"write", "ensure"} = {}
OneGetter == \E r \in Callers : \A c \in Callers \ {r} : "get" \notin Calls[c]

Calling(c) == pc[c] # "idle"
Writing(c) == Calling(c) /\ op[c] \in {"write", "ensure"}
Getting(c) == Calling(c) /\ op[c] = "get"

WritePlaces == {"write", "arm", "await ack"}
EnsurePlaces == WritePlaces \cup {"read", "await reply", "hold", "await hold", "clear", "finish"}
PlacesOf(m) ==
  CASE m = "get" -> {"idle", "read", "await reply"}
    [] m = "write" -> {"idle"} \cup WritePlaces
    [] m = "ensure" -> {"idle"} \cup EnsurePlaces
    [] OTHER -> Places \ EnsurePlaces

(* Who is in a call, and where that call may be. *)
InTheirCalls ==
  /\ Serialized => Alone
  /\ \A c \in Callers : Calling(c) => op[c] \in Calls[c] /\ pc[c] \in PlacesOf(op[c])

LEMMA CallsApart ==
  ASSUME InTheirCalls
  PROVE  /\ Serialized \/ OneWriter => \A c, o \in Callers : Writing(c) /\ Writing(o) => c = o
         /\ Serialized \/ OneGetter => \A c, o \in Callers : Getting(c) /\ Getting(o) => c = o
BY DEF InTheirCalls, Alone, OneWriter, OneGetter, Calling, Writing, Getting

LEMMA InTheirCallsKept == ASSUME TypeOK, InTheirCalls, [Next]_vars PROVE InTheirCalls'
<1> USE DEF InTheirCalls, Calling
<1>1. ASSUME NEW c \in Callers, NewCall(c) PROVE InTheirCalls'
  <2>1. PICK m \in Calls[c], p \in Places :
          /\ Begin(c, m) /\ Goto(c, p) /\ p \in PlacesOf(m)
    <3>1. CASE Plain(c)
      <4>1. PICK m \in {"enable", "disable"} : Begin(c, m) /\ Goto(c, m)
        BY <3>1 DEF Plain
      <4>2. m \in Calls[c]
        BY <4>1 DEF Begin
      <4>3. m \in Places /\ m \in PlacesOf(m)
        BY DEF PlacesOf, Places, EnsurePlaces, WritePlaces
      <4> QED
        BY <4>1, <4>2, <4>3
    <3>2. CASE WithMode(c)
      <4>1. PICK m \in {"control", "write", "ensure"} :
              Begin(c, m) /\ Goto(c, IF m = "ensure" THEN "read" ELSE m)
        BY <3>2 DEF WithMode
      <4> QED
        BY <4>1 DEF Begin, PlacesOf, Places, EnsurePlaces, WritePlaces
    <3>3. CASE Get(c) \/ Store(c) \/ SetZero(c)
      BY <3>3 DEF Get, Store, SetZero, Begin, PlacesOf, Places, EnsurePlaces, WritePlaces
    <3> QED
      BY <1>1, <3>1, <3>2, <3>3 DEF NewCall
  <2>2. /\ \A o \in Callers : pc'[o] = IF o = c THEN p ELSE pc[o]
        /\ \A o \in Callers : op'[o] = IF o = c THEN m ELSE op[o]
        /\ Serialized => \A o \in Callers : pc[o] = "idle"
    BY <2>1 DEF Begin, Goto, TypeOK, CallTypes
  <2> QED
    BY <2>1, <2>2 DEF Alone
<1>2. ASSUME NEW c \in Callers, Step(c) PROVE InTheirCalls'
  <2>1. /\ pc[c] # "idle" /\ op' = op
        /\ \A o \in Callers : o # c => pc'[o] = pc[o]
    BY <1>2 DEF Step, SendFails, Switch, SetHint, SingleFrame, ReadRequest, ReadOutOfTime, GotReply,
       NoReply, NotYet, HoldRequest, NoHold, GotHold, Clear, WriteRequest, ArmAckWait, GotAck, NoAck,
       FinishModeSwitch, StatusRequest, StatusKnown, Returns, Goto, callVars, loopVars, TypeOK,
       CallTypes
  <2>2. pc'[c] = "idle" \/ pc'[c] \in PlacesOf(op[c])
    <3>1. pc[c] \in PlacesOf(op[c]) /\ pc \in [Callers -> Places]
      BY <2>1 DEF TypeOK, CallTypes
    <3> USE DEF Goto, Returns, PlacesOf, EnsurePlaces, WritePlaces, Places
    <3>2. CASE SendFails(c) \/ Switch(c) \/ SetHint(c) \/ SingleFrame(c)
      BY <3>1, <3>2 DEF SendFails, Switch, SetHint, SingleFrame
    <3>3. CASE ReadRequest(c) \/ ReadOutOfTime(c) \/ GotReply(c) \/ NoReply(c)
      BY <3>1, <3>3 DEF ReadRequest, ReadOutOfTime, GotReply, NoReply, NotYet
    <3>4. CASE HoldRequest(c) \/ NoHold(c) \/ GotHold(c) \/ Clear(c)
      BY <3>1, <3>4 DEF HoldRequest, NoHold, GotHold, Clear
    <3>5. CASE WriteRequest(c) \/ ArmAckWait(c) \/ GotAck(c) \/ NoAck(c) \/ FinishModeSwitch(c)
      BY <3>1, <3>5 DEF WriteRequest, ArmAckWait, GotAck, NoAck, FinishModeSwitch
    <3>6. CASE StatusRequest(c) \/ StatusKnown(c)
      BY <3>1, <3>6 DEF StatusRequest, StatusKnown
    <3> QED
      BY <1>2, <3>2, <3>3, <3>4, <3>5, <3>6 DEF Step
  <2> QED
    BY <2>1, <2>2 DEF Alone
<1>3. CASE UNCHANGED <<pc, op>>
  BY <1>3 DEF Alone
<1> QED
  BY <1>1, <1>2, <1>3 DEF Next, ProcessFeedbackFrame, Reports, callVars, vars

(***************************************************************************)
(* The answers on their way.                                               *)
(***************************************************************************)
Place == 1 .. Len(toHost)
Current == \A i \in Place : toHost[i].kind = "reply" => toHost[i].mode = mode
NoAcks == \A i \in Place : toHost[i].kind # "ack"

(* An acknowledgement of v is the only one, v is the mode, and replies     *)
(* behind it tell so.                                                      *)
OneAck(v) ==
  \A i \in Place : toHost[i].kind = "ack" =>
    /\ toHost[i].mode = v /\ mode = v
    /\ \A j \in Place : /\ toHost[j].kind = "ack" => j = i
                        /\ toHost[j].kind = "reply" /\ i < j => toHost[j].mode = mode

(* A step of the wire that says nothing wrong about the mode. *)
Adds(r) == toHost' = toHost \/ toHost' = Append(toHost, r)
Harmless ==
  /\ mode' = mode
  /\ \E r \in Answers : r.kind # "ack" /\ (r.kind = "reply" => r.mode = mode) /\ Adds(r)

LEMMA QueueDomain == ASSUME TypeOK PROVE DOMAIN toHost = Place
<1>1. toHost \in Seq(Answers)
  BY DEF TypeOK, WireTypes
<1> QED
  BY <1>1 DEF Place

LEMMA AddedTo ==
  ASSUME TypeOK, NEW r \in Answers, toHost' = Append(toHost, r)
  PROVE  /\ Len(toHost) \in Nat /\ Len(toHost') = Len(toHost) + 1
         /\ \A i \in Place : i \in Place' /\ toHost'[i] = toHost[i]
         /\ toHost'[Len(toHost')] = r
         /\ \A i \in Place' : i \in Place \/ i = Len(toHost')
<1> DEFINE s == toHost
<1>1. s \in Seq(Answers)
  BY DEF TypeOK, WireTypes
<1> HIDE DEF s
<1>2. /\ Len(s) \in Nat /\ Len(Append(s, r)) = Len(s) + 1
      /\ \A i \in 1 .. Len(s) : Append(s, r)[i] = s[i]
      /\ Append(s, r)[Len(s) + 1] = r
  BY <1>1
<1>3. toHost' = Append(s, r)
  BY DEF s
<1> QED
  BY <1>2, <1>3 DEF s, Place

LEMMA HarmlessKeeps ==
  ASSUME TypeOK, Harmless
  PROVE  (Current => Current') /\ (NoAcks => NoAcks') /\ (\A v : OneAck(v) => OneAck(v)')
<1>1. PICK r \in Answers : r.kind # "ack" /\ (r.kind = "reply" => r.mode = mode) /\ Adds(r)
  BY DEF Harmless
<1>2. mode' = mode
  BY DEF Harmless
<1>3. CASE toHost' = toHost
  BY <1>2, <1>3 DEF Current, NoAcks, OneAck, Place
<1>4. CASE toHost' = Append(toHost, r)
  <2>1. /\ Len(toHost) \in Nat /\ Len(toHost') = Len(toHost) + 1
        /\ \A i \in Place : i \in Place' /\ toHost'[i] = toHost[i]
        /\ toHost'[Len(toHost')] = r
        /\ \A i \in Place' : i \in Place \/ i = Len(toHost')
    BY <1>4, AddedTo
  <2>2. Current => Current'
    BY <1>1, <1>2, <2>1 DEF Current
  <2>3. NoAcks => NoAcks'
    BY <1>1, <2>1 DEF NoAcks
  <2>4. ASSUME NEW v, OneAck(v) PROVE OneAck(v)'
    <3> SUFFICES ASSUME NEW i \in Place', toHost'[i].kind = "ack"
                 PROVE  /\ toHost'[i].mode = v /\ mode = v
                        /\ \A j \in Place' : /\ toHost'[j].kind = "ack" => j = i
                                             /\ toHost'[j].kind = "reply" /\ i < j => toHost'[j].mode = mode
      BY <1>2 DEF OneAck
    <3>1. i \in Place /\ toHost[i].kind = "ack"
      BY <1>1, <2>1
    <3>2. ASSUME NEW j \in Place'
          PROVE  /\ toHost'[j].kind = "ack" => j = i
                 /\ toHost'[j].kind = "reply" /\ i < j => toHost'[j].mode = mode
      <4>1. CASE j = Len(toHost')
        BY <1>1, <2>1, <4>1
      <4>2. CASE j \in Place
        BY <2>1, <2>4, <3>1, <4>2 DEF OneAck
      <4> QED
        BY <2>1, <4>1, <4>2
    <3> QED
      BY <2>1, <2>4, <3>1, <3>2 DEF OneAck
  <2> QED
    BY <2>2, <2>3, <2>4
<1> QED
  BY <1>1, <1>3, <1>4 DEF Adds

LEMMA TakenFrom ==
  ASSUME TypeOK, toHost # <<>>, toHost' = Tail(toHost)
  PROVE  /\ Len(toHost) \in Nat /\ 1 \in Place /\ Head(toHost) = toHost[1]
         /\ Place' = 1 .. Len(toHost) - 1
         /\ \A i \in Place' : i + 1 \in Place /\ toHost'[i] = toHost[i + 1]
<1> DEFINE s == toHost
<1>1. s \in Seq(Answers) /\ s # <<>>
  BY DEF TypeOK, WireTypes
<1> HIDE DEF s
<1>2. /\ Len(s) \in Nat /\ Len(s) > 0 /\ Len(Tail(s)) = Len(s) - 1 /\ Head(s) = s[1]
      /\ \A i \in 1 .. Len(s) - 1 : Tail(s)[i] = s[i + 1]
  BY <1>1
<1>3. toHost' = Tail(s)
  BY DEF s
<1> QED
  BY <1>2, <1>3 DEF s, Place

LEMMA TakingKeeps ==
  ASSUME TypeOK, toHost # <<>>, toHost' = Tail(toHost), mode' = mode
  PROVE  /\ Current => Current' /\ (Head(toHost).kind = "reply" => Head(toHost).mode = mode)
         /\ NoAcks => NoAcks' /\ Head(toHost).kind # "ack"
         /\ \A v : OneAck(v) =>
              /\ OneAck(v)'
              /\ Head(toHost).kind = "ack" =>
                   Head(toHost).mode = v /\ mode = v /\ NoAcks' /\ Current'
<1>1. /\ Len(toHost) \in Nat /\ 1 \in Place /\ Head(toHost) = toHost[1]
      /\ Place' = 1 .. Len(toHost) - 1
      /\ \A i \in Place' : i + 1 \in Place /\ toHost'[i] = toHost[i + 1]
  BY TakenFrom
<1>2. Current => Current' /\ (Head(toHost).kind = "reply" => Head(toHost).mode = mode)
  BY <1>1 DEF Current
<1>3. NoAcks => NoAcks' /\ Head(toHost).kind # "ack"
  BY <1>1 DEF NoAcks
<1>4. ASSUME NEW v, OneAck(v) PROVE OneAck(v)'
  <2> SUFFICES ASSUME NEW i \in Place', toHost'[i].kind = "ack"
               PROVE  /\ toHost'[i].mode = v /\ mode = v
                      /\ \A j \in Place' : /\ toHost'[j].kind = "ack" => j = i
                                           /\ toHost'[j].kind = "reply" /\ i < j => toHost'[j].mode = mode
    BY DEF OneAck
  <2>1. i + 1 \in Place /\ toHost[i + 1].kind = "ack" /\ toHost[i + 1] = toHost'[i]
    BY <1>1
  <2>2. ASSUME NEW j \in Place'
        PROVE  /\ toHost'[j].kind = "ack" => j = i
               /\ toHost'[j].kind = "reply" /\ i < j => toHost'[j].mode = mode
    <3>1. j + 1 \in Place /\ toHost'[j] = toHost[j + 1] /\ j \in Nat /\ i \in Nat
      BY <1>1
    <3>2. toHost'[j].kind = "ack" => j + 1 = i + 1
      BY <1>4, <2>1, <3>1 DEF OneAck
    <3>3. toHost'[j].kind = "reply" /\ i + 1 < j + 1 => toHost'[j].mode = mode
      BY <1>4, <2>1, <3>1 DEF OneAck
    <3>4. (j + 1 = i + 1 => j = i) /\ (i < j => i + 1 < j + 1)
      BY <3>1
    <3> QED
      BY <3>2, <3>3, <3>4
  <2> QED
    BY <1>4, <2>1, <2>2 DEF OneAck
<1>5. ASSUME NEW v, OneAck(v), Head(toHost).kind = "ack"
      PROVE  Head(toHost).mode = v /\ mode = v /\ NoAcks' /\ Current'
  <2>1. /\ toHost[1].mode = v /\ mode = v
        /\ \A j \in Place : /\ toHost[j].kind = "ack" => j = 1
                            /\ toHost[j].kind = "reply" /\ 1 < j => toHost[j].mode = mode
    BY <1>1, <1>5 DEF OneAck
  <2>2. ASSUME NEW i \in Place' PROVE i + 1 \in Place /\ 1 < i + 1 /\ i + 1 # 1 /\ toHost'[i] = toHost[i + 1]
    BY <1>1
  <2> QED
    BY <1>1, <2>1, <2>2 DEF NoAcks, Current
<1> QED
  BY <1>2, <1>3, <1>4, <1>5

LEMMA SendsHarmless ==
  ASSUME TypeOK, NEW k \in {"enable", "disable", "move", "zero", "store", "rhold", "still", "ask"},
         NEW v, Sends(k, v)
  PROVE  Harmless
<1>1. mode' = mode /\ (toHost' = toHost \/ toHost' = toHost \o Answer(k, v))
  BY DEF Sends, Reacts, motorVars
<1>2. PICK r \in Answers : r.kind \in {"hold", "state"} /\ (Answer(k, v) = <<>> \/ Answer(k, v) = <<r>>)
  <2> DEFINE h == [kind |-> "hold", mode |-> mode, on |-> on]
             s == [kind |-> "state", mode |-> mode, on |-> on]
  <2>1. h \in Answers /\ s \in Answers
    BY DEF Answers, Kinds, TypeOK, WireTypes
  <2>2. CASE k = "rhold"
    BY <2>1, <2>2 DEF Answer
  <2>3. CASE k = "ask"
    BY <2>1, <2>3 DEF Answer
  <2>4. CASE k \notin {"rhold", "ask"}
    BY <2>1, <2>4 DEF Answer
  <2> QED
    BY <2>2, <2>3, <2>4
<1>3. toHost' = toHost \/ toHost' = Append(toHost, r)
  <2>1. toHost \in Seq(Answers)
    BY DEF TypeOK, WireTypes
  <2>2. toHost \o <<>> = toHost /\ toHost \o <<r>> = Append(toHost, r)
    BY <2>1
  <2> QED
    BY <1>1, <1>2, <2>2
<1> QED
  BY <1>1, <1>2, <1>3 DEF Harmless, Adds

-----------------------------------------------------------------------------
(***************************************************************************)
(* The one call that may change the mode: what it has read or had          *)
(* acknowledged is the mode, and no answer of before its last write is     *)
(* left when it reads again.                                               *)
(***************************************************************************)
ModeKnown(c) ==
  /\ pc[c] \in EnsurePlaces \ WritePlaces => Current
  /\ pc[c] = "await reply" /\ "reply" \in fresh[c] => cachedMode = mode
  /\ IF pc[c] \in {"arm", "await ack"} THEN OneAck(want[c]) ELSE NoAcks
  /\ pc[c] = "await ack" /\ "ack" \in fresh[c] =>
       cachedAck = want[c] /\ mode = want[c] /\ NoAcks /\ Current

WriterInv == \A c \in Callers : Writing(c) => ModeKnown(c)

(* A step that does not concern the writer. *)
LEMMA WriterLeftAlone ==
  ASSUME TypeOK, NEW c \in Callers, ModeKnown(c), Harmless, pc'[c] = pc[c], want'[c] = want[c],
         fresh'[c] = fresh[c], cachedMode' = cachedMode, cachedAck' = cachedAck
  PROVE  ModeKnown(c)'
<1>1. /\ (Current => Current') /\ (NoAcks => NoAcks') /\ mode' = mode
  BY HarmlessKeeps DEF Harmless
<1>2. OneAck(want[c]) => OneAck(want[c])'
  <2>1. PICK v : v = want[c]
    OBVIOUS
  <2>2. OneAck(v) => OneAck(v)'
    BY HarmlessKeeps
  <2> QED
    BY <2>1, <2>2 DEF OneAck
<1> QED
  BY <1>1, <1>2 DEF ModeKnown

LEMMA OneActs ==
  ASSUME TypeOK, NEW c \in Callers, Step(c)
  PROVE  /\ pc[c] # "idle" /\ UNCHANGED <<op, want, cachedMode, cachedAck>>
         /\ \A o \in Callers : o # c => pc'[o] = pc[o] /\ fresh'[o] = fresh[o]
<1>1. pc[c] # "idle" /\ UNCHANGED <<op, want, cachedMode, cachedAck>>
  BY DEF Step, SendFails, Switch, SetHint, SingleFrame, ReadRequest, ReadOutOfTime, GotReply,
     NoReply, HoldRequest, NoHold, GotHold, Clear, WriteRequest, ArmAckWait, GotAck, NoAck,
     FinishModeSwitch, StatusRequest, StatusKnown, callVars, cacheVars
<1>2. fresh' = fresh \/ fresh' = [fresh EXCEPT ![c] = {}]
  BY DEF Step, SendFails, Switch, SetHint, SingleFrame, ReadRequest, ReadOutOfTime, GotReply,
     NoReply, HoldRequest, NoHold, GotHold, Clear, WriteRequest, ArmAckWait, GotAck, NoAck,
     FinishModeSwitch, StatusRequest, StatusKnown
<1>3. \E p : pc' = [pc EXCEPT ![c] = p]
  BY DEF Step, SendFails, Switch, SetHint, SingleFrame, ReadRequest, ReadOutOfTime, GotReply,
     NoReply, NotYet, HoldRequest, NoHold, GotHold, Clear, WriteRequest, ArmAckWait, GotAck, NoAck,
     FinishModeSwitch, StatusRequest, StatusKnown, Goto, Returns
<1> QED
  BY <1>1, <1>2, <1>3 DEF TypeOK, CallTypes, CacheTypes

LEMMA QuietHarmless ==
  ASSUME TypeOK, UNCHANGED <<mode, toHost>>
  PROVE  Harmless
<1> DEFINE r == [kind |-> "state", mode |-> mode, on |-> on]
<1>1. r \in Answers /\ r.kind = "state"
  BY DEF Answers, Kinds, TypeOK, WireTypes
<1> HIDE DEF r
<1>2. Adds(r)
  BY DEF Adds
<1> QED
  BY <1>1, <1>2 DEF Harmless

(* Only the write request changes the mode or calls for an acknowledgement. *)
LEMMA StepHarmless ==
  ASSUME TypeOK, NEW c \in Callers, Step(c), ~WriteRequest(c)
  PROVE  Harmless
<1>1. CASE \/ SendFails(c) \/ SetHint(c) \/ ReadOutOfTime(c) \/ GotReply(c) \/ NoReply(c) \/ NoHold(c)
           \/ GotHold(c) \/ ArmAckWait(c) \/ GotAck(c) \/ NoAck(c) \/ StatusKnown(c)
  <2>1. UNCHANGED <<mode, toHost>>
    BY <1>1 DEF SendFails, SetHint, ReadOutOfTime, GotReply, NoReply, NoHold, GotHold, ArmAckWait,
       GotAck, NoAck, StatusKnown, motorVars
  <2> QED
    BY <2>1, QuietHarmless
<1>2. CASE Switch(c) \/ SingleFrame(c) \/ HoldRequest(c) \/ Clear(c) \/ FinishModeSwitch(c)
           \/ StatusRequest(c)
  <2>1. \/ \E k \in {"enable", "disable", "move", "zero", "store", "rhold", "still", "ask"} :
             \E v : Sends(k, v)
        \/ UNCHANGED <<motorVars, toHost>>
    BY <1>2 DEF Switch, SingleFrame, HoldRequest, Clear, FinishModeSwitch, StatusRequest
  <2> QED
    BY <2>1, SendsHarmless, QuietHarmless DEF motorVars
<1>3. CASE ReadRequest(c)
  <2> DEFINE r == [kind |-> "reply", mode |-> mode, on |-> on]
  <2>1. r \in Answers /\ r.kind = "reply" /\ r.mode = mode
    BY DEF Answers, Kinds, TypeOK, WireTypes
  <2>2. Answer("read", mode) = <<r>>
    BY DEF Answer
  <2>3. mode' = mode /\ (toHost' = toHost \o <<r>> \/ toHost' = toHost)
    BY <1>3, <2>2 DEF ReadRequest, motorVars
  <2> HIDE DEF r
  <2>4. toHost \o <<r>> = Append(toHost, r)
    BY <2>1 DEF TypeOK, WireTypes
  <2>5. Adds(r)
    BY <2>3, <2>4 DEF Adds
  <2> QED
    BY <2>1, <2>3, <2>5 DEF Harmless
<1> QED
  BY <1>1, <1>2, <1>3 DEF Step

LEMMA WriterWrites ==
  ASSUME TypeOK, NEW c \in Callers, ModeKnown(c), WriteRequest(c)
  PROVE  ModeKnown(c)'
<1>1. /\ pc[c] = "write" /\ Sends("write", want[c]) /\ pc'[c] = "arm" /\ want' = want
      /\ want[c] \in Modes
  BY DEF WriteRequest, Goto, callVars, TypeOK, CallTypes
<1>2. NoAcks
  BY <1>1 DEF ModeKnown
<1> DEFINE r == [kind |-> "ack", mode |-> want[c], on |-> on]
<1>3. r \in Answers /\ r.kind = "ack" /\ r.mode = want[c]
  BY <1>1 DEF Answers, Kinds, TypeOK, WireTypes
<1>4. toHost' = toHost \/ (toHost' = toHost \o <<r>> /\ mode' = want[c])
  <2>1. Answer("write", want[c]) = <<r>>
    BY DEF Answer
  <2> QED
    BY <1>1, <2>1 DEF Sends, Reacts
<1> HIDE DEF r
<1>5. toHost \o <<r>> = Append(toHost, r)
  BY <1>3 DEF TypeOK, WireTypes
<1>6. OneAck(want[c])'
  <2>1. CASE toHost' = toHost
    BY <1>2, <2>1 DEF OneAck, NoAcks, Place
  <2>2. CASE toHost' = Append(toHost, r) /\ mode' = want[c]
    <3>1. /\ Len(toHost) \in Nat /\ Len(toHost') = Len(toHost) + 1
          /\ \A i \in Place : toHost'[i] = toHost[i]
          /\ toHost'[Len(toHost')] = r
          /\ \A i \in Place' : i \in Place \/ i = Len(toHost')
      BY <1>3, <2>2, AddedTo
    <3>2. \A i \in Place' : toHost'[i].kind = "ack" => i = Len(toHost')
      BY <1>2, <3>1 DEF NoAcks
    <3>3. \A j \in Place' : ~(Len(toHost') < j)
      BY <3>1 DEF Place
    <3> QED
      BY <1>1, <1>3, <2>2, <3>1, <3>2, <3>3 DEF OneAck
  <2> QED
    BY <1>4, <1>5, <2>1, <2>2
<1> QED
  BY <1>1, <1>6 DEF ModeKnown, EnsurePlaces, WritePlaces

LEMMA WriterActs ==
  ASSUME ~Late, TypeOK, NEW c \in Callers, Writing(c), pc[c] \in PlacesOf(op[c]), ModeKnown(c),
         Step(c), pc'[c] # "idle"
  PROVE  ModeKnown(c)'
<1>1. /\ pc[c] \in EnsurePlaces /\ UNCHANGED <<op, want, cachedMode, cachedAck>>
  BY OneActs DEF Writing, Calling, PlacesOf, EnsurePlaces
<1>2. CASE WriteRequest(c)
  BY <1>2, WriterWrites
<1>3. ASSUME ~WriteRequest(c)
      PROVE  /\ (Current => Current') /\ (NoAcks => NoAcks') /\ mode' = mode
             /\ OneAck(want[c]) => OneAck(want[c])'
  <2>1. Harmless
    BY <1>3, StepHarmless
  <2>2. PICK v : v = want[c]
    OBVIOUS
  <2>3. /\ (Current => Current') /\ (NoAcks => NoAcks') /\ mode' = mode
        /\ OneAck(v) => OneAck(v)'
    BY <2>1, HarmlessKeeps DEF Harmless
  <2> QED
    BY <1>1, <2>2, <2>3 DEF OneAck
<1>4. CASE \/ ReadRequest(c) \/ GotReply(c) \/ NoReply(c) \/ HoldRequest(c) \/ NoHold(c) \/ GotHold(c)
           \/ Clear(c) \/ FinishModeSwitch(c)
  <2>1. /\ pc[c] \in EnsurePlaces \ WritePlaces /\ ~WriteRequest(c)
        /\ pc'[c] \in (EnsurePlaces \ WritePlaces) \cup {"write"}
        /\ pc'[c] = "await reply" => fresh'[c] = {}
    BY <1>4 DEF ReadRequest, GotReply, NoReply, NotYet, HoldRequest, NoHold, GotHold, Clear,
       FinishModeSwitch, WriteRequest, EnsurePlaces, WritePlaces, Goto, Returns, TypeOK, CallTypes,
       CacheTypes
  <2>2. Current' /\ NoAcks'
    BY <1>3, <2>1 DEF ModeKnown, WritePlaces
  <2> QED
    BY <2>1, <2>2 DEF ModeKnown, WritePlaces
<1>5. CASE ArmAckWait(c)
  <2>1. pc[c] = "arm" /\ pc'[c] = "await ack" /\ fresh'[c] = {} /\ ~WriteRequest(c)
    BY <1>5 DEF ArmAckWait, WriteRequest, Goto, TypeOK, CallTypes, CacheTypes
  <2> QED
    BY <1>3, <2>1 DEF ModeKnown, WritePlaces
<1>6. CASE GotAck(c)
  <2>1. pc[c] = "await ack" /\ pc'[c] = "finish" /\ "ack" \in fresh[c] /\ ~WriteRequest(c)
    BY <1>6 DEF GotAck, Answered, WriteRequest, Goto, Returns, TypeOK, CallTypes
  <2> QED
    BY <1>3, <2>1 DEF ModeKnown, WritePlaces
<1>7. CASE NoAck(c)
  <2>1. /\ pc[c] = "await ack" /\ pc'[c] = "write" /\ ~WriteRequest(c)
    BY <1>7 DEF NoAck, WriteRequest, Goto, Returns, TypeOK, CallTypes
  <2>2. NoAcks
    <3>1. MayTimeOut(c, "ack") \/ "ack" \in fresh[c]
      BY <1>7 DEF NoAck, Answered
    <3>2. \A i \in DOMAIN toHost : MayTimeOut(c, "ack") => toHost[i].kind # "ack"
      BY DEF MayTimeOut
    <3>3. CASE MayTimeOut(c, "ack")
      <4>1. DOMAIN toHost = Place
        BY QueueDomain
      <4> QED
        BY <3>2, <3>3, <4>1 DEF NoAcks
    <3> QED
      BY <2>1, <3>1, <3>3 DEF ModeKnown
  <2> QED
    BY <1>3, <2>1, <2>2 DEF ModeKnown, EnsurePlaces, WritePlaces
<1>8. CASE SendFails(c) \/ ReadOutOfTime(c)
  BY <1>8 DEF SendFails, ReadOutOfTime, Returns, Goto, TypeOK, CallTypes
<1>9. CASE Switch(c) \/ SetHint(c) \/ SingleFrame(c) \/ StatusRequest(c) \/ StatusKnown(c)
  BY <1>1, <1>9 DEF Switch, SetHint, SingleFrame, StatusRequest, StatusKnown, EnsurePlaces, WritePlaces
<1> QED
  BY <1>2, <1>4, <1>5, <1>6, <1>7, <1>8, <1>9 DEF Step

LEMMA WriterInvKept ==
  ASSUME ~Late, Serialized \/ OneWriter, TypeOK, InTheirCalls, InTheirCalls', WriterInv, [Next]_vars
  PROVE  WriterInv'
<1>1. \A c, o \in Callers : Writing(c) /\ Writing(o) => c = o
  BY CallsApart
<1>2. ASSUME NEW c \in Callers, NewCall(c) PROVE WriterInv'
  <2>1. /\ toHost = <<>> /\ UNCHANGED <<mode, toHost, fresh, cachedMode, cachedAck>>
        /\ \E m : Begin(c, m)
    BY <1>2 DEF NewCall, Plain, WithMode, Get, Store, SetZero, Begin, motorVars, cacheVars
  <2>2. /\ \A o \in Callers : o # c => pc'[o] = pc[o] /\ op'[o] = op[o] /\ want'[o] = want[o]
        /\ pc'[c] \notin {"await reply", "arm", "await ack"}
    BY <1>2 DEF NewCall, Plain, WithMode, Get, Store, SetZero, Begin, Goto, TypeOK, CallTypes
  <2>3. Place' = {}
    BY <2>1 DEF Place
  <2>4. ModeKnown(c)'
    BY <2>2, <2>3 DEF ModeKnown, Current, NoAcks
  <2>5. ASSUME NEW o \in Callers, o # c, Writing(o)' PROVE ModeKnown(o)'
    <3>1. Writing(o)
      BY <2>2, <2>5 DEF Writing, Calling
    <3>2. ModeKnown(o) /\ Harmless
      BY <2>1, <3>1, QuietHarmless DEF WriterInv
    <3> QED
      BY <2>1, <2>2, <2>5, <3>2, WriterLeftAlone
  <2> QED
    BY <2>4, <2>5 DEF WriterInv
<1>3. ASSUME NEW c \in Callers, Step(c) PROVE WriterInv'
  <2>1. /\ pc[c] # "idle" /\ UNCHANGED <<op, want, cachedMode, cachedAck>>
        /\ \A o \in Callers : o # c => pc'[o] = pc[o] /\ fresh'[o] = fresh[o]
    BY <1>3, OneActs
  <2>2. ASSUME Writing(c)' PROVE ModeKnown(c)'
    <3>1. Writing(c) /\ pc'[c] # "idle"
      BY <2>1, <2>2 DEF Writing, Calling
    <3>2. ModeKnown(c) /\ pc[c] \in PlacesOf(op[c])
      BY <3>1 DEF WriterInv, InTheirCalls, Writing
    <3> QED
      BY <1>3, <3>1, <3>2, WriterActs
  <2>3. ASSUME NEW o \in Callers, o # c, Writing(o)' PROVE ModeKnown(o)'
    <3>1. Writing(o) /\ ~Writing(c)
      BY <1>1, <2>1, <2>3 DEF Writing, Calling
    <3>2. ~WriteRequest(c)
      <4>1. pc[c] \in PlacesOf(op[c]) /\ op[c] \notin {"write", "ensure"}
        BY <2>1, <3>1 DEF InTheirCalls, Writing, Calling
      <4> QED
        BY <4>1 DEF WriteRequest, PlacesOf, EnsurePlaces, WritePlaces
    <3>3. ModeKnown(o) /\ Harmless
      BY <1>3, <3>1, <3>2, StepHarmless DEF WriterInv
    <3> QED
      BY <2>1, <2>3, <3>3, WriterLeftAlone
  <2> QED
    BY <2>2, <2>3 DEF WriterInv
<1>4. CASE ProcessFeedbackFrame
  <2> DEFINE a == Head(toHost)
  <2>1. /\ toHost # <<>> /\ toHost' = Tail(toHost) /\ UNCHANGED <<mode, pc, op, want>>
        /\ cachedMode' = IF a.kind = "reply" THEN a.mode ELSE cachedMode
        /\ cachedAck' = IF a.kind = "ack" THEN a.mode ELSE cachedAck
        /\ \A c \in Callers : fresh'[c] = fresh[c] \cup {a.kind}
    BY <1>4 DEF ProcessFeedbackFrame, motorVars, callVars
  <2>2. ASSUME NEW c \in Callers, Writing(c)' PROVE ModeKnown(c)'
    <3>1. ModeKnown(c)
      BY <2>1, <2>2 DEF Writing, Calling, WriterInv
    <3>2. PICK v : v = want[c]
      OBVIOUS
    <3>3. /\ Current => Current' /\ (a.kind = "reply" => a.mode = mode)
          /\ NoAcks => NoAcks' /\ a.kind # "ack"
          /\ OneAck(v) => /\ OneAck(v)'
                          /\ a.kind = "ack" => a.mode = v /\ mode = v /\ NoAcks' /\ Current'
      BY <2>1, TakingKeeps
    <3>4. IF pc[c] \in {"arm", "await ack"} THEN OneAck(want[c])' ELSE NoAcks'
      BY <2>1, <3>1, <3>2, <3>3 DEF ModeKnown, OneAck
    <3>5. pc[c] \in EnsurePlaces \ WritePlaces => Current'
      BY <3>1, <3>3 DEF ModeKnown
    <3>6. pc[c] = "await reply" /\ "reply" \in fresh'[c] => cachedMode' = mode
      BY <2>1, <3>1, <3>3 DEF ModeKnown, EnsurePlaces, WritePlaces
    <3>7. pc[c] = "await ack" /\ "ack" \in fresh'[c] =>
            cachedAck' = v /\ mode = v /\ NoAcks' /\ Current'
      <4>1. CASE a.kind = "ack"
        BY <2>1, <3>1, <3>2, <3>3, <4>1 DEF ModeKnown
      <4>2. CASE a.kind # "ack"
        BY <2>1, <3>1, <3>2, <3>3, <4>2 DEF ModeKnown
      <4> QED
        BY <4>1, <4>2
    <3> QED
      BY <2>1, <3>2, <3>4, <3>5, <3>6, <3>7 DEF ModeKnown
  <2> QED
    BY <2>2 DEF WriterInv
<1>5. CASE Reports \/ UNCHANGED vars
  <2> DEFINE r == [kind |-> "state", mode |-> mode, on |-> on]
  <2>1. r \in Answers /\ r.kind = "state"
    BY DEF Answers, Kinds, TypeOK, WireTypes
  <2> HIDE DEF r
  <2>2. /\ UNCHANGED <<mode, pc, op, want, fresh, cachedMode, cachedAck>>
        /\ Adds(r)
    BY <1>5 DEF r, Reports, vars, motorVars, cacheVars, callVars, Adds
  <2>3. Harmless
    BY <2>1, <2>2 DEF Harmless
  <2> QED
    BY <2>2, <2>3, WriterLeftAlone DEF WriterInv, Writing, Calling
<1> QED
  BY <1>2, <1>3, <1>4, <1>5 DEF Next

LEMMA WriterHolds ==
  ASSUME ~Late, Serialized \/ OneWriter
  PROVE  SafeSpec => [](InTheirCalls /\ WriterInv)
<1>1. Init => InTheirCalls /\ WriterInv
  BY DEF Init, InTheirCalls, Alone, WriterInv, Writing, Calling
<1>2. TypeOK /\ InTheirCalls /\ WriterInv /\ [Next]_vars => InTheirCalls' /\ WriterInv'
  BY InTheirCallsKept, WriterInvKept
<1> QED
  BY <1>1, <1>2, DriverTypes, PTL DEF SafeSpec

LEMMA CallsStartIdle == ASSUME TypeOK, NEW o \in Callers, NewCall(o) PROVE pc[o] = "idle" /\ \E p : Goto(o, p)
<1>1. CASE Plain(o) \/ Get(o) \/ Store(o) \/ SetZero(o)
  BY <1>1 DEF Plain, Get, Store, SetZero, Begin
<1>2. CASE WithMode(o)
  BY <1>2 DEF WithMode, Begin
<1> QED
  BY <1>1, <1>2 DEF NewCall

LEMMA EndsNoneBegun ==
  ASSUME TypeOK, NEW c \in Callers, pc[c] # "idle", pc'[c] = "idle", NEW o \in Callers
  PROVE  ~NewCall(o)
<1>1. SUFFICES ASSUME NewCall(o) PROVE FALSE
  OBVIOUS
<1>2. pc[o] = "idle" /\ \E p : Goto(o, p)
  BY <1>1, CallsStartIdle
<1> QED
  BY <1>2 DEF Goto, TypeOK, CallTypes

(* Whatever is lost or fails and whatever the others do, ensure_control_mode *)
(* and an acknowledged write of CTRL_MODE return Ok only with the motor in  *)
(* the mode asked for.                                                      *)
THEOREM OkIsTheMode ==
  ASSUME ~Late, Serialized \/ OneWriter
  PROVE  SafeSpec => OkMeansMode
<1> DEFINE Prop == \A c \in Callers : ReturnsOk(c) /\ op[c] \in {"ensure", "write"} => mode' = want[c]
<1>1. ASSUME TypeOK, InTheirCalls, WriterInv, Next, NEW c \in Callers, ReturnsOk(c),
             op[c] \in {"ensure", "write"}
      PROVE  mode' = want[c]
  <2>1. Step(c)
    <3>1. pc'[c] # pc[c]
      BY <1>1 DEF ReturnsOk
    <3>2. \A o \in Callers : Step(o) => o = c
      BY <1>1, <3>1, OneActs
    <3>3. \A o \in Callers : ~NewCall(o)
      BY <1>1, EndsNoneBegun DEF ReturnsOk
    <3> QED
      BY <1>1, <3>1, <3>2, <3>3 DEF Next, ProcessFeedbackFrame, Reports
  <2>2. ModeKnown(c) /\ pc[c] \in EnsurePlaces
    BY <1>1 DEF ReturnsOk, WriterInv, InTheirCalls, Writing, Calling, PlacesOf, EnsurePlaces
  <2>3. (GotReply(c) /\ cachedMode = want[c]) \/ GotAck(c)
    BY <1>1, <2>1, <2>2 DEF ReturnsOk, Step, SendFails, Switch, SetHint, SingleFrame, ReadRequest,
       ReadOutOfTime, GotReply, NoReply, NotYet, HoldRequest, NoHold, GotHold, Clear, WriteRequest,
       ArmAckWait, NoAck, FinishModeSwitch, StatusRequest, StatusKnown, Returns, Goto,
       EnsurePlaces, WritePlaces, TypeOK, CallTypes
  <2>4. CASE GotReply(c) /\ cachedMode = want[c]
    <3>1. pc[c] = "await reply" /\ "reply" \in fresh[c] /\ mode' = mode
      BY <2>4 DEF GotReply, Answered, motorVars
    <3> QED
      BY <2>2, <2>4, <3>1 DEF ModeKnown
  <2>5. CASE GotAck(c)
    <3>1. pc[c] = "await ack" /\ "ack" \in fresh[c] /\ mode' = mode
      BY <2>5 DEF GotAck, Answered, motorVars
    <3> QED
      BY <2>2, <3>1 DEF ModeKnown
  <2> QED
    BY <2>3, <2>4, <2>5
<1>2. TypeOK /\ InTheirCalls /\ WriterInv /\ [Next]_vars => [Prop]_vars
  BY <1>1
<1> QED
  BY <1>2, DriverTypes, WriterHolds, PTL DEF SafeSpec, OkMeansMode

-----------------------------------------------------------------------------
(***************************************************************************)
(* A read beside the writer.  A reply found on its way before the read is  *)
(* requested belongs to the writer, who waits for it and so has not moved  *)
(* the mode since; every later one reports a mode of after the request.    *)
(***************************************************************************)
IsReply(i) == toHost[i].kind = "reply"
WritersOwn(i) ==
  /\ \A j \in Place : IsReply(j) => j = i
  /\ \E o \in Callers : Writing(o) /\ pc[o] = "await reply" /\ "reply" \notin fresh[o]

ReadFresh(c) ==
  /\ pc[c] = "read" => \A i \in Place : IsReply(i) => WritersOwn(i)
  /\ pc[c] = "await reply" =>
       /\ mode \in modesSince[c]
       /\ \A i \in Place : IsReply(i) => toHost[i].mode \in modesSince[c]
       /\ "reply" \in fresh[c] => cachedMode \in modesSince[c]

GetterInv == \A c \in Callers : Getting(c) => ReadFresh(c)

(* Sending anything but a read adds no reply. *)
LEMMA SendsNoReply ==
  ASSUME TypeOK, NEW k \in {"enable", "disable", "move", "zero", "store", "rhold", "still", "ask", "write"},
         NEW v, k = "write" => v \in Modes, Sends(k, v)
  PROVE  /\ \E r \in Answers : r.kind # "reply" /\ Adds(r)
         /\ \A c \in Callers : pc[c] = "await reply" => modesSince'[c] = modesSince[c] \cup {mode'}
<1>1. PICK r \in Answers : r.kind # "reply" /\ (Answer(k, v) = <<>> \/ Answer(k, v) = <<r>>)
  <2> DEFINE h == [kind |-> "hold", mode |-> mode, on |-> on]
             s == [kind |-> "state", mode |-> mode, on |-> on]
             w == [kind |-> "ack", mode |-> v, on |-> on]
  <2>1. h \in Answers /\ s \in Answers
    BY DEF Answers, Kinds, TypeOK, WireTypes
  <2>2. CASE k = "rhold"
    BY <2>1, <2>2 DEF Answer
  <2>3. CASE k = "ask"
    BY <2>1, <2>3 DEF Answer
  <2>4. CASE k = "write"
    <3>1. w \in Answers
      BY <2>4 DEF Answers, Kinds, TypeOK, WireTypes
    <3> QED
      BY <2>4, <3>1 DEF Answer
  <2>5. CASE k \notin {"rhold", "ask", "write"}
    BY <2>1, <2>5 DEF Answer
  <2> QED
    BY <2>2, <2>3, <2>4, <2>5
<1>2. toHost' = toHost \/ toHost' = toHost \o Answer(k, v)
  BY DEF Sends
<1>3. toHost \o <<>> = toHost /\ toHost \o <<r>> = Append(toHost, r)
  BY DEF TypeOK, WireTypes
<1>4. \A c \in Callers : pc[c] = "await reply" => modesSince'[c] = modesSince[c] \cup {mode'}
  BY DEF Sends
<1> QED
  BY <1>1, <1>2, <1>3, <1>4 DEF Adds

(* Nor does any step but a read request; whoever waits for a reply keeps   *)
(* every mode there is meanwhile in mind.                                  *)
LEMMA StepAddsNoReply ==
  ASSUME TypeOK, NEW c \in Callers, Step(c), ~ReadRequest(c)
  PROVE  /\ \E r \in Answers : r.kind # "reply" /\ Adds(r)
         /\ \A o \in Callers : pc[o] = "await reply" =>
              \/ modesSince'[o] = modesSince[o] \cup {mode'}
              \/ modesSince'[o] = modesSince[o] /\ mode' = mode
<1>1. CASE \/ SendFails(c) \/ SetHint(c) \/ ReadOutOfTime(c) \/ GotReply(c) \/ NoReply(c) \/ NoHold(c)
           \/ GotHold(c) \/ ArmAckWait(c) \/ GotAck(c) \/ NoAck(c) \/ StatusKnown(c)
  <2>1. UNCHANGED <<mode, toHost, modesSince>>
    BY <1>1 DEF SendFails, SetHint, ReadOutOfTime, GotReply, NoReply, NoHold, GotHold, ArmAckWait,
       GotAck, NoAck, StatusKnown, motorVars
  <2>2. \E r \in Answers : r.kind # "reply" /\ Adds(r)
    <3> DEFINE r == [kind |-> "state", mode |-> mode, on |-> on]
    <3>1. r \in Answers /\ r.kind = "state"
      BY DEF Answers, Kinds, TypeOK, WireTypes
    <3> HIDE DEF r
    <3> QED
      BY <2>1, <3>1 DEF Adds
  <2> QED
    BY <2>1, <2>2
<1>2. CASE Switch(c) \/ SingleFrame(c) \/ HoldRequest(c) \/ Clear(c) \/ FinishModeSwitch(c)
           \/ StatusRequest(c) \/ WriteRequest(c)
  <2>1. \/ \E k \in {"enable", "disable", "move", "zero", "store", "rhold", "still", "ask", "write"} :
             \E v : Sends(k, v) /\ (k = "write" => v \in Modes)
        \/ UNCHANGED <<motorVars, toHost, modesSince>>
    <3>1. want[c] \in Modes
      BY DEF TypeOK, CallTypes
    <3> QED
      BY <1>2, <3>1 DEF Switch, SingleFrame, HoldRequest, Clear, FinishModeSwitch, StatusRequest,
         WriteRequest
  <2>2. CASE UNCHANGED <<motorVars, toHost, modesSince>>
    <3> DEFINE r == [kind |-> "state", mode |-> mode, on |-> on]
    <3>1. r \in Answers /\ r.kind = "state"
      BY DEF Answers, Kinds, TypeOK, WireTypes
    <3> HIDE DEF r
    <3> QED
      BY <2>2, <3>1 DEF Adds, motorVars
  <2> QED
    BY <2>1, <2>2, SendsNoReply
<1> QED
  BY <1>1, <1>2 DEF Step

(* A caller whose reply is on its way does nothing but wait for it. *)
LEMMA WaitsForReply ==
  ASSUME ~Late, TypeOK, NEW o \in Callers, pc[o] = "await reply", "reply" \notin fresh[o],
         NEW i \in Place, IsReply(i)
  PROVE  ~Step(o)
<1>1. i \in DOMAIN toHost
  BY QueueDomain
<1>2. ~MayTimeOut(o, "reply") /\ ~Answered(o, "reply")
  BY <1>1 DEF MayTimeOut, Answered, IsReply
<1> QED
  BY <1>2 DEF Step, SendFails, Switch, SetHint, SingleFrame, ReadRequest, ReadOutOfTime, GotReply,
     NoReply, HoldRequest, NoHold, GotHold, Clear, WriteRequest, ArmAckWait, GotAck, NoAck,
     FinishModeSwitch, StatusRequest, StatusKnown

(* A step that adds no reply and leaves the getter and the writer waiting. *)
LEMMA GetterLeftAlone ==
  ASSUME TypeOK, NEW c \in Callers, ReadFresh(c), pc'[c] = pc[c], fresh'[c] = fresh[c],
         cachedMode' = cachedMode, NEW r \in Answers, r.kind # "reply", Adds(r),
         pc[c] = "await reply" => \/ modesSince'[c] = modesSince[c] \cup {mode'}
                                  \/ modesSince'[c] = modesSince[c] /\ mode' = mode,
         \A i \in Place, o \in Callers :
           IsReply(i) /\ Writing(o) /\ pc[o] = "await reply" /\ "reply" \notin fresh[o] =>
             pc'[o] = pc[o] /\ op'[o] = op[o] /\ fresh'[o] = fresh[o]
  PROVE  ReadFresh(c)'
<1>1. \A i \in Place' : toHost'[i].kind = "reply" => i \in Place /\ toHost'[i] = toHost[i]
  <2>1. CASE toHost' = toHost
    BY <2>1 DEF Place
  <2>2. CASE toHost' = Append(toHost, r)
    BY <2>2, AddedTo
  <2> QED
    BY <2>1, <2>2 DEF Adds
<1>2. ASSUME pc[c] = "read", NEW i \in Place', toHost'[i].kind = "reply"
      PROVE  /\ \A j \in Place' : toHost'[j].kind = "reply" => j = i
             /\ \E o \in Callers : Writing(o)' /\ pc'[o] = "await reply" /\ "reply" \notin fresh'[o]
  <2>1. i \in Place /\ IsReply(i) /\ WritersOwn(i)
    BY <1>1, <1>2 DEF ReadFresh, IsReply
  <2>2. PICK o \in Callers : Writing(o) /\ pc[o] = "await reply" /\ "reply" \notin fresh[o]
    BY <2>1 DEF WritersOwn
  <2>3. Writing(o)' /\ pc'[o] = "await reply" /\ "reply" \notin fresh'[o]
    BY <2>1, <2>2 DEF Writing, Calling
  <2>4. \A j \in Place' : toHost'[j].kind = "reply" => j = i
    BY <1>1, <2>1 DEF WritersOwn, IsReply
  <2> QED
    BY <2>3, <2>4
<1>3. ASSUME pc[c] = "await reply"
      PROVE  /\ mode' \in modesSince'[c]
             /\ \A i \in Place' : toHost'[i].kind = "reply" => toHost'[i].mode \in modesSince'[c]
             /\ "reply" \in fresh'[c] => cachedMode' \in modesSince'[c]
  <2>1. mode' \in modesSince'[c] /\ modesSince[c] \subseteq modesSince'[c]
    BY <1>3 DEF ReadFresh
  <2> QED
    BY <1>1, <1>3, <2>1 DEF ReadFresh, IsReply
<1> QED
  BY <1>2, <1>3 DEF ReadFresh, WritersOwn, IsReply

LEMMA ReadRequestKeepsGetter ==
  ASSUME ~Late, Serialized \/ (OneWriter /\ OneGetter), TypeOK, InTheirCalls, WriterInv, GetterInv,
         NEW c \in Callers, Getting(c), NEW o \in Callers, ReadRequest(o)
  PROVE  ReadFresh(c)'
<1>1. /\ \A b, d \in Callers : Writing(b) /\ Writing(d) => b = d
      /\ \A b, d \in Callers : Getting(b) /\ Getting(d) => b = d
  BY CallsApart
<1> DEFINE r == [kind |-> "reply", mode |-> mode, on |-> on]
<1>2. r \in Answers /\ r.kind = "reply" /\ r.mode = mode
  BY DEF Answers, Kinds, TypeOK, WireTypes
<1>3. toHost' = toHost \/ toHost' = toHost \o <<r>>
  <2>1. Answer("read", mode) = <<r>>
    BY DEF Answer
  <2> QED
    BY <2>1 DEF ReadRequest
<1> HIDE DEF r
<1>4. toHost' = toHost \/ toHost' = Append(toHost, r)
  <2>1. toHost \o <<r>> = Append(toHost, r)
    BY <1>2 DEF TypeOK, WireTypes
  <2> QED
    BY <1>3, <2>1
<1>5. \A i \in Place' : \/ i \in Place /\ toHost'[i] = toHost[i]
                        \/ i = Len(toHost') /\ toHost'[i] = r
  <2>1. CASE toHost' = toHost
    BY <2>1 DEF Place
  <2>2. CASE toHost' = Append(toHost, r)
    BY <1>2, <2>2, AddedTo
  <2> QED
    BY <1>4, <2>1, <2>2
<1>6. /\ pc[o] = "read" /\ mode' = mode /\ UNCHANGED <<op, cachedMode>>
      /\ pc' = [pc EXCEPT ![o] = "await reply"] /\ fresh' = [fresh EXCEPT ![o] = {}]
      /\ modesSince' = [modesSince EXCEPT ![o] = {mode}]
  BY DEF ReadRequest, Goto, motorVars, cacheVars, callVars
<1>7. /\ pc'[o] = "await reply" /\ fresh'[o] = {} /\ modesSince'[o] = {mode}
      /\ o # c => pc'[c] = pc[c] /\ fresh'[c] = fresh[c] /\ modesSince'[c] = modesSince[c]
  BY <1>6 DEF TypeOK, CallTypes, CacheTypes, WireTypes
<1>8. ReadFresh(c)
  BY DEF GetterInv
<1>9. CASE o = c
  <2>1. \A i \in Place : IsReply(i) => toHost[i].mode = mode
    <3> SUFFICES ASSUME NEW i \in Place, IsReply(i) PROVE toHost[i].mode = mode
      OBVIOUS
    <3>1. PICK b \in Callers : Writing(b) /\ pc[b] = "await reply"
      BY <1>6, <1>8, <1>9 DEF ReadFresh, WritersOwn
    <3>2. Current
      BY <3>1 DEF WriterInv, ModeKnown, EnsurePlaces, WritePlaces
    <3> QED
      BY <3>2 DEF Current, IsReply
  <2>2. \A i \in Place' : toHost'[i].kind = "reply" => toHost'[i].mode = mode
    BY <1>2, <1>5, <2>1 DEF IsReply
  <2> QED
    BY <1>6, <1>7, <1>9, <2>2 DEF ReadFresh, IsReply
<1>10. CASE o # c
  <2>1. Writing(o)
    <3>1. op[o] \in {"get", "ensure"}
      BY <1>6 DEF InTheirCalls, Calling, PlacesOf, EnsurePlaces, WritePlaces
    <3> QED
      BY <1>1, <1>6, <1>10, <3>1 DEF Writing, Getting, Calling
  <2>2. CASE pc[c] = "read"
    <3>1. \A i \in Place : ~IsReply(i)
      BY <1>1, <1>6, <1>8, <2>1, <2>2 DEF ReadFresh, WritersOwn
    <3>2. \A i \in Place' : toHost'[i].kind = "reply" => i = Len(toHost')
      BY <1>5, <3>1 DEF IsReply
    <3>3. Writing(o)' /\ "reply" \notin fresh'[o]
      BY <1>6, <1>7, <2>1 DEF Writing, Calling
    <3> QED
      BY <1>7, <1>10, <2>2, <3>2, <3>3 DEF ReadFresh, WritersOwn, IsReply
  <2>3. CASE pc[c] # "read"
    <3>1. pc[c] = "await reply" => \A i \in Place' : toHost'[i].kind = "reply" => toHost'[i].mode \in modesSince[c]
      BY <1>2, <1>5, <1>8 DEF ReadFresh, IsReply
    <3> QED
      BY <1>6, <1>7, <1>8, <1>10, <2>3, <3>1 DEF ReadFresh, IsReply
  <2> QED
    BY <2>2, <2>3
<1> QED
  BY <1>9, <1>10

LEMMA GetterInvKept ==
  ASSUME ~Late, Serialized \/ (OneWriter /\ OneGetter), TypeOK, InTheirCalls, WriterInv, GetterInv,
         [Next]_vars
  PROVE  GetterInv'
<1> DEFINE r == [kind |-> "state", mode |-> mode, on |-> on]
<1>1. r \in Answers /\ r.kind # "reply"
  BY DEF Answers, Kinds, TypeOK, WireTypes
<1> HIDE DEF r
<1>2. ASSUME NEW b \in Callers, NewCall(b) PROVE GetterInv'
  <2>1. toHost = <<>> /\ UNCHANGED <<mode, toHost, fresh, cachedMode, modesSince>>
    BY <1>2 DEF NewCall, Plain, WithMode, Get, Store, SetZero, Begin, motorVars, cacheVars
  <2>2. /\ \A o \in Callers : o # b => pc'[o] = pc[o] /\ op'[o] = op[o]
        /\ pc'[b] # "await reply"
    BY <1>2 DEF NewCall, Plain, WithMode, Get, Store, SetZero, Begin, Goto, TypeOK, CallTypes
  <2>3. Place' = {} /\ Place = {} /\ Adds(r)
    BY <2>1 DEF Place, Adds
  <2>4. ReadFresh(b)'
    BY <2>2, <2>3 DEF ReadFresh
  <2>5. ASSUME NEW c \in Callers, c # b, Getting(c)' PROVE ReadFresh(c)'
    <3>1. ReadFresh(c)
      BY <2>2, <2>5 DEF Getting, Calling, GetterInv
    <3> QED
      BY <1>1, <2>1, <2>2, <2>3, <2>5, <3>1, GetterLeftAlone
  <2> QED
    BY <2>4, <2>5 DEF GetterInv
<1>3. ASSUME NEW b \in Callers, Step(b) PROVE GetterInv'
  <2>1. /\ pc[b] # "idle" /\ UNCHANGED <<op, want, cachedMode, cachedAck>>
        /\ \A o \in Callers : o # b => pc'[o] = pc[o] /\ fresh'[o] = fresh[o]
    BY <1>3, OneActs
  <2>2. ASSUME NEW c \in Callers, Getting(c)' PROVE Getting(c)
    BY <2>1, <2>2 DEF Getting, Calling
  <2>3. CASE ReadRequest(b)
    BY <2>2, <2>3, ReadRequestKeepsGetter DEF GetterInv
  <2>4. CASE ~ReadRequest(b)
    <3>1. PICK q \in Answers : q.kind # "reply" /\ Adds(q)
      BY <1>3, <2>4, StepAddsNoReply
    <3>2. \A o \in Callers : pc[o] = "await reply" =>
              \/ modesSince'[o] = modesSince[o] \cup {mode'}
              \/ modesSince'[o] = modesSince[o] /\ mode' = mode
      BY <1>3, <2>4, StepAddsNoReply
    <3>3. \A i \in Place, o \in Callers :
            IsReply(i) /\ Writing(o) /\ pc[o] = "await reply" /\ "reply" \notin fresh[o] =>
              pc'[o] = pc[o] /\ op'[o] = op[o] /\ fresh'[o] = fresh[o]
      BY <1>3, <2>1, WaitsForReply
    <3>4. ASSUME NEW c \in Callers, Getting(c)' PROVE c # b
      <4>1. SUFFICES ASSUME c = b PROVE FALSE
        OBVIOUS
      <4>2. op[b] = "get" /\ pc[b] \in {"read", "await reply"} /\ pc'[b] # "idle"
        BY <2>1, <3>4, <4>1 DEF Getting, Calling, InTheirCalls, PlacesOf
      <4> QED
        BY <1>3, <2>4, <4>2 DEF Step, SendFails, Switch, SetHint, SingleFrame, ReadOutOfTime, GotReply,
           NoReply, NotYet, HoldRequest, NoHold, GotHold, Clear, WriteRequest, ArmAckWait, GotAck,
           NoAck, FinishModeSwitch, StatusRequest, StatusKnown, Returns, Goto, TypeOK, CallTypes
    <3>5. ASSUME NEW c \in Callers, Getting(c)' PROVE ReadFresh(c)'
      <4>1. ReadFresh(c) /\ c # b
        BY <2>2, <3>4, <3>5 DEF GetterInv
      <4> QED
        BY <2>1, <3>1, <3>2, <3>3, <4>1, GetterLeftAlone
    <3> QED
      BY <3>5 DEF GetterInv
  <2> QED
    BY <2>3, <2>4
<1>4. CASE ProcessFeedbackFrame
  <2> DEFINE a == Head(toHost)
  <2>1. /\ toHost # <<>> /\ toHost' = Tail(toHost) /\ UNCHANGED <<mode, pc, op, modesSince>>
        /\ cachedMode' = IF a.kind = "reply" THEN a.mode ELSE cachedMode
        /\ \A c \in Callers : fresh'[c] = fresh[c] \cup {a.kind}
    BY <1>4 DEF ProcessFeedbackFrame, motorVars, callVars
  <2>2. /\ Len(toHost) \in Nat /\ 1 \in Place /\ a = toHost[1]
        /\ Place' = 1 .. Len(toHost) - 1
        /\ \A i \in Place' : i + 1 \in Place /\ toHost'[i] = toHost[i + 1]
    BY <2>1, TakenFrom
  <2>3. ASSUME NEW c \in Callers, Getting(c)' PROVE ReadFresh(c)'
    <3>1. ReadFresh(c)
      BY <2>1, <2>3 DEF Getting, Calling, GetterInv
    <3>2. ASSUME pc[c] = "read", NEW i \in Place', toHost'[i].kind = "reply"
          PROVE  /\ \A j \in Place' : toHost'[j].kind = "reply" => j = i
                 /\ \E o \in Callers : Writing(o)' /\ pc'[o] = "await reply" /\ "reply" \notin fresh'[o]
      <4>1. i + 1 \in Place /\ IsReply(i + 1) /\ WritersOwn(i + 1)
        BY <2>2, <3>1, <3>2 DEF ReadFresh, IsReply
      <4>2. a.kind # "reply"
        <5>1. i + 1 # 1
          BY <2>2
        <5> QED
          BY <2>2, <4>1, <5>1 DEF WritersOwn, IsReply
      <4>3. PICK o \in Callers : Writing(o) /\ pc[o] = "await reply" /\ "reply" \notin fresh[o]
        BY <4>1 DEF WritersOwn
      <4>4. Writing(o)' /\ pc'[o] = "await reply" /\ "reply" \notin fresh'[o]
        BY <2>1, <4>2, <4>3 DEF Writing, Calling
      <4>5. ASSUME NEW j \in Place', toHost'[j].kind = "reply" PROVE j = i
        <5>1. j + 1 \in Place /\ IsReply(j + 1) /\ j \in Nat /\ i \in Nat
          BY <2>2, <4>5 DEF IsReply
        <5>2. j + 1 = i + 1
          BY <4>1, <5>1 DEF WritersOwn
        <5> QED
          BY <5>1, <5>2
      <4> QED
        BY <4>4, <4>5
    <3>3. ASSUME pc[c] = "await reply"
          PROVE  /\ \A i \in Place' : toHost'[i].kind = "reply" => toHost'[i].mode \in modesSince[c]
                 /\ "reply" \in fresh'[c] => cachedMode' \in modesSince[c]
      BY <2>1, <2>2, <3>1, <3>3 DEF ReadFresh, IsReply
    <3> QED
      BY <2>1, <3>1, <3>2, <3>3 DEF ReadFresh, WritersOwn, IsReply
  <2> QED
    BY <2>3 DEF GetterInv
<1>5. CASE Reports \/ UNCHANGED vars
  <2>1. /\ UNCHANGED <<mode, pc, op, fresh, cachedMode, modesSince>>
        /\ Adds(r)
    BY <1>5 DEF r, Reports, vars, motorVars, cacheVars, callVars, Adds
  <2>2. ASSUME NEW c \in Callers, Getting(c)' PROVE ReadFresh(c)'
    <3>1. ReadFresh(c)
      BY <2>1, <2>2 DEF Getting, Calling, GetterInv
    <3> QED
      BY <1>1, <2>1, <3>1, GetterLeftAlone
  <2> QED
    BY <2>2 DEF GetterInv
<1> QED
  BY <1>2, <1>3, <1>4, <1>5 DEF Next

(* Whatever is lost or fails, a read of CTRL_MODE beside a call that writes *)
(* it returns a value the register had after the read was requested         *)
(* (get_register_u32, wait_for_register_value).  It takes one reader: with  *)
(* two, the reply to the other's earlier request can come first.            *)
THEOREM ReadsAreFresh ==
  ASSUME ~Late, Serialized \/ (OneWriter /\ OneGetter)
  PROVE  SafeSpec => ReadIsFresh
<1> DEFINE Prop == \A c \in Callers : ReturnsOk(c) /\ op[c] = "get" => cachedMode \in modesSince[c]
<1>1. Init => GetterInv
  BY DEF Init, GetterInv, Getting, Calling
<1>2. TypeOK /\ InTheirCalls /\ WriterInv /\ GetterInv /\ [Next]_vars => GetterInv'
  BY GetterInvKept
<1>3. SafeSpec => [](InTheirCalls /\ WriterInv)
  BY WriterHolds
<1>4. ASSUME TypeOK, InTheirCalls, GetterInv, Next, NEW c \in Callers, ReturnsOk(c), op[c] = "get"
      PROVE  cachedMode \in modesSince[c]
  <2>1. Step(c)
    <3>1. pc'[c] # pc[c]
      BY <1>4 DEF ReturnsOk
    <3>2. \A o \in Callers : Step(o) => o = c
      BY <1>4, <3>1, OneActs
    <3>3. \A o \in Callers : ~NewCall(o)
      BY <1>4, EndsNoneBegun DEF ReturnsOk
    <3> QED
      BY <1>4, <3>1, <3>2, <3>3 DEF Next, ProcessFeedbackFrame, Reports
  <2>2. ReadFresh(c) /\ pc[c] \in {"read", "await reply"}
    BY <1>4 DEF ReturnsOk, GetterInv, InTheirCalls, Getting, Calling, PlacesOf
  <2>3. GotReply(c)
    BY <1>4, <2>1, <2>2 DEF ReturnsOk, Step, SendFails, Switch, SetHint, SingleFrame, ReadRequest,
       ReadOutOfTime, NoReply, NotYet, HoldRequest, NoHold, GotHold, Clear, WriteRequest,
       ArmAckWait, GotAck, NoAck, FinishModeSwitch, StatusRequest, StatusKnown, Returns, Goto,
       TypeOK, CallTypes
  <2> QED
    BY <2>2, <2>3 DEF GotReply, Answered, ReadFresh
<1>5. TypeOK /\ InTheirCalls /\ GetterInv /\ [Next]_vars => [Prop]_vars
  BY <1>4
<1> QED
  BY <1>1, <1>2, <1>3, <1>5, DriverTypes, PTL DEF SafeSpec, ReadIsFresh

-----------------------------------------------------------------------------
(***************************************************************************)
(* Stillness before a switch.  While prepare_for_mode_switch works through *)
(* the command channels only those it has left can be moving; from then to *)
(* the end of the call none is, in whatever round of writes and reads.     *)
(***************************************************************************)

(* One call at a time on a bus that loses nothing, and nobody writes the   *)
(* register past ensure_control_mode.                                      *)
Careful == Serialized /\ MaxLost = 0 /\ ~Faults /\ \A c \in Callers : "write" \notin Calls[c]

Elements(s) == {s[i] : i \in 1 .. Len(s)}

StillSoFar(c) ==
  /\ pc[c] \in {"hold", "await hold", "clear"} => moving \subseteq Elements(left[c])
  /\ \/ pc[c] \in WritePlaces \cup {"finish"}
     \/ pc[c] \in {"read", "await reply"} /\ verifies[c] # 0
     => moving = {}

StillInv == \A c \in Callers : Calling(c) /\ op[c] = "ensure" => StillSoFar(c)

LEMMA SendsMove ==
  ASSUME TypeOK, MaxLost = 0, NEW k, NEW v, Sends(k, v)
  PROVE  moving' = IF k = "move" THEN moving \cup {v}
                   ELSE IF k = "still" THEN moving \ {v} ELSE moving
<1>1. ~(lost < MaxLost)
  BY DEF TypeOK, WireTypes
<1> QED
  BY <1>1 DEF Sends, Reacts

LEMMA HoldsStill == TypeOK /\ MaxLost = 0 /\ Sends("rhold", mode) => moving' = moving
BY SendsMove

LEMMA Positive == \A n, k : n \in 1 .. k => n # 0
<1>1. \A k : 0 \notin 1 .. k
  OBVIOUS
<1> QED
  BY <1>1

LEMMA AllChannels == Elements(ClearOrder) = Channels
<1>1. /\ Len(ClearOrder) = 4 /\ ClearOrder[1] = "vel" /\ ClearOrder[2] = "pos_vel"
      /\ ClearOrder[3] = "force_pos" /\ ClearOrder[4] = "mit"
  BY DEF ClearOrder
<1>2. 1 .. 4 = {1, 2, 3, 4}
  OBVIOUS
<1> QED
  BY <1>1, <1>2 DEF Elements, Channels

LEMMA ElementsLeft ==
  ASSUME NEW s \in Seq(Channels), s # <<>>, NEW M, M \subseteq Elements(s)
  PROVE  /\ M \ {Head(s)} \subseteq Elements(Tail(s))
         /\ Len(s) = 1 => M \ {Head(s)} = {}
<1>1. /\ Len(s) \in Nat \ {0} /\ Head(s) = s[1] /\ Len(Tail(s)) = Len(s) - 1
      /\ \A i \in 1 .. Len(s) - 1 : Tail(s)[i] = s[i + 1]
  OBVIOUS
<1>2. ASSUME NEW x \in M \ {Head(s)} PROVE \E i \in 1 .. Len(s) - 1 : s[i + 1] = x
  <2>1. PICK i \in 1 .. Len(s) : s[i] = x
    BY DEF Elements
  <2>2. i # 1 /\ i \in Nat
    BY <1>1, <2>1
  <2>3. i - 1 \in 1 .. Len(s) - 1 /\ (i - 1) + 1 = i
    BY <1>1, <2>1, <2>2
  <2> QED
    BY <2>1, <2>3
<1>3. M \ {Head(s)} \subseteq Elements(Tail(s))
  BY <1>1, <1>2 DEF Elements
<1>4. Len(s) = 1 => M \ {Head(s)} = {}
  <2>1. Len(s) = 1 => 1 .. Len(s) - 1 = {}
    OBVIOUS
  <2> QED
    BY <1>2, <2>1
<1> QED
  BY <1>3, <1>4

LEMMA EnsureStaysStill ==
  ASSUME Careful, TypeOK, NEW c \in Callers, Calling(c), op[c] = "ensure", pc[c] \in PlacesOf(op[c]),
         StillSoFar(c), Step(c), pc'[c] # "idle"
  PROVE  StillSoFar(c)'
<1> USE DEF StillSoFar, WritePlaces
<1>1. pc[c] \in EnsurePlaces /\ MaxLost = 0 /\ ~Faults
  BY DEF Calling, PlacesOf, EnsurePlaces, Careful
<1>2. CASE ReadRequest(c)
  BY <1>2 DEF ReadRequest, Goto, motorVars, TypeOK, CallTypes
<1>3. CASE GotReply(c) \/ NoReply(c)
  <2>1. pc[c] = "await reply" /\ UNCHANGED <<moving, verifies>> /\ NotYet(c)
    BY <1>3 DEF GotReply, NoReply, Returns, Goto, motorVars, TypeOK, CallTypes
  <2>2. \/ pc'[c] \in {"hold", "clear"} /\ left'[c] = ClearOrder
        \/ pc'[c] = "write" /\ verifies[c] # 0
    <3>2. \A p : Goto(c, p) => pc'[c] = p
      BY DEF Goto, TypeOK, CallTypes
    <3>3. ~Returns(c, "err")
      BY <3>2 DEF Returns
    <3>4. left' = [left EXCEPT ![c] = ClearOrder] => left'[c] = ClearOrder
      BY DEF TypeOK, CallTypes
    <3>6. \A n : n \in 1 .. VerifyAttempts - 1 => n # 0
      BY Positive
    <3> QED
      BY <2>1, <3>2, <3>3, <3>4, <3>6 DEF NotYet
  <2>3. CASE pc'[c] \in {"hold", "clear"} /\ left'[c] = ClearOrder
    BY <2>1, <2>3, AllChannels DEF TypeOK, WireTypes
  <2>4. CASE pc'[c] = "write" /\ verifies[c] # 0
    BY <2>1, <2>4
  <2> QED
    BY <2>2, <2>3, <2>4
<1>4. CASE HoldRequest(c) \/ NoHold(c) \/ GotHold(c)
  <2>1. /\ pc[c] \in {"hold", "await hold"} /\ pc'[c] \in {"await hold", "clear"}
        /\ left' = left /\ (Sends("rhold", mode) \/ moving' = moving)
    BY <1>4 DEF HoldRequest, NoHold, GotHold, Goto, motorVars, TypeOK, CallTypes
  <2>2. moving' = moving
    BY <1>1, <2>1, HoldsStill
  <2> QED
    BY <2>1, <2>2
<1>5. CASE Clear(c)
  <2>1. /\ pc[c] = "clear" /\ Sends("still", Head(left[c])) /\ left'[c] = Tail(left[c])
        /\ pc'[c] = IF Len(left[c]) = 1 THEN "write" ELSE "clear"
        /\ left[c] \in Seq(Channels) /\ left[c] # <<>>
    BY <1>1, <1>5 DEF Clear, Goto, TypeOK, CallTypes
  <2>2. moving' = moving \ {Head(left[c])} /\ moving \subseteq Elements(left[c])
    BY <1>1, <2>1, SendsMove
  <2>3. /\ moving' \subseteq Elements(Tail(left[c]))
        /\ Len(left[c]) = 1 => moving' = {}
    BY <2>1, <2>2, ElementsLeft
  <2> QED
    BY <2>1, <2>3
<1>6. CASE WriteRequest(c)
  <2>1. pc[c] = "write" /\ Sends("write", want[c]) /\ pc'[c] = "arm"
    BY <1>6 DEF WriteRequest, Goto, TypeOK, CallTypes
  <2>2. moving' = moving
    BY <1>1, <2>1, SendsMove
  <2> QED
    BY <2>1, <2>2
<1>7. CASE ArmAckWait(c) \/ GotAck(c) \/ NoAck(c)
  BY <1>7 DEF ArmAckWait, GotAck, NoAck, Goto, Returns, motorVars, TypeOK, CallTypes
<1>8. CASE FinishModeSwitch(c)
  <2>1. /\ pc[c] = "finish" /\ pc'[c] = "read"
        /\ Sends("still", want[c]) \/ moving' = moving
    BY <1>8 DEF FinishModeSwitch, Goto, motorVars, TypeOK, CallTypes
  <2>2. moving' \subseteq moving
    BY <1>1, <2>1, SendsMove
  <2> QED
    BY <2>1, <2>2
<1>9. CASE SendFails(c) \/ ReadOutOfTime(c)
  BY <1>9 DEF SendFails, ReadOutOfTime, Returns, Goto, TypeOK, CallTypes
<1>10. CASE Switch(c) \/ SetHint(c) \/ SingleFrame(c) \/ StatusRequest(c) \/ StatusKnown(c)
  BY <1>1, <1>10 DEF Switch, SetHint, SingleFrame, StatusRequest, StatusKnown, EnsurePlaces
<1> QED
  BY <1>2, <1>3, <1>4, <1>5, <1>6, <1>7, <1>8, <1>9, <1>10 DEF Step

LEMMA StillInvKept ==
  ASSUME Careful, TypeOK, InTheirCalls, StillInv, [Next]_vars
  PROVE  StillInv'
<1>1. \A c, o \in Callers : pc[c] # "idle" /\ pc[o] # "idle" => c = o
  BY DEF Careful, InTheirCalls, Alone
<1>2. ASSUME NEW b \in Callers, NewCall(b) PROVE StillInv'
  <2>1. /\ \A o \in Callers : pc[o] = "idle"
        /\ \A o \in Callers : o # b => pc'[o] = pc[o]
        /\ verifies'[b] = 0
        /\ op'[b] = "ensure" => pc'[b] = "read"
    BY <1>2 DEF NewCall, Plain, WithMode, Get, Store, SetZero, Begin, Goto, Careful, TypeOK, CallTypes
  <2> QED
    BY <2>1 DEF StillInv, StillSoFar, Calling, WritePlaces
<1>3. ASSUME NEW b \in Callers, Step(b) PROVE StillInv'
  <2>1. pc[b] # "idle" /\ op' = op /\ \A o \in Callers : o # b => pc'[o] = pc[o]
    BY <1>3, OneActs
  <2>2. \A o \in Callers : o # b => ~Calling(o)'
    BY <1>1, <2>1 DEF Calling
  <2>3. ASSUME pc'[b] # "idle", op'[b] = "ensure" PROVE StillSoFar(b)'
    <3>1. Calling(b) /\ op[b] = "ensure" /\ pc[b] \in PlacesOf(op[b]) /\ StillSoFar(b)
      BY <2>1, <2>3 DEF Calling, InTheirCalls, StillInv
    <3> QED
      BY <1>3, <2>3, <3>1, EnsureStaysStill
  <2> QED
    BY <2>2, <2>3 DEF StillInv, Calling
<1>4. CASE ProcessFeedbackFrame \/ Reports \/ UNCHANGED vars
  <2>1. UNCHANGED <<moving, pc, op, left, verifies>>
    BY <1>4 DEF ProcessFeedbackFrame, Reports, vars, motorVars, callVars, loopVars
  <2> QED
    BY <2>1 DEF StillInv, StillSoFar, Calling
<1> QED
  BY <1>2, <1>3, <1>4 DEF Next

(* With one call at a time and nothing lost, the mode changes only while   *)
(* every command channel of the motor is still, from whatever commands and *)
(* mode the motor started (prepare_for_mode_switch, ensure_control_mode).  *)
THEOREM SwitchesAreStill ==
  ASSUME Careful
  PROVE  SafeSpec => SwitchesOnlyWhenStill
<1>1. Init => InTheirCalls /\ StillInv
  BY DEF Init, InTheirCalls, Alone, StillInv, Calling
<1>2. TypeOK /\ InTheirCalls /\ StillInv /\ [Next]_vars => InTheirCalls' /\ StillInv'
  BY InTheirCallsKept, StillInvKept
<1>3. ASSUME TypeOK, InTheirCalls, StillInv, Next, mode' # mode PROVE moving = {}
  <2>1. PICK c \in Callers : Step(c)
    BY <1>3 DEF Next, NewCall, Plain, WithMode, Get, Store, SetZero, Begin, ProcessFeedbackFrame,
       Reports, motorVars
  <2>2. WriteRequest(c)
    BY <1>3, <2>1, StepHarmless DEF Harmless
  <2>3. pc[c] = "write" /\ op[c] \in Calls[c] /\ pc[c] \in PlacesOf(op[c])
    BY <1>3, <2>2 DEF WriteRequest, InTheirCalls, Calling
  <2>4. op[c] = "ensure"
    BY <2>3 DEF Careful, PlacesOf, EnsurePlaces, WritePlaces
  <2> QED
    BY <1>3, <2>3, <2>4 DEF StillInv, StillSoFar, Calling, WritePlaces
<1>4. TypeOK /\ InTheirCalls /\ StillInv /\ [Next]_vars => [mode' # mode => moving = {}]_vars
  BY <1>3
<1> QED
  BY <1>1, <1>2, <1>4, DriverTypes, PTL DEF SafeSpec, SwitchesOnlyWhenStill
=============================================================================
