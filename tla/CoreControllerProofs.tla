------------------------ MODULE CoreControllerProofs ------------------------
(***************************************************************************)
(* Theorems about CoreController for every set of motors, callers and      *)
(* workers and every number of frames.                                     *)
(***************************************************************************)
EXTENDS CoreController, FiniteSetTheorems, TLAPS

USE CoreAssumption DEF CoreAssumption

LEMMA InitType == Init => TypeOK
<1> SUFFICES ASSUME Init PROVE TypeOK
  OBVIOUS
<1>1. frames \in [FrameNo -> Frame]
  BY DEF Init, Frame, NoFrame
<1>2. handled \in [FrameNo -> SUBSET Motors] /\ todo \in [Callers -> SUBSET Motors]
  BY DEF Init
<1>3. method \in [Callers -> Methods]
  BY DEF Init, Methods
<1>4. hand \in [Threads -> 0..MaxFrames] /\ cached \in [Motors -> 0..MaxFrames]
      /\ calledAt \in [Callers -> 0..MaxFrames]
  BY DEF Init
<1>10. abandoned \in [Callers -> SUBSET Motors]
  BY DEF Init
<1>5. wpc \in [Workers -> WorkerStates] /\ pc \in [Callers -> CallerStates]
  BY DEF Init, WorkerStates, CallerStates
<1>6. mine \in [Callers -> Workers \cup {NoOne}] /\ handle \in Workers \cup {NoOne}
      /\ {startLock, threadLock, recvLock} \subseteq Callers \cup {NoOne}
  BY DEF Init
<1>7. {txGap, active, busOpen, dropped} \subseteq BOOLEAN
  BY DEF Init
<1>8. arrived \in 0..MaxFrames /\ popped \in 0..MaxFrames /\ popped <= arrived
  BY DEF Init
<1>9. devices \in SUBSET Motors /\ enabled \in SUBSET Motors
  BY DEF Init
<1> QED
  BY <1>1, <1>2, <1>3, <1>4, <1>5, <1>6, <1>7, <1>8, <1>9, <1>10 DEF TypeOK

(* Every variable keeps its type, whatever the callers do. *)
THEOREM TypeCorrect == SafeSpec => []TypeOK
<1>1. Init => TypeOK
  BY InitType
<1>2. TypeOK /\ [Next]_vars => TypeOK'
  <2> SUFFICES ASSUME TypeOK, [Next]_vars PROVE TypeOK'
    OBVIOUS
  <2> USE DEF TypeOK, Goto
  <2>1. ASSUME NEW c \in Callers, NEW m \in Motors, AddDevice(c, m) PROVE TypeOK'
    BY <2>1 DEF AddDevice, Begin, Methods, CallerStates, lifecycleVars, frameVars
  <2>2. ASSUME NEW c \in Callers, PollFeedbackOnce(c) PROVE TypeOK'
    BY <2>2 DEF PollFeedbackOnce, Begin, Methods, CallerStates, lifecycleVars, frameVars
  <2>3. ASSUME NEW c \in Callers, BulkDeviceOp(c) PROVE TypeOK'
    BY <2>3 DEF BulkDeviceOp, Begin, Methods, CallerStates, lifecycleVars, frameVars
  <2>4. ASSUME NEW c \in Callers, StopFlag(c) PROVE TypeOK'
    <3>1. PICK m \in {"shutdown", "close_bus", "drop"} : Begin(c, m)
      BY <2>4 DEF StopFlag
    <3>2. method' \in [Callers -> Methods]
      BY <3>1 DEF Begin, Methods
    <3>3. /\ calledAt' \in [Callers -> 0..MaxFrames] /\ dropped' \in BOOLEAN
          /\ abandoned' \in [Callers -> SUBSET Motors]
      BY <3>1 DEF Begin
    <3> QED
      BY <2>4, <3>2, <3>3 DEF StopFlag, CallerStates, frameVars
  <2>5. ASSUME NEW c \in Callers, PollingAlreadyActive(c) PROVE TypeOK'
    BY <2>5 DEF PollingAlreadyActive, CallerStates, lifecycleVars, frameVars, callVars
  <2>6. ASSUME NEW c \in Callers, SpawnWorker(c) PROVE TypeOK'
    BY <2>6 DEF NotActive, SpawnWorker, CallerStates, WorkerStates, frameVars, callVars
  <2>7. ASSUME NEW c \in Callers, StoreHandle(c) PROVE TypeOK'
    BY <2>7 DEF StoreHandle, CallerStates, frameVars, callVars
  <2>8. ASSUME NEW c \in Callers, DrainPop(c) PROVE TypeOK'
    BY <2>8 DEF DrainPop, MayReceive, Pop, Queued, Threads, CallerStates, lifecycleVars, callVars
  <2>9. ASSUME NEW c \in Callers, DrainEnd(c) PROVE TypeOK'
    BY <2>9 DEF DrainEnd, MayReceive, AfterDrain, AfterBulk, CallerStates, lifecycleVars,
                frameVars, callVars
  <2>10. ASSUME NEW c \in Callers, DrainRoute(c) PROVE TypeOK'
    BY <2>10 DEF DrainRoute, Route, Takers, Handle, HandleFails, AfterDrain, AfterBulk,
                 CallerStates, Threads, lifecycleVars, callVars
  <2>11. ASSUME NEW c \in Callers, BulkStep(c) PROVE TypeOK'
    <3>1. enabled' \in SUBSET Motors
      BY <2>11 DEF BulkStep
    <3> QED
      BY <2>11, <3>1 DEF BulkStep, CallerStates, lifecycleVars, frameVars, callVars
  <2>12. ASSUME NEW c \in Callers, BulkFails(c) PROVE TypeOK'
    BY <2>12 DEF BulkFails, AfterBulk, CallerStates, lifecycleVars, frameVars, callVars
  <2>13. ASSUME NEW c \in Callers, NothingToJoin(c) PROVE TypeOK'
    BY <2>13 DEF NothingToJoin, AfterStop, CallerStates, lifecycleVars, frameVars, callVars
  <2>14. ASSUME NEW c \in Callers, TakeHandle(c) PROVE TypeOK'
    BY <2>14 DEF TakeHandle, CallerStates, frameVars, callVars
  <2>15. ASSUME NEW c \in Callers, JoinWorker(c) PROVE TypeOK'
    BY <2>15 DEF Finished, UnlockThread, JoinWorker, AfterStop, CallerStates, frameVars, callVars
  <2>16. ASSUME NEW c \in Callers, CloseBus(c) PROVE TypeOK'
    BY <2>16 DEF CloseBus, CallerStates, lifecycleVars, frameVars, callVars
  <2>17. ASSUME NEW w \in Workers, WorkerStep(w) PROVE TypeOK'
    <3>1. CASE WorkerCheck(w)
      BY <3>1 DEF AfterCheck, AfterIdle, WorkerCheck, WorkerStates, lifecycleVars, frameVars, callVars
    <3>2. CASE WorkerPop(w)
      BY <3>2 DEF WorkerPop, Pop, Queued, Threads, WorkerStates, lifecycleVars, callVars
    <3>3. CASE WorkerIdle(w)
      BY <3>3 DEF AfterIdle, WorkerIdle, WorkerStates, lifecycleVars, frameVars, callVars
    <3>4. CASE WorkerRoute(w)
      <4>1. hand[w] \in 0..MaxFrames /\ hand' = [hand EXCEPT ![w] = 0]
        BY <3>4 DEF WorkerRoute, Threads
      <4>2. CASE UNCHANGED <<handled, cached>>
        BY <3>4, <4>1, <4>2 DEF WorkerRoute, Threads, WorkerStates, lifecycleVars, callVars
      <4>3. ASSUME NEW m \in Motors, Handle(m, hand[w]) \/ HandleFails(m, hand[w]) PROVE TypeOK'
        <5>1. handled' \in [FrameNo -> SUBSET Motors]
          BY <4>3 DEF Handle, HandleFails
        <5>2. cached' \in [Motors -> 0..MaxFrames]
          BY <4>1, <4>3 DEF Handle, HandleFails
        <5> QED
          BY <3>4, <4>1, <5>1, <5>2 DEF WorkerRoute, Threads, WorkerStates, lifecycleVars, callVars
      <4> QED
        BY <3>4, <4>2, <4>3 DEF WorkerRoute, Route, Takers
    <3> QED
      BY <2>17, <3>1, <3>2, <3>3, <3>4 DEF WorkerStep
  <2>18. CASE Arrive
    BY <2>18 DEF Arrive, FrameNo, lifecycleVars, callVars
  <2>19. CASE UNCHANGED vars
    BY <2>19 DEF vars, lifecycleVars, frameVars, callVars
  <2> QED
    BY <2>1, <2>2, <2>3, <2>4, <2>5, <2>6, <2>7, <2>8, <2>9, <2>10, <2>11, <2>12, <2>13,
       <2>14, <2>15, <2>16, <2>17, <2>18, <2>19 DEF Next, NewCall, CallerStep
<1> QED
  BY <1>1, <1>2, PTL DEF SafeSpec

-----------------------------------------------------------------------------
(***************************************************************************)
(* One polling thread, when calls are serialized.                          *)
(*                                                                         *)
(* OneWorker is not inductive: the step that spawns a worker has to know   *)
(* that no earlier one is alive.  That follows from who is accountable for *)
(* a live worker (the stored handle, or the caller that is storing or      *)
(* joining it) and from the flag being cleared only on the way to a join.  *)
(***************************************************************************)
OneCaller == \A c, d \in Callers : pc[c] # "idle" /\ pc[d] # "idle" => c = d
Holding(c) == pc[c] \in {"store", "join"}
Accountable ==
  \A w \in Live : \/ handle = w /\ \A c \in Callers : ~Holding(c)
                  \/ \E c \in Callers : Holding(c) /\ mine[c] = w
StoppedIsQuiet == ~active => Live = {} \/ \E c \in Callers : pc[c] \in {"take", "join"}
DropStops ==
  dropped => /\ ~active
             /\ \A c \in Callers : \/ pc[c] = "idle"
                                   \/ pc[c] \in {"take", "join"} /\ method[c] = "drop"
LifecycleInv == TypeOK /\ OneCaller /\ Accountable /\ StoppedIsQuiet /\ DropStops

(* A step that leaves the lifecycle alone and moves one caller between the *)
(* other labels preserves the invariant.                                   *)
LEMMA LifecycleFrame ==
  ASSUME NEW c \in Callers, NEW label, LifecycleInv, TypeOK',
         UNCHANGED <<wpc, handle, mine, active, dropped, method>>, Goto(c, label),
         pc[c] \notin {"idle", "store", "take", "join"},
         label \notin {"store", "take", "join"},
         dropped => label = "idle"
  PROVE  LifecycleInv'
<1> USE DEF LifecycleInv, Goto
<1>1. \A d \in Callers : pc'[d] = IF d = c THEN label ELSE pc[d]
  BY DEF TypeOK
<1>2. OneCaller'
  BY <1>1 DEF OneCaller
<1>3. Accountable'
  BY <1>1 DEF Accountable, Holding, Live
<1>4. StoppedIsQuiet'
  BY <1>1 DEF StoppedIsQuiet, Live
<1>5. DropStops'
  BY <1>1 DEF DropStops
<1> QED
  BY <1>2, <1>3, <1>4, <1>5

(* A new call by the only caller that was not idle. *)
LEMMA LifecycleBegin ==
  ASSUME Serialized, NEW c \in Callers, NEW m \in Methods, NEW label,
         LifecycleInv, TypeOK',
         UNCHANGED <<wpc, handle, mine>>, Begin(c, m), Goto(c, label),
         label \notin {"store", "join"},
         \/ active' = active /\ m # "drop" /\ label # "take"
         \/ active' = FALSE /\ label = "take"
  PROVE  LifecycleInv'
<1> USE DEF LifecycleInv, Goto
<1>1. \A d \in Callers : pc[d] = "idle"
  BY DEF Begin
<1>2. \A d \in Callers : pc'[d] = IF d = c THEN label ELSE "idle"
  BY <1>1 DEF TypeOK
<1>3. OneCaller'
  BY <1>2 DEF OneCaller
<1>4. Accountable'
  BY <1>1, <1>2 DEF Accountable, Holding, Live
<1>5. StoppedIsQuiet'
  BY <1>1, <1>2 DEF StoppedIsQuiet, Live
<1>6. DropStops'
  <2>1. dropped' <=> m = "drop"
    BY DEF Begin
  <2>2. m = "drop" => ~active' /\ label = "take" /\ method'[c] = "drop"
    BY DEF Begin, TypeOK
  <2>3. CASE m = "drop"
    BY <1>2, <2>2, <2>3 DEF DropStops
  <2>4. CASE m # "drop"
    BY <2>1, <2>4 DEF DropStops
  <2> QED
    BY <2>3, <2>4
<1> QED
  BY <1>3, <1>4, <1>5, <1>6

(* What follows stop_polling_thread, once no worker is alive. *)
LEMMA AfterStopLifecycle ==
  ASSUME NEW c \in Callers, LifecycleInv, TypeOK', pc[c] \in {"take", "join"},
         \A d \in Callers : d # c => pc[d] = "idle",
         Live' = {}, AfterStop(c), UNCHANGED <<active, dropped, method>>,
         dropped => method[c] = "drop"
  PROVE  LifecycleInv'
<1>1. \A d \in Callers : pc'[d] \in {"idle", "bulk", "close"} /\ (d # c => pc'[d] = "idle")
  BY DEF AfterStop, Goto, LifecycleInv, TypeOK
<1>2. dropped => \A d \in Callers : pc'[d] = "idle"
  BY DEF AfterStop, Goto, LifecycleInv, TypeOK
<1> QED
  BY <1>1, <1>2 DEF LifecycleInv, OneCaller, Accountable, StoppedIsQuiet, DropStops

LEMMA LifecycleInductive ==
  ASSUME Serialized, LifecycleInv, [Next]_vars, TypeOK'
  PROVE  LifecycleInv'
<1> USE DEF LifecycleInv
<1>1. ASSUME NEW c \in Callers, NewCall(c) PROVE LifecycleInv'
  <2>1. ASSUME NEW m \in Motors, AddDevice(c, m) PROVE LifecycleInv'
    BY <2>1, LifecycleBegin DEF AddDevice, Methods, lifecycleVars
  <2>2. CASE PollFeedbackOnce(c)
    BY <2>2, LifecycleBegin DEF PollFeedbackOnce, Methods, lifecycleVars
  <2>3. CASE BulkDeviceOp(c)
    BY <2>3, LifecycleBegin DEF BulkDeviceOp, Methods, lifecycleVars
  <2>4. CASE StopFlag(c)
    BY <2>4, LifecycleBegin DEF StopFlag, Methods
  <2> QED
    BY <1>1, <2>1, <2>2, <2>3, <2>4 DEF NewCall
<1>2. ASSUME NEW c \in Callers, CallerStep(c) PROVE LifecycleInv'
  <2>1. CASE PollingAlreadyActive(c)
    BY <2>1, LifecycleFrame DEF PollingAlreadyActive, lifecycleVars, callVars
  <2>2. CASE SpawnWorker(c)
    <3>1. PICK w \in Workers : /\ wpc[w] = "unborn"
                               /\ wpc' = [wpc EXCEPT ![w] = "check"]
                               /\ mine' = [mine EXCEPT ![c] = w]
      BY <2>2 DEF NotActive, SpawnWorker
    <3>2. \A d \in Callers : d # c => pc[d] = "idle"
      BY <2>2 DEF NotActive, SpawnWorker, OneCaller
    <3>3. \A d \in Callers : pc'[d] = IF d = c THEN "store" ELSE "idle"
      BY <2>2, <3>2 DEF NotActive, SpawnWorker, Goto, TypeOK
    <3>4. Live = {}
      BY <2>2, <3>2 DEF NotActive, SpawnWorker, StoppedIsQuiet
    <3>5. Live' = {w}
      BY <3>1, <3>4 DEF Live, TypeOK
    <3>6. Accountable'
      BY <3>1, <3>3, <3>5 DEF Accountable, Holding, TypeOK
    <3>7. ~dropped
      BY <2>2 DEF NotActive, SpawnWorker, DropStops
    <3> QED
      BY <2>2, <3>3, <3>6, <3>7 DEF NotActive, SpawnWorker, OneCaller, StoppedIsQuiet, DropStops, callVars
  <2>3. CASE StoreHandle(c)
    <3>1. \A d \in Callers : pc'[d] = "idle"
      BY <2>3 DEF StoreHandle, OneCaller, Goto, TypeOK
    <3>2. \A w \in Live : w = mine[c]
      BY <2>3 DEF StoreHandle, Accountable, Holding, OneCaller
    <3>3. Live' = Live
      BY <2>3 DEF StoreHandle, Live
    <3>4. ~active => Live = {}
      BY <2>3 DEF StoreHandle, StoppedIsQuiet, OneCaller
    <3>5. ~dropped
      BY <2>3 DEF StoreHandle, DropStops
    <3> QED
      BY <2>3, <3>1, <3>2, <3>3, <3>4, <3>5
         DEF StoreHandle, OneCaller, Accountable, Holding, StoppedIsQuiet, DropStops, callVars
  <2>4. CASE DrainPop(c)
    <3>1. ~dropped
      BY <2>4 DEF DrainPop, MayReceive, DropStops
    <3> QED
      BY <2>4, <3>1, LifecycleFrame DEF DrainPop, MayReceive, lifecycleVars, callVars
  <2>5. CASE DrainEnd(c)
    <3>1. ~dropped
      BY <2>5 DEF DrainEnd, MayReceive, DropStops
    <3> QED
      BY <2>5, <3>1, LifecycleFrame
         DEF DrainEnd, MayReceive, AfterDrain, AfterBulk, lifecycleVars, callVars
  <2>6. CASE DrainRoute(c)
    <3>1. ~dropped
      BY <2>6 DEF DrainRoute, DropStops
    <3> QED
      BY <2>6, <3>1, LifecycleFrame
         DEF DrainRoute, AfterDrain, AfterBulk, lifecycleVars, callVars
  <2>7. CASE BulkStep(c)
    <3>1. ~dropped
      BY <2>7 DEF BulkStep, DropStops
    <3> QED
      BY <2>7, <3>1, LifecycleFrame DEF BulkStep, lifecycleVars, callVars
  <2>8. CASE BulkFails(c)
    <3>1. ~dropped
      BY <2>8 DEF BulkFails, DropStops
    <3> QED
      BY <2>8, <3>1, LifecycleFrame DEF BulkFails, AfterBulk, lifecycleVars, callVars
  <2>9. CASE NothingToJoin(c)
    <3>1. \A d \in Callers : d # c => pc[d] = "idle"
      BY <2>9 DEF NothingToJoin, OneCaller
    <3>2. Live = {}
      BY <2>9, <3>1 DEF NothingToJoin, Accountable, Holding, Live
    <3>3. dropped => method[c] = "drop"
      BY <2>9 DEF NothingToJoin, DropStops
    <3> QED
      BY <2>9, <3>1, <3>2, <3>3, AfterStopLifecycle
         DEF NothingToJoin, lifecycleVars, callVars, Live
  <2>10. CASE TakeHandle(c)
    <3>1. \A d \in Callers : d # c => pc[d] = "idle"
      BY <2>10 DEF TakeHandle, OneCaller
    <3>2. \A d \in Callers : pc'[d] = IF d = c THEN "join" ELSE "idle"
      BY <2>10, <3>1 DEF TakeHandle, Goto, TypeOK
    <3>3. mine'[c] = handle /\ Live' = Live
      BY <2>10 DEF TakeHandle, TypeOK, Live
    <3>4. \A w \in Live : w = handle
      BY <2>10, <3>1 DEF TakeHandle, Accountable, Holding
    <3> QED
      BY <2>10, <3>2, <3>3, <3>4
         DEF TakeHandle, OneCaller, Accountable, Holding, StoppedIsQuiet, DropStops, callVars
  <2>11. CASE JoinWorker(c)
    <3>1. \A d \in Callers : d # c => pc[d] = "idle"
      BY <2>11 DEF Finished, UnlockThread, JoinWorker, OneCaller
    <3>2. \A w \in Live : w = mine[c]
      BY <2>11, <3>1 DEF Finished, UnlockThread, JoinWorker, Accountable, Holding
    <3>3. Live = {}
      BY <2>11, <3>2 DEF Finished, UnlockThread, JoinWorker, Live
    <3>4. dropped => method[c] = "drop"
      BY <2>11 DEF Finished, UnlockThread, JoinWorker, DropStops
    <3> QED
      BY <2>11, <3>1, <3>3, <3>4, AfterStopLifecycle DEF Finished, UnlockThread, JoinWorker, callVars, Live
  <2>12. CASE CloseBus(c)
    <3>1. ~dropped
      BY <2>12 DEF CloseBus, DropStops
    <3> QED
      BY <2>12, <3>1, LifecycleFrame DEF CloseBus, lifecycleVars, callVars
  <2> QED
    BY <1>2, <2>1, <2>2, <2>3, <2>4, <2>5, <2>6, <2>7, <2>8, <2>9, <2>10, <2>11, <2>12
       DEF CallerStep
<1>3. ASSUME NEW w \in Workers, WorkerStep(w) PROVE LifecycleInv'
  <2>1. UNCHANGED <<pc, handle, mine, active, dropped, method>>
    BY <1>3 DEF AfterCheck, AfterIdle, WorkerStep, WorkerCheck, WorkerPop, WorkerIdle, WorkerRoute,
                lifecycleVars, callVars
  <2>2. Live' \subseteq Live
    BY <1>3 DEF AfterCheck, AfterIdle, WorkerStep, WorkerCheck, WorkerPop, WorkerIdle, WorkerRoute, Live, TypeOK
  <2> QED
    BY <2>1, <2>2 DEF OneCaller, Accountable, Holding, StoppedIsQuiet, DropStops
<1>4. CASE Arrive \/ UNCHANGED vars
  BY <1>4 DEF Arrive, vars, lifecycleVars, callVars, OneCaller, Accountable, Holding, Live,
              StoppedIsQuiet, DropStops
<1> QED
  BY <1>1, <1>2, <1>3, <1>4 DEF Next

LEMMA LifecycleCorrect == ASSUME Serialized PROVE SafeSpec => []LifecycleInv
<1>1. Init => LifecycleInv
  <2> SUFFICES ASSUME Init PROVE LifecycleInv
    OBVIOUS
  <2>1. TypeOK
    BY InitType
  <2> QED
    BY <2>1 DEF Init, LifecycleInv, OneCaller, Accountable, Live, StoppedIsQuiet, DropStops
<1>2. LifecycleInv /\ [Next]_vars /\ TypeOK' => LifecycleInv'
  BY LifecycleInductive
<1> QED
  BY <1>1, <1>2, TypeCorrect, PTL DEF SafeSpec

(* At most one polling thread is alive, so frames are routed by one        *)
(* worker, and drop leaves none behind.                                    *)
THEOREM SerializedOneWorker == ASSUME Serialized PROVE SafeSpec => []OneWorker
<1>1. LifecycleInv => OneWorker
  <2> SUFFICES ASSUME LifecycleInv PROVE OneWorker
    OBVIOUS
  <2>1. \A v, w \in Live : v = w
    BY DEF LifecycleInv, OneCaller, Accountable, Holding
  <2>2. CASE Live = {}
    BY <2>2, FS_EmptySet DEF OneWorker
  <2>3. ASSUME NEW w \in Live PROVE Cardinality(Live) <= 1
    <3>1. Live = {w}
      BY <2>1, <2>3
    <3>2. Cardinality({w}) = 1
      BY FS_Singleton
    <3> QED
      BY <3>1, <3>2
  <2>4. dropped /\ Idle => Live = {}
    BY DEF LifecycleInv, Idle, StoppedIsQuiet, DropStops
  <2> QED
    BY <2>2, <2>3, <2>4 DEF OneWorker
<1> QED
  BY <1>1, LifecycleCorrect, PTL

-----------------------------------------------------------------------------
(***************************************************************************)
(* What shutdown has still to disable, when calls are serialized: the      *)
(* devices it has not come to, and those a failing one took along.         *)
(* ShutdownDisablesAll speaks of the moment before the close; DisablingInv *)
(* carries it back to the snapshot, through the drains between two         *)
(* disables, which may fail.                                               *)
(***************************************************************************)
Disabling(c) ==
  method[c] = "shutdown" /\ pc[c] \in {"bulk", "drain", "route", "close"} /\ busOpen
DisablingInv ==
  \A c \in Callers :
    Disabling(c) =>
      devices \cap enabled \subseteq IF pc[c] = "close" THEN abandoned[c] ELSE todo[c]
ShutdownInv == LifecycleInv /\ DisablingInv

(* A caller's step is the only one there is: the others are idle.          *)
LEMMA OthersIdle ==
  ASSUME Serialized, LifecycleInv, NEW c \in Callers, NewCall(c) \/ CallerStep(c)
  PROVE  \A d \in Callers : d # c => pc[d] = "idle" /\ pc'[d] = "idle"
<1>1. \A d \in Callers : d # c => pc[d] = "idle"
  <2>1. CASE NewCall(c)
    BY <2>1 DEF NewCall, AddDevice, PollFeedbackOnce, BulkDeviceOp, StopFlag, Begin
  <2>2. CASE CallerStep(c)
    <3>1. pc[c] # "idle"
      BY <2>2 DEF CallerStep, PollingAlreadyActive, SpawnWorker, StoreHandle, DrainPop,
                  DrainEnd, MayReceive, DrainRoute, BulkStep, BulkFails, NothingToJoin,
                  TakeHandle, JoinWorker, CloseBus
    <3> QED
      BY <3>1 DEF LifecycleInv, OneCaller
  <2> QED
    BY <2>1, <2>2
<1>2. \E label : Goto(c, label)
  <2>1. CASE NewCall(c)
    BY <2>1 DEF NewCall, AddDevice, PollFeedbackOnce, BulkDeviceOp, StopFlag
  <2>2. CASE CallerStep(c)
    BY <2>2 DEF CallerStep, PollingAlreadyActive, SpawnWorker, StoreHandle, DrainPop,
                DrainEnd, DrainRoute, BulkStep, BulkFails, NothingToJoin, AfterStop,
                TakeHandle, JoinWorker, CloseBus
  <2> QED
    BY <2>1, <2>2
<1> QED
  BY <1>1, <1>2 DEF Goto, LifecycleInv, TypeOK

LEMMA DisablingInductive ==
  ASSUME Serialized, ShutdownInv, [Next]_vars
  PROVE  DisablingInv'
<1> USE DEF ShutdownInv, LifecycleInv, TypeOK, Goto
<1>1. ASSUME NEW c \in Callers, NewCall(c) \/ CallerStep(c) PROVE DisablingInv'
  <2>1. SUFFICES ASSUME Disabling(c)'
                 PROVE  (devices \cap enabled \subseteq
                           IF pc[c] = "close" THEN abandoned[c] ELSE todo[c])'
    BY <1>1, OthersIdle DEF DisablingInv, Disabling
  <2>2. CASE NewCall(c)
    BY <2>1, <2>2 DEF NewCall, AddDevice, PollFeedbackOnce, BulkDeviceOp, StopFlag, Begin, Disabling
  <2>3. CASE PollingAlreadyActive(c) \/ SpawnWorker(c) \/ StoreHandle(c) \/ TakeHandle(c) \/ CloseBus(c)
    BY <2>1, <2>3 DEF PollingAlreadyActive, SpawnWorker, StoreHandle, TakeHandle, CloseBus, Disabling, callVars
  <2>4. CASE DrainPop(c)
    BY <2>1, <2>4 DEF DrainPop, MayReceive, Disabling, DisablingInv, callVars
  <2>5. CASE DrainEnd(c)
    BY <2>1, <2>5 DEF DrainEnd, MayReceive, AfterDrain, AfterBulk, Disabling, DisablingInv, callVars
  <2>6. CASE DrainRoute(c)
    BY <2>1, <2>6 DEF DrainRoute, AfterDrain, AfterBulk, Disabling, DisablingInv, callVars
  <2>7. CASE BulkStep(c)
    <3>1. PICK m \in todo[c] : /\ enabled' = enabled \ {m}
                               /\ todo' = [todo EXCEPT ![c] = @ \ {m}]
      BY <2>1, <2>7 DEF BulkStep, Disabling, callVars
    <3>2. devices' = devices /\ pc'[c] = "drain" /\ pc[c] = "bulk" /\ Disabling(c)
      BY <2>1, <2>7 DEF BulkStep, Disabling, callVars
    <3> QED
      BY <3>1, <3>2 DEF DisablingInv
  <2>8. CASE BulkFails(c)
    <3>1. devices \cap enabled \subseteq todo[c]
      BY <2>1, <2>8 DEF BulkFails, Disabling, DisablingInv
    <3>2. devices' = devices /\ enabled' = enabled /\ abandoned'[c] = todo[c]
      BY <2>8 DEF BulkFails
    <3>3. pc'[c] = "close"
      BY <2>1, <2>8 DEF BulkFails, Disabling, AfterBulk
    <3> QED
      BY <3>1, <3>2, <3>3
  <2>9. CASE NothingToJoin(c) \/ JoinWorker(c)
    BY <2>1, <2>9 DEF NothingToJoin, JoinWorker, AfterStop, Disabling, callVars
  <2> QED
    BY <1>1, <2>2, <2>3, <2>4, <2>5, <2>6, <2>7, <2>8, <2>9 DEF CallerStep
<1>2. ASSUME NEW w \in Workers, WorkerStep(w) PROVE DisablingInv'
  BY <1>2 DEF WorkerStep, WorkerCheck, WorkerPop, WorkerIdle, WorkerRoute, DisablingInv,
              Disabling, callVars
<1>3. CASE Arrive \/ UNCHANGED vars
  BY <1>3 DEF Arrive, vars, DisablingInv, Disabling, callVars
<1> QED
  BY <1>1, <1>2, <1>3 DEF Next

(* When shutdown is about to close an open bus, no registered motor is     *)
(* left enabled but those it abandoned when a device failed.               *)
THEOREM SerializedShutdownDisables ==
  ASSUME Serialized PROVE SafeSpec => []ShutdownDisablesAll
<1>1. Init => DisablingInv
  BY DEF Init, DisablingInv, Disabling
<1>2. LifecycleInv /\ DisablingInv /\ [Next]_vars => DisablingInv'
  BY DisablingInductive DEF ShutdownInv
<1>3. DisablingInv => ShutdownDisablesAll
  BY DEF DisablingInv, Disabling, ShutdownDisablesAll
<1> QED
  BY <1>1, <1>2, <1>3, LifecycleCorrect, PTL DEF SafeSpec

-----------------------------------------------------------------------------
(***************************************************************************)
(* The bus is closed behind the polling thread.  A call that has stopped   *)
(* the thread is past the join when it closes, so nobody else could have   *)
(* cleared the flag on its way to a join; and the flag stays clear for the *)
(* whole of a shutdown, whose drains then have the bus to themselves.      *)
(***************************************************************************)
Closing(c) ==
  \/ pc[c] \in {"take", "join", "close"}
  \/ method[c] = "shutdown" /\ pc[c] \in {"bulk", "drain", "route"}
ClosingInv == \A c \in Callers : Closing(c) => ~active

LEMMA ClosingInductive ==
  ASSUME Serialized, LifecycleInv, ClosingInv, [Next]_vars
  PROVE  ClosingInv'
<1> USE DEF LifecycleInv, TypeOK, Goto
<1>1. ASSUME NEW c \in Callers, NewCall(c) \/ CallerStep(c) PROVE ClosingInv'
  <2>1. SUFFICES ASSUME Closing(c)' PROVE ~active'
    BY <1>1, OthersIdle DEF ClosingInv, Closing
  <2>2. CASE NewCall(c)
    BY <2>1, <2>2 DEF NewCall, AddDevice, PollFeedbackOnce, BulkDeviceOp, StopFlag, Begin, Closing
  <2>3. CASE PollingAlreadyActive(c) \/ SpawnWorker(c) \/ StoreHandle(c) \/ CloseBus(c)
    BY <2>1, <2>3 DEF PollingAlreadyActive, SpawnWorker, StoreHandle, CloseBus, Closing
  <2>4. CASE DrainPop(c) \/ DrainRoute(c)
    BY <2>1, <2>4 DEF DrainPop, MayReceive, DrainRoute, AfterDrain, AfterBulk, Closing,
                      ClosingInv, lifecycleVars, callVars
  <2>5. CASE DrainEnd(c) \/ BulkStep(c) \/ BulkFails(c)
    BY <2>1, <2>5 DEF DrainEnd, MayReceive, AfterDrain, AfterBulk, BulkStep, BulkFails,
                      Closing, ClosingInv, lifecycleVars, callVars
  <2>6. CASE NothingToJoin(c) \/ TakeHandle(c) \/ JoinWorker(c)
    BY <2>1, <2>6 DEF NothingToJoin, TakeHandle, JoinWorker, Closing, ClosingInv, lifecycleVars
  <2> QED
    BY <1>1, <2>2, <2>3, <2>4, <2>5, <2>6 DEF CallerStep
<1>2. ASSUME NEW w \in Workers, WorkerStep(w) PROVE ClosingInv'
  BY <1>2 DEF WorkerStep, WorkerCheck, WorkerPop, WorkerIdle, WorkerRoute, ClosingInv, Closing,
              lifecycleVars, callVars
<1>3. CASE Arrive \/ UNCHANGED vars
  BY <1>3 DEF Arrive, vars, ClosingInv, Closing, lifecycleVars, callVars
<1> QED
  BY <1>1, <1>2, <1>3 DEF Next

LEMMA ClosingCorrect == ASSUME Serialized PROVE SafeSpec => []ClosingInv
<1>1. Init => ClosingInv
  BY DEF Init, ClosingInv, Closing
<1>2. LifecycleInv /\ ClosingInv /\ [Next]_vars => ClosingInv'
  BY ClosingInductive
<1> QED
  BY <1>1, <1>2, LifecycleCorrect, PTL DEF SafeSpec

(* Past the join, nothing polls. *)
LEMMA ClosingIsQuiet ==
  ASSUME LifecycleInv, ClosingInv, NEW c \in Callers, Closing(c), pc[c] \notin {"take", "join"}
  PROVE  Live = {}
BY DEF LifecycleInv, OneCaller, StoppedIsQuiet, ClosingInv, Closing

(* No worker receives from a backend that is being torn down. *)
THEOREM SerializedClosesQuietly == ASSUME Serialized PROVE SafeSpec => ClosesBusQuietly
<1>1. ASSUME LifecycleInv, ClosingInv, [Next]_vars, busOpen, ~busOpen' PROVE Live = {}
  <2>1. PICK c \in Callers : CloseBus(c)
    BY <1>1 DEF Next, NewCall, AddDevice, PollFeedbackOnce, BulkDeviceOp, StopFlag, CallerStep,
                PollingAlreadyActive, SpawnWorker, StoreHandle, DrainPop, DrainEnd, DrainRoute,
                BulkStep, BulkFails, NothingToJoin, TakeHandle, JoinWorker, WorkerStep,
                WorkerCheck, WorkerPop, WorkerIdle, WorkerRoute, Arrive, vars
  <2> QED
    BY <1>1, <2>1, ClosingIsQuiet DEF CloseBus, Closing
<1>2. LifecycleInv /\ ClosingInv /\ [Next]_vars => [busOpen /\ ~busOpen' => Live = {}]_vars
  BY <1>1
<1> QED
  BY <1>2, LifecycleCorrect, ClosingCorrect, PTL DEF SafeSpec, ClosesBusQuietly

(***************************************************************************)
(* CoreController implements FeedbackDelivery, for every number of         *)
(* threads, however manual polls, bulk operations and polling workers      *)
(* interleave.                                                             *)
(*                                                                         *)
(* A thread's hand is where the promise could break: a frame in two hands, *)
(* or in a hand and already handled, would be delivered twice.  FrameInv   *)
(* says that this cannot happen.                                           *)
(***************************************************************************)
HIDE CoreAssumption DEF CoreAssumption

HandsDistinct ==
  \A s, t \in Threads : hand[s] # 0 /\ hand[s] = hand[t] => s = t
HandsUndelivered ==
  \A t \in Threads : hand[t] # 0 => /\ hand[t] <= popped
                                    /\ handled[hand[t]] = {}
                                    /\ frames[hand[t]].rx
QueueUndelivered == \A n \in FrameNo : n > popped => handled[n] = {}
HandsRoute ==
  /\ \A c \in Callers : hand[c] # 0 <=> pc[c] = "route"
  /\ \A w \in Workers : hand[w] # 0 <=> wpc[w] = "route"
FrameInv == TypeOK /\ HandsDistinct /\ HandsUndelivered /\ QueueUndelivered /\ HandsRoute

(* The three ways a step can touch frames, whoever takes it. *)
PopStep(t) ==
  /\ t \in Threads /\ hand[t] = 0 /\ Queued # {}
  /\ Pop(t) /\ UNCHANGED <<devices, arrived, frames, handled>>
RouteStep(t) ==
  /\ t \in Threads /\ hand[t] # 0
  /\ \/ \E m \in Takers(hand[t]) : handled' = [handled EXCEPT ![hand[t]] = @ \cup {m}]
     \/ Takers(hand[t]) = {} /\ UNCHANGED handled
  /\ hand' = [hand EXCEPT ![t] = 0]
  /\ UNCHANGED <<devices, arrived, popped, frames>>
NoFrameStep == UNCHANGED <<hand, arrived, popped, frames, handled>>

LEMMA StepKinds ==
  ASSUME FrameInv, Next
  PROVE  \/ Arrive
         \/ \E t \in Threads : PopStep(t) \/ RouteStep(t)
         \/ NoFrameStep /\ (\E m \in Motors : devices' = devices \cup {m})
         \/ NoFrameStep /\ UNCHANGED devices
<1> USE DEF FrameInv, HandsRoute, Threads, NoFrameStep
<1>1. ASSUME NEW c \in Callers, NewCall(c)
      PROVE  \/ NoFrameStep /\ (\E m \in Motors : devices' = devices \cup {m})
             \/ NoFrameStep /\ UNCHANGED devices
  BY <1>1 DEF NewCall, AddDevice, PollFeedbackOnce, BulkDeviceOp, StopFlag, frameVars
<1>2. ASSUME NEW c \in Callers, CallerStep(c)
      PROVE  PopStep(c) \/ RouteStep(c) \/ (NoFrameStep /\ UNCHANGED devices)
  <2>1. CASE DrainPop(c)
    BY <2>1 DEF DrainPop, MayReceive, PopStep
  <2>2. CASE DrainRoute(c)
    BY <2>2 DEF DrainRoute, RouteStep, Route, Handle, HandleFails
  <2>3. CASE DrainEnd(c) \/ BulkStep(c) \/ BulkFails(c) \/ CloseBus(c)
    BY <2>3 DEF DrainEnd, BulkStep, BulkFails, CloseBus, frameVars
  <2>4. CASE PollingAlreadyActive(c) \/ SpawnWorker(c) \/ StoreHandle(c)
    BY <2>4 DEF PollingAlreadyActive, NotActive, SpawnWorker, StoreHandle, frameVars
  <2>5. CASE NothingToJoin(c) \/ TakeHandle(c) \/ JoinWorker(c)
    BY <2>5 DEF NothingToJoin, TakeHandle, JoinWorker, frameVars
  <2> QED
    BY <1>2, <2>1, <2>2, <2>3, <2>4, <2>5 DEF CallerStep
<1>3. ASSUME NEW w \in Workers, WorkerStep(w)
      PROVE  PopStep(w) \/ RouteStep(w) \/ (NoFrameStep /\ UNCHANGED devices)
  <2>1. CASE WorkerPop(w)
    BY <2>1 DEF WorkerPop, PopStep
  <2>2. CASE WorkerRoute(w)
    BY <2>2 DEF WorkerRoute, RouteStep, Route, Handle, HandleFails
  <2>3. CASE WorkerCheck(w) \/ WorkerIdle(w)
    BY <2>3 DEF AfterCheck, AfterIdle, WorkerCheck, WorkerIdle, frameVars
  <2> QED
    BY <1>3, <2>1, <2>2, <2>3 DEF WorkerStep
<1> QED
  BY <1>1, <1>2, <1>3 DEF Next

(* The labels that say whether a thread has a frame in its hand. *)
LEMMA HandsRouteKept == ASSUME FrameInv, Next PROVE HandsRoute'
<1> USE DEF FrameInv, HandsRoute, Threads, TypeOK, Goto
<1>1. ASSUME NEW c \in Callers, NewCall(c) PROVE HandsRoute'
  BY <1>1 DEF NewCall, AddDevice, PollFeedbackOnce, BulkDeviceOp, StopFlag, Begin, frameVars
<1>2. ASSUME NEW c \in Callers, CallerStep(c) PROVE HandsRoute'
  <2>1. CASE DrainPop(c)
    BY <2>1, CoreAssumption DEF DrainPop, MayReceive, Pop, Queued, CoreAssumption
  <2>2. CASE DrainRoute(c)
    BY <2>2, CoreAssumption DEF DrainRoute, AfterDrain, AfterBulk, CoreAssumption
  <2>3. CASE DrainEnd(c)
    BY <2>3 DEF DrainEnd, MayReceive, AfterDrain, AfterBulk
  <2>4. CASE BulkStep(c) \/ BulkFails(c) \/ CloseBus(c)
    BY <2>4 DEF BulkStep, BulkFails, CloseBus, AfterBulk
  <2>5. CASE PollingAlreadyActive(c) \/ StoreHandle(c)
    BY <2>5 DEF PollingAlreadyActive, StoreHandle
  <2>6. CASE SpawnWorker(c)
    BY <2>6 DEF NotActive, SpawnWorker
  <2>7. CASE NothingToJoin(c)
    BY <2>7 DEF NothingToJoin, AfterStop
  <2>8. CASE TakeHandle(c)
    BY <2>8 DEF TakeHandle
  <2>9. CASE JoinWorker(c)
    BY <2>9 DEF Finished, UnlockThread, JoinWorker, AfterStop
  <2> QED
    BY <1>2, <2>1, <2>2, <2>3, <2>4, <2>5, <2>6, <2>7, <2>8, <2>9 DEF CallerStep
<1>3. ASSUME NEW w \in Workers, WorkerStep(w) PROVE HandsRoute'
  <2>1. CASE WorkerPop(w)
    BY <2>1, CoreAssumption DEF WorkerPop, Pop, Queued, CoreAssumption
  <2>2. CASE WorkerRoute(w)
    BY <2>2, CoreAssumption DEF WorkerRoute, CoreAssumption
  <2>3. CASE WorkerCheck(w) \/ WorkerIdle(w)
    BY <2>3 DEF AfterCheck, AfterIdle, WorkerCheck, WorkerIdle
  <2> QED
    BY <1>3, <2>1, <2>2, <2>3 DEF WorkerStep
<1>4. CASE Arrive
  BY <1>4 DEF Arrive
<1> QED
  BY <1>1, <1>2, <1>3, <1>4 DEF Next

LEMMA PopKeepsFrames ==
  ASSUME FrameInv, NEW t \in Threads, PopStep(t)
  PROVE  HandsDistinct' /\ HandsUndelivered' /\ QueueUndelivered'
<1> USE DEF FrameInv, TypeOK, PopStep, Pop
<1>1. popped + 1 \in FrameNo /\ popped + 1 > popped /\ popped \in Nat
  BY CoreAssumption DEF Queued, FrameNo, CoreAssumption
<1>2. \A s \in Threads : hand'[s] = hand[s] \/ (s = t /\ hand'[s] = popped + 1 /\ frames[popped + 1].rx)
  OBVIOUS
<1>3. \A s \in Threads : hand[s] \in Nat /\ hand[s] <= popped
  BY <1>1, CoreAssumption DEF HandsUndelivered, CoreAssumption
<1>4. HandsDistinct'
  BY <1>1, <1>2, <1>3 DEF HandsDistinct
<1>5. HandsUndelivered'
  BY <1>1, <1>2, <1>3 DEF HandsUndelivered, QueueUndelivered
<1>6. QueueUndelivered'
  BY <1>1 DEF QueueUndelivered, FrameNo
<1> QED
  BY <1>4, <1>5, <1>6

LEMMA RouteKeepsFrames ==
  ASSUME FrameInv, NEW t \in Threads, RouteStep(t)
  PROVE  HandsDistinct' /\ HandsUndelivered' /\ QueueUndelivered'
<1> USE DEF FrameInv, TypeOK, RouteStep
<1>1. \A s \in Threads : hand'[s] = IF s = t THEN 0 ELSE hand[s]
  OBVIOUS
<1>2. \A n \in FrameNo : n # hand[t] => handled'[n] = handled[n]
  OBVIOUS
<1>3. \A s \in Threads : hand[s] # 0 => hand[s] \in FrameNo /\ hand[s] <= popped
  BY CoreAssumption DEF HandsUndelivered, FrameNo, CoreAssumption
<1>4. HandsDistinct'
  BY <1>1 DEF HandsDistinct
<1>5. HandsUndelivered'
  BY <1>1, <1>2, <1>3 DEF HandsUndelivered, HandsDistinct
<1>6. QueueUndelivered'
  BY <1>2, <1>3, CoreAssumption DEF QueueUndelivered, FrameNo, CoreAssumption
<1> QED
  BY <1>4, <1>5, <1>6

LEMMA FrameInvInductive == ASSUME FrameInv, [Next]_vars, TypeOK' PROVE FrameInv'
<1> USE DEF FrameInv
<1>1. CASE UNCHANGED vars
  BY <1>1 DEF vars, lifecycleVars, frameVars, callVars, HandsDistinct, HandsUndelivered,
              QueueUndelivered, HandsRoute
<1>2. CASE Next
  <2>1. HandsRoute'
    BY <1>2, HandsRouteKept
  <2>2. CASE Arrive
    <3>1. \A n \in 1..arrived : frames'[n] = frames[n]
      BY <2>2, CoreAssumption DEF Arrive, TypeOK, FrameNo, CoreAssumption
    <3>2. \A s \in Threads : hand[s] # 0 => hand[s] \in 1..arrived
      BY CoreAssumption DEF HandsUndelivered, TypeOK, CoreAssumption
    <3>3. HandsDistinct' /\ HandsUndelivered' /\ QueueUndelivered'
      BY <2>2, <3>1, <3>2 DEF Arrive, HandsDistinct, HandsUndelivered, QueueUndelivered
    <3> QED
      BY <2>1, <3>3
  <2>3. CASE NoFrameStep
    BY <2>1, <2>3 DEF NoFrameStep, HandsDistinct, HandsUndelivered, QueueUndelivered
  <2> QED
    BY <1>2, <2>1, <2>2, <2>3, StepKinds, PopKeepsFrames, RouteKeepsFrames
<1> QED
  BY <1>1, <1>2

LEMMA FrameInvCorrect == SafeSpec => []FrameInv
<1>1. Init => FrameInv
  <2> SUFFICES ASSUME Init PROVE FrameInv
    OBVIOUS
  <2>1. TypeOK
    BY InitType
  <2> QED
    BY <2>1 DEF Init, FrameInv, HandsDistinct, HandsUndelivered, QueueUndelivered, HandsRoute,
                Threads
<1>2. FrameInv /\ [Next]_vars /\ TypeOK' => FrameInv'
  BY FrameInvInductive
<1> QED
  BY <1>1, <1>2, TypeCorrect, PTL DEF SafeSpec

-----------------------------------------------------------------------------
(* The refinement, one kind of step at a time.                             *)
Pending == Queued \cup InHand

LEMMA PopRefines ==
  ASSUME FrameInv, TypeOK', NEW t \in Threads, PopStep(t)
  PROVE  [Delivery!Next]_(Delivery!vars)
<1> DEFINE n == popped + 1
<1> USE DEF FrameInv, TypeOK, PopStep, Pop
<1>1. n \in FrameNo /\ n \in Queued /\ Queued' = Queued \ {n}
  <2>1. MaxFrames \in Nat /\ popped \in Nat /\ arrived \in 0..MaxFrames
    BY CoreAssumption DEF CoreAssumption
  <2>2. popped' = popped + 1 /\ arrived' = arrived /\ popped + 1 \in popped + 1..arrived
    BY <2>1 DEF Queued
  <2> HIDE DEF FrameInv, TypeOK, PopStep, Pop
  <2> QED
    BY <2>1, <2>2 DEF Queued, FrameNo
<1>2. n \notin InHand
  <2>1. popped \in Nat /\ \A u \in Threads : hand[u] # 0 => hand[u] <= popped
    BY DEF HandsUndelivered
  <2> HIDE DEF FrameInv, TypeOK, PopStep, Pop
  <2> QED
    BY <2>1 DEF InHand
<1>3. CASE frames[n].rx
  <2>1. InHand' = InHand \cup {n}
    BY <1>3, <1>1 DEF InHand, FrameNo
  <2>2. Pending' = Pending
    BY <2>1, <1>1 DEF Pending
  <2> QED
    BY <2>2 DEF Delivery!vars, Pending
<1>4. CASE ~frames[n].rx
  <2>1. InHand' = InHand
    BY <1>4 DEF InHand
  <2>2. Pending' = Pending \ {n} /\ n \in Pending
    BY <2>1, <1>1, <1>2 DEF Pending
  <2>3. Delivery!Discard(n)
    BY <2>2, <1>4 DEF Delivery!Discard, Delivery!Takers, Pending
  <2> QED
    BY <2>2, <2>3 DEF Delivery!Next, Pending
<1> QED
  BY <1>3, <1>4

LEMMA RouteRefines ==
  ASSUME FrameInv, TypeOK', NEW t \in Threads, RouteStep(t)
  PROVE  Delivery!Next
<1> DEFINE n == hand[t]
<1> USE DEF FrameInv, TypeOK, RouteStep
<1>1. n \in FrameNo /\ n \in InHand /\ n \notin Queued /\ handled[n] = {} /\ frames[n].rx
  BY CoreAssumption DEF InHand, Queued, FrameNo, HandsUndelivered, CoreAssumption
<1>2. InHand' = InHand \ {n}
  BY DEF InHand, HandsDistinct
<1>3. Pending' = Pending \ {n} /\ n \in Pending
  BY <1>1, <1>2 DEF Pending, Queued
<1>4. Delivery!Takers(n) = Takers(n)
  BY <1>1 DEF Delivery!Takers, Takers
<1>5. ASSUME NEW m \in Takers(n), handled' = [handled EXCEPT ![n] = @ \cup {m}]
      PROVE  Delivery!Next
  <2>1. handled' = [handled EXCEPT ![n] = {m}]
    BY <1>1, <1>5
  <2>2. Delivery!Deliver(n, m)
    BY <1>1, <1>3, <1>4, <2>1 DEF Delivery!Deliver, Pending
  <2>3. m \in Motors
    BY DEF Takers
  <2> QED
    BY <1>3, <2>2, <2>3 DEF Delivery!Next, Pending
<1>6. CASE Takers(n) = {} /\ UNCHANGED handled
  <2>1. Delivery!Discard(n)
    BY <1>3, <1>4, <1>6 DEF Delivery!Discard, Pending
  <2> QED
    BY <1>3, <2>1 DEF Delivery!Next, Pending
<1> QED
  BY <1>5, <1>6

(* Every step is a step of the promise or leaves it alone. *)
LEMMA StepRefines ==
  ASSUME FrameInv, TypeOK', [Next]_vars
  PROVE  [Delivery!Next]_(Delivery!vars)
<1>1. CASE UNCHANGED vars
  BY <1>1 DEF vars, frameVars, Delivery!vars, Queued, InHand
<1>2. CASE Arrive
  <2>1. Queued' = Queued \cup {arrived + 1}
    BY <1>2 DEF Arrive, Queued, FrameInv, TypeOK
  <2>2. (Queued \cup InHand)' = (Queued \cup InHand) \cup {arrived + 1}
    BY <1>2, <2>1 DEF Arrive, InHand
  <2>3. PICK f \in FrameShapes : frames' = [frames EXCEPT ![arrived + 1] = f]
    BY <1>2 DEF Arrive
  <2>4. Delivery!Receive(f)
    BY <1>2, <2>2, <2>3 DEF Arrive, Delivery!Receive
  <2> QED
    BY <2>4 DEF Delivery!Next
<1>3. ASSUME NEW m \in Motors, NoFrameStep, devices' = devices \cup {m}
      PROVE  Delivery!Next
  <2>1. Delivery!Register(m)
    BY <1>3 DEF Delivery!Register, NoFrameStep, Queued, InHand
  <2> QED
    BY <2>1 DEF Delivery!Next
<1>4. CASE NoFrameStep /\ UNCHANGED devices
  BY <1>4 DEF NoFrameStep, Delivery!vars, Queued, InHand
<1> QED
  BY <1>1, <1>2, <1>3, <1>4, StepKinds, PopRefines, RouteRefines

(* Each received frame is given to one accepting device, once, or is       *)
(* nobody's: routing by any mix of threads implements the promise.         *)
THEOREM FeedbackIsDeliveredOnce == SafeSpec => DeliversEachFrameOnce
<1>1. Init => Delivery!Init
  BY DEF Init, Delivery!Init, Queued, InHand, FrameNo, NoFrame
<1>2. FrameInv /\ TypeOK' /\ [Next]_vars => [Delivery!Next]_(Delivery!vars)
  BY StepRefines
<1> QED
  BY <1>1, <1>2, FrameInvCorrect, TypeCorrect, PTL DEF SafeSpec, DeliversEachFrameOnce, Delivery!Spec

-----------------------------------------------------------------------------
(***************************************************************************)
(* Order.  A caller keeps recv_lock until it has routed, so while it has a *)
(* frame in hand nobody pops another: its frame is the newest popped, and  *)
(* what is cached is no later.  A worker routes without the lock.          *)
(***************************************************************************)
RouteHoldsLock == \A c \in Callers : pc[c] = "route" => recvLock = c

LEMMA RouteHoldsLockInductive ==
  ASSUME TypeOK, RouteHoldsLock, [Next]_vars
  PROVE  RouteHoldsLock'
<1> USE DEF RouteHoldsLock, TypeOK, Goto
<1>1. ASSUME NEW c \in Callers, NewCall(c) PROVE RouteHoldsLock'
  BY <1>1 DEF NewCall, AddDevice, PollFeedbackOnce, BulkDeviceOp, StopFlag
<1>2. ASSUME NEW c \in Callers, CallerStep(c) PROVE RouteHoldsLock'
  <2>1. CASE DrainPop(c) \/ DrainEnd(c)
    BY <2>1, CoreAssumption DEF DrainPop, DrainEnd, MayReceive, AfterDrain, AfterBulk, CoreAssumption
  <2>2. CASE DrainRoute(c)
    BY <2>2 DEF DrainRoute, AfterDrain, AfterBulk
  <2>3. CASE ~(DrainPop(c) \/ DrainEnd(c) \/ DrainRoute(c))
    BY <1>2, <2>3 DEF CallerStep, PollingAlreadyActive, SpawnWorker, StoreHandle, AfterBulk,
                      BulkStep, BulkFails, NothingToJoin, TakeHandle, JoinWorker, AfterStop,
                      CloseBus
  <2> QED
    BY <2>1, <2>2, <2>3
<1>3. ASSUME NEW w \in Workers, WorkerStep(w) PROVE RouteHoldsLock'
  BY <1>3 DEF WorkerStep, WorkerCheck, WorkerPop, WorkerIdle, WorkerRoute
<1>4. CASE Arrive \/ UNCHANGED vars
  BY <1>4 DEF Arrive, vars
<1> QED
  BY <1>1, <1>2, <1>3, <1>4 DEF Next

LEMMA RouteHoldsLockCorrect == SafeSpec => []RouteHoldsLock
<1>1. Init => RouteHoldsLock
  BY DEF Init, RouteHoldsLock
<1>2. TypeOK /\ RouteHoldsLock /\ [Next]_vars => RouteHoldsLock'
  BY RouteHoldsLockInductive
<1> QED
  BY <1>1, <1>2, TypeCorrect, PTL DEF SafeSpec

(* Whoever may pop finds no caller with a frame in hand. *)
LEMMA CallersHandsEmpty ==
  ASSUME FrameInv, RouteHoldsLock, NEW t \in Threads,
         \/ t \in Callers /\ MayReceive(t)
         \/ t \in Workers /\ recvLock = NoOne
  PROVE  \A c \in Callers : hand[c] = 0
BY CoreAssumption DEF RouteHoldsLock, MayReceive, FrameInv, HandsRoute, CoreAssumption

CallersNewest == \A c \in Callers : hand[c] # 0 => hand[c] = popped
CachedPopped == \A m \in Motors : cached[m] <= popped
NewestInv == RouteHoldsLock /\ CallersNewest /\ CachedPopped

(* A cached state that is written is written from the frame in a hand; if  *)
(* it goes back, that hand is a worker's.                                  *)
OnlyWorkersGoBack ==
  \A m \in Motors : cached'[m] < cached[m] => \E w \in Workers : cached'[m] = hand[w]

(* Only routing writes a cached state, the frame in the hand.  *)
LEMMA CachedFrame ==
  ASSUME TypeOK, FrameInv, Next
  PROVE  \/ UNCHANGED cached
         \/ \E t \in Threads, m \in Motors :
               /\ hand[t] # 0 /\ cached' = [cached EXCEPT ![m] = hand[t]]
               /\ hand' = [hand EXCEPT ![t] = 0] /\ popped' = popped
<1> USE DEF Threads, FrameInv, HandsRoute
<1>1. ASSUME NEW t \in Threads, Route(hand[t]) \/ \E m \in Takers(hand[t]) : HandleFails(m, hand[t])
      PROVE  UNCHANGED cached \/ \E m \in Motors : cached' = [cached EXCEPT ![m] = hand[t]]
  BY <1>1 DEF Route, Handle, HandleFails, Takers, TypeOK
<1>2. ASSUME NEW c \in Callers, NewCall(c) PROVE UNCHANGED cached
  BY <1>2 DEF NewCall, AddDevice, PollFeedbackOnce, BulkDeviceOp, StopFlag, frameVars
<1>3. ASSUME NEW c \in Callers, CallerStep(c), ~DrainRoute(c) PROVE UNCHANGED cached
  BY <1>3 DEF CallerStep, PollingAlreadyActive, SpawnWorker, StoreHandle, DrainPop, DrainEnd,
              BulkStep, BulkFails, NothingToJoin, TakeHandle, JoinWorker, CloseBus, frameVars
<1>4. ASSUME NEW w \in Workers, WorkerStep(w), ~WorkerRoute(w) PROVE UNCHANGED cached
  BY <1>4 DEF WorkerStep, WorkerCheck, WorkerPop, WorkerIdle, frameVars
<1>5. ASSUME NEW c \in Callers, DrainRoute(c)
      PROVE  /\ Route(hand[c]) \/ \E m \in Takers(hand[c]) : HandleFails(m, hand[c])
             /\ hand[c] # 0 /\ hand' = [hand EXCEPT ![c] = 0] /\ popped' = popped
  BY <1>5 DEF DrainRoute
<1>6. ASSUME NEW w \in Workers, WorkerRoute(w)
      PROVE  /\ Route(hand[w]) \/ \E m \in Takers(hand[w]) : HandleFails(m, hand[w])
             /\ hand[w] # 0 /\ hand' = [hand EXCEPT ![w] = 0] /\ popped' = popped
  BY <1>6 DEF WorkerRoute
<1>7. CASE Arrive
  BY <1>7 DEF Arrive
<1> QED
  BY <1>1, <1>2, <1>3, <1>4, <1>5, <1>6, <1>7 DEF Next

LEMMA NewestInductive ==
  ASSUME TypeOK, FrameInv, NewestInv, [Next]_vars
  PROVE  CallersNewest' /\ CachedPopped' /\ OnlyWorkersGoBack
<1> USE DEF NewestInv, CallersNewest, CachedPopped, OnlyWorkersGoBack
<1>0. /\ popped \in Nat /\ \A m \in Motors : cached[m] \in Nat
      /\ cached \in [Motors -> 0..MaxFrames] /\ hand \in [Threads -> 0..MaxFrames]
      /\ \A t \in Threads : hand[t] \in Nat /\ hand[t] <= popped
  BY CoreAssumption DEF TypeOK, FrameInv, HandsUndelivered, CoreAssumption
<1>1. ASSUME NEW t \in Threads, Pop(t), UNCHANGED cached,
             \/ t \in Callers /\ MayReceive(t)
             \/ t \in Workers /\ recvLock = NoOne
      PROVE  CallersNewest' /\ CachedPopped' /\ OnlyWorkersGoBack
  <2>1. \A c \in Callers : hand[c] = 0
    BY <1>1, CallersHandsEmpty
  <2>2. \A c \in Callers : hand'[c] \in {0, popped + 1}
    BY <1>0, <1>1, <2>1 DEF Pop, Threads
  <2>3. popped' = popped + 1
    BY <1>1 DEF Pop
  <2> QED
    BY <1>0, <1>1, <2>2, <2>3
<1>2. CASE UNCHANGED <<cached, hand, popped>>
  BY <1>0, <1>2
<1>3. ASSUME NEW t \in Threads, NEW m \in Motors,
             hand[t] # 0, cached' = [cached EXCEPT ![m] = hand[t]],
             hand' = [hand EXCEPT ![t] = 0], popped' = popped
      PROVE  CallersNewest' /\ CachedPopped' /\ OnlyWorkersGoBack
  <2>1. \A k \in Motors : cached'[k] = IF k = m THEN hand[t] ELSE cached[k]
    BY <1>0, <1>3
  <2>2. \A s \in Threads : hand'[s] \in {0, hand[s]}
    BY <1>0, <1>3
  <2>3. CallersNewest' /\ CachedPopped'
    BY <1>0, <1>3, <2>1, <2>2 DEF Threads
  <2>4. CASE t \in Callers
    BY <1>0, <1>3, <2>1, <2>4
  <2>5. CASE t \in Workers
    <3>1. ASSUME NEW k \in Motors, cached'[k] < cached[k] PROVE cached'[k] = hand[t]
      <4>1. cached[k] \in Nat /\ ~(cached[k] < cached[k])
        BY <1>0
      <4> QED
        BY <2>1, <3>1, <4>1
    <3> QED
      BY <2>3, <2>5, <3>1
  <2> QED
    BY <2>3, <2>4, <2>5 DEF Threads
<1>4. CASE UNCHANGED cached /\ \E t \in Threads : hand' = [hand EXCEPT ![t] = 0] /\ popped' = popped
  <2>1. \A s \in Threads : hand'[s] \in {0, hand[s]}
    BY <1>0, <1>4
  <2> QED
    BY <1>0, <1>4, <2>1 DEF Threads
<1>5. \/ UNCHANGED <<hand, popped>>
      \/ \E t \in Threads : /\ Pop(t) /\ UNCHANGED cached
                            /\ \/ t \in Callers /\ MayReceive(t)
                               \/ t \in Workers /\ recvLock = NoOne
      \/ \E t \in Threads : hand' = [hand EXCEPT ![t] = 0] /\ popped' = popped
  <2>1. ASSUME NEW c \in Callers, CallerStep(c), ~DrainPop(c), ~DrainRoute(c)
        PROVE  UNCHANGED <<hand, popped>>
    BY <2>1 DEF CallerStep, PollingAlreadyActive, SpawnWorker, StoreHandle, DrainEnd, BulkStep,
                BulkFails, NothingToJoin, TakeHandle, JoinWorker, CloseBus, frameVars
  <2>2. ASSUME NEW w \in Workers, WorkerStep(w), ~WorkerPop(w), ~WorkerRoute(w)
        PROVE  UNCHANGED <<hand, popped>>
    BY <2>2 DEF WorkerStep, WorkerCheck, WorkerIdle, frameVars
  <2>3. ASSUME NEW c \in Callers, NewCall(c) PROVE UNCHANGED <<hand, popped>>
    BY <2>3 DEF NewCall, AddDevice, PollFeedbackOnce, BulkDeviceOp, StopFlag, frameVars
  <2>4. CASE Arrive \/ UNCHANGED vars
    BY <2>4 DEF Arrive, vars, frameVars
  <2> QED
    BY <2>1, <2>2, <2>3, <2>4 DEF Next, DrainPop, DrainRoute, WorkerPop, WorkerRoute, Threads
<1>6. [\/ UNCHANGED cached
       \/ \E t \in Threads, m \in Motors :
             /\ hand[t] # 0 /\ cached' = [cached EXCEPT ![m] = hand[t]]
             /\ hand' = [hand EXCEPT ![t] = 0] /\ popped' = popped]_vars
  BY CachedFrame
<1>7. UNCHANGED vars => UNCHANGED cached
  BY DEF vars, frameVars
<1> QED
  BY <1>1, <1>2, <1>3, <1>4, <1>5, <1>6, <1>7

LEMMA NewestCorrect == SafeSpec => []NewestInv
<1>1. Init => NewestInv
  BY DEF Init, NewestInv, CallersNewest, CachedPopped, RouteHoldsLock, Threads
<1>2. TypeOK /\ FrameInv /\ NewestInv /\ [Next]_vars => NewestInv'
  BY NewestInductive, RouteHoldsLockInductive DEF NewestInv
<1> QED
  BY <1>1, <1>2, TypeCorrect, FrameInvCorrect, PTL DEF SafeSpec

(* No caller, polling by hand or draining, takes a device's cached state   *)
(* back to an older frame, whatever others poll beside it.                 *)
THEOREM CallersRouteInOrder == SafeSpec => CallersKeepOrder
<1>1. TypeOK /\ FrameInv /\ NewestInv /\ [Next]_vars
        => [\A m \in Motors : cached'[m] < cached[m] => \E w \in Workers : cached'[m] = hand[w]]_vars
  BY NewestInductive DEF OnlyWorkersGoBack
<1> QED
  BY <1>1, TypeCorrect, FrameInvCorrect, NewestCorrect, PTL DEF SafeSpec, CallersKeepOrder

(* From the join to the bus close of a shutdown, no cached state goes back *)
(* to an older frame: the worker that could do it is gone.                 *)
THEOREM SerializedShutdownOrder == ASSUME Serialized PROVE SafeSpec => ShutdownKeepsOrder
<1>1. ASSUME LifecycleInv, ClosingInv, FrameInv, NewestInv, [Next]_vars,
             NEW c \in Callers, Stopped(c)
      PROVE  \A m \in Motors : cached'[m] >= cached[m]
  <2>1. Live = {}
    BY <1>1, ClosingIsQuiet DEF Closing, Stopped
  <2>2. \A w \in Workers : hand[w] = 0
    BY <1>1, <2>1 DEF Live, FrameInv, HandsRoute
  <2>3. OnlyWorkersGoBack
    BY <1>1, NewestInductive DEF FrameInv
  <2>4. /\ \A m \in Motors : cached[m] \in Nat /\ cached \in [Motors -> 0..MaxFrames]
        /\ hand \in [Threads -> 0..MaxFrames]
    BY <1>1, CoreAssumption DEF FrameInv, TypeOK, CoreAssumption
  <2>5. \/ UNCHANGED cached
        \/ \E t \in Threads, m \in Motors :
              hand[t] # 0 /\ cached' = [cached EXCEPT ![m] = hand[t]]
    BY <1>1, CachedFrame DEF FrameInv, vars, frameVars
  <2>6. \A m \in Motors : cached'[m] \in Nat /\ (cached'[m] # cached[m] => cached'[m] # 0)
    BY <2>4, <2>5
  <2> QED
    BY <2>2, <2>3, <2>4, <2>6 DEF OnlyWorkersGoBack
<1>2. LifecycleInv /\ ClosingInv /\ FrameInv /\ NewestInv /\ [Next]_vars
        => [(\E c \in Callers : Stopped(c)) => \A m \in Motors : cached'[m] >= cached[m]]_vars
  BY <1>1
<1> QED
  BY <1>2, LifecycleCorrect, ClosingCorrect, FrameInvCorrect, NewestCorrect, PTL
     DEF SafeSpec, ShutdownKeepsOrder

(* A poll that ends on an empty queue leaves no frame in another caller's  *)
(* hand: what is not routed by then, a worker has popped.                  *)
THEOREM PollLeavesNoCallersFrame == SafeSpec => PollLeavesOnlyTheWorkers
<1>1. ASSUME FrameInv, RouteHoldsLock, [Next]_vars, NEW c \in Callers,
             pc[c] = "drain", pc'[c] = "idle"
      PROVE  InHand \subseteq {hand[w] : w \in Workers}
  <2>1. MayReceive(c)
    <3> USE DEF Goto, FrameInv, TypeOK
    <3>1. \A d \in Callers : ~NewCall(d)
      BY <1>1 DEF NewCall, AddDevice, PollFeedbackOnce, BulkDeviceOp, StopFlag, Begin
    <3>2. ASSUME NEW d \in Callers, CallerStep(d) PROVE DrainEnd(c)
      BY <1>1, <3>2 DEF CallerStep, PollingAlreadyActive, SpawnWorker, StoreHandle, DrainPop,
           DrainEnd, DrainRoute, MayReceive, BulkStep, BulkFails, NothingToJoin, TakeHandle,
           JoinWorker, AfterStop, CloseBus
    <3> QED
      BY <1>1, <3>1, <3>2 DEF Next, DrainEnd, WorkerStep, WorkerCheck, WorkerPop, WorkerIdle,
                              WorkerRoute, Arrive, vars
  <2>2. \A d \in Callers : hand[d] = 0
    BY <1>1, <2>1, CallersHandsEmpty DEF Threads
  <2> QED
    BY <2>2 DEF InHand, Threads
<1>2. FrameInv /\ RouteHoldsLock /\ [Next]_vars =>
        [\A c \in Callers : PollEnds(c) => Earlier(c) \subseteq {hand[w] : w \in Workers}]_vars
  BY <1>1 DEF PollEnds, Earlier
<1> QED
  BY <1>2, FrameInvCorrect, RouteHoldsLockCorrect, PTL DEF SafeSpec, PollLeavesOnlyTheWorkers
=============================================================================
