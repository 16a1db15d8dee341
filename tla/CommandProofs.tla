--------------------------- MODULE CommandProofs ---------------------------
(***************************************************************************)
(* Theorems about Command for every set of command lines and requests.     *)
(*                                                                         *)
(* What a program does follows from the steps it consists of, so each      *)
(* theorem has three parts: which steps occur in the programs it is about, *)
(* and in which order; what each action does with such a step; and the     *)
(* invariant that ties the two together.                                   *)
(***************************************************************************)
EXTENDS Command, SequenceTheorems, WellFoundedInduction, TLAPS

(***************************************************************************)
(* Sequences put together from sequences: a shortest one that is not what  *)
(* it should be cannot be.                                                 *)
(***************************************************************************)
LEMMA LeastNumber ==
  ASSUME NEW T \in SUBSET Nat, T # {}
  PROVE  \E n \in T : \A k \in T : n <= k
<1>1. \E n \in T : \A k \in T : ~ (<<k, n>> \in OpToRel(<, Nat))
  BY WFMin, NatLessThanWellFounded, Zenon
<1>2. PICK n \in T : \A k \in T : ~ (<<k, n>> \in OpToRel(<, Nat))
  BY <1>1
<1>3. \A k \in T : ~ (k < n)
  BY <1>2, Zenon DEF OpToRel
<1> QED
  BY <1>3

(* What FlattenSeq computes, one sequence after the other. *)
Flattens(f, seqs, n) ==
  f = [i \in 1..n |-> IF i = 1 THEN seqs[i] ELSE f[i - 1] \o seqs[i]]

LEMMA FlattenExists ==
  ASSUME NEW seqs, NEW n \in Nat
  PROVE  \E f : Flattens(f, seqs, n)
<1> DEFINE T == {k \in Nat : ~ \E f : Flattens(f, seqs, k)}
<1>1. ASSUME n \in T PROVE FALSE
  <2>1. PICK k \in T : \A j \in T : k <= j
    BY <1>1, LeastNumber
  <2>2. CASE k = 0
    <3> DEFINE g == [i \in 1..0 |-> <<>>]
    <3>1. g = [i \in 1..0 |-> IF i = 1 THEN seqs[i] ELSE g[i - 1] \o seqs[i]]
      OBVIOUS
    <3> QED
      BY <3>1, <2>1, <2>2 DEF Flattens
  <2>3. CASE k # 0
    <3>1. k - 1 \in Nat /\ k - 1 \notin T
      BY <2>1, <2>3
    <3>2. PICK g : Flattens(g, seqs, k - 1)
      BY <3>1
    <3> DEFINE last == IF k = 1 THEN seqs[k] ELSE g[k - 1] \o seqs[k]
               h == [i \in 1..k |-> IF i = k THEN last ELSE g[i]]
    <3>3. \A i \in 1..(k - 1) : g[i] = IF i = 1 THEN seqs[i] ELSE g[i - 1] \o seqs[i]
      BY <3>2 DEF Flattens
    <3>4. \A i \in 1..k : h[i] = IF i = 1 THEN seqs[i] ELSE h[i - 1] \o seqs[i]
      BY <3>3, <2>1
    <3>5. h = [i \in 1..k |-> IF i = 1 THEN seqs[i] ELSE h[i - 1] \o seqs[i]]
      BY <3>4
    <3> HIDE DEF h
    <3> QED
      BY <3>5, <2>1 DEF Flattens
  <2> QED
    BY <2>2, <2>3
<1> QED
  BY <1>1

LEMMA FlattenInSeq ==
  ASSUME NEW S, NEW seqs \in Seq(Seq(S))
  PROVE  FlattenSeq(seqs) \in Seq(S)
<1> DEFINE n == Len(seqs)
           f == CHOOSE g : g = [i \in 1..n |-> IF i = 1 THEN seqs[i] ELSE g[i - 1] \o seqs[i]]
<1>1. n \in Nat /\ \A i \in 1..n : seqs[i] \in Seq(S)
  OBVIOUS
<1>2. f = [i \in 1..n |-> IF i = 1 THEN seqs[i] ELSE f[i - 1] \o seqs[i]]
  <2>1. \E g : g = [i \in 1..n |-> IF i = 1 THEN seqs[i] ELSE g[i - 1] \o seqs[i]]
    BY <1>1, FlattenExists DEF Flattens
  <2> QED
    BY <2>1, Zenon
<1>3. n # 0 => FlattenSeq(seqs) = f[n]
  BY DEF FlattenSeq
<1>4. n = 0 => FlattenSeq(seqs) = seqs /\ seqs \in Seq(S)
  BY DEF FlattenSeq
<1> HIDE DEF f
<1> DEFINE T == {i \in Nat : i \in 1..n /\ f[i] \notin Seq(S)}
<1>5. ASSUME T # {} PROVE FALSE
  <2>1. PICK k \in T : \A j \in T : k <= j
    BY <1>5, LeastNumber
  <2>2. k # 1 => k - 1 \in 1..n /\ f[k - 1] \in Seq(S)
    BY <2>1, <1>1
  <2>3. f[k] = IF k = 1 THEN seqs[k] ELSE f[k - 1] \o seqs[k]
    BY <2>1, <1>2
  <2>4. k \in 1..n /\ seqs[k] \in Seq(S) /\ f[k] \notin Seq(S)
    BY <2>1, <1>1
  <2>5. k # 1 => f[k - 1] \o seqs[k] \in Seq(S)
    BY <2>2, <2>4, ConcatProperties
  <2> QED
    BY <2>3, <2>4, <2>5
<1> QED
  BY <1>1, <1>3, <1>4, <1>5

(***************************************************************************)
(* Steps.                                                                  *)
(***************************************************************************)
Ops == {"open", "close", "shutdown", "add", "ask", "check", "probe", "read_ids", "send", "call", "catch",
        "loop", "refuse", "skip_if_hits", "rescue"}
Vendors == {"damiao", "robstride", "robstride_cia402", "robstride_mit", "hightorque", "myactuator",
            "hexfellow", "cyberbeast"}
Whats ==
  {"", "regs", "feedback", "ping", "param", "status", "run_mode", "map", "endpoint", "warm_up", "sdo",
   "fault", "version", "start", "stop", "reset", "estop", "store", "control", "clear", "zero", "query",
   "setting", "listen", "obstacle", "motor_id", "feedback_id"} \cup Vendors
StepType ==
  [op : Ops, id : Nat, fid : Nat, what : Whats, arg : Nat, must : BOOLEAN, unfound : BOOLEAN]

LEMMA PlainSteps ==
  /\ Close \in StepType /\ Close.op = "close" /\ ~Close.must
  /\ Shutdown \in StepType /\ Shutdown.op = "shutdown" /\ ~Shutdown.must
  /\ Catch \in StepType /\ Catch.op = "catch" /\ ~Catch.must
  /\ Refuse \in StepType /\ Refuse.op = "refuse" /\ Refuse.must
  /\ ~Close.unfound /\ ~Shutdown.unfound /\ ~Catch.unfound /\ ~Refuse.unfound
BY DEF Close, Shutdown, Catch, Refuse, Step, StepType, Ops, Whats

LEMMA OpenSteps ==
  ASSUME NEW v \in Vendors, NEW i \in Nat
  PROVE  /\ Open(v) \in StepType /\ Open(v).op = "open" /\ Open(v).what = v /\ Open(v).must
         /\ ~Open(v).unfound
         /\ TryOpen(i, v) \in StepType /\ TryOpen(i, v).op = "open" /\ TryOpen(i, v).what = v
BY DEF Open, TryOpen, Step, StepType, Ops, Whats

LEMMA AddSteps ==
  ASSUME NEW i \in Nat, NEW f \in Nat
  PROVE  /\ Add(i, f) \in StepType /\ Add(i, f).op = "add" /\ Add(i, f).must
         /\ ~Add(i, f).unfound
         /\ Add(i, f).id = i /\ Add(i, f).fid = f
         /\ TryAdd(i, f) \in StepType /\ TryAdd(i, f).op = "add"
         /\ TryAdd(i, f).id = i /\ TryAdd(i, f).fid = f
BY DEF Add, TryAdd, Step, StepType, Ops, Whats

LEMMA AskSteps ==
  ASSUME NEW i \in Nat, NEW f \in Nat, NEW w \in Whats
  PROVE  /\ Ask(i, f, w) \in StepType /\ Ask(i, f, w).op = "ask"
         /\ Ask(i, f, w).id = i /\ Ask(i, f, w).fid = f /\ Ask(i, f, w).what = w
         /\ Peek(i, f, w) \in StepType /\ Peek(i, f, w).op = "ask"
         /\ Peek(i, f, w).id = i /\ Peek(i, f, w).fid = f /\ Peek(i, f, w).what = w
BY DEF Ask, Peek, Step, StepType, Ops

LEMMA ProbeSteps ==
  ASSUME NEW i \in Nat, NEW f \in Nat, NEW w \in Whats
  PROVE  /\ Probe(i, f, w) \in StepType /\ Probe(i, f, w).op = "probe"
         /\ Probe(i, f, w).id = i /\ Probe(i, f, w).fid = f /\ Probe(i, f, w).what = w
BY DEF Probe, Step, StepType, Ops

LEMMA CheckSteps ==
  ASSUME NEW i \in Nat, NEW f \in Nat
  PROVE  /\ Check(i, f) \in StepType /\ Check(i, f).op = "check" /\ Check(i, f).must
         /\ ~Check(i, f).unfound
         /\ Check(i, f).id = i /\ Check(i, f).fid = f /\ Check(i, f).what = "regs"
         /\ ReadIds(i, f) \in StepType /\ ReadIds(i, f).op = "read_ids"
         /\ ReadIds(i, f).id = i /\ ReadIds(i, f).fid = f /\ ReadIds(i, f).what = "regs"
BY DEF Check, ReadIds, Probe, Step, StepType, Ops, Whats

LEMMA SendSteps ==
  ASSUME NEW i \in Nat, NEW w \in Whats
  PROVE  /\ Send(i, w) \in StepType /\ Send(i, w).op = "send" /\ Send(i, w).id = i /\ Send(i, w).what = w
         /\ Post(i, w) \in StepType /\ Post(i, w).op = "send" /\ Post(i, w).id = i /\ Post(i, w).what = w
         /\ Send(i, w).must /\ ~Send(i, w).unfound /\ ~Post(i, w).unfound
BY DEF Send, Post, Step, StepType, Ops

LEMMA CallSteps ==
  ASSUME NEW i \in Nat, NEW w \in Whats
  PROVE  /\ Call(i, w) \in StepType /\ Call(i, w).op = "call" /\ Call(i, w).id = i /\ Call(i, w).what = w
         /\ Try(i, w) \in StepType /\ Try(i, w).op = "call" /\ Try(i, w).id = i /\ Try(i, w).what = w
         /\ Call(i, w).must /\ ~Call(i, w).unfound /\ ~Try(i, w).unfound
BY DEF Call, Try, Step, StepType, Ops

LEMMA AssignSteps ==
  ASSUME NEW i \in Nat, NEW w \in Whats, NEW value \in Nat
  PROVE  /\ Assign(i, w, value) \in StepType /\ Assign(i, w, value).op = "send"
         /\ Assign(i, w, value).id = i /\ Assign(i, w, value).what = w
         /\ Assign(i, w, value).arg = value /\ Assign(i, w, value).must
         /\ ~Assign(i, w, value).unfound
BY DEF Assign, Send, Step, StepType, Ops

LEMMA LoopSteps ==
  ASSUME NEW i \in Nat, NEW w \in Whats
  PROVE  Loop(i, w) \in StepType /\ Loop(i, w).op = "loop" /\ Loop(i, w).id = i /\ Loop(i, w).what = w
BY DEF Loop, Step, StepType, Ops

LEMMA TurnSteps ==
  ASSUME NEW n \in Nat
  PROVE  /\ \A v \in Vendors : /\ SkipIfHits(v, n) \in StepType /\ SkipIfHits(v, n).op = "skip_if_hits"
                               /\ SkipIfHits(v, n).what = v /\ SkipIfHits(v, n).arg = n
         /\ Rescue(n) \in StepType /\ Rescue(n).op = "rescue"
BY DEF SkipIfHits, Rescue, Step, StepType, Ops, Whats

(* Commands that change whether a motor has power. *)
Switches == {"start", "stop", "reset", "estop", "store"}
QuietStep ==
  {st \in StepType : /\ st.op \notin {"shutdown", "rescue", "skip_if_hits"}
                     /\ st.op \in {"send", "call"} => st.what \notin Switches}

(* No step before the handler is installed touches a motor's power. *)
Guarded(p) ==
  /\ p \in Seq(StepType)
  /\ \A k \in 1..Len(p) : p[k] \in QuietStep \/ \E j \in 1..k : p[j].op = "catch"

LEMMA QuietFirst ==
  ASSUME NEW a \in Seq(QuietStep), NEW p, Guarded(p)
  PROVE  Guarded(a \o p)
<1>1. a \in Seq(StepType) /\ p \in Seq(StepType)
  <2>1. QuietStep \subseteq StepType
    BY DEF QuietStep
  <2> QED
    BY <2>1, SeqMonotonic DEF Guarded
<1>2. /\ a \o p \in Seq(StepType) /\ Len(a \o p) = Len(a) + Len(p)
      /\ \A i \in 1..(Len(a) + Len(p)) : (a \o p)[i] = IF i <= Len(a) THEN a[i] ELSE p[i - Len(a)]
  BY <1>1, ConcatProperties
<1>3. Len(a) \in Nat /\ Len(p) \in Nat /\ \A i \in 1..Len(a) : a[i] \in QuietStep
  BY <1>1, LenProperties, ElementOfSeq
<1>4. ASSUME NEW k \in 1..Len(a \o p), (a \o p)[k] \notin QuietStep
      PROVE  \E j \in 1..k : (a \o p)[j].op = "catch"
  <2>1. k > Len(a) /\ (a \o p)[k] = p[k - Len(a)] /\ k - Len(a) \in 1..Len(p)
    BY <1>2, <1>3, <1>4
  <2>2. PICK j \in 1..(k - Len(a)) : p[j].op = "catch"
    BY <2>1, <1>4 DEF Guarded
  <2>3. j + Len(a) \in 1..k /\ (a \o p)[j + Len(a)] = p[j]
    BY <1>2, <1>3, <2>1
  <2> QED
    BY <2>2, <2>3
<1> QED
  BY <1>2, <1>4 DEF Guarded

LEMMA QuietConcat ==
  ASSUME NEW a \in Seq(QuietStep), NEW b \in Seq(QuietStep)
  PROVE  a \o b \in Seq(QuietStep)
BY ConcatProperties

LEMMA SetupFields ==
  ASSUME NEW s \in Setups
  PROVE  /\ s.id \in Nat /\ s.fid \in Nat /\ s.new[1] \in Nat /\ s.new[2] \in Nat
         /\ s.loops \in Nat /\ s.ids \in Seq(Nat) /\ s.hosts \in Seq(Nat) /\ s.hosts # <<>>
         /\ s.by \in {"cli", "ws"}
         /\ s.motors \in [Motors -> [vendor : STRING, id : Nat, fid : Nat, power : {"on", "off"},
                                     mute : SUBSET STRING]]
BY CommandAssumption DEF SetupType

(* What the two programs accept.                                           *)
LEMMA ModesAre ==
  /\ DOMAIN Modes = Vendors
  /\ "set_id" \notin Modes["damiao"] /\ "all" \notin Vendors
<1>1. DOMAIN Modes = Vendors
  BY DEF Modes, Vendors
<1>2. "set_id" \notin Modes["damiao"]
  BY DEF Modes
<1>3. "all" \notin Vendors
  BY DEF Vendors
<1> QED
  BY <1>1, <1>2, <1>3

LEMMA CliAccepts ==
  ASSUME NEW s \in Setups, s.by = "cli"
  PROVE  /\ \/ s.vendor = "all" /\ s.mode = "scan"
            \/ s.vendor \in Vendors /\ s.mode \in Modes[s.vendor]
         /\ s.vendor = "damiao" => s.mode # "set_id"
<1>1. Accepted(s)
  BY CommandAssumption
<1>2. \/ s.vendor = "all" /\ s.mode = "scan"
      \/ s.vendor \in Vendors /\ s.mode \in Modes[s.vendor]
  <2>1. \/ s.vendor = "all" /\ s.mode = "scan"
        \/ s.vendor \in DOMAIN Modes /\ s.mode \in Modes[s.vendor]
    BY <1>1 DEF Accepted
  <2>2. DOMAIN Modes = Vendors
    BY ModesAre
  <2> QED
    BY <2>1, <2>2
<1>3. ASSUME s.vendor = "damiao" PROVE s.mode # "set_id"
  <2>1. s.mode \in Modes["damiao"]
    BY <1>2, <1>3
  <2> QED
    BY <2>1, ModesAre
<1> QED
  BY <1>2, <1>3

LEMMA WsAccepts ==
  ASSUME NEW s \in Setups, s.by = "ws"
  PROVE  /\ s.mode \in {"scan", "batch_scan", "verify", "set_id"}
         /\ s.mode = "scan" => s.vendor \in ScanVendors
         /\ s.mode = "batch_scan" => s.batch \in Seq(ScanVendors)
         /\ s.mode = "verify" => s.vendor \in VerifyVendors
         /\ s.mode = "set_id" => s.vendor \in {"damiao", "robstride"}
<1>1. Accepted(s)
  BY CommandAssumption
<1> QED
  BY <1>1 DEF Accepted, SetIdVendors

(***************************************************************************)
(* Ctrl-C in a CyberBeast loop.                                            *)
(***************************************************************************)
CatchingModes == {"control", "monitor", "keep-alive"}
Catching(s)   == s.by = "cli" /\ s.vendor = "cyberbeast" /\ s.mode \in CatchingModes

LEMMA CatchesFirst ==
  ASSUME NEW s \in Setups, Catching(s)
  PROVE  Guarded(Program(s))
<1>1. Program(s) = CyberBeast(s)
  BY DEF Program, CommandLine, Catching
<1> DEFINE i == s.id
<1>0. i \in Nat
  BY SetupFields
<1> HIDE DEF i
<1>2. Open("cyberbeast") \in QuietStep
  BY OpenSteps DEF QuietStep, Vendors
<1>3. \A w \in {"map", "warm_up", "endpoint", "obstacle"} : Ask(i, i, w) \in QuietStep /\ Peek(i, i, w) \in QuietStep
  <2>1. {"map", "warm_up", "endpoint", "obstacle"} \subseteq Whats
    BY DEF Whats
  <2> QED
    BY <1>0, <2>1, AskSteps DEF QuietStep
<1>4. Add(i, i) \in QuietStep /\ Catch \in QuietStep /\ Refuse \in QuietStep
  BY <1>0, AddSteps, PlainSteps DEF QuietStep
<1>5. Shutdown \in StepType /\ Catch.op = "catch"
  BY PlainSteps
<1>6. \A w \in {"listen", "query", "control"} : Loop(i, w) \in StepType
  <2>1. {"listen", "query", "control"} \subseteq Whats
    BY DEF Whats
  <2> QED
    BY <1>0, <2>1, LoopSteps
<1>7. Post(i, "start") \in StepType /\ Post(i, "stop") \in StepType
  <2>1. {"start", "stop"} \subseteq Whats
    BY DEF Whats
  <2> QED
    BY <1>0, <2>1, SendSteps
<1>8. QuietStep \subseteq StepType
  BY DEF QuietStep
<1>9. <<Open("cyberbeast")>> \in Seq(QuietStep) /\ <<>> \in Seq(QuietStep)
  BY <1>2
<1>10. CyberConnect(s) \in Seq(QuietStep)
  BY <1>3, <1>4 DEF CyberConnect, When, i
<1>11. CASE s.mode = "control"
  <2>1. MitScaling(s) \in Seq(QuietStep)
    BY <1>3 DEF MitScaling, When, i
  <2>2. MotionPreconditions(s) \in Seq(QuietStep)
    <3>1. <<Peek(i, i, "endpoint"), Peek(i, i, "endpoint")>> \in Seq(QuietStep)
      BY <1>3
    <3>2. <<Ask(i, i, "obstacle")>> \in Seq(QuietStep)
      BY <1>3
    <3> QED
      BY <3>1, <3>2, <1>9 DEF MotionPreconditions, When, i
  <2> DEFINE tail == <<Catch, Post(i, "start"), Loop(i, "control"), Post(i, "stop"), Shutdown>>
  <2>3. Guarded(tail)
    BY <1>4, <1>5, <1>6, <1>7, <1>8 DEF Guarded
  <2> HIDE DEF tail
  <2>4. Guarded(MitScaling(s) \o MotionPreconditions(s) \o tail)
    BY <2>1, <2>2, <2>3, QuietFirst, QuietConcat
  <2>5. CyberControl(s) = MitScaling(s) \o MotionPreconditions(s) \o tail
    BY DEF CyberControl, tail, i
  <2>6. Guarded(<<Open("cyberbeast")>> \o (CyberConnect(s) \o CyberControl(s)))
    BY <2>4, <2>5, <1>9, <1>10, QuietFirst
  <2> QED
    BY <2>6, <1>1, <1>11 DEF CyberBeast
<1>12. CASE s.mode = "monitor"
  <2>1. Guarded(CyberMonitor(s))
    BY <1>4, <1>5, <1>6, <1>8 DEF Guarded, CyberMonitor, i
  <2>2. Guarded(<<Open("cyberbeast")>> \o CyberMonitor(s))
    BY <2>1, <1>9, QuietFirst
  <2> QED
    BY <2>2, <1>1, <1>12 DEF CyberBeast
<1>13. CASE s.mode = "keep-alive"
  <2>1. Guarded(CyberKeepAlive(s))
    BY <1>4, <1>5, <1>6, <1>8 DEF Guarded, CyberKeepAlive, i
  <2>2. Guarded(<<Open("cyberbeast")>> \o (CyberConnect(s) \o CyberKeepAlive(s)))
    BY <2>1, <1>9, <1>10, QuietFirst
  <2> QED
    BY <2>2, <1>1, <1>13 DEF CyberBeast
<1> QED
  BY <1>11, <1>12, <1>13 DEF Catching, CatchingModes

(***************************************************************************)
(* Motors.                                                                 *)
(***************************************************************************)
IsMotor(r) == r = [id |-> r.id, fid |-> r.fid, power |-> r.power, saved |-> r.saved]
Motor(i, f, p, v) == [id |-> i, fid |-> f, power |-> p, saved |-> v]

LEMMA MotorFields ==
  ASSUME NEW i, NEW f, NEW p, NEW v
  PROVE  /\ IsMotor(Motor(i, f, p, v))
         /\ Motor(i, f, p, v).id = i /\ Motor(i, f, p, v).fid = f
         /\ Motor(i, f, p, v).power = p /\ Motor(i, f, p, v).saved = v
BY DEF IsMotor, Motor

LEMMA MotorOff ==
  ASSUME NEW r, IsMotor(r)
  PROVE  [r EXCEPT !.power = "off"] = Motor(r.id, r.fid, "off", r.saved)
BY DEF IsMotor, Motor

(* What a motor makes of what it is told. *)
LEMMA ToldWhat ==
  ASSUME NEW st, NEW r, IsMotor(r)
  PROVE  /\ st.what = "start" => Told(r, st) = Motor(r.id, r.fid, "on", r.saved)
         /\ st.what \in {"stop", "reset"} => Told(r, st) = Motor(r.id, r.fid, "off", r.saved)
         /\ st.what = "motor_id" => Told(r, st) = Motor(st.arg, r.fid, r.power, r.saved)
         /\ st.what = "feedback_id" => Told(r, st) = Motor(r.id, st.arg, r.power, r.saved)
         /\ st.what = "store" =>
              Told(r, st) = Motor(r.id, r.fid, IF vendor = "damiao" THEN "off" ELSE r.power, <<r.id, r.fid>>)
         /\ st.what \notin {"start", "stop", "reset", "motor_id", "feedback_id", "store"} => Told(r, st) = r
<1> USE DEF IsMotor, Told, Motor
<1>2. st.what = "start" => Told(r, st) = Motor(r.id, r.fid, "on", r.saved)
  OBVIOUS
<1>3. st.what \in {"stop", "reset"} => Told(r, st) = Motor(r.id, r.fid, "off", r.saved)
  OBVIOUS
<1>4. st.what = "motor_id" => Told(r, st) = Motor(st.arg, r.fid, r.power, r.saved)
  OBVIOUS
<1>5. st.what = "feedback_id" => Told(r, st) = Motor(r.id, st.arg, r.power, r.saved)
  OBVIOUS
<1>6. st.what = "store" =>
        Told(r, st) = Motor(r.id, r.fid, IF vendor = "damiao" THEN "off" ELSE r.power, <<r.id, r.fid>>)
  OBVIOUS
<1>7. st.what \notin {"start", "stop", "reset", "motor_id", "feedback_id", "store"} => Told(r, st) = r
  OBVIOUS
<1> HIDE DEF IsMotor, Told, Motor
<1> QED
  BY ONLY <1>2, <1>3, <1>4, <1>5, <1>6, <1>7

(* Telling a motor something keeps its fields, and its power unless what   *)
(* it is told switches it.                                                 *)
LEMMA ToldKeeps ==
  ASSUME NEW st, NEW r, IsMotor(r)
  PROVE  IsMotor(Told(r, st)) /\ (st.what \notin Switches => Told(r, st).power = r.power)
<1>1. CASE st.what = "start"
  <2>1. Told(r, st) = Motor(r.id, r.fid, "on", r.saved)
    BY <1>1, ToldWhat
  <2>2. st.what \in Switches
    BY <1>1 DEF Switches
  <2> QED
    BY <2>1, <2>2, MotorFields
<1>2. CASE st.what \in {"stop", "reset"}
  <2>1. Told(r, st) = Motor(r.id, r.fid, "off", r.saved)
    BY <1>2, ToldWhat
  <2>2. st.what \in Switches
    BY <1>2 DEF Switches
  <2> QED
    BY <2>1, <2>2, MotorFields
<1>3. CASE st.what = "motor_id"
  <2>1. Told(r, st) = Motor(st.arg, r.fid, r.power, r.saved)
    BY <1>3, ToldWhat
  <2> QED
    BY <2>1, MotorFields
<1>4. CASE st.what = "feedback_id"
  <2>1. Told(r, st) = Motor(r.id, st.arg, r.power, r.saved)
    BY <1>4, ToldWhat
  <2> QED
    BY <2>1, MotorFields
<1>5. CASE st.what = "store"
  <2>1. Told(r, st) = Motor(r.id, r.fid, IF vendor = "damiao" THEN "off" ELSE r.power, <<r.id, r.fid>>)
    BY <1>5, ToldWhat
  <2>2. st.what \in Switches
    BY <1>5 DEF Switches
  <2> QED
    BY <2>1, <2>2, MotorFields
<1>6. CASE st.what \notin {"start", "stop", "reset", "motor_id", "feedback_id", "store"}
  BY <1>6, ToldWhat
<1> QED
  BY <1>1, <1>2, <1>3, <1>4, <1>5, <1>6

LEMMA OffKeeps ==
  ASSUME NEW r, IsMotor(r)
  PROVE  IsMotor([r EXCEPT !.power = "off"])
BY DEF IsMotor

LEMMA TellingKeeps ==
  ASSUME NEW st, DOMAIN motor = Motors, \A m \in Motors : IsMotor(motor[m])
  PROVE  /\ DOMAIN AfterTelling(st) = Motors
         /\ \A m \in Motors : IsMotor(AfterTelling(st)[m])
         /\ st.what \notin Switches => \A m \in Motors : AfterTelling(st)[m].power = motor[m].power
<1>1. \A m \in Motors : /\ IsMotor([motor[m] EXCEPT !.power = "off"]) /\ IsMotor(Told(motor[m], st))
                        /\ st.what \notin Switches => Told(motor[m], st).power = motor[m].power
  BY ToldKeeps, OffKeeps
<1> QED
  BY <1>1 DEF AfterTelling, Switches

(***************************************************************************)
(* Until the handler is installed the program goes from step to step and   *)
(* leaves the motors' power alone.                                         *)
(***************************************************************************)
CatchInv ==
  /\ setup \in Setups
  /\ status = "killed" => ~caught
  /\ ~caught =>
       /\ pc \in Nat \ {0} /\ rescue = 0
       /\ DOMAIN motor = Motors
       /\ \A m \in Motors : IsMotor(motor[m]) /\ motor[m].power = setup.motors[m].power
       /\ \A k \in 1..Len(Program(setup)) : k < pc => Program(setup)[k].op # "catch"

LEMMA SetupStays == [Next]_vars => setup' = setup
BY DEF Next, vars, OpenBus, AddMotor, Skip, Query, Tell, LoopRound, InstallHandler, CloseBus,
       ShutdownAll, Turn, Return, Interrupt, Done

LEMMA NowIs ==
  ASSUME setup \in Setups, NEW ops, Running(ops)
  PROVE  /\ status = "running" /\ pc <= Len(Program(setup))
         /\ Now = Program(setup)[pc] /\ Now.op \in ops
BY DEF Now, Running, Programs

LEMMA CatchStarts ==
  ASSUME Init, Catching(setup)
  PROVE  CatchInv
<1>1. /\ setup \in Setups /\ pc = 1 /\ rescue = 0 /\ status = "running"
      /\ motor = [m \in Motors |-> LET r == setup.motors[m]
                                   IN  [id |-> r.id, fid |-> r.fid, power |-> r.power, saved |-> <<r.id, r.fid>>]]
  BY DEF Init
<1>2. DOMAIN motor = Motors /\ \A m \in Motors : IsMotor(motor[m]) /\ motor[m].power = setup.motors[m].power
  BY <1>1 DEF IsMotor
<1> QED
  BY <1>1, <1>2 DEF CatchInv

LEMMA CatchKept ==
  ASSUME CatchInv, Catching(setup), [Next]_vars
  PROVE  CatchInv' /\ Catching(setup)'
<1> DEFINE p == Program(setup)
<1>1. setup' = setup /\ setup \in Setups
  BY SetupStays DEF CatchInv
<1>2. Guarded(p)
  BY CatchesFirst, <1>1
<1> HIDE DEF p
<1>3. status' = "killed" => ~caught'
  BY DEF CatchInv, Next, vars, OpenBus, AddMotor, Skip, Query, Tell, LoopRound, InstallHandler, CloseBus,
         ShutdownAll, Turn, Return, Interrupt, Done, Running, Advance, FailOr, Fail, signal
<1>4. caught => caught'
  BY DEF Next, vars, OpenBus, AddMotor, Skip, Query, Tell, LoopRound, InstallHandler, CloseBus,
         ShutdownAll, Turn, Return, Interrupt, Done, signal
<1>5. ASSUME ~caught'
      PROVE  /\ pc' \in Nat \ {0} /\ rescue' = 0
             /\ DOMAIN motor' = Motors
             /\ \A m \in Motors : IsMotor(motor'[m]) /\ motor'[m].power = setup.motors[m].power
             /\ \A k \in 1..Len(p) : k < pc' => p[k].op # "catch"
  <2>1. /\ ~caught /\ pc \in Nat \ {0} /\ rescue = 0 /\ DOMAIN motor = Motors
        /\ \A m \in Motors : IsMotor(motor[m]) /\ motor[m].power = setup.motors[m].power
        /\ \A k \in 1..Len(p) : k < pc => p[k].op # "catch"
    BY <1>4, <1>5 DEF CatchInv, p
  <2>2. ASSUME NEW ops, Running(ops)
        PROVE  /\ Now = p[pc] /\ Now.op \in ops /\ pc \in 1..Len(p)
               /\ Now \in QuietStep \/ Now.op = "catch"
    <3>1. Now = p[pc] /\ Now.op \in ops /\ pc <= Len(p)
      BY <2>2, <1>1, NowIs DEF p
    <3>2. pc \in 1..Len(p)
      BY <3>1, <2>1, <1>2, LenProperties DEF Guarded
    <3> QED
      BY <3>1, <3>2, <2>1, <1>2 DEF Guarded
  <2>3. CASE UNCHANGED <<pc, rescue, motor>>
    BY <2>1, <2>3
  <2>4. CASE /\ UNCHANGED motor
             /\ \E ops : Running(ops)
             /\ Advance \/ UNCHANGED <<pc, rescue>>
             /\ Now.op # "catch"
    BY <2>1, <2>2, <2>4 DEF Advance
  <2>5. Fail => UNCHANGED <<pc, rescue>>
    BY <2>1 DEF Fail
  <2>6. \A done : FailOr(done) => Advance \/ UNCHANGED <<pc, rescue>>
    <3>1. ASSUME NEW done, FailOr(done) PROVE Advance \/ Fail
      BY <3>1 DEF FailOr
    <3> QED
      BY <3>1, <2>5, Zenon
  <2>7. CASE OpenBus
    <3>1. Running({"open"}) /\ UNCHANGED motor
      BY <2>7 DEF OpenBus
    <3>2. Now.op # "catch"
      BY <3>1, <2>2
    <3>3. Advance \/ UNCHANGED <<pc, rescue>>
      BY <2>7, <2>6 DEF OpenBus
    <3>4. \E ops : Running(ops)
      BY <3>1
    <3> QED
      BY <3>1, <3>2, <3>3, <3>4, <2>4
  <2>8. CASE AddMotor
    BY <2>8, <2>4, <2>6, <2>2 DEF AddMotor
  <2>9. CASE Skip
    <3>1. PICK ops : Running(ops) /\ "catch" \notin ops
      BY <2>9 DEF Skip
    <3>2. Now.op # "catch"
      BY <3>1, <2>2
    <3>3. Advance /\ UNCHANGED motor
      BY <2>9 DEF Skip
    <3>4. \E o : Running(o)
      BY <3>1
    <3> QED
      BY <2>4, <3>2, <3>3, <3>4
  <2>10. CASE Query
    <3>1. Running({"ask", "check", "probe", "read_ids"}) /\ UNCHANGED motor
      BY <2>10 DEF Query
    <3>2. Now.op # "catch"
      BY <3>1, <2>2
    <3>3. Advance \/ UNCHANGED <<pc, rescue>>
      BY <2>10, <2>6 DEF Query
    <3>4. \E ops : Running(ops)
      BY <3>1
    <3> QED
      BY <3>1, <3>2, <3>3, <3>4, <2>4
  <2>11. CASE Tell
    <3>1. Running({"send", "call"}) /\ Now.op # "catch" /\ Now.what \notin Switches
      BY <2>11, <2>2 DEF Tell, QuietStep
    <3>2. Advance \/ UNCHANGED <<pc, rescue>>
      BY <2>11, <2>6 DEF Tell
    <3>3. motor' = motor \/ motor' = AfterTelling(Now)
      BY <2>11 DEF Tell
    <3>4. DOMAIN motor' = Motors /\ \A m \in Motors : IsMotor(motor'[m]) /\ motor'[m].power = setup.motors[m].power
      BY <3>1, <3>3, <2>1, TellingKeeps
    <3> QED
      BY <3>1, <3>2, <3>4, <2>1, <2>2 DEF Advance
  <2>12. CASE LoopRound
    BY <2>12, <2>4, <2>5, <2>2 DEF LoopRound
  <2>13. CASE InstallHandler
    BY <2>13, <1>5 DEF InstallHandler
  <2>14. CASE CloseBus
    BY <2>14, <2>4, <2>2 DEF CloseBus
  <2>15. CASE ShutdownAll
    BY <2>15, <2>2 DEF ShutdownAll, QuietStep
  <2>16. CASE Turn
    BY <2>16, <2>2, <2>3, <2>5 DEF Turn, QuietStep
  <2>17. CASE Return \/ Interrupt \/ Done \/ UNCHANGED vars
    BY <2>17, <2>3 DEF Return, Interrupt, Done, vars
  <2> QED
    BY <2>7, <2>8, <2>9, <2>10, <2>11, <2>12, <2>13, <2>14, <2>15, <2>16, <2>17 DEF Next
<1> QED
  BY <1>1, <1>3, <1>5 DEF CatchInv, Catching, p

(* The signal is the command line's. *)
InterruptInv == (status = "killed" => setup.by = "cli") /\ (Catching(setup) => CatchInv)

LEMMA OnlyInterruptKills == [Next]_vars /\ status' = "killed" => status = "killed" \/ setup.by = "cli"
BY DEF Next, vars, OpenBus, AddMotor, Skip, Query, Tell, LoopRound, InstallHandler, CloseBus,
       ShutdownAll, Turn, Return, Interrupt, Done, Running, Advance, FailOr, Fail

(* A CyberBeast loop that Ctrl-C ends before its handler is in place has   *)
(* left every motor's power as it was, for every command line.             *)
THEOREM InterruptsCleanly == Spec => []InterruptIsClean
<1>1. Init => InterruptInv
  BY CatchStarts DEF Init, InterruptInv
<1>2. InterruptInv /\ [Next]_vars => InterruptInv'
  <2> SUFFICES ASSUME InterruptInv, [Next]_vars PROVE InterruptInv'
    OBVIOUS
  <2>1. setup' = setup
    BY SetupStays
  <2>2. status' = "killed" => setup'.by = "cli"
    BY <2>1, OnlyInterruptKills DEF InterruptInv
  <2>3. Catching(setup)' => CatchInv'
    BY <2>1, CatchKept DEF Catching, InterruptInv
  <2> QED
    BY <2>2, <2>3 DEF InterruptInv, Catching
<1>3. InterruptInv => InterruptIsClean
  BY DEF InterruptInv, InterruptIsClean, Catching, CatchingModes, CatchInv, Before
<1> QED
  BY <1>1, <1>2, <1>3, PTL DEF Spec

(***************************************************************************)
(* Id changes.                                                             *)
(***************************************************************************)
CliChanges(s) == s.by = "cli" /\ s.mode = "id-set" /\ s.vendor = "damiao" /\ "verify" \in s.flags
WsChanges(s)  == s.by = "ws" /\ s.mode = "set_id" /\ s.vendor \in {"damiao", "robstride"}
Changing(s)   == CliChanges(s) \/ WsChanges(s)

(* The steps of an id change: only the old id is given another one, and    *)
(* only the new one.                                                       *)
IdStep(s) ==
  {st \in StepType :
     /\ st.op = "open" => st.what = s.vendor
     /\ st.what = "motor_id" => st.id = s.id /\ st.arg = s.new[1]
     /\ st.what = "feedback_id" => st.id = s.id /\ st.arg = s.new[2]
     /\ st.op \notin {"shutdown", "rescue"} /\ st.what \notin {"feedback", "obstacle"}
     /\ st.op = "probe" => s.vendor # "damiao"}
(* Those of the command line: each must succeed, and what is checked and   *)
(* stored is the new id.                                                   *)
CliStep(s) ==
  {st \in IdStep(s) :
     /\ st.op \in {"open", "add", "send", "check", "close"} /\ ~st.unfound
     /\ st.op # "close" => st.must
     /\ st.op = "check" => st.id = s.new[1] /\ st.fid = s.new[2]
     /\ st.what = "store" => st.op = "send" /\ st.id = s.new[1]}
Assigns(st) == st.what \in {"motor_id", "feedback_id"}
CliHead(s)  == {st \in CliStep(s) : st.what # "store"}
CliTail(s)  == {st \in CliStep(s) : ~Assigns(st)}

LEMMA CliSteps ==
  ASSUME NEW s \in Setups, CliChanges(s)
  PROVE  /\ Open("damiao") \in CliHead(s) \cap CliTail(s) /\ Close \in CliHead(s) \cap CliTail(s)
         /\ \A i \in Nat, f \in Nat : Add(i, f) \in CliHead(s) \cap CliTail(s)
         /\ Assign(s.id, "feedback_id", s.new[2]) \in CliHead(s)
         /\ Assign(s.id, "motor_id", s.new[1]) \in CliHead(s)
         /\ Send(s.new[1], "store") \in CliTail(s)
         /\ Check(s.new[1], s.new[2]) \in CliTail(s)
<1> USE DEF CliHead, CliTail, CliStep, IdStep, Assigns
<1>1. s.id \in Nat /\ s.new[1] \in Nat /\ s.new[2] \in Nat /\ s.vendor = "damiao"
  BY SetupFields DEF CliChanges
<1>2. Open("damiao") \in CliHead(s) \cap CliTail(s)
  BY <1>1, OpenSteps DEF Vendors
<1>3. Close \in CliHead(s) \cap CliTail(s)
  <2>1. Close.what = ""
    BY DEF Close, Step
  <2> QED
    BY <2>1, PlainSteps
<1>4. ASSUME NEW i \in Nat, NEW f \in Nat PROVE Add(i, f) \in CliHead(s) \cap CliTail(s)
  <2>1. Add(i, f).what = ""
    BY DEF Add, Step
  <2>2. Add(i, f) \in StepType /\ Add(i, f).op = "add" /\ Add(i, f).must /\ ~Add(i, f).unfound
    BY AddSteps
  <2> QED
    BY <2>1, <2>2
<1>5. Assign(s.id, "feedback_id", s.new[2]) \in CliHead(s)
  <2>1. "feedback_id" \in Whats
    BY DEF Whats
  <2> QED
    BY <2>1, <1>1, AssignSteps
<1>6. Assign(s.id, "motor_id", s.new[1]) \in CliHead(s)
  <2>1. "motor_id" \in Whats
    BY DEF Whats
  <2> QED
    BY <2>1, <1>1, AssignSteps
<1>7. Send(s.new[1], "store") \in CliTail(s)
  <2>1. "store" \in Whats
    BY DEF Whats
  <2> QED
    BY <2>1, <1>1, SendSteps
<1>8. Check(s.new[1], s.new[2]) \in CliTail(s)
  BY <1>1, CheckSteps
<1> HIDE DEF CliHead, CliTail, CliStep, IdStep, Assigns
<1> QED
  BY <1>2, <1>3, <1>4, <1>5, <1>6, <1>7, <1>8

(* It opens the bus first, checks the new ids, and assigns nothing after   *)
(* it has stored.                                                          *)
CliShape(s, p) ==
  /\ p \in Seq(CliStep(s)) /\ Len(p) \in Nat \ {0} /\ p[1].op = "open"
  /\ \E k \in 1..Len(p) : p[k].op = "check"
  /\ "store" \in s.flags => \E k \in 1..Len(p) : p[k].what = "store"
  /\ \A j, k \in 1..Len(p) : j < k /\ p[j].what = "store" => ~Assigns(p[k])

LEMMA ConcatMember ==
  ASSUME NEW S, NEW a \in Seq(S), NEW b \in Seq(S)
  PROVE  a \o b \in Seq(S)
BY ConcatProperties

LEMMA WhenMember ==
  ASSUME NEW S, NEW a \in Seq(S), NEW c
  PROVE  When(c, a) \in Seq(S)
BY DEF When

LEMMA IdSetShape ==
  ASSUME NEW s \in Setups, CliChanges(s)
  PROVE  CliShape(s, Program(s))
<1> DEFINE start == <<Open("damiao"), Add(s.id, s.fid)>>
           f     == When(s.new[2] # s.fid, <<Assign(s.id, "feedback_id", s.new[2])>>)
           m     == When(s.new[1] # s.id, <<Assign(s.id, "motor_id", s.new[1])>>)
           end   == <<Close>>
           again == <<Open("damiao"), Add(s.new[1], s.new[2])>>
           store == When("store" \in s.flags, <<Send(s.new[1], "store")>>)
           check == When("verify" \in s.flags, <<Check(s.new[1], s.new[2])>>)
           head  == start \o f \o m \o end
           body  == again \o store
           tail  == body \o check \o end
<1>1. Program(s) = head \o tail
  BY DEF Program, CommandLine, CliChanges, Damiao, DamiaoIdSet, When
<1>0. /\ Open("damiao") \in CliHead(s) /\ Open("damiao") \in CliTail(s)
      /\ Close \in CliHead(s) /\ Close \in CliTail(s)
      /\ Add(s.id, s.fid) \in CliHead(s) /\ Add(s.new[1], s.new[2]) \in CliTail(s)
      /\ Assign(s.id, "feedback_id", s.new[2]) \in CliHead(s)
      /\ Assign(s.id, "motor_id", s.new[1]) \in CliHead(s)
      /\ Send(s.new[1], "store") \in CliTail(s) /\ Check(s.new[1], s.new[2]) \in CliTail(s)
  BY CliSteps, SetupFields
<1>2. /\ start \in Seq(CliHead(s)) /\ f \in Seq(CliHead(s)) /\ m \in Seq(CliHead(s)) /\ end \in Seq(CliHead(s))
  BY <1>0 DEF When
<1>3. /\ again \in Seq(CliTail(s)) /\ store \in Seq(CliTail(s)) /\ check \in Seq(CliTail(s)) /\ end \in Seq(CliTail(s))
  BY <1>0 DEF When
<1>4. start[1].op = "open" /\ Len(start) = 2
  BY OpenSteps DEF Vendors
<1>5. check[1].op = "check" /\ Len(check) = 1
  BY SetupFields, CheckSteps DEF CliChanges, When
<1>15. Len(again) = 2 /\ ("store" \in s.flags => Len(store) = 1 /\ store[1].what = "store")
  <2>1. Send(s.new[1], "store").what = "store"
    BY DEF Send, Step
  <2> QED
    BY <2>1 DEF When
<1> HIDE DEF start, f, m, end, again, store, check
<1>6. head \in Seq(CliHead(s)) /\ Len(head) \in Nat \ {0} /\ head[1].op = "open"
  <2>1. start \o f \in Seq(CliHead(s)) /\ Len(start \o f) >= 2 /\ (start \o f)[1] = start[1]
    BY <1>2, <1>4, ConcatProperties, LenProperties
  <2>2. start \o f \o m \in Seq(CliHead(s)) /\ Len(start \o f \o m) >= 2 /\ (start \o f \o m)[1] = start[1]
    BY <1>2, <2>1, ConcatProperties, LenProperties
  <2> QED
    BY <1>2, <2>2, <1>4, ConcatProperties, LenProperties
<1>7. body \in Seq(CliTail(s)) /\ ("store" \in s.flags => Len(body) = 3 /\ body[3].what = "store")
  <2>1. /\ body \in Seq(CliTail(s)) /\ Len(body) = Len(again) + Len(store)
        /\ \A i \in 1..(Len(again) + Len(store)) :
             body[i] = IF i <= Len(again) THEN again[i] ELSE store[i - Len(again)]
    BY <1>3, ConcatProperties
  <2> HIDE DEF body
  <2>2. ASSUME "store" \in s.flags PROVE Len(body) = 3 /\ body[3] = store[1]
    BY <2>1, <1>15, <2>2
  <2> QED
    BY <2>1, <2>2, <1>15
<1>8. /\ tail \in Seq(CliTail(s))
      /\ \E k \in 1..Len(tail) : tail[k].op = "check"
      /\ "store" \in s.flags => \E k \in 1..Len(tail) : tail[k].what = "store"
  <2>0. Len(body) \in Nat
    BY <1>7, LenProperties
  <2> HIDE DEF body
  <2>1. /\ body \o check \in Seq(CliTail(s)) /\ Len(body \o check) = Len(body) + 1
        /\ (body \o check)[Len(body) + 1] = check[1]
    <3>1. /\ body \o check \in Seq(CliTail(s)) /\ Len(body \o check) = Len(body) + Len(check)
          /\ \A i \in 1..(Len(body) + Len(check)) :
               (body \o check)[i] = IF i <= Len(body) THEN body[i] ELSE check[i - Len(body)]
      BY <1>3, <1>7, ConcatProperties
    <3> QED
      BY <3>1, <2>0, <1>5
  <2>2. /\ tail \in Seq(CliTail(s)) /\ Len(tail) >= Len(body) + 1
        /\ tail[Len(body) + 1] = check[1]
    BY <2>1, <1>3, <1>7, ConcatProperties, LenProperties
  <2>3. "store" \in s.flags => 3 \in 1..Len(tail) /\ tail[3].what = "store"
    <3>1. ASSUME "store" \in s.flags PROVE 3 \in 1..Len(tail) /\ tail[3].what = "store"
      <4>1. Len(body) = 3 /\ body[3].what = "store" /\ 3 \in 1..Len(body)
        BY <3>1, <1>7
      <4>2. check \in Seq(CliTail(s)) /\ end \in Seq(CliTail(s)) /\ body \in Seq(CliTail(s))
        BY <1>3, <1>7
      <4>3. (body \o check)[3] = body[3] /\ Len(body \o check) = 4
        <5>1. \A i \in 1..(Len(body) + Len(check)) :
                (body \o check)[i] = IF i <= Len(body) THEN body[i] ELSE check[i - Len(body)]
          BY <4>2, ConcatProperties
        <5> QED
          BY <5>1, <4>1, <2>1, <1>5
      <4>4. tail[3] = (body \o check)[3] /\ Len(tail) >= 4
        BY <4>2, <4>3, <2>1, ConcatProperties, LenProperties
      <4> QED
        BY <4>1, <4>3, <4>4, <2>2, LenProperties
    <3> QED
      BY <3>1
  <2>4. Len(body) + 1 \in 1..Len(tail) /\ tail[Len(body) + 1].op = "check"
    BY <2>2, <1>5, <2>0, LenProperties
  <2> QED
    BY <2>2, <2>3, <2>4
<1> HIDE DEF head, tail
<1>9. head \in Seq(CliStep(s)) /\ tail \in Seq(CliStep(s))
  <2>1. CliHead(s) \subseteq CliStep(s) /\ CliTail(s) \subseteq CliStep(s)
    BY DEF CliHead, CliTail
  <2> QED
    BY <2>1, <1>6, <1>8, SeqMonotonic
<1> DEFINE p == head \o tail
<1>10. /\ p \in Seq(CliStep(s)) /\ Len(p) = Len(head) + Len(tail)
       /\ \A k \in 1..(Len(head) + Len(tail)) : p[k] = IF k <= Len(head) THEN head[k] ELSE tail[k - Len(head)]
  BY <1>9, ConcatProperties
<1>11. Len(head) \in Nat \ {0} /\ Len(tail) \in Nat
  BY <1>6, <1>8, LenProperties
<1> HIDE DEF p
<1>12. Len(p) \in Nat \ {0} /\ p[1].op = "open"
  BY <1>6, <1>10, <1>11
<1>13. \E k \in 1..Len(p) : p[k].op = "check"
  <2>1. PICK k \in 1..Len(tail) : tail[k].op = "check"
    BY <1>8
  <2>2. k + Len(head) \in 1..(Len(head) + Len(tail)) /\ ~ (k + Len(head) <= Len(head))
        /\ (k + Len(head)) - Len(head) = k
    BY <2>1, <1>11
  <2>3. p[k + Len(head)] = tail[k]
    BY <2>2, <1>10
  <2> QED
    BY <2>1, <2>2, <2>3, <1>10
<1>16. "store" \in s.flags => \E k \in 1..Len(p) : p[k].what = "store"
  <2>1. ASSUME "store" \in s.flags PROVE \E k \in 1..Len(p) : p[k].what = "store"
    <3>1. PICK k \in 1..Len(tail) : tail[k].what = "store"
      BY <1>8, <2>1
    <3>2. k + Len(head) \in 1..(Len(head) + Len(tail)) /\ ~ (k + Len(head) <= Len(head))
          /\ (k + Len(head)) - Len(head) = k
      BY <3>1, <1>11
    <3>3. p[k + Len(head)] = tail[k]
      BY <3>2, <1>10
    <3> QED
      BY <3>1, <3>2, <3>3, <1>10
  <2> QED
    BY <2>1
<1>14. ASSUME NEW j \in 1..Len(p), NEW k \in 1..Len(p), j < k, p[j].what = "store" PROVE ~Assigns(p[k])
  <2>1. ~ (j <= Len(head))
    <3>1. ASSUME j <= Len(head) PROVE FALSE
      <4>1. j \in 1..Len(head) /\ p[j] = head[j]
        BY <1>10, <1>11, <3>1
      <4>2. head[j] \in CliHead(s)
        BY <4>1, <1>6, ElementOfSeq
      <4> QED
        BY <4>1, <4>2, <1>14 DEF CliHead
    <3> QED
      BY <3>1
  <2>2. k - Len(head) \in 1..Len(tail) /\ p[k] = tail[k - Len(head)]
    BY <2>1, <1>10, <1>11, <1>14
  <2>3. tail[k - Len(head)] \in CliTail(s)
    BY <2>2, <1>8, ElementOfSeq
  <2> QED
    BY <2>2, <2>3 DEF CliTail
<1> QED
  BY <1>1, <1>10, <1>12, <1>13, <1>14, <1>16 DEF CliShape, p

(* Of the gateway's change, too: what is after the store assigns nothing.  *)
StoresLast(p) == \A j, k \in 1..Len(p) : j < k /\ p[j].what = "store" => ~Assigns(p[k])
NoStore(s)    == {st \in IdStep(s) : st.what # "store"}
NoAssign(s)   == {st \in IdStep(s) : ~Assigns(st)}
Neither(s)    == NoStore(s) \cap NoAssign(s)

LEMMA StoresLastJoin ==
  ASSUME NEW s, NEW a \in Seq(IdStep(s)), StoresLast(a), NEW b \in Seq(NoAssign(s))
  PROVE  a \o b \in Seq(IdStep(s)) /\ StoresLast(a \o b)
<1> DEFINE p == a \o b
<1>1. b \in Seq(IdStep(s))
  <2>1. NoAssign(s) \subseteq IdStep(s)
    BY DEF NoAssign
  <2> QED
    BY <2>1, SeqMonotonic
<1>2. /\ p \in Seq(IdStep(s))
      /\ Len(p) = Len(a) + Len(b) /\ Len(a) \in Nat /\ Len(b) \in Nat
      /\ \A k \in 1..(Len(a) + Len(b)) : p[k] = IF k <= Len(a) THEN a[k] ELSE b[k - Len(a)]
  BY <1>1, ConcatProperties, LenProperties
<1> HIDE DEF p
<1>3. ASSUME NEW j \in 1..Len(p), NEW k \in 1..Len(p), j < k, p[j].what = "store" PROVE ~Assigns(p[k])
  <2>1. CASE k <= Len(a)
    <3>1. j \in 1..Len(a) /\ k \in 1..Len(a) /\ p[j] = a[j] /\ p[k] = a[k]
      BY <1>2, <1>3, <2>1
    <3> QED
      BY <3>1, <1>3 DEF StoresLast
  <2>2. CASE ~(k <= Len(a))
    <3>1. k - Len(a) \in 1..Len(b) /\ p[k] = b[k - Len(a)]
      BY <2>2, <1>2, <1>3
    <3>2. b[k - Len(a)] \in NoAssign(s)
      BY <3>1, ElementOfSeq
    <3> QED
      BY <3>1, <3>2 DEF NoAssign
  <2> QED
    BY <2>1, <2>2
<1> QED
  BY <1>2, <1>3 DEF StoresLast, p

LEMMA WsSteps ==
  ASSUME NEW s \in Setups, WsChanges(s), NEW i \in Nat, NEW f \in Nat
  PROVE  /\ Open(s.vendor) \in Neither(s) /\ TryOpen(i, s.vendor) \in Neither(s)
         /\ Close \in Neither(s) /\ Refuse \in Neither(s) /\ SkipIfHits(s.vendor, 1) \in Neither(s)
         /\ Add(i, f) \in Neither(s) /\ TryAdd(i, f) \in Neither(s) /\ Ask(i, f, "ping") \in Neither(s)
         /\ ReadIds(i, f) \in Neither(s)
         /\ s.vendor = "robstride" => [Probe(i, f, "ping") EXCEPT !.must = TRUE] \in Neither(s)
         /\ Assign(s.id, "feedback_id", s.new[2]) \in NoStore(s)
         /\ Assign(s.id, "motor_id", s.new[1]) \in NoStore(s)
         /\ Send(i, "store") \in NoAssign(s)
<1> USE DEF IdStep, NoStore, NoAssign, Neither, Assigns
<1>1. s.id \in Nat /\ s.new[1] \in Nat /\ s.new[2] \in Nat /\ s.vendor \in {"damiao", "robstride"}
  BY SetupFields DEF WsChanges
<1>2. s.vendor \in Vendors /\ {"ping", "store", "motor_id", "feedback_id"} \subseteq Whats
  BY <1>1 DEF Vendors, Whats
<1>3. Open(s.vendor) \in Neither(s)
  <2>1. s.vendor \notin {"motor_id", "feedback_id", "feedback", "obstacle", "store"}
    BY <1>1
  <2> QED
    BY <2>1, <1>2, OpenSteps
<1>4. TryOpen(i, s.vendor) \in Neither(s)
  <2>1. s.vendor \notin {"motor_id", "feedback_id", "feedback", "obstacle", "store"}
    BY <1>1
  <2> QED
    BY <2>1, <1>2, OpenSteps
<1>5. Close \in Neither(s) /\ Refuse \in Neither(s)
  <2>1. Close.what = "" /\ Refuse.what = ""
    BY DEF Close, Refuse, Step
  <2> QED
    BY <2>1, PlainSteps
<1>6. SkipIfHits(s.vendor, 1) \in Neither(s)
  <2>1. s.vendor \notin {"motor_id", "feedback_id", "feedback", "obstacle", "store"}
    BY <1>1
  <2> QED
    BY <1>2, <2>1, TurnSteps
<1>7. Add(i, f) \in Neither(s) /\ TryAdd(i, f) \in Neither(s)
  <2>1. Add(i, f).what = "" /\ TryAdd(i, f).what = ""
    BY DEF Add, TryAdd, Step
  <2>2. /\ Add(i, f) \in StepType /\ Add(i, f).op = "add"
        /\ TryAdd(i, f) \in StepType /\ TryAdd(i, f).op = "add"
    BY AddSteps
  <2> QED
    BY <2>1, <2>2
<1>8. Ask(i, f, "ping") \in Neither(s)
  <2>1. Ask(i, f, "ping") \in StepType /\ Ask(i, f, "ping").op = "ask" /\ Ask(i, f, "ping").what = "ping"
    BY <1>2, AskSteps
  <2> QED
    BY <2>1
<1>9. ReadIds(i, f) \in Neither(s)
  <2>1. ReadIds(i, f) \in StepType /\ ReadIds(i, f).op = "read_ids" /\ ReadIds(i, f).what = "regs"
    BY CheckSteps
  <2> QED
    BY <2>1
<1>10. s.vendor = "robstride" => [Probe(i, f, "ping") EXCEPT !.must = TRUE] \in Neither(s)
  <2> DEFINE st == [Probe(i, f, "ping") EXCEPT !.must = TRUE]
  <2>1. st \in StepType /\ st.op = "probe" /\ st.what = "ping"
    BY <1>2 DEF Probe, Step, StepType, Ops
  <2> HIDE DEF st
  <2>2. s.vendor = "robstride" => st \in Neither(s)
    BY <2>1
  <2> QED
    BY <2>2 DEF st
<1>11. Assign(s.id, "feedback_id", s.new[2]) \in NoStore(s) /\ Assign(s.id, "motor_id", s.new[1]) \in NoStore(s)
  <2>1. "feedback_id" \in Whats /\ "motor_id" \in Whats
    BY <1>2
  <2>2. Assign(s.id, "feedback_id", s.new[2]) \in NoStore(s)
    BY <1>1, <2>1, AssignSteps
  <2>3. Assign(s.id, "motor_id", s.new[1]) \in NoStore(s)
    BY <1>1, <2>1, AssignSteps
  <2> QED
    BY <2>2, <2>3
<1>12. Send(i, "store") \in NoAssign(s)
  <2>1. Send(i, "store") \in StepType /\ Send(i, "store").op = "send" /\ Send(i, "store").what = "store"
    BY <1>2, SendSteps
  <2> QED
    BY <2>1
<1> HIDE DEF IdStep, NoStore, NoAssign, Neither, Assigns
<1> QED
  BY <1>3, <1>4, <1>5, <1>6, <1>7, <1>8, <1>9, <1>10, <1>11, <1>12

LEMMA SetIdSteps ==
  ASSUME NEW s \in Setups, WsChanges(s)
  PROVE  Program(s) \in Seq(IdStep(s)) /\ (s.vendor = "damiao" => StoresLast(Program(s)))
<1> DEFINE S == NoAssign(s)
           checks == When("verify" \in s.flags, WsVerifySteps(s.vendor, s.new[1], s.new[2]))
<1>1. s.id \in Nat /\ s.fid \in Nat /\ s.new[1] \in Nat /\ s.new[2] \in Nat /\ s.vendor \in {"damiao", "robstride"}
  BY SetupFields DEF WsChanges
<1>0. Program(s) = WsSetId(s)
  <2>1. Program(s) = Gateway(s)
    BY DEF Program, WsChanges
  <2>2. Gateway(s) = WsSetId(s)
    BY DEF Gateway, WsChanges
  <2> QED
    BY <2>1, <2>2
<1>2. WsVerifySteps(s.vendor, s.new[1], s.new[2]) \in Seq(S)
  <2>1. CASE s.vendor = "damiao"
    <3> DEFINE try  == <<TryOpen(s.new[1], "damiao"), TryAdd(s.new[1], s.new[2]), ReadIds(s.new[1], s.new[2]), Close>>
               tries == [k \in DOMAIN ScanModels |-> try]
               last  == <<SkipIfHits("damiao", 1), Refuse>>
    <3>1. TryOpen(s.new[1], "damiao") \in S /\ TryAdd(s.new[1], s.new[2]) \in S /\ ReadIds(s.new[1], s.new[2]) \in S
          /\ Close \in S /\ SkipIfHits("damiao", 1) \in S /\ Refuse \in S
      BY <1>1, <2>1, WsSteps DEF Neither
    <3> HIDE DEF S
    <3>2. try \in Seq(S) /\ last \in Seq(S)
      <4>1. try \in Seq(S)
        BY <3>1
      <4>2. last \in Seq(S)
        BY <3>1
      <4> QED
        BY <4>1, <4>2
    <3>3. tries \in Seq(Seq(S))
      <4>1. DOMAIN ScanModels = 1..Len(ScanModels) /\ Len(ScanModels) \in Nat
        BY CommandAssumption, LenProperties
      <4> HIDE DEF try
      <4> QED
        BY <4>1, <3>2
    <3>4. FlattenSeq(tries) \o last \in Seq(S)
      BY <3>2, <3>3, FlattenInSeq, ConcatMember
    <3>5. WsVerifySteps(s.vendor, s.new[1], s.new[2]) = FlattenSeq(tries) \o last
      BY <2>1 DEF WsVerifySteps, Each
    <3> QED
      BY <3>4, <3>5
  <2>2. CASE s.vendor = "robstride"
    <3>1. Open("robstride") \in S /\ Add(s.new[1], s.new[2]) \in S /\ Close \in S
          /\ [Probe(s.new[1], 0, "ping") EXCEPT !.must = TRUE] \in S
      BY <1>1, <2>2, WsSteps DEF Neither
    <3> HIDE DEF S
    <3>2. WsVerifySteps(s.vendor, s.new[1], s.new[2])
            = <<Open("robstride"), Add(s.new[1], s.new[2]), [Probe(s.new[1], 0, "ping") EXCEPT !.must = TRUE], Close>>
      BY <2>2 DEF WsVerifySteps
    <3> QED
      BY <3>1, <3>2
  <2> QED
    BY <1>1, <2>1, <2>2
<1>3. checks \in Seq(S)
  BY <1>2 DEF When
<1>6. Seq(NoStore(s)) \subseteq Seq(IdStep(s)) /\ Seq(NoAssign(s)) \subseteq Seq(IdStep(s))
  <2>1. NoStore(s) \subseteq IdStep(s) /\ NoAssign(s) \subseteq IdStep(s)
    BY DEF NoStore, NoAssign
  <2> QED
    BY <2>1, SeqMonotonic
<1> HIDE DEF checks
<1>4. CASE s.vendor = "damiao"
  <2> DEFINE start == <<Open("damiao"), Add(s.id, s.fid)>>
             f     == When(s.new[2] # s.fid, <<Assign(s.id, "feedback_id", s.new[2])>>)
             m     == When(s.new[1] # s.id, <<Assign(s.id, "motor_id", s.new[1])>>)
             store == When("store" \in s.flags, <<Send(s.id, "store")>>)
             end   == <<Close>>
             head  == start \o f \o m
  <2>1. /\ Open("damiao") \in NoStore(s) /\ Add(s.id, s.fid) \in NoStore(s)
        /\ Assign(s.id, "feedback_id", s.new[2]) \in NoStore(s)
        /\ Assign(s.id, "motor_id", s.new[1]) \in NoStore(s)
        /\ Send(s.id, "store") \in S /\ Close \in S
    BY <1>1, <1>4, WsSteps DEF Neither
  <2> HIDE DEF S
  <2>2. /\ start \in Seq(NoStore(s)) /\ f \in Seq(NoStore(s)) /\ m \in Seq(NoStore(s))
        /\ store \in Seq(S) /\ end \in Seq(S)
    BY <2>1 DEF When
  <2> HIDE DEF start, f, m, store, end
  <2>3. head \in Seq(NoStore(s))
    BY <2>2, ConcatMember
  <2> HIDE DEF head
  <2>4. head \in Seq(IdStep(s)) /\ StoresLast(head)
    <3>1. \A j \in 1..Len(head) : head[j] \in NoStore(s)
      BY <2>3, ElementOfSeq
    <3> QED
      BY <3>1, <2>3, <1>6 DEF NoStore, StoresLast
  <2>5. head \o store \in Seq(IdStep(s)) /\ StoresLast(head \o store)
    BY <2>2, <2>4, StoresLastJoin DEF S
  <2>6. head \o store \o end \in Seq(IdStep(s)) /\ StoresLast(head \o store \o end)
    BY <2>2, <2>5, StoresLastJoin DEF S
  <2>7. head \o store \o end \o checks \in Seq(IdStep(s)) /\ StoresLast(head \o store \o end \o checks)
    BY <1>3, <2>6, StoresLastJoin DEF S
  <2>8. Program(s) = head \o store \o end \o checks
    <3>1. WsDamiaoSetId(s) = head \o store \o end
      BY DEF WsDamiaoSetId, start, f, m, store, end, head
    <3>2. WsSetId(s) = WsDamiaoSetId(s) \o checks
      BY <1>4 DEF WsSetId, checks
    <3> QED
      BY <3>1, <3>2, <1>0
  <2> QED
    BY <2>7, <2>8
<1>5. CASE s.vendor = "robstride"
  <2>1. Open("robstride") \in IdStep(s) /\ Add(s.id, s.fid) \in IdStep(s) /\ Ask(s.id, 0, "ping") \in IdStep(s)
        /\ Assign(s.id, "motor_id", s.new[1]) \in IdStep(s) /\ Close \in IdStep(s)
    BY <1>1, <1>5, WsSteps DEF Neither, NoStore
  <2>2. WsRobstrideSetId(s) \in Seq(IdStep(s))
    BY <2>1 DEF WsRobstrideSetId
  <2>3. WsRobstrideSetId(s) \o checks \in Seq(IdStep(s))
    BY <2>2, <1>3, <1>6, ConcatMember
  <2>4. Program(s) = WsRobstrideSetId(s) \o checks
    BY <1>5, <1>0 DEF WsSetId, checks
  <2> QED
    BY <2>3, <2>4, <1>5
<1> QED
  BY <1>1, <1>4, <1>5

LEMMA ChangesAreIdSteps ==
  ASSUME NEW s \in Setups, Changing(s)
  PROVE  Program(s) \in Seq(IdStep(s)) /\ (s.vendor = "damiao" => StoresLast(Program(s)))
<1>1. CliStep(s) \subseteq IdStep(s)
  BY DEF CliStep
<1> QED
  BY <1>1, IdSetShape, SetIdSteps, SeqMonotonic DEF Changing, CliShape, StoresLast

(***************************************************************************)
(* What an id change leaves behind.                                        *)
(***************************************************************************)
(* The new id is free.                                                     *)
NewIdIsFree == \A m \in Motors : Before(m).vendor = setup.vendor => Before(m).id # setup.new[1]

HasNewIds(m) ==
  /\ Before(m).vendor = setup.vendor /\ motor[m].id = setup.new[1]
  /\ setup.vendor = "damiao" => motor[m].fid = setup.new[2]
Moved     == \E m \in Motors : HasNewIds(m)
Stored(m) == motor[m].saved = <<motor[m].id, motor[m].fid>>
NewHit(h) == h[2] = setup.new[1] /\ (setup.vendor = "damiao" => h[3] = setup.new[2])

IdInv ==
  /\ setup \in Setups /\ pc \in Nat \ {0} /\ rescue \in Nat
  /\ DOMAIN motor = Motors
  /\ \A m \in Motors : IsMotor(motor[m])
  /\ open \/ bound => vendor = setup.vendor
  /\ \A m \in Motors : \/ motor[m].id = Before(m).id
                       \/ For(m) /\ motor[m].id = setup.new[1]
  /\ \A h \in hits : NewHit(h) => Moved

(* The program ends at the first step that fails, and nothing is assigned  *)
(* once it has stored.                                                     *)
CliInv ==
  /\ rescue = 0 /\ mishaps \in Nat
  /\ status = "running" /\ pc > 1 => bound
  /\ \A k \in 1..Len(Program(setup)) : k < pc /\ Program(setup)[k].op = "check" => Moved
  /\ mishaps = 0 => \A k \in 1..Len(Program(setup)) : k < pc /\ Program(setup)[k].what = "store" =>
       \A m \in Motors : Before(m).vendor = setup.vendor /\ motor[m].id = setup.new[1] => Stored(m)

LEMMA IdNow ==
  ASSUME IdInv, Changing(setup), NEW ops, Running(ops)
  PROVE  /\ Now = Program(setup)[pc] /\ pc \in 1..Len(Program(setup)) /\ Now.op \in ops
         /\ Now \in IdStep(setup) /\ Now \in StepType /\ status = "running"
<1>1. setup \in Setups /\ pc \in Nat \ {0}
  BY DEF IdInv
<1>2. Now = Program(setup)[pc] /\ pc <= Len(Program(setup)) /\ Now.op \in ops /\ status = "running"
  BY <1>1, NowIs
<1>3. Program(setup) \in Seq(IdStep(setup))
  BY <1>1, ChangesAreIdSteps
<1>4. pc \in 1..Len(Program(setup))
  BY <1>1, <1>2, <1>3, LenProperties
<1>5. Now \in IdStep(setup)
  BY <1>2, <1>3, <1>4, ElementOfSeq
<1> QED
  BY <1>2, <1>4, <1>5 DEF IdStep

LEMMA ToldIds ==
  ASSUME NEW st, NEW r, IsMotor(r)
  PROVE  /\ Told(r, st).id = IF st.what = "motor_id" THEN st.arg ELSE r.id
         /\ Told(r, st).fid = IF st.what = "feedback_id" THEN st.arg ELSE r.fid
         /\ Told(r, st).saved = IF st.what = "store" THEN <<r.id, r.fid>> ELSE r.saved
<1>1. CASE st.what = "start"
  <2>1. Told(r, st) = Motor(r.id, r.fid, "on", r.saved)
    BY <1>1, ToldWhat
  <2> QED
    BY <1>1, <2>1, MotorFields
<1>2. CASE st.what \in {"stop", "reset"}
  <2>1. Told(r, st) = Motor(r.id, r.fid, "off", r.saved)
    BY <1>2, ToldWhat
  <2> QED
    BY <1>2, <2>1, MotorFields
<1>3. CASE st.what = "motor_id"
  <2>1. Told(r, st) = Motor(st.arg, r.fid, r.power, r.saved)
    BY <1>3, ToldWhat
  <2> QED
    BY <1>3, <2>1, MotorFields
<1>4. CASE st.what = "feedback_id"
  <2>1. Told(r, st) = Motor(r.id, st.arg, r.power, r.saved)
    BY <1>4, ToldWhat
  <2> QED
    BY <1>4, <2>1, MotorFields
<1>5. CASE st.what = "store"
  <2>1. Told(r, st) = Motor(r.id, r.fid, IF vendor = "damiao" THEN "off" ELSE r.power, <<r.id, r.fid>>)
    BY <1>5, ToldWhat
  <2> QED
    BY <1>5, <2>1, MotorFields
<1>6. CASE st.what \notin {"start", "stop", "reset", "motor_id", "feedback_id", "store"}
  BY <1>6, ToldWhat
<1> QED
  BY <1>1, <1>2, <1>3, <1>4, <1>5, <1>6

LEMMA OffIds ==
  ASSUME NEW r, IsMotor(r)
  PROVE  /\ [r EXCEPT !.power = "off"].id = r.id /\ [r EXCEPT !.power = "off"].fid = r.fid
         /\ [r EXCEPT !.power = "off"].saved = r.saved
<1>1. [r EXCEPT !.power = "off"] = Motor(r.id, r.fid, "off", r.saved)
  BY MotorOff
<1> QED
  BY <1>1, MotorFields

LEMMA TellingIds ==
  ASSUME NEW st, DOMAIN motor = Motors, \A m \in Motors : IsMotor(motor[m]), NEW m \in Motors
  PROVE  /\ AfterTelling(st)[m].id = IF m \in Reached(st) /\ st.what = "motor_id" THEN st.arg ELSE motor[m].id
         /\ AfterTelling(st)[m].fid = IF m \in Reached(st) /\ st.what = "feedback_id" THEN st.arg ELSE motor[m].fid
         /\ AfterTelling(st)[m].saved =
              IF m \in Reached(st) /\ st.what = "store" THEN <<motor[m].id, motor[m].fid>> ELSE motor[m].saved
<1> DEFINE off == [motor[m] EXCEPT !.power = "off"]
<1>1. off.id = motor[m].id /\ off.fid = motor[m].fid /\ off.saved = motor[m].saved
  BY OffIds
<1>2. IsMotor(motor[m])
  OBVIOUS
<1>3. AfterTelling(st)[m] = IF st.what = "estop" /\ setup.motors[m].vendor = vendor THEN off
                            ELSE IF m \in Reached(st) THEN Told(motor[m], st) ELSE motor[m]
  BY DEF AfterTelling
<1> HIDE DEF off
<1>4. CASE st.what = "estop" /\ setup.motors[m].vendor = vendor
  BY <1>1, <1>3, <1>4
<1>5. CASE ~(st.what = "estop" /\ setup.motors[m].vendor = vendor) /\ m \in Reached(st)
  <2>1. AfterTelling(st)[m] = Told(motor[m], st)
    BY <1>3, <1>5
  <2> QED
    BY <2>1, <1>2, <1>5, ToldIds
<1>6. CASE ~(st.what = "estop" /\ setup.motors[m].vendor = vendor) /\ m \notin Reached(st)
  BY <1>3, <1>6
<1> QED
  BY <1>4, <1>5, <1>6

(* How a question ends: answered, by a motor that has the id it is for.    *)
LEMMA QueryAnswers ==
  ASSUME Query, Now.what \notin {"feedback", "obstacle"}
  PROVE  \E answered \in BOOLEAN : \E i, f :
           /\ answered => \E m \in Motors :
                /\ m \in Answering(Now)
                /\ Now.op = "check" => motor[m].fid = Now.fid
                /\ IF Now.op = "read_ids" THEN i = motor[m].id /\ f = motor[m].fid ELSE i = Now.id /\ f = Now.fid
           /\ hits' = IF answered /\ Now.op \in {"probe", "read_ids"} THEN hits \cup {<<vendor>> \o <<i, f>>} ELSE hits
           /\ FailOr(answered)
<1> DEFINE me      == <<Now.id, Now.fid>>
           replies == {r \in [of : Answering(Now), taker : reg \cup {me}] : r.taker \in Takers(r.of, Now)}
           Got(r)  == r.taker = me /\ (Now.op = "check" => motor[r.of].fid = Now.fid)
           Ids(r)  == IF Now.op = "read_ids" THEN <<motor[r.of].id, motor[r.of].fid>> ELSE me
           Outcome(answered, ids) ==
             /\ hits' = IF answered /\ Now.op \in {"probe", "read_ids"} THEN hits \cup {<<vendor>> \o ids} ELSE hits
             /\ FailOr(answered)
<1>1. \/ \E r \in replies : Outcome(Got(r), Ids(r))
      \/ Outcome(FALSE, me)
  BY DEF Query
<1>2. CASE \E r \in replies : Outcome(Got(r), Ids(r))
  <2>1. PICK r \in replies : Outcome(Got(r), Ids(r))
    BY <1>2
  <2> DEFINE i == IF Now.op = "read_ids" THEN motor[r.of].id ELSE Now.id
             f == IF Now.op = "read_ids" THEN motor[r.of].fid ELSE Now.fid
             a == Got(r)
  <2>2. r.of \in Answering(Now) /\ r.of \in Motors
    BY DEF Answering, Reached
  <2>3. Ids(r) = <<i, f>>
    OBVIOUS
  <2>4. Outcome(a, <<i, f>>)
    BY <2>1, <2>3
  <2>5. a \in BOOLEAN /\ (a => (Now.op = "check" => motor[r.of].fid = Now.fid))
    OBVIOUS
  <2>6. IF Now.op = "read_ids" THEN i = motor[r.of].id /\ f = motor[r.of].fid ELSE i = Now.id /\ f = Now.fid
    OBVIOUS
  <2> HIDE DEF a, i, f, replies
  <2> QED
    BY <2>2, <2>4, <2>5, <2>6
<1>3. CASE Outcome(FALSE, me)
  BY <1>3
<1> QED
  BY <1>1, <1>2, <1>3

LEMMA HitFields ==
  ASSUME NEW v, NEW i, NEW f
  PROVE  (<<v>> \o <<i, f>>)[1] = v /\ (<<v>> \o <<i, f>>)[2] = i /\ (<<v>> \o <<i, f>>)[3] = f
OBVIOUS

LEMMA PcMoves ==
  ASSUME pc \in Nat \ {0}, rescue \in Nat, NEW done, Advance \/ Fail \/ FailOr(done) \/ UNCHANGED <<pc, rescue>>
  PROVE  pc' \in Nat \ {0} /\ rescue' \in Nat
<1>1. Advance \/ Fail \/ UNCHANGED <<pc, rescue>>
  BY DEF FailOr
<1> QED
  BY <1>1 DEF Advance, Fail

(* The motors change only as they are told to, by a step of the program    *)
(* that has its controller.                                                *)
LEMMA OnlyTold ==
  ASSUME IdInv, Changing(setup), [Next]_vars
  PROVE  \/ motor' = motor
         \/ /\ Tell /\ motor' = AfterTelling(Now) /\ Now \in IdStep(setup)
            /\ vendor = setup.vendor
<1>1. ASSUME Tell, motor' # motor
      PROVE  motor' = AfterTelling(Now) /\ Now \in IdStep(setup) /\ vendor = setup.vendor
  <2>1. motor' = AfterTelling(Now) /\ Running({"send", "call"}) /\ ~Skipped
    BY <1>1 DEF Tell
  <2>2. Now \in IdStep(setup) /\ Now.op \in {"send", "call"}
    BY <2>1, IdNow
  <2>3. bound
    BY <2>1, <2>2 DEF Skipped
  <2> QED
    BY <2>1, <2>2, <2>3 DEF IdInv
<1>2. ASSUME ShutdownAll PROVE FALSE
  <2>1. Running({"shutdown"})
    BY <1>2 DEF ShutdownAll
  <2>2. Now \in IdStep(setup) /\ Now.op \in {"shutdown"}
    BY <2>1, IdNow
  <2> QED
    BY <2>2 DEF IdStep
<1> QED
  BY <1>1, <1>2 DEF Next, vars, OpenBus, AddMotor, Skip, Query, LoopRound, InstallHandler, CloseBus,
     Turn, Return, Interrupt, Done

LEMMA IdsMove ==
  ASSUME IdInv, Changing(setup), NewIdIsFree, [Next]_vars
  PROVE  /\ DOMAIN motor' = Motors
         /\ \A m \in Motors : IsMotor(motor'[m])
         /\ \A m \in Motors : motor'[m].id = Before(m).id \/ (For(m) /\ motor'[m].id = setup.new[1])
         /\ \A m \in Motors : HasNewIds(m) => HasNewIds(m)'
<1>1. setup' = setup
  BY SetupStays
<1>2. CASE motor' = motor
  BY <1>1, <1>2 DEF IdInv, HasNewIds, Before
<1>3. CASE motor' = AfterTelling(Now) /\ Now \in IdStep(setup) /\ vendor = setup.vendor
  <2>1. DOMAIN motor = Motors /\ \A m \in Motors : IsMotor(motor[m])
    BY DEF IdInv
  <2>2. DOMAIN motor' = Motors /\ \A m \in Motors : IsMotor(motor'[m])
    BY <2>1, <1>3, TellingKeeps
  <2>3. ASSUME NEW m \in Motors
        PROVE  /\ motor'[m].id = Before(m).id \/ (For(m) /\ motor'[m].id = setup.new[1])
               /\ HasNewIds(m) => HasNewIds(m)'
    <3>1. motor[m].id = Before(m).id \/ (For(m) /\ motor[m].id = setup.new[1])
      BY DEF IdInv
    <3>2. /\ motor'[m].id = IF m \in Reached(Now) /\ Now.what = "motor_id" THEN Now.arg ELSE motor[m].id
          /\ motor'[m].fid = IF m \in Reached(Now) /\ Now.what = "feedback_id" THEN Now.arg ELSE motor[m].fid
      BY <2>1, <1>3, TellingIds
    <3>3. m \in Reached(Now) => Before(m).vendor = setup.vendor /\ motor[m].id = Now.id
      BY <1>3 DEF Reached, Before
    <3>4. /\ Now.what = "motor_id" => Now.id = setup.id /\ Now.arg = setup.new[1]
          /\ Now.what = "feedback_id" => Now.id = setup.id /\ Now.arg = setup.new[2]
      BY <1>3 DEF IdStep
    <3>5. motor'[m].id = Before(m).id \/ (For(m) /\ motor'[m].id = setup.new[1])
      BY <3>1, <3>2, <3>3, <3>4 DEF For
    <3>6. HasNewIds(m) => HasNewIds(m)'
      <4>1. ASSUME HasNewIds(m) PROVE motor'[m].id = motor[m].id /\ motor'[m].fid = motor[m].fid
        <5>1. motor[m].id = setup.new[1] /\ Before(m).id # setup.new[1] /\ Before(m).id = setup.id
          BY <3>1, <4>1 DEF HasNewIds, NewIdIsFree, For
        <5> QED
          BY <5>1, <3>2, <3>3, <3>4
      <4> QED
        BY <4>1, <1>1 DEF HasNewIds, Before
    <3> QED
      BY <3>5, <3>6
  <2> QED
    BY <2>2, <2>3
<1> QED
  BY <1>2, <1>3, OnlyTold

(* What is reported is a motor that had the id when it answered.           *)
LEMMA HitsMove ==
  ASSUME IdInv, Changing(setup), [Next]_vars, NEW h \in hits', NewHit(h)
  PROVE  h \in hits \/ Moved
<1>1. CASE hits' = hits
  BY <1>1
<1>2. CASE Query
  <2>1. Running({"ask", "check", "probe", "read_ids"}) /\ ~Skipped
    BY <1>2 DEF Query
  <2>2. Now \in IdStep(setup) /\ Now.op \in {"ask", "check", "probe", "read_ids"}
    BY <2>1, IdNow
  <2>3. vendor = setup.vendor
    BY <2>1, <2>2 DEF Skipped, IdInv
  <2>4. Now.what \notin {"feedback", "obstacle"} /\ (Now.op = "probe" => setup.vendor # "damiao")
    BY <2>2 DEF IdStep
  <2>5. PICK answered \in BOOLEAN : \E i, f :
          /\ answered => \E m \in Motors :
               /\ m \in Answering(Now)
               /\ Now.op = "check" => motor[m].fid = Now.fid
               /\ IF Now.op = "read_ids" THEN i = motor[m].id /\ f = motor[m].fid ELSE i = Now.id /\ f = Now.fid
          /\ hits' = IF answered /\ Now.op \in {"probe", "read_ids"} THEN hits \cup {<<vendor>> \o <<i, f>>} ELSE hits
          /\ FailOr(answered)
    BY <1>2, <2>4, QueryAnswers
  <2>6. PICK i, f :
          /\ answered => \E m \in Motors :
               /\ m \in Answering(Now)
               /\ Now.op = "check" => motor[m].fid = Now.fid
               /\ IF Now.op = "read_ids" THEN i = motor[m].id /\ f = motor[m].fid ELSE i = Now.id /\ f = Now.fid
          /\ hits' = IF answered /\ Now.op \in {"probe", "read_ids"} THEN hits \cup {<<vendor>> \o <<i, f>>} ELSE hits
    BY <2>5
  <2>7. CASE h \notin hits
    <3>1. answered /\ Now.op \in {"probe", "read_ids"} /\ h = <<vendor>> \o <<i, f>>
      BY <2>6, <2>7
    <3>2. PICK m \in Motors :
            /\ m \in Answering(Now)
            /\ IF Now.op = "read_ids" THEN i = motor[m].id /\ f = motor[m].fid ELSE i = Now.id /\ f = Now.fid
      BY <2>6, <3>1
    <3>3. Before(m).vendor = setup.vendor /\ motor[m].id = Now.id
      BY <3>2, <2>3 DEF Answering, Reached, Before
    <3>4. h[2] = i /\ h[3] = f
      BY <3>1, HitFields
    <3>5. HasNewIds(m)
      BY <3>1, <3>2, <3>3, <3>4, <2>4 DEF HasNewIds, NewHit
    <3> QED
      BY <3>5 DEF Moved
  <2> QED
    BY <2>7
<1> QED
  BY <1>1, <1>2 DEF Next, vars, OpenBus, AddMotor, Skip, Tell, LoopRound, InstallHandler, CloseBus,
     ShutdownAll, Turn, Return, Interrupt, Done

LEMMA ControllerMoves ==
  ASSUME IdInv, Changing(setup), [Next]_vars
  PROVE  open' \/ bound' => vendor' = setup.vendor
<1>1. open \/ bound => vendor = setup.vendor
  BY DEF IdInv
<1>2. CASE OpenBus
  <2>1. Running({"open"})
    BY <1>2 DEF OpenBus
  <2>2. Now.what = setup.vendor
    BY <2>1, IdNow DEF IdStep
  <2>3. \A done : FailOr(done) => open' = FALSE \/ open' = open
    BY DEF FailOr, Fail
  <2> QED
    BY <1>1, <1>2, <2>2, <2>3 DEF OpenBus
<1>3. CASE AddMotor
  <2>1. \A done : FailOr(done) => open' = FALSE \/ open' = open
    BY DEF FailOr, Fail
  <2> QED
    BY <1>1, <1>3, <2>1 DEF AddMotor
<1>4. CASE Query
  <2>1. open' = FALSE \/ open' = open
    BY <1>4 DEF Query, FailOr, Fail
  <2> QED
    BY <1>1, <1>4, <2>1 DEF Query
<1>5. CASE Tell
  <2>1. open' = FALSE \/ open' = open
    BY <1>5 DEF Tell, FailOr, Fail
  <2> QED
    BY <1>1, <1>5, <2>1 DEF Tell
<1> QED
  BY <1>1, <1>2, <1>3, <1>4, <1>5 DEF Next, vars, controller, Skip, LoopRound, InstallHandler, CloseBus,
     ShutdownAll, Turn, Fail, Return, Interrupt, Done

LEMMA PcIsNat ==
  ASSUME IdInv, Changing(setup), [Next]_vars
  PROVE  pc' \in Nat \ {0} /\ rescue' \in Nat
<1>1. pc \in Nat \ {0} /\ rescue \in Nat
  BY DEF IdInv
<1>2. CASE \E done : Advance \/ Fail \/ FailOr(done) \/ UNCHANGED <<pc, rescue>>
  BY <1>1, <1>2, PcMoves
<1>3. CASE Turn
  <2>1. \A ops : Running(ops) => Now.arg \in Nat
    BY IdNow DEF StepType
  <2>2. Now.arg \in Nat
    BY <1>3, <2>1 DEF Turn
  <2> QED
    BY <1>1, <1>3, <2>2 DEF Turn, Fail
<1>4. CASE OpenBus \/ AddMotor \/ Query \/ Tell
  BY <1>2, <1>4 DEF OpenBus, AddMotor, Query, Tell
<1> QED
  BY <1>2, <1>3, <1>4 DEF Next, vars, Skip, LoopRound, InstallHandler, CloseBus, ShutdownAll,
     Return, Interrupt, Done

LEMMA IdKept ==
  ASSUME IdInv, Changing(setup), NewIdIsFree, [Next]_vars
  PROVE  IdInv'
<1>1. setup' = setup /\ setup \in Setups
  BY SetupStays DEF IdInv
<1>2. /\ DOMAIN motor' = Motors
      /\ \A m \in Motors : IsMotor(motor'[m])
      /\ \A m \in Motors : motor'[m].id = Before(m).id \/ (For(m) /\ motor'[m].id = setup.new[1])
      /\ \A m \in Motors : HasNewIds(m) => HasNewIds(m)'
  BY IdsMove
<1>3. Moved => Moved'
  BY <1>2 DEF Moved
<1>4. \A h \in hits' : NewHit(h) => h \in hits \/ Moved
  BY HitsMove
<1>5. \A h \in hits' : NewHit(h) => Moved'
  BY <1>3, <1>4 DEF IdInv
<1>6. \A h : NewHit(h)' <=> NewHit(h)
  BY <1>1 DEF NewHit
<1>7. /\ pc' \in Nat \ {0} /\ rescue' \in Nat
      /\ open' \/ bound' => vendor' = setup.vendor
  BY PcIsNat, ControllerMoves
<1>8. \A m : Before(m)' = Before(m) /\ For(m)' = For(m)
  BY <1>1 DEF Before, For
<1> HIDE DEF Moved, NewHit, Before, For
<1> QED
  BY <1>1, <1>2, <1>5, <1>6, <1>7, <1>8 DEF IdInv

(***************************************************************************)
(* The command line's id change.                                           *)
(***************************************************************************)
LEMMA CliNow ==
  ASSUME IdInv, CliChanges(setup), NEW ops, Running(ops)
  PROVE  Now \in CliStep(setup)
<1>1. setup \in Setups /\ Changing(setup)
  BY DEF IdInv, Changing
<1>2. Now = Program(setup)[pc] /\ pc \in 1..Len(Program(setup))
  BY <1>1, IdNow
<1>3. Program(setup) \in Seq(CliStep(setup))
  BY <1>1, IdSetShape DEF CliShape
<1> QED
  BY <1>2, <1>3, ElementOfSeq

LEMMA MishapsAdd ==
  ASSUME mishaps \in Nat, [Next]_vars
  PROVE  mishaps' \in Nat /\ (mishaps' = 0 => mishaps = 0)
<1>1. ASSUME NEW n \in Nat, Mishaps(n) PROVE mishaps' \in Nat /\ (mishaps' = 0 => mishaps = 0)
  BY <1>1 DEF Mishaps
<1>2. ASSUME Mishap PROVE mishaps' \in Nat /\ (mishaps' = 0 => mishaps = 0)
  BY <1>1, <1>2 DEF Mishap
<1>3. CASE Query
  <2>1. Attempts(Now.what) \in Nat
    BY DEF Attempts
  <2>2. mishaps' = mishaps \/ Mishaps(Attempts(Now.what))
    BY <1>3 DEF Query
  <2> QED
    BY <2>1, <2>2, <1>1
<1>4. CASE ShutdownAll
  <2>1. mishaps' = mishaps \/ Mishap
    BY <1>4 DEF ShutdownAll
  <2> QED
    BY <2>1, <1>2
<1>5. CASE OpenBus \/ Tell \/ LoopRound
  <2>1. mishaps' = mishaps \/ Mishap
    BY <1>5 DEF OpenBus, Tell, LoopRound
  <2> QED
    BY <2>1, <1>2
<1> QED
  BY <1>3, <1>4, <1>5 DEF Next, vars, AddMotor, Skip, InstallHandler, CloseBus, Turn, Return, Interrupt, Done

(* It goes on to the next step, or ends.                                   *)
CliGoesOn == status' = "running" /\ pc' = pc + 1 /\ rescue' = rescue
CliEnds   == pc' = pc /\ rescue' = rescue /\ (status' = "running" => status = "running" /\ bound' = bound)

LEMMA CliMoves ==
  ASSUME IdInv, CliInv, CliChanges(setup), [Next]_vars
  PROVE  \/ CliEnds
         \/ CliGoesOn /\ bound' /\ \E ops : Running(ops)
<1>0. /\ setup \in Setups /\ Changing(setup) /\ rescue = 0 /\ pc \in Nat \ {0}
      /\ status = "running" /\ pc > 1 => bound
  BY DEF IdInv, CliInv, Changing
<1>1. CliShape(setup, Program(setup))
  BY <1>0, CliChanges(setup), IdSetShape
<1>2. ASSUME NEW ops, Running(ops)
      PROVE  /\ Now.op \in ops /\ status = "running"
             /\ Now.op \in {"open", "add", "send", "check", "close"} /\ ~Now.unfound
             /\ Now.op # "close" => Now.must
             /\ Now.op # "open" => bound
  <2>1. Now \in CliStep(setup) /\ Now = Program(setup)[pc] /\ Now.op \in ops /\ status = "running"
    BY <1>0, <1>2, CliNow, IdNow
  <2>2. Now.op # "open" => pc # 1
    BY <2>1, <1>1 DEF CliShape
  <2> QED
    BY <2>1, <2>2, <1>0 DEF CliStep
<1>3. Fail => CliEnds
  BY <1>0 DEF Fail, CliEnds
<1>4. ASSUME status = "running", Advance PROVE CliGoesOn
  BY <1>4 DEF Advance, CliGoesOn
<1>5. CASE OpenBus
  <2>1. Running({"open"}) /\ Now.must /\ status = "running"
    BY <1>2, <1>5 DEF OpenBus
  <2>2. (bound' /\ Advance) \/ FailOr(FALSE)
    BY <1>5 DEF OpenBus
  <2>3. (bound' /\ Advance) \/ Fail
    BY <2>1, <2>2 DEF FailOr
  <2> QED
    BY <2>1, <2>3, <1>3, <1>4
<1>6. CASE AddMotor
  <2>1. Running({"add"}) /\ Now.must /\ status = "running"
    BY <1>2, <1>6 DEF AddMotor
  <2>2. FailOr(bound')
    BY <1>6 DEF AddMotor
  <2>3. (bound' /\ Advance) \/ Fail
    BY <2>1, <2>2 DEF FailOr
  <2> QED
    BY <2>1, <2>3, <1>3, <1>4
<1>7. CASE Skip
  <2>1. PICK ops : Running(ops) /\ Skipped
    BY <1>7 DEF Skip
  <2> QED
    BY <2>1, <1>2 DEF Skipped
<1>8. CASE Query
  <2>1. Running({"ask", "check", "probe", "read_ids"}) /\ bound' = bound
    BY <1>8 DEF Query
  <2>2. bound /\ Now.must /\ status = "running"
    BY <2>1, <1>2
  <2>3. Advance \/ Fail
    BY <1>8 DEF Query, FailOr
  <2> QED
    BY <2>1, <2>2, <2>3, <1>3, <1>4
<1>9. CASE Tell
  <2>1. Running({"send", "call"}) /\ bound' = bound
    BY <1>9 DEF Tell
  <2>2. bound /\ Now.must /\ status = "running"
    BY <2>1, <1>2
  <2>3. Advance \/ Fail
    BY <1>9 DEF Tell, FailOr
  <2> QED
    BY <2>1, <2>2, <2>3, <1>3, <1>4
<1>10. CASE CloseBus
  <2>1. Running({"close"}) /\ bound' = bound /\ Advance
    BY <1>10 DEF CloseBus
  <2>2. bound /\ status = "running"
    BY <2>1, <1>2
  <2> QED
    BY <2>1, <2>2, <1>4
<1>11. CASE LoopRound \/ InstallHandler \/ ShutdownAll \/ Turn
  <2>1. PICK ops : Running(ops) /\ ops \cap {"open", "add", "send", "check", "close"} = {}
    BY <1>11 DEF LoopRound, InstallHandler, ShutdownAll, Turn
  <2> QED
    BY <2>1, <1>2
<1>12. CASE Return \/ Interrupt \/ Done \/ UNCHANGED vars
  BY <1>12 DEF Return, Interrupt, Done, vars, controller, CliEnds
<1> QED
  BY <1>5, <1>6, <1>7, <1>8, <1>9, <1>10, <1>11, <1>12 DEF Next

(* A check that lets the program go on was answered with the new ids.      *)
LEMMA CliChecks ==
  ASSUME IdInv, CliInv, CliChanges(setup), [Next]_vars, CliGoesOn, NEW ops, Running(ops), Now.op = "check"
  PROVE  Moved
<1>1. Changing(setup)
  BY DEF Changing
<1>2. /\ Now \in CliStep(setup) /\ Now.must /\ Now.id = setup.new[1] /\ Now.fid = setup.new[2]
      /\ Now.what \notin {"feedback", "obstacle"} /\ pc \in Nat \ {0}
  BY CliNow DEF CliStep, IdStep, IdInv
<1>3. Query /\ ~Skipped
  <2>1. \A o : Running(o) => "check" \in o
    BY DEF Running
  <2>2. ~Skipped
    <3>1. Now = Program(setup)[pc] /\ CliShape(setup, Program(setup)) /\ status = "running"
      BY <1>1, IdNow, IdSetShape DEF IdInv
    <3>2. bound
      BY <3>1, <1>2 DEF CliShape, CliInv
    <3> QED
      BY <3>2, <1>2 DEF Skipped, CliStep
  <2>3. Query \/ Return \/ Interrupt \/ Done \/ UNCHANGED vars
    BY <2>1, <2>2, <1>2 DEF Next, OpenBus, AddMotor, Skip, Tell, LoopRound, InstallHandler, CloseBus,
       ShutdownAll, Turn
  <2>4. pc' # pc
    BY <1>2 DEF CliGoesOn
  <2> QED
    BY <2>2, <2>3, <2>4 DEF Return, Interrupt, Done, vars
<1>4. PICK answered \in BOOLEAN :
        /\ answered => \E m \in Motors : m \in Answering(Now) /\ (Now.op = "check" => motor[m].fid = Now.fid)
        /\ FailOr(answered)
  BY <1>2, <1>3, QueryAnswers
<1>5. answered
  BY <1>2, <1>4 DEF FailOr, Fail, CliGoesOn, CliInv
<1>6. PICK m \in Motors : m \in Answering(Now) /\ motor[m].fid = Now.fid
  BY <1>4, <1>5
<1>7. vendor = setup.vendor
  BY <1>3, <1>2 DEF Skipped, IdInv
<1> QED
  BY <1>2, <1>6, <1>7 DEF Answering, Reached, Moved, HasNewIds, Before

(* What the store step saves, when nothing was lost.                       *)
LEMMA CliStores ==
  ASSUME IdInv, CliInv, CliChanges(setup), [Next]_vars, mishaps' = 0
  PROVE  \A k \in 1..Len(Program(setup)) : k < pc' /\ Program(setup)[k].what = "store" =>
           \A m \in Motors : Before(m).vendor = setup.vendor /\ motor'[m].id = setup.new[1] => Stored(m)'
<1> DEFINE p == Program(setup)
<1>0. /\ setup \in Setups /\ Changing(setup) /\ pc \in Nat \ {0} /\ mishaps \in Nat
      /\ DOMAIN motor = Motors /\ \A m \in Motors : IsMotor(motor[m])
      /\ CliShape(setup, p)
  BY IdSetShape DEF IdInv, CliInv, Changing
<1> HIDE DEF p
<1>1. mishaps = 0
  BY <1>0, MishapsAdd
<1>2. ASSUME NEW k \in 1..Len(p), k < pc, p[k].what = "store",
             NEW m \in Motors, Before(m).vendor = setup.vendor, motor[m].id = setup.new[1]
      PROVE  Stored(m)
  BY <1>1, <1>2 DEF CliInv, p
<1>3. CliEnds \/ (CliGoesOn /\ \E ops : Running(ops))
  BY CliMoves
<1>4. pc' = pc \/ (pc' = pc + 1 /\ Now = p[pc] /\ \E ops : Running(ops))
  BY <1>0, <1>3, IdNow DEF CliEnds, CliGoesOn, p
<1> SUFFICES ASSUME NEW k \in 1..Len(p), k < pc', p[k].what = "store",
                    NEW m \in Motors, Before(m).vendor = setup.vendor, motor'[m].id = setup.new[1]
             PROVE  Stored(m)'
  BY DEF p
<1>5. k < pc \/ (k = pc /\ Now = p[pc] /\ Now.what = "store" /\ \E ops : Running(ops))
  BY <1>0, <1>4
<1>6. CASE Tell
  <2>1. Running({"send", "call"}) /\ ~Skipped /\ motor' = AfterTelling(Now)
    BY <1>0, <1>1, <1>6 DEF Tell, Mishap, Mishaps
  <2>2. Now \in CliStep(setup) /\ Now = p[pc] /\ pc \in 1..Len(p) /\ Now.op \in {"send", "call"}
    BY <2>1, <1>0, CliNow, IdNow DEF p
  <2>3. vendor = setup.vendor
    BY <2>1, <2>2 DEF Skipped, IdInv
  <2>4. /\ motor'[m].id = IF m \in Reached(Now) /\ Now.what = "motor_id" THEN Now.arg ELSE motor[m].id
        /\ motor'[m].fid = IF m \in Reached(Now) /\ Now.what = "feedback_id" THEN Now.arg ELSE motor[m].fid
        /\ motor'[m].saved =
             IF m \in Reached(Now) /\ Now.what = "store" THEN <<motor[m].id, motor[m].fid>> ELSE motor[m].saved
    BY <2>1, <1>0, TellingIds
  <2>5. CASE Now.what = "store"
    <3>1. Now.id = setup.new[1]
      BY <2>2, <2>5 DEF CliStep
    <3>2. motor'[m].id = motor[m].id /\ motor'[m].fid = motor[m].fid
      BY <2>4, <2>5
    <3>3. m \in Reached(Now)
      BY <3>1, <3>2, <2>3 DEF Reached, Before
    <3> QED
      BY <3>2, <3>3, <2>4, <2>5 DEF Stored
  <2>6. CASE Now.what # "store"
    <3>1. k < pc
      BY <1>5, <2>6
    <3>2. ~Assigns(Now)
      BY <3>1, <2>2, <1>0 DEF CliShape
    <3>3. motor'[m].id = motor[m].id /\ motor'[m].fid = motor[m].fid /\ motor'[m].saved = motor[m].saved
      BY <3>2, <2>4, <2>6 DEF Assigns
    <3> QED
      BY <3>1, <3>3, <1>2 DEF Stored
  <2> QED
    BY <2>5, <2>6
<1>7. CASE ~Tell
  <2>1. motor' = motor
    BY <1>0, <1>7, OnlyTold
  <2>2. ASSUME k = pc, NEW ops, Running(ops), Now.what = "store" PROVE FALSE
    <3>1. Now.op = "send" /\ Now \in CliStep(setup)
      BY <2>2, CliNow DEF CliStep
    <3>2. \A o : Running(o) => "send" \in o
      BY <3>1 DEF Running
    <3>3. ~Skipped
      <4>1. Now = p[pc] /\ status = "running"
        BY <1>0, <2>2, IdNow DEF p
      <4>2. bound
        BY <3>1, <4>1, <1>0 DEF CliShape, CliInv
      <4> QED
        BY <4>2, <3>1 DEF Skipped, CliStep
    <3>4. pc' # pc
      BY <2>2, <1>0
    <3> QED
      BY <3>2, <3>3, <3>4, <1>7 DEF Next, vars, OpenBus, AddMotor, Skip, Query, LoopRound, InstallHandler,
         CloseBus, ShutdownAll, Turn, Return, Interrupt, Done
  <2> QED
    BY <2>1, <2>2, <1>2, <1>5 DEF Stored
<1> QED
  BY <1>6, <1>7

LEMMA CliKept ==
  ASSUME IdInv, CliInv, CliChanges(setup), NewIdIsFree, [Next]_vars
  PROVE  CliInv'
<1> DEFINE p == Program(setup)
<1>0. /\ setup \in Setups /\ Changing(setup) /\ pc \in Nat \ {0} /\ mishaps \in Nat /\ rescue = 0
      /\ setup' = setup
  BY SetupStays DEF IdInv, CliInv, Changing
<1> HIDE DEF p
<1>1. CliEnds \/ (CliGoesOn /\ bound' /\ \E ops : Running(ops))
  BY CliMoves
<1>2. mishaps' \in Nat
  BY <1>0, MishapsAdd
<1>3. status' = "running" /\ pc' > 1 => bound'
  BY <1>1 DEF CliEnds, CliGoesOn, CliInv
<1>4. Moved => Moved'
  BY <1>0, IdsMove DEF Moved
<1>5. ASSUME NEW k \in 1..Len(p), k < pc', p[k].op = "check" PROVE Moved'
  <2>1. CASE k < pc
    BY <2>1, <1>4, <1>5 DEF CliInv, p
  <2>2. CASE ~(k < pc)
    <3>1. PICK ops : Running(ops) /\ CliGoesOn
      BY <1>0, <1>1, <1>5, <2>2 DEF CliEnds
    <3>2. k = pc /\ Now = p[pc]
      BY <3>1, <2>2, <1>0, <1>5, IdNow DEF CliGoesOn, p
    <3> QED
      BY <3>1, <3>2, <1>4, <1>5, CliChecks
  <2> QED
    BY <2>1, <2>2
<1>6. mishaps' = 0 => \A k \in 1..Len(p) : k < pc' /\ p[k].what = "store" =>
        \A m \in Motors : Before(m).vendor = setup.vendor /\ motor'[m].id = setup.new[1] => Stored(m)'
  BY CliStores DEF p
<1>7. rescue' = 0
  BY <1>0, <1>1 DEF CliEnds, CliGoesOn
<1>8. p' = p /\ \A m : Before(m)' = Before(m)
  BY <1>0 DEF p, Before
<1> QED
  BY <1>0, <1>2, <1>3, <1>5, <1>6, <1>7, <1>8 DEF CliInv, p

(* What is saved is the ids from before or, with nothing left to assign,   *)
(* those the motor has.                                                    *)
SavedInv ==
  /\ rescue = 0
  /\ \A m \in Motors : For(m) =>
       \/ motor[m].saved = <<Before(m).id, Before(m).fid>>
       \/ Stored(m) /\ \A k \in 1..Len(Program(setup)) : k >= pc => ~Assigns(Program(setup)[k])

LEMMA PcGrows ==
  ASSUME IdInv, Changing(setup), rescue = 0, [Next]_vars
  PROVE  pc' >= pc /\ rescue' = 0
<1>1. pc \in Nat \ {0}
  BY DEF IdInv
<1>2. CASE \E done : Advance \/ Fail \/ FailOr(done) \/ UNCHANGED <<pc, rescue>>
  BY <1>1, <1>2 DEF Advance, Fail, FailOr
<1>3. CASE Turn
  <2>1. \A ops : Running(ops) => Now.arg \in Nat /\ Now.op # "rescue"
    BY IdNow DEF StepType, IdStep
  <2>2. ~Running({"rescue"})
    BY <2>1, IdNow
  <2> QED
    BY <1>1, <1>3, <2>1, <2>2 DEF Turn, Fail
<1>4. CASE \/ OpenBus \/ AddMotor \/ Skip \/ Query \/ Tell \/ LoopRound \/ InstallHandler
           \/ CloseBus \/ ShutdownAll
  <2>1. \E done : Advance \/ Fail \/ FailOr(done)
    BY <1>4 DEF OpenBus, AddMotor, Skip, Query, Tell, LoopRound, InstallHandler, CloseBus, ShutdownAll
  <2> QED
    BY <2>1, <1>2
<1>5. CASE Return \/ Interrupt \/ Done \/ UNCHANGED vars
  BY <1>1, <1>5 DEF Return, Interrupt, Done, vars
<1> QED
  BY <1>3, <1>4, <1>5 DEF Next

LEMMA SavedKept ==
  ASSUME IdInv, SavedInv, Changing(setup), setup.vendor = "damiao", [Next]_vars
  PROVE  SavedInv'
<1> DEFINE p == Program(setup)
<1>0. /\ setup' = setup /\ pc' >= pc /\ rescue' = 0 /\ pc \in Nat \ {0} /\ pc' \in Nat \ {0}
      /\ DOMAIN motor = Motors /\ \A m \in Motors : IsMotor(motor[m])
  BY SetupStays, PcGrows, PcIsNat DEF IdInv, SavedInv
<1>1. StoresLast(p) /\ Len(p) \in Nat
  BY ChangesAreIdSteps, LenProperties DEF IdInv
<1> HIDE DEF p
<1> SUFFICES ASSUME NEW m \in Motors, For(m)
             PROVE  \/ motor'[m].saved = <<Before(m).id, Before(m).fid>>
                    \/ Stored(m)' /\ \A k \in 1..Len(p) : k >= pc' => ~Assigns(p[k])
  BY <1>0 DEF SavedInv, For, Before, p
<1>2. \/ motor[m].saved = <<Before(m).id, Before(m).fid>>
      \/ Stored(m) /\ \A k \in 1..Len(p) : k >= pc => ~Assigns(p[k])
  BY DEF SavedInv, p
<1>3. CASE motor' = motor
  BY <1>0, <1>1, <1>2, <1>3 DEF Stored
<1>4. CASE motor' # motor
  <2>1. Tell /\ motor' = AfterTelling(Now)
    BY <1>4, OnlyTold
  <2>2. Running({"send", "call"})
    BY <2>1 DEF Tell
  <2>3. Now = p[pc] /\ pc \in 1..Len(p)
    BY <2>2, IdNow DEF p
  <2>4. /\ motor'[m].id = IF m \in Reached(Now) /\ Now.what = "motor_id" THEN Now.arg ELSE motor[m].id
        /\ motor'[m].fid = IF m \in Reached(Now) /\ Now.what = "feedback_id" THEN Now.arg ELSE motor[m].fid
        /\ motor'[m].saved =
             IF m \in Reached(Now) /\ Now.what = "store" THEN <<motor[m].id, motor[m].fid>> ELSE motor[m].saved
    BY <2>1, <1>0, TellingIds
  <2>5. CASE Now.what = "store" /\ m \in Reached(Now)
    <3>1. Stored(m)'
      BY <2>4, <2>5 DEF Stored
    <3>2. ASSUME NEW k \in 1..Len(p), k >= pc' PROVE ~Assigns(p[k])
      <4>1. CASE k = pc
        BY <4>1, <2>3, <2>5 DEF Assigns
      <4>2. CASE k > pc
        BY <4>2, <2>3, <2>5, <1>1 DEF StoresLast
      <4> QED
        BY <4>1, <4>2, <3>2, <1>0
    <3> QED
      BY <3>1, <3>2
  <2>6. CASE ~(Now.what = "store" /\ m \in Reached(Now))
    <3>1. motor'[m].saved = motor[m].saved
      BY <2>4, <2>6
    <3>2. CASE motor[m].saved = <<Before(m).id, Before(m).fid>>
      BY <3>1, <3>2
    <3>3. CASE Stored(m) /\ \A k \in 1..Len(p) : k >= pc => ~Assigns(p[k])
      <4>1. ~Assigns(Now)
        BY <2>3, <3>3, <1>0
      <4>2. motor'[m].id = motor[m].id /\ motor'[m].fid = motor[m].fid
        BY <2>4, <4>1 DEF Assigns
      <4> QED
        BY <3>1, <3>3, <4>2, <1>0, <1>1 DEF Stored
    <3> QED
      BY <1>2, <3>2, <3>3
  <2> QED
    BY <2>5, <2>6
<1> QED
  BY <1>3, <1>4

LEMMA ChangeStarts ==
  ASSUME Init, Changing(setup)
  PROVE  IdInv /\ (CliChanges(setup) => CliInv) /\ SavedInv
<1>1. /\ setup \in Setups /\ pc = 1 /\ rescue = 0 /\ status = "running" /\ open = FALSE /\ bound = FALSE
      /\ hits = {} /\ mishaps = 0
      /\ motor = [m \in Motors |-> LET r == setup.motors[m]
                                   IN  [id |-> r.id, fid |-> r.fid, power |-> r.power, saved |-> <<r.id, r.fid>>]]
  BY DEF Init
<1>2. DOMAIN motor = Motors /\ \A m \in Motors : IsMotor(motor[m]) /\ motor[m].id = Before(m).id
  BY <1>1 DEF IsMotor, Before
<1>3. IdInv
  <2>1. setup \in Setups /\ pc \in Nat \ {0} /\ rescue \in Nat /\ ~(open \/ bound)
    BY <1>1
  <2>2. \A h \in hits : NewHit(h) => Moved
    BY <1>1
  <2> QED
    BY <1>2, <2>1, <2>2 DEF IdInv
<1>4. \A k \in 1..Len(Program(setup)) : ~(k < pc)
  BY <1>1
<1>5. CliInv
  BY <1>1, <1>4 DEF CliInv
<1>6. \A m \in Motors : motor[m].saved = <<Before(m).id, Before(m).fid>>
  BY <1>1 DEF Before
<1>7. SavedInv
  BY <1>1, <1>6 DEF SavedInv
<1> QED
  BY <1>3, <1>5, <1>7

ChangeInv ==
  Changing(setup) /\ NewIdIsFree =>
    IdInv /\ (CliChanges(setup) => CliInv) /\ (setup.vendor = "damiao" => SavedInv)

LEMMA ChangeKept == ChangeInv /\ [Next]_vars => ChangeInv'
<1> SUFFICES ASSUME ChangeInv, [Next]_vars, Changing(setup)', NewIdIsFree'
             PROVE  (IdInv /\ (CliChanges(setup) => CliInv) /\ (setup.vendor = "damiao" => SavedInv))'
  BY DEF ChangeInv
<1>1. setup' = setup
  BY SetupStays
<1>2. Changing(setup) /\ NewIdIsFree
  BY <1>1 DEF Changing, CliChanges, WsChanges, NewIdIsFree, Before
<1>3. IdInv /\ (CliChanges(setup) => CliInv) /\ (setup.vendor = "damiao" => SavedInv)
  BY <1>2 DEF ChangeInv
<1>4. IdInv'
  BY <1>2, <1>3, IdKept
<1>5. CliChanges(setup) => CliInv'
  BY <1>2, <1>3, CliKept
<1>6. setup.vendor = "damiao" => SavedInv'
  BY <1>2, <1>3, SavedKept
<1> QED
  BY <1>1, <1>4, <1>5, <1>6 DEF CliChanges

(* An id change that ends well with its check has given the motor it is    *)
(* for the new ids, whichever writes were lost, and what is saved is the   *)
(* ids from before or the new ones (of a command line that lost nothing,   *)
(* the new ones), for every set-up of motors with ids of their own.        *)
THEOREM ChangesAreVerified ==
  ASSUME OneMotorPerId
  PROVE  Spec => []VerifiedMeansMoved
<1>1. Init => ChangeInv
  BY ChangeStarts DEF ChangeInv
<1>3. Init => setup \in Setups
  BY DEF Init
<1>4. setup \in Setups /\ [Next]_vars => (setup \in Setups)'
  BY SetupStays
<1>5. setup \in Setups /\ ChangeInv => VerifiedMeansMoved
  <2> SUFFICES ASSUME setup \in Setups, ChangeInv, Ended, Changes, Verified, NewIdIsFree, NEW n \in Motors, For(n)
               PROVE  /\ motor[n].id = setup.new[1]
                      /\ setup.vendor = "damiao" =>
                           /\ motor[n].fid = setup.new[2]
                           /\ motor[n].saved \in {<<Before(n).id, Before(n).fid>>, setup.new}
                      /\ mishaps = 0 /\ setup.by = "cli" /\ "store" \in setup.flags => motor[n].saved = setup.new
    BY DEF VerifiedMeansMoved, NewIdIsFree
  <2>1. Changing(setup) /\ (setup.by = "cli" => CliChanges(setup))
    <3>1. CASE setup.by = "cli"
      BY <3>1, CliAccepts DEF Changing, CliChanges, Changes, Verified
    <3>2. CASE setup.by = "ws"
      BY <3>2, WsAccepts DEF Changing, WsChanges, Changes
    <3> QED
      BY <3>1, <3>2, SetupFields
  <2>2. IdInv /\ (CliChanges(setup) => CliInv) /\ (setup.vendor = "damiao" => SavedInv)
    BY <2>1 DEF ChangeInv
  <2>3. Moved
    <3>1. CASE setup.by = "cli"
      <4>1. CliShape(setup, Program(setup)) /\ CliInv
        BY <2>1, <2>2, <3>1, IdSetShape
      <4>2. PICK k \in 1..Len(Program(setup)) : Program(setup)[k].op = "check"
        BY <4>1 DEF CliShape
      <4>3. k < pc
        BY <2>2, <4>1 DEF Ended, Programs, CliShape, IdInv
      <4> QED
        BY <4>1, <4>2, <4>3 DEF CliInv
    <3>2. CASE setup.by # "cli"
      <4>1. PICK h \in hits : NewHit(h)
        BY <3>2 DEF Verified, NewHit
      <4> QED
        BY <4>1, <2>2 DEF IdInv
    <3> QED
      BY <3>1, <3>2
  <2>4. PICK m \in Motors : HasNewIds(m)
    BY <2>3 DEF Moved
  <2>5. For(m)
    BY <2>2, <2>4 DEF IdInv, HasNewIds, NewIdIsFree
  <2>6. m = n
    BY <2>5 DEF OneMotorPerId, For, Before
  <2>7. ASSUME mishaps = 0, setup.by = "cli", "store" \in setup.flags
        PROVE  motor[n].saved = setup.new
    <3>1. CliShape(setup, Program(setup)) /\ CliInv /\ CliChanges(setup)
      BY <2>1, <2>2, <2>7, IdSetShape
    <3>2. PICK k \in 1..Len(Program(setup)) : Program(setup)[k].what = "store"
      BY <2>7, <3>1 DEF CliShape
    <3>3. k < pc
      BY <2>2, <3>1 DEF Ended, Programs, CliShape, IdInv
    <3>4. Stored(n)
      BY <2>4, <2>6, <2>7, <3>1, <3>2, <3>3 DEF CliInv, HasNewIds
    <3>5. motor[n].saved = <<setup.new[1], setup.new[2]>>
      BY <2>4, <2>6, <3>1, <3>4 DEF Stored, HasNewIds, CliChanges
    <3>6. setup.new \in Nat \X Nat
      BY CommandAssumption DEF SetupType
    <3> QED
      BY <3>5, <3>6
  <2>8. setup.vendor = "damiao" => motor[n].saved \in {<<Before(n).id, Before(n).fid>>, setup.new}
    <3>1. ASSUME setup.vendor = "damiao", Stored(n) PROVE motor[n].saved = setup.new
      <4>1. motor[n].saved = <<setup.new[1], setup.new[2]>>
        BY <2>4, <2>6, <3>1 DEF Stored, HasNewIds
      <4>2. setup.new \in Nat \X Nat
        BY CommandAssumption DEF SetupType
      <4> QED
        BY <4>1, <4>2
    <3> QED
      BY <2>2, <3>1 DEF SavedInv
  <2> QED
    BY <2>4, <2>6, <2>7, <2>8 DEF HasNewIds
<1> QED
  BY <1>1, <1>3, <1>4, <1>5, ChangeKept, PTL DEF Spec

(* Sequences of sequences of a set that is closed under concatenation. *)
LEMMA FlattenCloses ==
  ASSUME NEW G, NEW seqs \in Seq(G), \A a, b \in G : a \o b \in G, <<>> \in G \/ seqs # <<>>
  PROVE  FlattenSeq(seqs) \in G
<1> DEFINE n == Len(seqs)
           f == CHOOSE g : g = [i \in 1..n |-> IF i = 1 THEN seqs[i] ELSE g[i - 1] \o seqs[i]]
<1>1. n \in Nat /\ \A i \in 1..n : seqs[i] \in G
  OBVIOUS
<1>2. f = [i \in 1..n |-> IF i = 1 THEN seqs[i] ELSE f[i - 1] \o seqs[i]]
  <2>1. \E g : g = [i \in 1..n |-> IF i = 1 THEN seqs[i] ELSE g[i - 1] \o seqs[i]]
    BY <1>1, FlattenExists DEF Flattens
  <2> QED
    BY <2>1, Zenon
<1>3. n # 0 => FlattenSeq(seqs) = f[n]
  BY DEF FlattenSeq
<1>4. n = 0 => seqs = <<>> /\ FlattenSeq(seqs) = <<>>
  BY EmptySeq DEF FlattenSeq
<1> HIDE DEF f
<1> DEFINE T == {i \in Nat : i \in 1..n /\ f[i] \notin G}
<1>5. ASSUME T # {} PROVE FALSE
  <2>1. PICK k \in T : \A j \in T : k <= j
    BY <1>5, LeastNumber
  <2>2. k # 1 => k - 1 \in 1..n /\ f[k - 1] \in G
    BY <2>1, <1>1
  <2>3. f[k] = IF k = 1 THEN seqs[k] ELSE f[k - 1] \o seqs[k]
    BY <2>1, <1>2
  <2>4. k \in 1..n /\ seqs[k] \in G /\ f[k] \notin G
    BY <2>1, <1>1
  <2> QED
    BY <2>2, <2>3, <2>4
<1> QED
  BY <1>1, <1>3, <1>4, <1>5

LEMMA TimesMember ==
  ASSUME NEW S, NEW n \in Nat, NEW a \in Seq(S)
  PROVE  Times(n, a) \in Seq(S)
<1>1. [k \in 1..n |-> a] \in Seq(Seq(S))
  OBVIOUS
<1> QED
  BY <1>1, FlattenInSeq DEF Times

(* Short programs. *)
LEMMA Tuples ==
  ASSUME NEW S
  PROVE  /\ <<>> \in Seq(S)
         /\ \A a \in S : <<a>> \in Seq(S)
         /\ \A a, b \in S : <<a, b>> \in Seq(S)
         /\ \A a, b, c \in S : <<a, b, c>> \in Seq(S)
         /\ \A a, b, c, d \in S : <<a, b, c, d>> \in Seq(S)
         /\ \A a, b, c, d, e \in S : <<a, b, c, d, e>> \in Seq(S)
OBVIOUS

-----------------------------------------------------------------------------
(* The ids a program is for, and whether it is to look only.               *)
Ids(s)     == {s.id} \cup (IF s.mode \in {"id-set", "set_id"} THEN {s.new[1]} ELSE {})
Looking(s) ==
  /\ s.mode \in Queries /\ s.vendor # "cyberbeast"
  /\ ~(s.vendor = "myactuator" /\ s.mode \in {"status", "version", "mode-query"})
Effects    == Switches \cup {"motor_id", "feedback_id"}

OwnStep(s) ==
  {st \in StepType :
     /\ st.op = "open" => st.what = s.vendor
     /\ st.op = "add" => st.id \in Ids(s)
     /\ st.op \in {"send", "call"} =>
          /\ st.what # "estop" /\ (st.what \in Effects => st.id \in Ids(s))
          /\ st.what = "motor_id" => st.arg \in Ids(s)
     /\ Looking(s) => st.op # "shutdown" /\ (st.op \in {"send", "call"} => st.what \notin Switches)}

LEMMA IdsAre == \A s \in Setups : s.id \in Ids(s) /\ Ids(s) \subseteq Nat
BY SetupFields DEF Ids

LEMMA OwnPlain ==
  ASSUME NEW s \in Setups
  PROVE  /\ Close \in OwnStep(s) /\ Catch \in OwnStep(s) /\ Refuse \in OwnStep(s)
         /\ ~Looking(s) => Shutdown \in OwnStep(s)
         /\ s.vendor \in Vendors => Open(s.vendor) \in OwnStep(s)
         /\ s.vendor \in Vendors => \A i \in Nat : TryOpen(i, s.vendor) \in OwnStep(s)
         /\ s.vendor \in Vendors => \A n \in Nat : SkipIfHits(s.vendor, n) \in OwnStep(s)
<1>1. Close \in OwnStep(s) /\ Catch \in OwnStep(s) /\ Refuse \in OwnStep(s)
  BY PlainSteps DEF OwnStep
<1>2. ~Looking(s) => Shutdown \in OwnStep(s)
  BY PlainSteps DEF OwnStep
<1>3. s.vendor \in Vendors => Open(s.vendor) \in OwnStep(s)
  BY OpenSteps DEF OwnStep
<1>4. s.vendor \in Vendors => \A i \in Nat : TryOpen(i, s.vendor) \in OwnStep(s)
  BY OpenSteps DEF OwnStep
<1>5. s.vendor \in Vendors => \A n \in Nat : SkipIfHits(s.vendor, n) \in OwnStep(s)
  BY TurnSteps DEF OwnStep
<1> QED
  BY <1>1, <1>2, <1>3, <1>4, <1>5

LEMMA OwnAsks ==
  ASSUME NEW s \in Setups, NEW i \in Nat, NEW f \in Nat, NEW w \in Whats
  PROVE  /\ Ask(i, f, w) \in OwnStep(s) /\ Peek(i, f, w) \in OwnStep(s) /\ Probe(i, f, w) \in OwnStep(s)
         /\ [Probe(i, f, w) EXCEPT !.must = TRUE] \in OwnStep(s)
         /\ Check(i, f) \in OwnStep(s) /\ ReadIds(i, f) \in OwnStep(s) /\ Loop(i, w) \in OwnStep(s)
         /\ i \in Ids(s) => Add(i, f) \in OwnStep(s) /\ TryAdd(i, f) \in OwnStep(s)
<1>1. Ask(i, f, w) \in OwnStep(s) /\ Peek(i, f, w) \in OwnStep(s)
  BY AskSteps DEF OwnStep
<1>2. Probe(i, f, w) \in OwnStep(s)
  BY ProbeSteps DEF OwnStep
<1>3. [Probe(i, f, w) EXCEPT !.must = TRUE] \in OwnStep(s)
  <2> DEFINE st == [Probe(i, f, w) EXCEPT !.must = TRUE]
  <2>1. st \in StepType /\ st.op = "probe"
    BY DEF Probe, Step, StepType, Ops
  <2> HIDE DEF st
  <2>2. st \in OwnStep(s)
    BY <2>1 DEF OwnStep
  <2> QED
    BY <2>2 DEF st
<1>4. Check(i, f) \in OwnStep(s) /\ ReadIds(i, f) \in OwnStep(s)
  BY CheckSteps DEF OwnStep
<1>5. Loop(i, w) \in OwnStep(s)
  BY LoopSteps DEF OwnStep
<1>6. i \in Ids(s) => Add(i, f) \in OwnStep(s) /\ TryAdd(i, f) \in OwnStep(s)
  BY AddSteps DEF OwnStep
<1> QED
  BY <1>1, <1>2, <1>3, <1>4, <1>5, <1>6

LEMMA OwnSends ==
  ASSUME NEW s \in Setups, NEW i \in Nat, NEW w \in Whats, w \notin {"estop", "motor_id"},
         w \in Effects => i \in Ids(s), Looking(s) => w \notin Switches
  PROVE  /\ Send(i, w) \in OwnStep(s) /\ Post(i, w) \in OwnStep(s)
         /\ Call(i, w) \in OwnStep(s) /\ Try(i, w) \in OwnStep(s)
<1>1. Send(i, w) \in OwnStep(s) /\ Post(i, w) \in OwnStep(s)
  BY SendSteps DEF OwnStep
<1>2. Call(i, w) \in OwnStep(s) /\ Try(i, w) \in OwnStep(s)
  BY CallSteps DEF OwnStep
<1> QED
  BY <1>1, <1>2

LEMMA OwnAssigns ==
  ASSUME NEW s \in Setups, s.mode \in {"id-set", "set_id"}
  PROVE  /\ Assign(s.id, "motor_id", s.new[1]) \in OwnStep(s)
         /\ Assign(s.id, "feedback_id", s.new[2]) \in OwnStep(s)
         /\ [Call(s.id, "motor_id") EXCEPT !.arg = s.new[1]] \in OwnStep(s)
<1>1. ~Looking(s) /\ s.id \in Ids(s) /\ s.new[1] \in Ids(s) /\ "motor_id" \in Whats /\ "feedback_id" \in Whats
  BY DEF Looking, Queries, Ids, Whats
<1>2. s.id \in Nat /\ s.new[1] \in Nat /\ s.new[2] \in Nat
  BY SetupFields
<1>3. Assign(s.id, "motor_id", s.new[1]) \in OwnStep(s)
  BY <1>1, <1>2, AssignSteps DEF OwnStep
<1>4. Assign(s.id, "feedback_id", s.new[2]) \in OwnStep(s)
  BY <1>1, <1>2, AssignSteps DEF OwnStep
<1>5. [Call(s.id, "motor_id") EXCEPT !.arg = s.new[1]] \in OwnStep(s)
  <2> DEFINE st == [Call(s.id, "motor_id") EXCEPT !.arg = s.new[1]]
  <2>1. st \in StepType /\ st.op = "call" /\ st.what = "motor_id" /\ st.arg = s.new[1] /\ st.id = s.id
    BY <1>1, <1>2 DEF Call, Step, StepType, Ops
  <2> HIDE DEF st
  <2>2. st \in OwnStep(s)
    BY <1>1, <2>1 DEF OwnStep
  <2> QED
    BY <2>2 DEF st
<1> QED
  BY <1>3, <1>4, <1>5

(* What each command line and request asks only.                           *)
LEMMA QueriesOf ==
  /\ \A w \in Modes["damiao"] \cap Queries : w \in {"scan", "read-param"}
  /\ \A w \in Modes["robstride"] \cap Queries : w \in {"scan", "ping", "read-param", "get-protocol", "get-mode"}
  /\ \A w \in Modes["robstride_cia402"] \cap Queries : w \in {"scan", "status", "get-protocol"}
  /\ \A w \in Modes["robstride_mit"] \cap Queries : w \in {"scan", "status", "read-param", "get-protocol"}
  /\ \A w \in Modes["hightorque"] \cap Queries : w \in {"scan", "read", "timed-read"}
  /\ \A w \in Modes["myactuator"] \cap Queries : w \in {"scan", "status", "version", "mode-query"}
  /\ \A w \in Modes["hexfellow"] \cap Queries : w \in {"scan", "status"}
<1>1. \A w \in Modes["damiao"] \cap Queries : w \in {"scan", "read-param"}
  BY DEF Modes, Queries
<1>2. \A w \in Modes["robstride"] \cap Queries : w \in {"scan", "ping", "read-param", "get-protocol", "get-mode"}
  BY DEF Modes, Queries
<1>3. \A w \in Modes["robstride_cia402"] \cap Queries : w \in {"scan", "status", "get-protocol"}
  BY DEF Modes, Queries
<1>4. \A w \in Modes["robstride_mit"] \cap Queries : w \in {"scan", "status", "read-param", "get-protocol"}
  BY DEF Modes, Queries
<1>5. \A w \in Modes["hightorque"] \cap Queries : w \in {"scan", "read", "timed-read"}
  BY DEF Modes, Queries
<1>6. \A w \in Modes["myactuator"] \cap Queries : w \in {"scan", "status", "version", "mode-query"}
  BY DEF Modes, Queries
<1>7. \A w \in Modes["hexfellow"] \cap Queries : w \in {"scan", "status"}
  BY DEF Modes, Queries
<1> QED
  BY <1>1, <1>2, <1>3, <1>4, <1>5, <1>6, <1>7

(* The steps of a command that are about its own motor. *)
LEMMA OwnMotor ==
  ASSUME NEW s \in Setups, s.vendor \in Vendors, NEW i \in Ids(s), NEW f \in Nat
  PROVE  /\ Open(s.vendor) \in OwnStep(s) /\ Close \in OwnStep(s) /\ Refuse \in OwnStep(s) /\ Catch \in OwnStep(s)
         /\ Add(i, f) \in OwnStep(s) /\ TryAdd(i, f) \in OwnStep(s)
         /\ \A w \in Whats : /\ Ask(i, f, w) \in OwnStep(s) /\ Peek(i, f, w) \in OwnStep(s)
                             /\ Probe(i, f, w) \in OwnStep(s)
                             /\ [Probe(i, f, w) EXCEPT !.must = TRUE] \in OwnStep(s)
         /\ \A w \in Whats \ {"estop", "motor_id"} : (Looking(s) => w \notin Switches) =>
              /\ Send(i, w) \in OwnStep(s) /\ Post(i, w) \in OwnStep(s)
              /\ Call(i, w) \in OwnStep(s) /\ Try(i, w) \in OwnStep(s)
<1>1. i \in Nat
  BY IdsAre
<1>2. /\ Open(s.vendor) \in OwnStep(s) /\ Close \in OwnStep(s) /\ Refuse \in OwnStep(s) /\ Catch \in OwnStep(s)
  BY OwnPlain
<1>3. Add(i, f) \in OwnStep(s) /\ TryAdd(i, f) \in OwnStep(s)
  <2>1. "" \in Whats
    BY DEF Whats
  <2> QED
    BY <1>1, <2>1, OwnAsks
<1>4. \A w \in Whats : /\ Ask(i, f, w) \in OwnStep(s) /\ Peek(i, f, w) \in OwnStep(s)
                       /\ Probe(i, f, w) \in OwnStep(s)
                       /\ [Probe(i, f, w) EXCEPT !.must = TRUE] \in OwnStep(s)
  BY <1>1, OwnAsks
<1>5. \A w \in Whats \ {"estop", "motor_id"} : (Looking(s) => w \notin Switches) =>
        /\ Send(i, w) \in OwnStep(s) /\ Post(i, w) \in OwnStep(s)
        /\ Call(i, w) \in OwnStep(s) /\ Try(i, w) \in OwnStep(s)
  BY <1>1, OwnSends
<1> QED
  BY <1>2, <1>3, <1>4, <1>5

LEMMA WhatsHave ==
  /\ {"regs", "feedback", "ping", "param", "status", "run_mode", "map", "endpoint", "obstacle", "warm_up",
      "sdo", "fault", "version"} \subseteq Whats
  /\ {"start", "stop", "reset", "store", "control", "clear", "zero", "query", "setting"}
       \subseteq Whats \ {"estop", "motor_id"}
  /\ {"param", "control", "clear", "zero", "query", "setting"} \cap Switches = {}
  /\ "listen" \in Whats /\ "query" \in Whats /\ "control" \in Whats
BY DEF Whats, Switches, Vendors

LEMMA DamiaoOwn ==
  ASSUME NEW s \in Setups, s.vendor = "damiao", s.mode \in Modes["damiao"], s.mode # "scan"
  PROVE  Damiao(s) \in Seq(OwnStep(s))
<1> DEFINE S == OwnStep(s)
<1>1. /\ s.id \in Nat /\ s.fid \in Nat /\ s.new[1] \in Nat /\ s.new[2] \in Nat /\ s.loops \in Nat
      /\ s.vendor \in Vendors /\ s.id \in Ids(s)
  BY SetupFields, IdsAre DEF Vendors
<1>2. Looking(s) => s.mode = "read-param"
  BY QueriesOf DEF Looking
<1>3. Open("damiao") \in S /\ Close \in S /\ Add(s.id, s.fid) \in S
  BY <1>1, OwnMotor
<1>4. Ask(s.id, s.fid, "regs") \in S /\ Peek(s.id, s.fid, "regs") \in S /\ Peek(s.id, s.fid, "feedback") \in S
  BY <1>1, OwnMotor, WhatsHave
<1>5. Send(s.id, "param") \in S
  BY <1>1, OwnMotor, WhatsHave
<1>6. ~Looking(s) => /\ Send(s.id, "store") \in S /\ Send(s.id, "start") \in S /\ Send(s.id, "stop") \in S
                     /\ Send(s.id, "control") \in S /\ Shutdown \in S
  BY <1>1, OwnMotor, OwnPlain, WhatsHave
<1>7. s.mode = "id-set" => /\ Assign(s.id, "feedback_id", s.new[2]) \in S /\ Assign(s.id, "motor_id", s.new[1]) \in S
                           /\ Add(s.new[1], s.new[2]) \in S /\ Check(s.new[1], s.new[2]) \in S
                           /\ Send(s.new[1], "store") \in S
  <2>1. s.mode = "id-set" => s.new[1] \in Ids(s) /\ ~Looking(s)
    BY <1>2 DEF Ids
  <2>2. Check(s.new[1], s.new[2]) \in S
    BY <1>1, OwnAsks, WhatsHave
  <2> QED
    BY <1>1, <2>1, <2>2, OwnAssigns, OwnMotor, WhatsHave
<1> HIDE DEF S
<1>8. CASE s.mode = "id-set"
  <2> DEFINE head == <<Open("damiao"), Add(s.id, s.fid)>>
             f    == When(s.new[2] # s.fid, <<Assign(s.id, "feedback_id", s.new[2])>>)
             m    == When(s.new[1] # s.id, <<Assign(s.id, "motor_id", s.new[1])>>)
             c    == <<Close>>
             next == <<Open("damiao"), Add(s.new[1], s.new[2])>>
             st   == When("store" \in s.flags, <<Send(s.new[1], "store")>>)
             ch   == When("verify" \in s.flags, <<Check(s.new[1], s.new[2])>>)
  <2>1. head \in Seq(S) /\ c \in Seq(S) /\ next \in Seq(S)
    BY <1>3, <1>7, <1>8, Tuples
  <2>2. f \in Seq(S) /\ m \in Seq(S) /\ st \in Seq(S) /\ ch \in Seq(S)
    BY <1>7, <1>8, Tuples, WhenMember
  <2>3. DamiaoIdSet(s) = head \o f \o m \o c \o When(s.flags \cap {"store", "verify"} # {}, next \o st \o ch \o c)
    BY DEF DamiaoIdSet
  <2> HIDE DEF head, f, m, c, next, st, ch
  <2>4. When(s.flags \cap {"store", "verify"} # {}, next \o st \o ch \o c) \in Seq(S)
    BY <2>1, <2>2, ConcatMember, WhenMember
  <2>5. DamiaoIdSet(s) \in Seq(S)
    BY <2>1, <2>2, <2>3, <2>4, ConcatMember
  <2> QED
    BY <2>5, <1>8 DEF Damiao, S
<1>9. CASE s.mode \in {"read-param", "write-param"}
  <2> DEFINE head == <<Open("damiao"), Add(s.id, s.fid)>>
             ask  == <<Ask(s.id, s.fid, "regs")>>
             set  == <<Send(s.id, "param")>>
             st   == <<Send(s.id, "store")>>
             c    == <<Close>>
  <2>1. head \in Seq(S) /\ c \in Seq(S) /\ ask \in Seq(S) /\ set \in Seq(S)
    BY <1>3, <1>4, <1>5, Tuples
  <2>2. s.mode # "read-param" => st \in Seq(S)
    BY <1>2, <1>6, Tuples
  <2>3. DamiaoParam(s) = head \o (IF s.mode = "read-param" THEN ask
          ELSE set \o When("verify" \in s.flags, ask) \o When("store" \in s.flags, st)) \o c
    BY DEF DamiaoParam
  <2> HIDE DEF head, ask, set, st, c
  <2>4. s.mode # "read-param" => set \o When("verify" \in s.flags, ask) \o When("store" \in s.flags, st) \in Seq(S)
    BY <2>1, <2>2, ConcatMember, WhenMember
  <2>5. DamiaoParam(s) \in Seq(S)
    BY <2>1, <2>3, <2>4, ConcatMember
  <2> QED
    BY <2>5, <1>9 DEF Damiao, S
<1>10. CASE s.mode \notin {"id-set", "read-param", "write-param"}
  <2> DEFINE head == <<Open("damiao"), Add(s.id, s.fid)>>
             on   == <<Send(s.id, "start"), Peek(s.id, s.fid, "feedback")>>
             off  == <<Send(s.id, "stop"), Peek(s.id, s.fid, "feedback")>>
             go   == <<Send(s.id, "start"), Peek(s.id, s.fid, "regs")>>
             ctl  == <<Send(s.id, "control")>>
             c    == <<Close>>
             end  == <<Shutdown>>
             part == CASE s.mode = "enable"  -> Times(s.loops, on) \o c
                       [] s.mode = "disable" -> Times(s.loops, off) \o c
                       [] OTHER -> go \o Times(s.loops, ctl) \o end
  <2>1. ~Looking(s)
    BY <1>2, <1>10
  <2>2. head \in Seq(S) /\ on \in Seq(S) /\ off \in Seq(S) /\ go \in Seq(S) /\ ctl \in Seq(S) /\ c \in Seq(S) /\ end \in Seq(S)
    BY <1>3, <1>4, <1>6, <2>1, Tuples
  <2>3. VerifyModel(s) \in Seq(S)
    BY <1>4, Tuples, WhenMember DEF VerifyModel
  <2>4. DamiaoSession(s) = head \o VerifyModel(s) \o part
    BY DEF DamiaoSession
  <2>5. part \in Seq(S)
    <3> HIDE DEF on, off, go, ctl, c, end
    <3>1. Times(s.loops, on) \in Seq(S) /\ Times(s.loops, off) \in Seq(S) /\ Times(s.loops, ctl) \in Seq(S)
      BY <1>1, <2>2, TimesMember
    <3>2. /\ Times(s.loops, on) \o c \in Seq(S) /\ Times(s.loops, off) \o c \in Seq(S)
          /\ go \o Times(s.loops, ctl) \o end \in Seq(S)
      BY <2>2, <3>1, ConcatMember
    <3> QED
      BY <3>2
  <2> HIDE DEF head, part
  <2>6. DamiaoSession(s) \in Seq(S)
    BY <2>2, <2>3, <2>4, <2>5, ConcatMember
  <2>7. Damiao(s) = DamiaoSession(s)
    BY <1>10 DEF Damiao
  <2> QED
    BY <2>6, <2>7 DEF S
<1> QED
  BY <1>8, <1>9, <1>10

LEMMA RobstrideOwn ==
  ASSUME NEW s \in Setups, s.vendor = "robstride", s.mode \in Modes["robstride"], s.mode # "scan"
  PROVE  Robstride(s) \in Seq(OwnStep(s))
<1> DEFINE S == OwnStep(s)
<1>1. /\ s.id \in Nat /\ s.fid \in Nat /\ s.new[1] \in Nat /\ s.loops \in Nat
      /\ s.vendor \in Vendors /\ s.id \in Ids(s)
  BY SetupFields, IdsAre DEF Vendors
<1>2. Looking(s) => s.mode \in {"ping", "read-param", "get-protocol", "get-mode"}
  BY QueriesOf DEF Looking
<1>3. Open("robstride") \in S /\ Close \in S /\ Add(s.id, s.fid) \in S /\ Refuse \in S /\ SkipIfHits("robstride", 1) \in S
  BY <1>1, OwnMotor, OwnPlain
<1>4. /\ Ask(s.id, 0, "ping") \in S /\ Ask(s.id, 0, "param") \in S /\ Ask(s.id, 0, "run_mode") \in S
      /\ Peek(s.id, 0, "ping") \in S /\ Peek(s.id, 0, "param") \in S
      /\ Probe(s.id, 0, "ping") \in S /\ Probe(s.id, 0, "param") \in S
  BY <1>1, OwnMotor, WhatsHave
<1>5. /\ Call(s.id, "param") \in S /\ Send(s.id, "param") \in S
      /\ Send(s.id, "control") \in S /\ Send(s.id, "zero") \in S
  BY <1>1, OwnMotor, WhatsHave
<1>6. ~Looking(s) => /\ Call(s.id, "store") \in S /\ Call(s.id, "start") \in S /\ Try(s.id, "stop") \in S
                     /\ Send(s.id, "start") \in S /\ Send(s.id, "stop") \in S /\ Shutdown \in S
  BY <1>1, OwnMotor, OwnPlain, WhatsHave
<1>7. s.mode = "id-set" => /\ Assign(s.id, "motor_id", s.new[1]) \in S
                           /\ Add(s.new[1], s.fid) \in S /\ Peek(s.new[1], 0, "ping") \in S
  <2>1. s.mode = "id-set" => s.new[1] \in Ids(s)
    BY DEF Ids
  <2> QED
    BY <1>1, <2>1, OwnAssigns, OwnMotor, WhatsHave
<1> HIDE DEF S
<1> DEFINE head == <<Open("robstride"), Add(s.id, s.fid)>>
           c    == <<Close>>
<1>8. head \in Seq(S) /\ c \in Seq(S)
  BY <1>3, Tuples
<1>9. CASE s.mode = "id-set"
  <2> DEFINE a  == <<Open("robstride"), Add(s.id, s.fid), Ask(s.id, 0, "ping"), Assign(s.id, "motor_id", s.new[1])>>
             st == <<Call(s.id, "store")>>
             b  == <<Peek(s.id, 0, "ping"), Close, Open("robstride"), Add(s.new[1], s.fid),
                     Peek(s.new[1], 0, "ping"), Close>>
  <2>1. ~Looking(s)
    BY <1>2, <1>9
  <2>2. a \in Seq(S) /\ st \in Seq(S)
    BY <1>3, <1>4, <1>6, <1>7, <1>9, <2>1, Tuples
  <2>3. b \in Seq(S)
    BY <1>3, <1>4, <1>7, <1>9
  <2>4. RobstrideIdSet(s) = a \o When("store" \in s.flags, st) \o b
    BY DEF RobstrideIdSet
  <2> HIDE DEF a, b, st
  <2>5. RobstrideIdSet(s) \in Seq(S)
    BY <2>2, <2>3, <2>4, ConcatMember, WhenMember
  <2> QED
    BY <2>5, <1>9 DEF Robstride, OneShots, S
<1>10. CASE s.mode \in OneShots
  <2> DEFINE ping == <<Probe(s.id, 0, "ping"), Probe(s.id, 0, "param"), SkipIfHits("robstride", 1), Refuse>>
             read == <<Ask(s.id, 0, "param")>>
             call == <<Call(s.id, "param")>>
             set  == <<Send(s.id, "param"), Ask(s.id, 0, "param")>>
             st   == <<Call(s.id, "store")>>
             send == <<Send(s.id, "param")>>
  <2>1. ping \in Seq(S) /\ read \in Seq(S) /\ call \in Seq(S) /\ set \in Seq(S) /\ send \in Seq(S) /\ <<>> \in Seq(S)
    BY <1>3, <1>4, <1>5, Tuples
  <2>2. ~Looking(s) => st \in Seq(S)
    BY <1>6, Tuples
  <2>3. RobstrideOneShot(s) =
          CASE s.mode = "ping"          -> ping
            [] s.mode \in {"read-param", "get-protocol", "get-mode"} -> read
            [] s.mode = "set-protocol"  -> call
            [] s.mode = "write-param"   -> set \o When("store" \in s.flags, st)
            [] s.mode = "save"          -> st
            [] s.mode = "active-report" -> send
            [] OTHER                    -> <<>>
    BY DEF RobstrideOneShot
  <2> HIDE DEF ping, read, call, set, st, send
  <2>4. ~Looking(s) => set \o When("store" \in s.flags, st) \in Seq(S)
    BY <2>1, <2>2, ConcatMember, WhenMember
  <2>5. RobstrideOneShot(s) \in Seq(S)
    BY <2>1, <2>2, <2>3, <2>4, <1>2
  <2>6. Robstride(s) = head \o RobstrideOneShot(s) \o c
    BY <1>10 DEF Robstride, OneShots
  <2> HIDE DEF head, c
  <2> QED
    BY <2>5, <2>6, <1>8, ConcatMember DEF S
<1>11. CASE s.mode \notin OneShots \cup {"id-set"}
  <2> DEFINE mode == <<Try(s.id, "stop"), Ask(s.id, 0, "run_mode")>>
             on   == <<Call(s.id, "start")>>
  <2>1. ~Looking(s)
    BY <1>2, <1>11 DEF OneShots
  <2>2. mode \in Seq(S) /\ on \in Seq(S)
    BY <1>4, <1>6, <2>1, Tuples
  <2>3. EnsureRunMode(s) \in Seq(S) /\ EnableFirst(s) \in Seq(S)
    <3>1. EnsureRunMode(s) = When("ensure_mode" \in s.flags /\ s.mode \in {"mit", "pos-vel", "vel"}, mode)
      BY DEF EnsureRunMode
    <3>2. EnableFirst(s) = When(s.mode \notin {"disable", "stop", "set-zero", "clear-error", "pos-vel-pp", "pos-vel-csp"}, on)
      BY DEF EnableFirst
    <3> HIDE DEF mode, on
    <3> QED
      BY <2>2, <3>1, <3>2, WhenMember
  <2>4. RobstrideSetZero(s) \in Seq(S)
    <3> DEFINE a  == <<Peek(s.id, 0, "param"), Try(s.id, "stop"), Send(s.id, "zero")>>
               st == <<Call(s.id, "store")>>
               b  == <<Ask(s.id, 0, "param")>>
    <3>1. a \in Seq(S) /\ st \in Seq(S) /\ b \in Seq(S)
      BY <1>4, <1>5, <1>6, <2>1, Tuples
    <3>2. RobstrideSetZero(s) = When("zero_exp" \in s.flags, a \o When("store" \in s.flags, st) \o b)
      BY DEF RobstrideSetZero
    <3> HIDE DEF a, st, b
    <3> QED
      BY <3>1, <3>2, ConcatMember, WhenMember
  <2>5. RobstrideRound(s) \in Seq(S)
    <3>1. /\ <<Send(s.id, "start")>> \in Seq(S) /\ <<Send(s.id, "stop")>> \in Seq(S)
          /\ <<Ask(s.id, 0, "param"), Send(s.id, "control")>> \in Seq(S)
          /\ <<Send(s.id, "param"), Call(s.id, "start"), Send(s.id, "control")>> \in Seq(S)
          /\ <<Send(s.id, "control")>> \in Seq(S)
      BY <1>4, <1>5, <1>6, <2>1, Tuples
    <3> QED
      BY <3>1, <2>4 DEF RobstrideRound
  <2>6. RobstrideEnd(s) \in Seq(S)
    BY <1>3, <1>6, <2>1, Tuples DEF RobstrideEnd
  <2>7. Times(s.loops, RobstrideRound(s)) \in Seq(S)
    BY <1>1, <2>5, TimesMember
  <2>8. Robstride(s) = head \o EnsureRunMode(s) \o EnableFirst(s) \o Times(s.loops, RobstrideRound(s)) \o RobstrideEnd(s)
    BY <1>11 DEF Robstride
  <2> HIDE DEF head
  <2> QED
    BY <1>8, <2>3, <2>6, <2>7, <2>8, ConcatMember DEF S
<1> QED
  BY <1>9, <1>10, <1>11

(* The CyberBeast commands end in a shutdown, and set their own motor only. *)
LEMMA CyberBeastOwn ==
  ASSUME NEW s \in Setups, s.vendor = "cyberbeast", s.mode \in Modes["cyberbeast"], s.mode \notin {"scan", "estop"}
  PROVE  CyberBeast(s) \in Seq(OwnStep(s))
<1> DEFINE S == OwnStep(s)
           i == s.id
<1>1. i \in Nat /\ s.vendor \in Vendors /\ i \in Ids(s) /\ ~Looking(s)
  BY SetupFields, IdsAre DEF Vendors, Looking
<1> HIDE DEF i
<1>2. Open("cyberbeast") \in S /\ Close \in S /\ Add(i, i) \in S /\ Refuse \in S /\ Catch \in S /\ Shutdown \in S
  BY <1>1, OwnMotor, OwnPlain
<1>3. /\ Ask(i, i, "map") \in S /\ Ask(i, i, "endpoint") \in S /\ Ask(i, i, "obstacle") \in S
      /\ Peek(i, i, "warm_up") \in S /\ Peek(i, i, "endpoint") \in S /\ Peek(i, i, "status") \in S
  BY <1>1, OwnMotor, WhatsHave
<1>4. /\ Send(i, "start") \in S /\ Send(i, "stop") \in S /\ Send(i, "clear") \in S /\ Send(i, "zero") \in S
      /\ Send(i, "reset") \in S /\ Post(i, "start") \in S /\ Post(i, "stop") \in S /\ Call(i, "setting") \in S
  BY <1>1, OwnMotor, WhatsHave
<1>5. Loop(i, "listen") \in S /\ Loop(i, "query") \in S /\ Loop(i, "control") \in S
  BY <1>1, OwnAsks, WhatsHave
<1> HIDE DEF S
<1>6. <<Open("cyberbeast")>> \in Seq(S)
  BY <1>2, Tuples
<1>7. CyberConnect(s) \in Seq(S)
  <2> DEFINE a == <<Add(i, i), Ask(i, i, "map")>>
             b == <<Add(i, i)>>
             w == <<Peek(i, i, "warm_up")>>
  <2>1. a \in Seq(S) /\ b \in Seq(S) /\ w \in Seq(S)
    BY <1>2, <1>3, Tuples
  <2>2. CyberConnect(s) = IF "map" \in s.flags THEN a ELSE b \o When(s.mode # "estop", w)
    BY DEF CyberConnect, i
  <2> HIDE DEF a, b, w
  <2>3. b \o When(s.mode # "estop", w) \in Seq(S)
    BY <2>1, ConcatMember, WhenMember
  <2> QED
    BY <2>1, <2>2, <2>3
<1>8. CyberControl(s) \in Seq(S)
  <2> DEFINE peeks == <<Peek(i, i, "endpoint"), Peek(i, i, "endpoint")>>
             fault == <<Ask(i, i, "obstacle")>>
             run1  == <<Catch, Post(i, "start"), Loop(i, "control"), Post(i, "stop"), Shutdown>>
  <2>1. peeks \in Seq(S) /\ fault \in Seq(S) /\ run1 \in Seq(S)
    BY <1>2, <1>3, <1>4, <1>5, Tuples
  <2>2. /\ MitScaling(s) = When(s.mode # "status", peeks)
        /\ MotionPreconditions(s) = When("map" \in s.flags, IF "faulted" \in s.flags THEN fault ELSE peeks)
        /\ CyberControl(s) = MitScaling(s) \o MotionPreconditions(s) \o run1
    BY DEF MitScaling, MotionPreconditions, CyberControl, i
  <2> HIDE DEF peeks, fault, run1
  <2>3. MitScaling(s) \in Seq(S) /\ MotionPreconditions(s) \in Seq(S)
    BY <2>1, <2>2, ConcatMember, WhenMember
  <2> QED
    BY <2>1, <2>2, <2>3, ConcatMember
<1>9. CyberStatus(s) \in Seq(S)
  BY <1>2, <1>3, Tuples DEF CyberStatus, i
<1>10. CyberWriteParam(s) \in Seq(S)
  BY <1>2, <1>3, <1>4, Tuples DEF CyberWriteParam, i
<1>11. CyberReset(s) \in Seq(S) /\ CyberReadParam(s) \in Seq(S) /\ CyberMap(s) \in Seq(S)
  <2>1. CyberReset(s) \in Seq(S) /\ CyberReadParam(s) \in Seq(S)
    BY <1>2, <1>3, <1>4, Tuples DEF CyberReset, CyberReadParam, i
  <2>2. <<Ask(i, i, "map")>> \in Seq(S) /\ <<Shutdown>> \in Seq(S)
    BY <1>2, <1>3, Tuples
  <2>3. CyberMap(s) \in Seq(S)
    BY <2>2, WhenMember, ConcatMember DEF CyberMap, i
  <2> QED
    BY <2>1, <2>3
<1>12. CyberMonitor(s) \in Seq(S) /\ CyberKeepAlive(s) \in Seq(S)
  BY <1>2, <1>5, Tuples DEF CyberMonitor, CyberKeepAlive, i
<1>13. s.mode \in {"enable", "disable", "clear-error", "set-zero"} => CyberOneFrame(s) \in Seq(S)
  BY <1>2, <1>4, Tuples DEF CyberOneFrame, i
<1>14. \/ s.mode \in {"reset", "monitor", "control", "status", "read-param", "write-param", "find-endpoint", "endpoint-map",
                   "keep-alive"}
       \/ s.mode \in {"enable", "disable", "clear-error", "set-zero"}
  <2>1. \A w \in Modes["cyberbeast"] :
          \/ w \in {"reset", "monitor", "control", "status", "read-param", "write-param", "find-endpoint", "endpoint-map",
                   "keep-alive"}
          \/ w \in {"enable", "disable", "clear-error", "set-zero", "scan", "estop"}
    BY DEF Modes
  <2> QED
    BY <2>1
<1> DEFINE part ==
      CASE s.mode = "reset"        -> CyberReset(s)
        [] s.mode = "monitor"      -> CyberMonitor(s)
        [] s.mode = "control"      -> CyberConnect(s) \o CyberControl(s)
        [] s.mode = "status"       -> CyberConnect(s) \o CyberStatus(s)
        [] s.mode = "read-param"   -> CyberConnect(s) \o CyberReadParam(s)
        [] s.mode = "write-param"  -> CyberConnect(s) \o CyberWriteParam(s)
        [] s.mode \in {"find-endpoint", "endpoint-map"} -> CyberConnect(s) \o CyberMap(s)
        [] s.mode = "keep-alive"   -> CyberConnect(s) \o CyberKeepAlive(s)
        [] OTHER                   -> CyberConnect(s) \o CyberOneFrame(s)
<1>15. part \in Seq(S)
  <2>1. /\ CyberConnect(s) \o CyberControl(s) \in Seq(S) /\ CyberConnect(s) \o CyberStatus(s) \in Seq(S)
        /\ CyberConnect(s) \o CyberReadParam(s) \in Seq(S) /\ CyberConnect(s) \o CyberWriteParam(s) \in Seq(S)
        /\ CyberConnect(s) \o CyberMap(s) \in Seq(S) /\ CyberConnect(s) \o CyberKeepAlive(s) \in Seq(S)
    BY <1>7, <1>8, <1>9, <1>10, <1>11, <1>12, ConcatMember
  <2>2. s.mode \in {"enable", "disable", "clear-error", "set-zero"} => CyberConnect(s) \o CyberOneFrame(s) \in Seq(S)
    BY <1>7, <1>13, ConcatMember
  <2> QED
    BY <1>11, <1>12, <1>14, <2>1, <2>2
<1>16. CyberBeast(s) = <<Open("cyberbeast")>> \o part
  BY DEF CyberBeast
<1> HIDE DEF part
<1> QED
  BY <1>6, <1>15, <1>16, ConcatMember DEF S

LEMMA Cia402Own ==
  ASSUME NEW s \in Setups, s.vendor = "robstride_cia402", s.mode \in Modes["robstride_cia402"], s.mode # "scan"
  PROVE  Cia402(s) \in Seq(OwnStep(s))
<1> DEFINE S == OwnStep(s)
           i == s.id
<1>1. i \in Nat /\ s.fid \in Nat /\ s.loops \in Nat /\ s.vendor \in Vendors /\ i \in Ids(s)
  BY SetupFields, IdsAre DEF Vendors
<1>2. Looking(s) => s.mode \in {"status", "get-protocol"}
  BY QueriesOf DEF Looking
<1> HIDE DEF i
<1>3. Open("robstride_cia402") \in S /\ Close \in S /\ Add(i, s.fid) \in S
  BY <1>1, OwnMotor
<1>4. Ask(i, 0, "sdo") \in S
  BY <1>1, OwnMotor, WhatsHave
<1>5. /\ Call(i, "clear") \in S /\ Call(i, "param") \in S /\ Call(i, "control") \in S
  BY <1>1, OwnMotor, WhatsHave
<1>6. Send(0, "query") \in S
  BY OwnSends, WhatsHave DEF Effects
<1>7. ~Looking(s) => Call(i, "start") \in S /\ Call(i, "stop") \in S /\ Try(i, "stop") \in S /\ Shutdown \in S
  BY <1>1, OwnMotor, OwnPlain, WhatsHave
<1> HIDE DEF S
<1>8. <<Open("robstride_cia402"), Send(0, "query"), Close>> \in Seq(S) /\ <<Open("robstride_cia402"), Add(i, s.fid)>> \in Seq(S)
  BY <1>3, <1>6, Tuples
<1>9. Cia402Mode(s) \in Seq(S)
  <2> DEFINE round == <<Try(i, "stop"), Call(i, "param"), Call(i, "start"), Call(i, "control")>>
             end   == <<Shutdown>>
  <2>1. <<Ask(i, 0, "sdo"), Close>> \in Seq(S) /\ <<Call(i, "clear"), Close>> \in Seq(S) /\ <<Call(i, "param"), Close>> \in Seq(S)
    BY <1>3, <1>4, <1>5, Tuples
  <2>2. ~Looking(s) => /\ <<Call(i, "start"), Close>> \in Seq(S) /\ <<Call(i, "stop"), Close>> \in Seq(S)
                       /\ <<Try(i, "stop"), Call(i, "param"), Call(i, "start"), Close>> \in Seq(S)
                       /\ round \in Seq(S) /\ end \in Seq(S)
    BY <1>3, <1>5, <1>7, Tuples
  <2>3. Cia402Mode(s) =
          CASE s.mode = "status"      -> <<Ask(i, 0, "sdo"), Close>>
            [] s.mode = "enable"      -> <<Call(i, "start"), Close>>
            [] s.mode = "disable"     -> <<Call(i, "stop"), Close>>
            [] s.mode = "quick-stop"  -> <<Call(i, "stop"), Close>>
            [] s.mode = "clear-error" -> <<Call(i, "clear"), Close>>
            [] s.mode = "set-zero"    -> <<Try(i, "stop"), Call(i, "param"), Call(i, "start"), Close>>
            [] s.mode = "watchdog"    -> <<Call(i, "param"), Close>>
            [] s.mode = "get-protocol" -> <<Ask(i, 0, "sdo"), Close>>
            [] OTHER -> Times(s.loops, round) \o end
    BY DEF Cia402Mode, i
  <2> HIDE DEF round, end
  <2>4. ~Looking(s) => Times(s.loops, round) \o end \in Seq(S)
    BY <1>1, <2>2, TimesMember, ConcatMember
  <2> QED
    BY <1>2, <2>1, <2>2, <2>3, <2>4
<1>10. s.mode # "set-protocol" => Cia402(s) = <<Open("robstride_cia402"), Add(i, s.fid)>> \o Cia402Mode(s)
  BY DEF Cia402, i
<1>11. s.mode = "set-protocol" => Cia402(s) = <<Open("robstride_cia402"), Send(0, "query"), Close>>
  BY DEF Cia402
<1>12. <<Open("robstride_cia402"), Add(i, s.fid)>> \o Cia402Mode(s) \in Seq(S)
  BY <1>8, <1>9, ConcatMember
<1> QED
  BY <1>8, <1>10, <1>11, <1>12 DEF S

LEMMA MitOwn ==
  ASSUME NEW s \in Setups, s.vendor = "robstride_mit", s.mode \in Modes["robstride_mit"], s.mode # "scan"
  PROVE  Mit(s) \in Seq(OwnStep(s))
<1> DEFINE S == OwnStep(s)
           i == s.id
           change == [Call(i, "motor_id") EXCEPT !.arg = s.new[1]]
<1>1. i \in Nat /\ s.fid \in Nat /\ s.loops \in Nat /\ s.vendor \in Vendors /\ i \in Ids(s)
  BY SetupFields, IdsAre DEF Vendors
<1>2. Looking(s) => s.mode \in {"status", "read-param", "get-protocol"}
  BY QueriesOf DEF Looking
<1>3. s.mode = "id-set" => change \in S
  BY OwnAssigns
<1> HIDE DEF i
<1>4. Open("robstride_mit") \in S /\ Close \in S /\ Add(i, s.fid) \in S
  BY <1>1, OwnMotor
<1>5. Ask(i, 0, "fault") \in S
  BY <1>1, OwnMotor, WhatsHave
<1>6. Call(i, "param") \in S /\ Call(i, "control") \in S
  BY <1>1, OwnMotor, WhatsHave
<1>7. ~Looking(s) => Call(i, "start") \in S /\ Call(i, "stop") \in S /\ Shutdown \in S
  BY <1>1, OwnMotor, OwnPlain, WhatsHave
<1> HIDE DEF S, change
<1> DEFINE ctl == <<Call(i, "control")>>
           end == <<Shutdown>>
<1>8. <<Ask(i, 0, "fault"), Close>> \in Seq(S) /\ <<Call(i, "param"), Close>> \in Seq(S) /\ ctl \in Seq(S)
  BY <1>4, <1>5, <1>6, Tuples
<1>9. ~Looking(s) => <<Call(i, "start"), Close>> \in Seq(S) /\ <<Call(i, "stop"), Close>> \in Seq(S) /\ end \in Seq(S)
  BY <1>4, <1>7, Tuples
<1>10. s.mode = "id-set" => <<change, Close>> \in Seq(S)
  BY <1>3, <1>4, Tuples
<1>11. MitMode(s) =
         CASE s.mode = "status"      -> <<Ask(i, 0, "fault"), Close>>
           [] s.mode = "enable"      -> <<Call(i, "start"), Close>>
           [] s.mode = "disable"     -> <<Call(i, "stop"), Close>>
           [] s.mode = "id-set"      -> <<change, Close>>
           [] s.mode \in {"set-zero", "clear-error", "set-mode", "set-host-id", "set-protocol", "save",
                          "active-report", "read-param", "write-param", "get-protocol"} -> <<Call(i, "param"), Close>>
           [] OTHER                  -> Times(s.loops, ctl) \o end
  BY DEF MitMode, i, change
<1> HIDE DEF ctl, end
<1>12. ~Looking(s) => Times(s.loops, ctl) \o end \in Seq(S)
  BY <1>1, <1>8, <1>9, TimesMember, ConcatMember
<1>13. MitMode(s) \in Seq(S)
  BY <1>2, <1>8, <1>9, <1>10, <1>11, <1>12
<1>14. <<Open("robstride_mit"), Add(i, s.fid)>> \in Seq(S)
  BY <1>4, Tuples
<1>15. Mit(s) = <<Open("robstride_mit"), Add(i, s.fid)>> \o MitMode(s)
  BY DEF Mit, i
<1> QED
  BY <1>13, <1>14, <1>15, ConcatMember DEF S

LEMMA HighTorqueOwn ==
  ASSUME NEW s \in Setups, s.vendor = "hightorque", s.mode \in Modes["hightorque"], s.mode # "scan"
  PROVE  HighTorque(s) \in Seq(OwnStep(s))
<1> DEFINE S == OwnStep(s)
           i == s.id
<1>1. i \in Nat /\ s.loops \in Nat /\ s.vendor \in Vendors /\ i \in Ids(s)
  BY SetupFields, IdsAre DEF Vendors
<1>2. Looking(s) => s.mode \in {"read", "timed-read"}
  BY QueriesOf DEF Looking
<1> HIDE DEF i
<1>3. Open("hightorque") \in S /\ Close \in S
  BY <1>1, OwnMotor
<1>4. Ask(i, 0, "status") \in S
  BY <1>1, OwnMotor, WhatsHave
<1>5. Send(i, "query") \in S /\ Send(i, "param") \in S
  BY <1>1, OwnMotor, WhatsHave
<1>6. ~Looking(s) => Send(i, "stop") \in S /\ Send(i, "start") \in S /\ Send(i, "zero") \in S /\ Send(i, "store") \in S
  BY <1>1, OwnMotor, WhatsHave
<1> HIDE DEF S
<1> DEFINE read  == <<Send(i, "query"), Ask(i, 0, "status")>>
           stop  == <<Send(i, "stop")>>
           zero  == <<Send(i, "zero"), Send(i, "store")>>
           store == <<Send(i, "store")>>
           param == <<Send(i, "param")>>
           start == <<Send(i, "start")>>
           part  == CASE s.mode = "read"   -> read
                      [] s.mode = "stop"   -> Times(s.loops, stop)
                      [] s.mode = "rezero" -> Times(s.loops, zero)
                      [] s.mode = "conf-write" -> Times(s.loops, store)
                      [] s.mode \in {"brake", "timed-read"} -> Times(s.loops, param)
                      [] OTHER -> Times(s.loops, start)
<1>7. read \in Seq(S) /\ param \in Seq(S) /\ <<Open("hightorque")>> \in Seq(S) /\ <<Close>> \in Seq(S)
  BY <1>3, <1>4, <1>5, Tuples
<1>8. ~Looking(s) => stop \in Seq(S) /\ zero \in Seq(S) /\ store \in Seq(S) /\ start \in Seq(S)
  BY <1>6, Tuples
<1>9. part \in Seq(S)
  <2> HIDE DEF read, stop, zero, store, param, start
  <2>1. Times(s.loops, param) \in Seq(S)
    BY <1>1, <1>7, TimesMember
  <2>2. ~Looking(s) => /\ Times(s.loops, stop) \in Seq(S) /\ Times(s.loops, zero) \in Seq(S)
                       /\ Times(s.loops, store) \in Seq(S) /\ Times(s.loops, start) \in Seq(S)
    BY <1>1, <1>8, TimesMember
  <2> QED
    BY <1>2, <1>7, <2>1, <2>2
<1>10. HighTorque(s) = <<Open("hightorque")>> \o part \o <<Close>>
  BY DEF HighTorque, i
<1> HIDE DEF part
<1> QED
  BY <1>7, <1>9, <1>10, ConcatMember DEF S

LEMMA MyActuatorOwn ==
  ASSUME NEW s \in Setups, s.vendor = "myactuator", s.mode \in Modes["myactuator"], s.mode # "scan"
  PROVE  MyActuator(s) \in Seq(OwnStep(s))
<1> DEFINE S == OwnStep(s)
           i == s.id
<1>1. i \in Nat /\ s.fid \in Nat /\ s.loops \in Nat /\ s.vendor \in Vendors /\ i \in Ids(s) /\ ~Looking(s)
  <2>1. ~Looking(s)
    BY QueriesOf DEF Looking
  <2> QED
    BY <2>1, SetupFields, IdsAre DEF Vendors
<1> HIDE DEF i
<1>2. Open("myactuator") \in S /\ Close \in S /\ Add(i, s.fid) \in S /\ Shutdown \in S
  BY <1>1, OwnMotor, OwnPlain
<1>3. Send(i, "start") \in S /\ Send(i, "stop") \in S /\ Send(i, "control") \in S /\ Send(i, "query") \in S
  BY <1>1, OwnMotor, WhatsHave
<1> HIDE DEF S
<1> DEFINE head  == <<Open("myactuator"), Add(i, s.fid)>>
           start == <<Send(i, "start")>>
           ctl   == <<Send(i, "control")>>
           round == CASE s.mode = "enable"  -> start
                      [] s.mode = "disable" -> <<Send(i, "stop")>>
                      [] s.mode = "status"  -> <<Send(i, "query"), Send(i, "query")>>
                      [] s.mode = "pos"     -> <<Send(i, "query"), Send(i, "query")>>
                      [] s.mode \in {"version", "mode-query"} -> <<Send(i, "query")>>
                      [] OTHER              -> ctl
           end   == <<IF s.mode = "disable" THEN Close ELSE Shutdown>>
<1>4. head \in Seq(S) /\ start \in Seq(S) /\ ctl \in Seq(S) /\ end \in Seq(S)
  BY <1>2, <1>3, Tuples
<1>5. round \in Seq(S)
  <2>1. /\ <<Send(i, "stop")>> \in Seq(S) /\ <<Send(i, "query")>> \in Seq(S)
        /\ <<Send(i, "query"), Send(i, "query")>> \in Seq(S)
    BY <1>3, Tuples
  <2> QED
    BY <1>4, <2>1
<1>6. MyActuator(s) = head \o When(s.mode # "disable", start) \o When(s.mode = "pos", ctl) \o Times(s.loops, round) \o end
  BY DEF MyActuator, i
<1> HIDE DEF head, start, ctl, round, end
<1>7. Times(s.loops, round) \in Seq(S)
  BY <1>1, <1>5, TimesMember
<1> QED
  BY <1>4, <1>6, <1>7, ConcatMember, WhenMember DEF S

LEMMA HexfellowOwn ==
  ASSUME NEW s \in Setups, s.vendor = "hexfellow", s.mode \in Modes["hexfellow"], s.mode # "scan"
  PROVE  Hexfellow(s) \in Seq(OwnStep(s))
<1> DEFINE S == OwnStep(s)
           i == s.id
<1>1. i \in Nat /\ s.fid \in Nat /\ s.vendor \in Vendors /\ i \in Ids(s)
  BY SetupFields, IdsAre DEF Vendors
<1>2. Looking(s) => s.mode = "status"
  BY QueriesOf DEF Looking
<1> HIDE DEF i
<1>3. Open("hexfellow") \in S /\ Close \in S /\ Add(i, s.fid) \in S
  BY <1>1, OwnMotor
<1>4. Ask(i, 0, "sdo") \in S
  BY <1>1, OwnMotor, WhatsHave
<1>5. Call(i, "param") \in S /\ Call(i, "control") \in S
  BY <1>1, OwnMotor, WhatsHave
<1>6. Send(0, "query") \in S
  BY OwnSends, WhatsHave DEF Effects
<1>7. ~Looking(s) => Call(i, "start") \in S /\ Call(i, "stop") \in S
  BY <1>1, OwnMotor, WhatsHave
<1> HIDE DEF S
<1> DEFINE head == <<Open("hexfellow"), Add(i, s.fid)>>
           ctl  == <<Call(i, "control")>>
           off  == <<Call(i, "stop")>>
           ask  == <<Ask(i, 0, "sdo"), Ask(i, 0, "sdo")>>
           part == CASE s.mode = "enable"  -> HexfellowStart(i)
                     [] s.mode = "disable" -> off
                     [] s.mode = "status"  -> ask
                     [] OTHER              -> HexfellowStart(i) \o ctl
<1>8. head \in Seq(S) /\ <<Close>> \in Seq(S) /\ ctl \in Seq(S) /\ ask \in Seq(S)
  BY <1>3, <1>4, <1>5, Tuples
<1>9. ~Looking(s) => HexfellowStart(i) \in Seq(S) /\ off \in Seq(S)
  BY <1>5, <1>6, <1>7, Tuples DEF HexfellowStart
<1>10. part \in Seq(S)
  <2> HIDE DEF ctl, off, ask
  <2>1. ~Looking(s) => HexfellowStart(i) \o ctl \in Seq(S)
    BY <1>8, <1>9, ConcatMember
  <2> QED
    BY <1>2, <1>8, <1>9, <2>1
<1>11. Hexfellow(s) = head \o part \o <<Close>>
  BY DEF Hexfellow, i
<1> HIDE DEF head, part
<1> QED
  BY <1>8, <1>10, <1>11, ConcatMember DEF S

(* A check asks and reports, and switches nothing.                         *)
LEMMA VerifyOwn ==
  ASSUME NEW s \in Setups, s.vendor \in VerifyVendors, NEW i \in Ids(s), NEW f \in Nat
  PROVE  WsVerifySteps(s.vendor, i, f) \in Seq(OwnStep(s))
<1> DEFINE S == OwnStep(s)
           Confirm(what) == [Probe(i, 0, what) EXCEPT !.must = TRUE]
<1>1. i \in Nat /\ s.vendor \in Vendors /\ s.vendor \in {"damiao", "robstride", "hexfellow", "myactuator", "hightorque"}
  BY IdsAre DEF Vendors, VerifyVendors, ScanVendors
<1>2. Open(s.vendor) \in S /\ TryOpen(i, s.vendor) \in S /\ Close \in S /\ Add(i, f) \in S /\ TryAdd(i, f) \in S
      /\ Refuse \in S /\ SkipIfHits(s.vendor, 1) \in S
  BY <1>1, OwnMotor, OwnPlain
<1>3. /\ Confirm("ping") \in S /\ Confirm("sdo") \in S /\ Confirm("version") \in S
      /\ Probe(i, 0, "status") \in S
  BY <1>1, OwnMotor, WhatsHave
<1>4. ReadIds(i, f) \in S
  BY <1>1, OwnAsks, WhatsHave
<1>5. Send(i, "query") \in S
  BY <1>1, OwnMotor, WhatsHave
<1> HIDE DEF Confirm, S
<1>6. CASE s.vendor = "damiao"
  <2> DEFINE try   == <<TryOpen(i, "damiao"), TryAdd(i, f), ReadIds(i, f), Close>>
             tries == [k \in DOMAIN ScanModels |-> try]
             last  == <<SkipIfHits("damiao", 1), Refuse>>
  <2>1. try \in Seq(S) /\ last \in Seq(S)
    BY <1>2, <1>4, <1>6, Tuples
  <2>2. WsVerifySteps(s.vendor, i, f) = FlattenSeq(tries) \o last
    BY <1>6 DEF WsVerifySteps, Each
  <2> HIDE DEF try, last
  <2>3. tries \in Seq(Seq(S))
    <3>1. DOMAIN ScanModels = 1..Len(ScanModels) /\ Len(ScanModels) \in Nat
      BY CommandAssumption, LenProperties
    <3> QED
      BY <2>1, <3>1
  <2>4. FlattenSeq(tries) \in Seq(S)
    BY <2>3, FlattenInSeq
  <2> HIDE DEF tries
  <2> QED
    BY <2>1, <2>2, <2>4, ConcatMember DEF S
<1>7. CASE s.vendor = "robstride"
  <2>1. WsVerifySteps(s.vendor, i, f) = <<Open("robstride"), Add(i, f), Confirm("ping"), Close>>
    BY <1>7 DEF WsVerifySteps, Confirm
  <2> QED
    BY <2>1, <1>2, <1>3, <1>7, Tuples DEF S
<1>8. CASE s.vendor = "hexfellow"
  <2>1. WsVerifySteps(s.vendor, i, f) = <<Open("hexfellow"), Add(i, f), Confirm("sdo"), Close>>
    BY <1>8 DEF WsVerifySteps, Confirm
  <2> QED
    BY <2>1, <1>2, <1>3, <1>8, Tuples DEF S
<1>9. CASE s.vendor = "myactuator"
  <2>1. WsVerifySteps(s.vendor, i, f) = <<Open("myactuator"), Add(i, f), Send(i, "query"), Confirm("version"), Close>>
    BY <1>9 DEF WsVerifySteps, Confirm
  <2> QED
    BY <2>1, <1>2, <1>3, <1>5, <1>9, Tuples DEF S
<1>10. CASE s.vendor = "hightorque"
  <2>1. WsVerifySteps(s.vendor, i, f) = <<Open("hightorque"), Send(i, "query"), Probe(i, 0, "status"), Close>>
    BY <1>10 DEF WsVerifySteps
  <2> QED
    BY <2>1, <1>2, <1>3, <1>5, <1>10, Tuples DEF S
<1> QED
  BY <1>1, <1>6, <1>7, <1>8, <1>9, <1>10

LEMMA WsSetIdOwn ==
  ASSUME NEW s \in Setups, s.vendor \in SetIdVendors, s.mode = "set_id"
  PROVE  WsSetId(s) \in Seq(OwnStep(s))
<1> DEFINE S == OwnStep(s)
           checks == WsVerifySteps(s.vendor, s.new[1], s.new[2])
<1>1. /\ s.id \in Nat /\ s.fid \in Nat /\ s.new[1] \in Nat /\ s.new[2] \in Nat
      /\ s.vendor \in {"damiao", "robstride"} /\ s.vendor \in Vendors /\ s.vendor \in VerifyVendors
      /\ s.id \in Ids(s) /\ s.new[1] \in Ids(s) /\ ~Looking(s)
  BY SetupFields DEF Vendors, SetIdVendors, VerifyVendors, ScanVendors, Ids, Looking, Queries
<1>2. Open(s.vendor) \in S /\ Close \in S /\ Add(s.id, s.fid) \in S
  BY <1>1, OwnMotor
<1>3. Ask(s.id, 0, "ping") \in S /\ Send(s.id, "store") \in S
  BY <1>1, OwnMotor, WhatsHave
<1>4. Assign(s.id, "feedback_id", s.new[2]) \in S /\ Assign(s.id, "motor_id", s.new[1]) \in S
  BY OwnAssigns
<1>5. checks \in Seq(S)
  BY <1>1, VerifyOwn
<1> HIDE DEF S, checks
<1>6. s.vendor = "damiao" => WsDamiaoSetId(s) \in Seq(S)
  <2> DEFINE head == <<Open("damiao"), Add(s.id, s.fid)>>
             f    == <<Assign(s.id, "feedback_id", s.new[2])>>
             m    == <<Assign(s.id, "motor_id", s.new[1])>>
             st   == <<Send(s.id, "store")>>
             c    == <<Close>>
  <2> SUFFICES ASSUME s.vendor = "damiao" PROVE WsDamiaoSetId(s) \in Seq(S)
    OBVIOUS
  <2>1. head \in Seq(S) /\ f \in Seq(S) /\ m \in Seq(S) /\ st \in Seq(S) /\ c \in Seq(S)
    BY <1>2, <1>3, <1>4, Tuples
  <2>2. WsDamiaoSetId(s) = head \o When(s.new[2] # s.fid, f) \o When(s.new[1] # s.id, m)
                             \o When("store" \in s.flags, st) \o c
    BY DEF WsDamiaoSetId
  <2> HIDE DEF head, f, m, st, c
  <2> QED
    BY <2>1, <2>2, ConcatMember, WhenMember
<1>7. s.vendor = "robstride" => WsRobstrideSetId(s) \in Seq(S)
  BY <1>2, <1>3, <1>4, Tuples DEF WsRobstrideSetId
<1>8. WsSetId(s) = (IF s.vendor = "damiao" THEN WsDamiaoSetId(s) ELSE WsRobstrideSetId(s))
                     \o When("verify" \in s.flags, checks)
  BY DEF WsSetId, checks
<1> QED
  BY <1>1, <1>5, <1>6, <1>7, <1>8, ConcatMember, WhenMember DEF S

(* The commands and requests that are for a motor of their own.            *)
Single(s) == ~Scanning(s) /\ s.mode # "estop"

LEMMA SingleOwn ==
  ASSUME NEW s \in Setups, Single(s)
  PROVE  Program(s) \in Seq(OwnStep(s))
<1>1. CASE s.by = "cli"
  <2>1. s.vendor \in Vendors /\ s.mode \in Modes[s.vendor] /\ s.mode \notin {"scan", "estop"}
    BY <1>1, CliAccepts DEF Single, Scanning
  <2>2. Program(s) = CommandLine(s)
    BY <1>1 DEF Program
  <2>3. CASE s.vendor = "damiao"
    BY <2>1, <2>2, <2>3, DamiaoOwn DEF CommandLine
  <2>4. CASE s.vendor = "robstride"
    BY <2>1, <2>2, <2>4, RobstrideOwn DEF CommandLine
  <2>5. CASE s.vendor = "robstride_cia402"
    BY <2>1, <2>2, <2>5, Cia402Own DEF CommandLine
  <2>6. CASE s.vendor = "robstride_mit"
    BY <2>1, <2>2, <2>6, MitOwn DEF CommandLine
  <2>7. CASE s.vendor = "hightorque"
    BY <2>1, <2>2, <2>7, HighTorqueOwn DEF CommandLine
  <2>8. CASE s.vendor = "myactuator"
    BY <2>1, <2>2, <2>8, MyActuatorOwn DEF CommandLine
  <2>9. CASE s.vendor = "hexfellow"
    BY <2>1, <2>2, <2>9, HexfellowOwn DEF CommandLine
  <2>10. CASE s.vendor = "cyberbeast"
    BY <2>1, <2>2, <2>10, CyberBeastOwn DEF CommandLine
  <2> QED
    BY <2>1, <2>3, <2>4, <2>5, <2>6, <2>7, <2>8, <2>9, <2>10 DEF Vendors
<1>2. CASE s.by = "ws"
  <2>1. s.mode \in {"verify", "set_id"}
    BY <1>2, WsAccepts DEF Single, Scanning
  <2>2. Program(s) = Gateway(s)
    BY <1>2 DEF Program
  <2>3. CASE s.mode = "verify"
    <3>1. s.vendor \in VerifyVendors
      BY <1>2, <2>3, WsAccepts
    <3>2. Program(s) = WsVerifySteps(s.vendor, s.id, s.fid)
      BY <2>2, <2>3 DEF Gateway
    <3>3. s.id \in Ids(s) /\ s.fid \in Nat
      BY IdsAre, SetupFields
    <3> QED
      BY <3>1, <3>2, <3>3, VerifyOwn
  <2>4. CASE s.mode = "set_id"
    <3>1. s.vendor \in SetIdVendors
      BY <1>2, <2>4, WsAccepts DEF SetIdVendors
    <3>2. Program(s) = WsSetId(s)
      BY <2>2, <2>4 DEF Gateway
    <3> QED
      BY <2>4, <3>1, <3>2, WsSetIdOwn
  <2> QED
    BY <2>1, <2>3, <2>4
<1> QED
  BY <1>1, <1>2, SetupFields

(***************************************************************************)
(* What a step does to the program and to the motors, whatever the program *)
(* is made of.                                                             *)
(***************************************************************************)
BaseInv ==
  /\ setup \in Setups /\ pc \in Nat \ {0} /\ rescue \in Nat
  /\ DOMAIN motor = Motors /\ \A m \in Motors : IsMotor(motor[m])

LEMMA BaseStarts == Init => BaseInv /\ \A m \in Motors : Intact(m)
<1> SUFFICES ASSUME Init PROVE BaseInv /\ \A m \in Motors : Intact(m)
  OBVIOUS
<1>1. /\ setup \in Setups /\ pc = 1 /\ rescue = 0
      /\ motor = [m \in Motors |-> LET r == setup.motors[m]
                                   IN  [id |-> r.id, fid |-> r.fid, power |-> r.power, saved |-> <<r.id, r.fid>>]]
  BY DEF Init
<1>2. DOMAIN motor = Motors /\ \A m \in Motors : IsMotor(motor[m])
  BY <1>1 DEF IsMotor
<1>3. \A m \in Motors : Intact(m)
  BY <1>1 DEF Intact, Before
<1> QED
  BY <1>1, <1>2, <1>3 DEF BaseInv

(* The motors change only as a frame of the controller tells them to, or   *)
(* at a shutdown.                                                          *)
SwitchedOff(R) ==
  [m \in Motors |-> IF setup.motors[m].vendor = vendor /\ \E r \in R : r[1] = motor[m].id
                    THEN [motor[m] EXCEPT !.power = "off"] ELSE motor[m]]

LEMMA MotorMoves ==
  ASSUME [Next]_vars
  PROVE  \/ motor' = motor
         \/ Running({"send", "call"}) /\ bound /\ motor' = AfterTelling(Now)
         \/ Running({"shutdown"}) /\ \E R \in SUBSET reg : motor' = SwitchedOff(R)
<1>1. ASSUME Tell PROVE motor' = motor \/ (Running({"send", "call"}) /\ bound /\ motor' = AfterTelling(Now))
  <2>1. Running({"send", "call"}) /\ ~Skipped
    BY <1>1 DEF Tell
  <2>2. bound
    BY <2>1 DEF Skipped, Running
  <2>3. motor' = motor \/ motor' = AfterTelling(Now)
    BY <1>1 DEF Tell
  <2> QED
    BY <2>1, <2>2, <2>3
<1>2. ASSUME ShutdownAll PROVE Running({"shutdown"}) /\ \E R \in SUBSET reg : motor' = SwitchedOff(R)
  <2>1. PICK missed : motor' = [m \in Motors |->
                      IF /\ setup.motors[m].vendor = vendor
                         /\ \E r \in reg \ missed : r[1] = motor[m].id
                      THEN [motor[m] EXCEPT !.power = "off"] ELSE motor[m]]
    BY <1>2 DEF ShutdownAll
  <2>2. motor' = SwitchedOff(reg \ missed)
    BY <2>1 DEF SwitchedOff
  <2>3. Running({"shutdown"})
    BY <1>2 DEF ShutdownAll
  <2> QED
    BY <2>2, <2>3
<1>3. CASE Tell
  BY <1>1, <1>3
<1>4. CASE ShutdownAll
  BY <1>2, <1>4
<1> QED
  BY <1>3, <1>4 DEF Next, vars, OpenBus, AddMotor, Skip, Query, LoopRound, InstallHandler, CloseBus,
     Turn, Return, Interrupt, Done

LEMMA OffMotors ==
  ASSUME BaseInv, NEW R, NEW m \in Motors
  PROVE  /\ IsMotor(SwitchedOff(R)[m])
         /\ (Before(m).vendor # vendor \/ ~ \E r \in R : r[1] = motor[m].id) => SwitchedOff(R)[m] = motor[m]
<1>1. IsMotor(motor[m])
  BY DEF BaseInv
<1>2. IsMotor([motor[m] EXCEPT !.power = "off"])
  BY <1>1, OffKeeps
<1> QED
  BY <1>1, <1>2 DEF SwitchedOff, Before

(* Whom a frame does not concern.                                          *)
LEMMA NotTold ==
  ASSUME BaseInv, NEW st, st.what # "estop", NEW m \in Motors,
         Before(m).vendor # vendor \/ motor[m].id # st.id \/ st.what \notin Effects
  PROVE  AfterTelling(st)[m] = motor[m]
<1>1. IsMotor(motor[m])
  BY DEF BaseInv
<1>2. AfterTelling(st)[m] = IF m \in Reached(st) THEN Told(motor[m], st) ELSE motor[m]
  BY DEF AfterTelling
<1>3. st.what \notin Effects => st.what \notin {"start", "stop", "reset", "motor_id", "feedback_id", "store"}
  BY DEF Effects, Switches
<1>4. st.what \notin Effects => Told(motor[m], st) = motor[m]
  BY <1>1, <1>3, ToldWhat
<1>5. st.what \in Effects => m \notin Reached(st)
  BY DEF Reached, Before
<1> QED
  BY <1>2, <1>4, <1>5

LEMMA BaseKept ==
  ASSUME BaseInv, [Next]_vars, \A ops : Running(ops) => Now \in StepType
  PROVE  BaseInv'
<1>1. setup' = setup /\ setup \in Setups
  BY SetupStays DEF BaseInv
<1>2. pc \in Nat \ {0} /\ rescue \in Nat
  BY DEF BaseInv
<1>3. pc' \in Nat \ {0} /\ rescue' \in Nat
  <2>1. CASE \E done : Advance \/ Fail \/ FailOr(done) \/ UNCHANGED <<pc, rescue>>
    BY <1>2, <2>1, PcMoves
  <2>2. CASE Turn
    <3>1. \A ops : Running(ops) => Now.arg \in Nat
      BY DEF StepType
    <3>2. Now.arg \in Nat
      BY <2>2, <3>1 DEF Turn
    <3> QED
      BY <1>2, <2>2, <3>2 DEF Turn, Fail
  <2>3. CASE OpenBus \/ AddMotor \/ Query \/ Tell
    BY <2>1, <2>3 DEF OpenBus, AddMotor, Query, Tell
  <2> QED
    BY <2>1, <2>2, <2>3 DEF Next, vars, Skip, LoopRound, InstallHandler, CloseBus, ShutdownAll,
       Return, Interrupt, Done
<1>4. DOMAIN motor' = Motors /\ \A m \in Motors : IsMotor(motor'[m])
  <2>1. CASE motor' = motor
    BY <2>1 DEF BaseInv
  <2>2. CASE motor' = AfterTelling(Now)
    BY <2>2, TellingKeeps DEF BaseInv
  <2>3. CASE \E R \in SUBSET reg : motor' = SwitchedOff(R)
    <3>1. PICK R \in SUBSET reg : motor' = SwitchedOff(R)
      BY <2>3
    <3>2. \A m \in Motors : IsMotor(SwitchedOff(R)[m])
      BY OffMotors
    <3>3. DOMAIN SwitchedOff(R) = Motors
      BY DEF SwitchedOff
    <3> QED
      BY <3>1, <3>2, <3>3
  <2> QED
    BY <2>1, <2>2, <2>3, MotorMoves
<1> QED
  BY <1>1, <1>3, <1>4 DEF BaseInv

(* A command registers its own ids only, on a controller of its vendor,    *)
(* and has done nothing to any other motor.                                *)
AloneInv ==
  /\ BaseInv
  /\ open \/ bound \/ reg # {} => vendor = setup.vendor
  /\ \A r \in reg : r[1] \in Ids(setup)
  /\ \A m \in Motors : Meant(m) \/ Intact(m)
  /\ Looking(setup) => \A m \in Motors : motor[m].power = Before(m).power

LEMMA SingleNow ==
  ASSUME setup \in Setups, pc \in Nat \ {0}, Single(setup), NEW ops, Running(ops)
  PROVE  Now \in OwnStep(setup) /\ Now \in StepType /\ Now.op \in ops
<1>1. Now = Program(setup)[pc] /\ pc <= Len(Program(setup)) /\ Now.op \in ops
  BY NowIs
<1>2. Program(setup) \in Seq(OwnStep(setup))
  BY SingleOwn
<1>3. pc \in 1..Len(Program(setup))
  BY <1>1, <1>2, LenProperties
<1>4. Now \in OwnStep(setup)
  BY <1>1, <1>2, <1>3, ElementOfSeq
<1> QED
  BY <1>1, <1>4 DEF OwnStep

LEMMA OpenStays == \A done : FailOr(done) => open' = FALSE \/ open' = open
BY DEF FailOr, Fail

(* What is registered, and by whom. *)
LEMMA RegMoves ==
  ASSUME AloneInv, Single(setup), [Next]_vars
  PROVE  /\ open' \/ bound' \/ reg' # {} => vendor' = setup.vendor
         /\ \A r \in reg' : r[1] \in Ids(setup)
<1>1. /\ open \/ bound \/ reg # {} => vendor = setup.vendor
      /\ \A r \in reg : r[1] \in Ids(setup)
      /\ setup \in Setups /\ pc \in Nat \ {0}
  BY DEF AloneInv, BaseInv
<1>2. CASE OpenBus
  <2>1. Running({"open"})
    BY <1>2 DEF OpenBus
  <2>2. Now.what = setup.vendor
    BY <1>1, <2>1, SingleNow DEF OwnStep
  <2> QED
    BY <1>1, <1>2, <2>2, OpenStays DEF OpenBus
<1>3. CASE AddMotor
  <2>1. Running({"add"})
    BY <1>3 DEF AddMotor
  <2>2. Now.id \in Ids(setup)
    BY <1>1, <2>1, SingleNow DEF OwnStep
  <2>3. <<Now.id, Now.fid>>[1] = Now.id
    OBVIOUS
  <2>4. bound' => open
    BY <1>3 DEF AddMotor
  <2>5. reg' = reg \/ (bound' /\ reg' = reg \cup {<<Now.id, Now.fid>>})
    BY <1>3 DEF AddMotor
  <2>6. vendor' = vendor /\ (open' = FALSE \/ open' = open)
    BY <1>3, OpenStays DEF AddMotor
  <2>7. \A r \in reg' : r[1] \in Ids(setup)
    BY <1>1, <2>2, <2>3, <2>5
  <2> QED
    BY <1>1, <2>4, <2>5, <2>6, <2>7
<1>4. CASE Query \/ Tell
  <2>1. UNCHANGED <<vendor, reg, bound>> /\ (open' = FALSE \/ open' = open)
    BY <1>4, OpenStays DEF Query, Tell
  <2> QED
    BY <1>1, <2>1
<1>5. CASE ~(OpenBus \/ AddMotor \/ Query \/ Tell)
  <2>1. UNCHANGED <<vendor, reg, bound>> /\ (open' = FALSE \/ open' = open)
    BY <1>5 DEF Next, vars, controller, Skip, LoopRound, InstallHandler, CloseBus, ShutdownAll, Turn, Fail,
       Return, Interrupt, Done
  <2> QED
    BY <1>1, <2>1
<1> QED
  BY <1>2, <1>3, <1>4, <1>5

LEMMA AloneKept ==
  ASSUME AloneInv, Single(setup), [Next]_vars
  PROVE  AloneInv'
<1>1. /\ BaseInv /\ setup' = setup /\ setup \in Setups /\ pc \in Nat \ {0}
      /\ open \/ bound \/ reg # {} => vendor = setup.vendor
      /\ \A r \in reg : r[1] \in Ids(setup)
      /\ \A m \in Motors : Meant(m) \/ Intact(m)
      /\ Looking(setup) => \A m \in Motors : motor[m].power = Before(m).power
  BY SetupStays DEF AloneInv, BaseInv
<1>2. BaseInv'
  BY <1>1, SingleNow, BaseKept
<1>3. ASSUME NEW m \in Motors, ~Meant(m) PROVE motor'[m] = motor[m]
  <2>1. Intact(m) /\ motor[m].id = Before(m).id
    BY <1>1, <1>3 DEF Intact
  <2>2. Before(m).vendor # setup.vendor \/ motor[m].id \notin Ids(setup)
    BY <1>3, <2>1 DEF Meant, Named, Renames, Ids
  <2>3. CASE motor' = motor
    BY <2>3
  <2>4. CASE Running({"send", "call"}) /\ bound /\ motor' = AfterTelling(Now)
    <3>1. Now \in OwnStep(setup) /\ Now.op \in {"send", "call"}
      BY <1>1, <2>4, SingleNow
    <3>2. Now.what # "estop" /\ (Now.what \in Effects => Now.id \in Ids(setup))
      BY <3>1 DEF OwnStep
    <3>3. Before(m).vendor # vendor \/ motor[m].id # Now.id \/ Now.what \notin Effects
      BY <1>1, <2>2, <2>4, <3>2
    <3> QED
      BY <1>1, <2>4, <3>2, <3>3, NotTold
  <2>5. CASE \E R \in SUBSET reg : motor' = SwitchedOff(R)
    <3>1. PICK R \in SUBSET reg : motor' = SwitchedOff(R)
      BY <2>5
    <3>2. Before(m).vendor # vendor \/ ~ \E r \in R : r[1] = motor[m].id
      BY <1>1, <2>2
    <3> QED
      BY <1>1, <3>1, <3>2, OffMotors
  <2> QED
    BY <2>3, <2>4, <2>5, MotorMoves
<1>4. ASSUME Looking(setup), NEW m \in Motors PROVE motor'[m].power = motor[m].power
  <2>1. CASE motor' = motor
    BY <2>1
  <2>2. CASE Running({"send", "call"}) /\ motor' = AfterTelling(Now)
    <3>1. Now \in OwnStep(setup) /\ Now.op \in {"send", "call"}
      BY <1>1, <2>2, SingleNow
    <3>2. Now.what \notin Switches
      BY <1>4, <3>1 DEF OwnStep
    <3> QED
      BY <1>1, <2>2, <3>2, TellingKeeps DEF BaseInv
  <2>3. CASE Running({"shutdown"})
    <3>1. Now \in OwnStep(setup) /\ Now.op = "shutdown"
      BY <1>1, <2>3, SingleNow
    <3> QED
      BY <1>4, <3>1 DEF OwnStep
  <2> QED
    BY <2>1, <2>2, <2>3, MotorMoves
<1>5. \A m \in Motors : Meant(m)' \/ Intact(m)'
  <2>1. \A m \in Motors : Meant(m)' <=> Meant(m)
    BY <1>1 DEF Meant, Named, Renames, Before
  <2>2. \A m \in Motors : motor'[m] = motor[m] /\ Intact(m) => Intact(m)'
    BY <1>1 DEF Intact, Before
  <2> QED
    BY <1>1, <1>3, <2>1, <2>2
<1>6. /\ open' \/ bound' \/ reg' # {} => vendor' = setup'.vendor
      /\ \A r \in reg' : r[1] \in Ids(setup')
  BY <1>1, RegMoves
<1>7. Looking(setup') => \A m \in Motors : motor'[m].power = Before(m)'.power
  BY <1>1, <1>4 DEF Before
<1> HIDE DEF Meant, Intact, BaseInv
<1> QED
  BY <1>2, <1>5, <1>6, <1>7 DEF AloneInv

LEMMA AloneStarts == Init => AloneInv
<1> SUFFICES ASSUME Init PROVE AloneInv
  OBVIOUS
<1>1. BaseInv /\ \A m \in Motors : Intact(m)
  BY BaseStarts
<1>2. open = FALSE /\ bound = FALSE /\ reg = {}
  BY DEF Init
<1>3. \A m \in Motors : motor[m].power = Before(m).power
  BY <1>1 DEF Intact
<1> QED
  BY <1>1, <1>2, <1>3 DEF AloneInv

AlwaysAlone == Single(setup) => AloneInv

LEMMA AlwaysAloneKept == AlwaysAlone /\ [Next]_vars => AlwaysAlone'
<1> SUFFICES ASSUME AlwaysAlone, [Next]_vars, Single(setup)' PROVE AloneInv'
  BY DEF AlwaysAlone
<1>1. setup' = setup
  BY SetupStays
<1>2. Single(setup)
  BY <1>1 DEF Single, Scanning
<1> QED
  BY <1>2, AloneKept DEF AlwaysAlone

(* A command leaves every motor of another id or protocol as it was,       *)
(* whatever is lost or fails and wherever the program stops, for every     *)
(* command line and request and any motors.                                *)
THEOREM OthersAreLeftAlone == Spec => []LeavesOthersAlone
<1>1. Init => AlwaysAlone
  BY AloneStarts DEF AlwaysAlone
<1>2. AlwaysAlone => LeavesOthersAlone
  BY DEF AlwaysAlone, AloneInv, Single, LeavesOthersAlone
<1> QED
  BY <1>1, <1>2, AlwaysAloneKept, PTL DEF Spec

(***************************************************************************)
(* Scans.  They switch motors only on a bus they have opened for the       *)
(* protocol, and where they jump to is the end of a part of theirs.        *)
(***************************************************************************)
Breaks == {"open", "close", "rescue", "skip_if_hits"}
ScanStep ==
  {st \in StepType : /\ st.op \notin {"read_ids", "check", "loop", "refuse"}
                     /\ st.op \in {"send", "call"} => st.what \notin {"estop", "motor_id", "feedback_id"}}
Switching(st) == st.op = "shutdown" \/ (st.op \in {"send", "call"} /\ st.what \in Switches)

OpenedBy(p, j, k) ==
  /\ p[j].op = "open" /\ p[j].must /\ ~p[j].unfound
  /\ \A i \in (j + 1)..k : p[i].op \notin Breaks

(* Where a jump from the k-th step ends.                                   *)
JumpsWell(p, k) ==
  /\ p[k].op = "skip_if_hits" =>
       p[k].arg # 0 /\ k + p[k].arg \in 1..Len(p) /\ p[k + p[k].arg].op = "close"
  /\ p[k].op = "rescue" /\ p[k].arg # 0 => k + p[k].arg \in 1..Len(p) /\ p[k + p[k].arg].op = "rescue"

OnVendors(p, V) ==
  \A k \in 1..Len(p) : Switching(p[k]) => \E j \in 1..(k - 1) : OpenedBy(p, j, k) /\ p[j].what \in V

(* Before an id is probed by its feedback it has been added twice, the     *)
(* second time just before.                                                *)
Hears(st)     == st.op = "probe" /\ st.what = "feedback"
Adds(p, k, i) == p[k].op = "add" /\ p[k].id = i
Again(p, k)   ==
  /\ p[k].unfound /\ k - 1 \in 1..Len(p) /\ Adds(p, k - 1, p[k].id)
  /\ \E j \in 1..(k - 1) : OpenedBy(p, j, k) /\ \E l \in (j + 1)..(k - 2) : Adds(p, l, p[k].id)
Settled(p)    == \A k \in 1..Len(p) : Hears(p[k]) => Again(p, k)

Parts(V, free) ==
  {p \in Seq(ScanStep) : OnVendors(p, V) /\ (free \/ Settled(p)) /\ \A k \in 1..Len(p) : JumpsWell(p, k)}

LEMMA ScanConcat ==
  ASSUME NEW a \in Seq(ScanStep), NEW b \in Seq(ScanStep)
  PROVE  /\ a \o b \in Seq(ScanStep) /\ Len(a) \in Nat /\ Len(b) \in Nat /\ Len(a \o b) = Len(a) + Len(b)
         /\ \A i \in 1..Len(a) : i \in 1..Len(a \o b) /\ (a \o b)[i] = a[i]
         /\ \A i \in 1..Len(b) : i + Len(a) \in 1..Len(a \o b) /\ (a \o b)[i + Len(a)] = b[i]
         /\ \A i \in 1..Len(a \o b) : i \in 1..Len(a) \/ (i - Len(a) \in 1..Len(b) /\ i = (i - Len(a)) + Len(a))
<1>1. /\ a \o b \in Seq(ScanStep) /\ Len(a \o b) = Len(a) + Len(b)
      /\ \A i \in 1..(Len(a) + Len(b)) : (a \o b)[i] = IF i <= Len(a) THEN a[i] ELSE b[i - Len(a)]
      /\ Len(a) \in Nat /\ Len(b) \in Nat
  BY ConcatProperties, LenProperties
<1> QED
  BY <1>1

LEMMA VendorsJoin ==
  ASSUME NEW V, NEW a \in Seq(ScanStep), NEW b \in Seq(ScanStep), OnVendors(a, V), OnVendors(b, V)
  PROVE  OnVendors(a \o b, V)
<1> DEFINE c == a \o b
           n == Len(a)
<1>1. /\ n \in Nat /\ Len(b) \in Nat /\ Len(c) = n + Len(b)
      /\ \A i \in 1..n : i \in 1..Len(c) /\ c[i] = a[i]
      /\ \A i \in 1..Len(b) : i + n \in 1..Len(c) /\ c[i + n] = b[i]
      /\ \A i \in 1..Len(c) : i \in 1..n \/ (i - n \in 1..Len(b) /\ i = (i - n) + n)
  BY ScanConcat
<1> HIDE DEF c
<1>2. ASSUME NEW k \in 1..n, NEW j \in 1..(k - 1), OpenedBy(a, j, k) PROVE OpenedBy(c, j, k)
  <2>1. j \in 1..n /\ \A i \in (j + 1)..k : i \in 1..n
    BY <1>1, <1>2
  <2> HIDE DEF n
  <2> QED
    BY <1>1, <1>2, <2>1 DEF OpenedBy
<1>3. ASSUME NEW k \in 1..Len(b), NEW j \in 1..(k - 1), OpenedBy(b, j, k) PROVE OpenedBy(c, j + n, k + n)
  <2>1. j \in 1..Len(b) /\ \A i \in ((j + n) + 1)..(k + n) : i - n \in (j + 1)..k /\ i - n \in 1..Len(b) /\ i = (i - n) + n
    BY <1>1, <1>3
  <2>2. c[j + n] = b[j] /\ \A i \in ((j + n) + 1)..(k + n) : c[i] = b[i - n]
    BY <1>1, <2>1
  <2> HIDE DEF n
  <2> QED
    BY <1>3, <2>1, <2>2 DEF OpenedBy
<1>4. ASSUME NEW k \in 1..Len(c), Switching(c[k]) PROVE \E j \in 1..(k - 1) : OpenedBy(c, j, k) /\ c[j].what \in V
  <2>1. CASE k \in 1..n
    <3>1. PICK j \in 1..(k - 1) : OpenedBy(a, j, k) /\ a[j].what \in V
      BY <1>1, <1>4, <2>1 DEF OnVendors
    <3>2. OpenedBy(c, j, k) /\ c[j] = a[j]
      BY <1>1, <1>2, <2>1, <3>1
    <3> QED
      BY <3>1, <3>2
  <2>2. CASE k - n \in 1..Len(b) /\ k = (k - n) + n
    <3> DEFINE l == k - n
    <3>1. l \in 1..Len(b) /\ k = l + n /\ c[k] = b[l]
      BY <1>1, <2>2
    <3> HIDE DEF l
    <3>2. PICK j \in 1..(l - 1) : OpenedBy(b, j, l) /\ b[j].what \in V
      BY <1>4, <3>1 DEF OnVendors
    <3>3. OpenedBy(c, j + n, k) /\ c[j + n] = b[j] /\ j + n \in 1..(k - 1)
      BY <1>1, <1>3, <3>1, <3>2
    <3> QED
      BY <3>2, <3>3
  <2> QED
    BY <1>1, <2>1, <2>2
<1> QED
  BY <1>4 DEF OnVendors, c

LEMMA SettledJoin ==
  ASSUME NEW a \in Seq(ScanStep), NEW b \in Seq(ScanStep), Settled(a), Settled(b)
  PROVE  Settled(a \o b)
<1> DEFINE c == a \o b
           n == Len(a)
<1>1. /\ n \in Nat /\ Len(b) \in Nat /\ Len(c) = n + Len(b)
      /\ \A i \in 1..n : i \in 1..Len(c) /\ c[i] = a[i]
      /\ \A i \in 1..Len(b) : i + n \in 1..Len(c) /\ c[i + n] = b[i]
      /\ \A i \in 1..Len(c) : i \in 1..n \/ (i - n \in 1..Len(b) /\ i = (i - n) + n)
  BY ScanConcat
<1> HIDE DEF c
<1>2. ASSUME NEW k \in 1..n, Again(a, k) PROVE Again(c, k)
  <2>1. PICK j \in 1..(k - 1) : OpenedBy(a, j, k) /\ \E l \in (j + 1)..(k - 2) : Adds(a, l, a[k].id)
    BY <1>2 DEF Again
  <2>2. PICK l \in (j + 1)..(k - 2) : Adds(a, l, a[k].id)
    BY <2>1
  <2>3. OpenedBy(a, j, k) /\ Adds(a, l, a[k].id)
    BY <2>1, <2>2
  <2>4. /\ j \in 1..n /\ l \in 1..n /\ k - 1 \in 1..n /\ k - 1 \in 1..Len(c)
        /\ \A i \in (j + 1)..k : i \in 1..n
    BY <1>1, <1>2, <2>3
  <2> HIDE DEF n
  <2>5. OpenedBy(c, j, k)
    BY <1>1, <1>2, <2>3, <2>4 DEF OpenedBy
  <2>6. Adds(c, l, c[k].id) /\ Adds(c, k - 1, c[k].id) /\ c[k].unfound
    BY <1>1, <1>2, <2>3, <2>4 DEF Adds, Again
  <2> QED
    BY <2>3, <2>4, <2>5, <2>6 DEF Again
<1>3. ASSUME NEW k \in 1..Len(b), Again(b, k) PROVE Again(c, k + n)
  <2>1. PICK j \in 1..(k - 1) : OpenedBy(b, j, k) /\ \E l \in (j + 1)..(k - 2) : Adds(b, l, b[k].id)
    BY <1>3 DEF Again
  <2>2. PICK l \in (j + 1)..(k - 2) : Adds(b, l, b[k].id)
    BY <2>1
  <2>3. OpenedBy(b, j, k) /\ Adds(b, l, b[k].id)
    BY <2>1, <2>2
  <2>4. /\ j \in 1..Len(b) /\ l \in 1..Len(b) /\ k - 1 \in 1..Len(b) /\ (k + n) - 1 = (k - 1) + n
        /\ j + n \in 1..((k + n) - 1) /\ l + n \in ((j + n) + 1)..((k + n) - 2) /\ (k + n) - 1 \in 1..Len(c)
        /\ \A i \in ((j + n) + 1)..(k + n) : i - n \in (j + 1)..k /\ i - n \in 1..Len(b) /\ i = (i - n) + n
    BY <1>1, <1>3, <2>3
  <2>5. /\ c[j + n] = b[j] /\ c[l + n] = b[l] /\ c[k + n] = b[k] /\ c[(k + n) - 1] = b[k - 1]
        /\ \A i \in ((j + n) + 1)..(k + n) : c[i] = b[i - n]
    BY <1>1, <1>3, <2>4
  <2> HIDE DEF n
  <2>6. OpenedBy(c, j + n, k + n)
    BY <2>3, <2>4, <2>5 DEF OpenedBy
  <2>7. Adds(c, l + n, c[k + n].id) /\ Adds(c, (k + n) - 1, c[k + n].id) /\ c[k + n].unfound
    BY <1>3, <2>3, <2>5 DEF Adds, Again
  <2> QED
    BY <2>4, <2>6, <2>7 DEF Again
<1>4. ASSUME NEW k \in 1..Len(c), Hears(c[k]) PROVE Again(c, k)
  <2>1. CASE k \in 1..n
    BY <1>1, <1>2, <1>4, <2>1 DEF Settled
  <2>2. CASE k - n \in 1..Len(b) /\ k = (k - n) + n
    <3> DEFINE l == k - n
    <3>1. l \in 1..Len(b) /\ k = l + n /\ c[k] = b[l]
      BY <1>1, <2>2
    <3> HIDE DEF l
    <3> QED
      BY <1>3, <1>4, <3>1 DEF Settled
  <2> QED
    BY <1>1, <2>1, <2>2
<1> QED
  BY <1>4 DEF Settled, c

LEMMA JumpsJoin ==
  ASSUME NEW a \in Seq(ScanStep), NEW b \in Seq(ScanStep)
  PROVE  /\ \A k \in 1..Len(a) : JumpsWell(a, k) => JumpsWell(a \o b, k)
         /\ \A k \in 1..Len(b) : JumpsWell(b, k) => JumpsWell(a \o b, k + Len(a))
<1> DEFINE c == a \o b
           n == Len(a)
<1>1. /\ n \in Nat /\ Len(b) \in Nat /\ Len(c) = n + Len(b)
      /\ \A i \in 1..n : i \in 1..Len(c) /\ c[i] = a[i]
      /\ \A i \in 1..Len(b) : i + n \in 1..Len(c) /\ c[i + n] = b[i]
  BY ScanConcat
<1> HIDE DEF c
<1>2. ASSUME NEW k \in 1..n, JumpsWell(a, k) PROVE JumpsWell(c, k)
  BY <1>1, <1>2 DEF JumpsWell
<1>3. ASSUME NEW l \in 1..Len(b), JumpsWell(b, l) PROVE JumpsWell(c, l + n)
  <2>1. ASSUME b[l].arg \in Nat, l + b[l].arg \in 1..Len(b)
        PROVE  (l + n) + c[l + n].arg \in 1..Len(c) /\ c[(l + n) + c[l + n].arg] = b[l + b[l].arg]
    <3>1. (l + n) + c[l + n].arg = (l + b[l].arg) + n
      BY <1>1, <2>1
    <3> QED
      BY <1>1, <2>1, <3>1
  <2>2. b[l].arg \in Nat
    BY ElementOfSeq DEF ScanStep, StepType
  <2> QED
    BY <1>1, <1>3, <2>1, <2>2 DEF JumpsWell
<1> QED
  BY <1>2, <1>3 DEF c

LEMMA PartsJoin ==
  ASSUME NEW V, NEW free \in BOOLEAN, NEW a \in Parts(V, free), NEW b \in Parts(V, free)
  PROVE  a \o b \in Parts(V, free)
<1>1. /\ a \in Seq(ScanStep) /\ b \in Seq(ScanStep) /\ OnVendors(a, V) /\ OnVendors(b, V)
      /\ (free \/ Settled(a)) /\ (free \/ Settled(b))
      /\ \A k \in 1..Len(a) : JumpsWell(a, k)
      /\ \A k \in 1..Len(b) : JumpsWell(b, k)
  BY DEF Parts
<1>2. /\ a \o b \in Seq(ScanStep)
      /\ \A i \in 1..Len(a \o b) : i \in 1..Len(a) \/ (i - Len(a) \in 1..Len(b) /\ i = (i - Len(a)) + Len(a))
  BY <1>1, ScanConcat
<1>3. OnVendors(a \o b, V)
  BY <1>1, VendorsJoin
<1>4. \A k \in 1..Len(a \o b) : JumpsWell(a \o b, k)
  <2>1. \A k \in 1..Len(a) : JumpsWell(a \o b, k)
    BY <1>1, JumpsJoin
  <2>2. \A k \in 1..Len(b) : JumpsWell(a \o b, k + Len(a))
    BY <1>1, JumpsJoin
  <2> QED
    BY <1>2, <2>1, <2>2
<1>5. free \/ Settled(a \o b)
  BY <1>1, SettledJoin
<1> QED
  BY <1>2, <1>3, <1>4, <1>5 DEF Parts

(* A part with a jump to one of its ends before it. *)
LEMMA JumpBefore ==
  ASSUME NEW V, NEW free \in BOOLEAN, NEW b \in Parts(V, free), NEW st \in ScanStep, st.arg \in 1..Len(b),
         \/ st.op = "skip_if_hits" /\ b[st.arg].op = "close"
         \/ st.op = "rescue" /\ b[st.arg].op = "rescue"
  PROVE  <<st>> \o b \in Parts(V, free)
<1> DEFINE a == <<st>>
           c == a \o b
<1>1. a \in Seq(ScanStep) /\ Len(a) = 1 /\ a[1] = st /\ b \in Seq(ScanStep)
  BY DEF Parts
<1>2. OnVendors(a, V) /\ Settled(a)
  BY DEF OnVendors, Switching, Settled, Hears
<1> HIDE DEF a
<1>3. OnVendors(c, V)
  BY <1>1, <1>2, VendorsJoin DEF Parts
<1>4. /\ c \in Seq(ScanStep) /\ Len(b) \in Nat /\ Len(c) = 1 + Len(b) /\ c[1] = st
      /\ \A i \in 1..Len(b) : i + 1 \in 1..Len(c) /\ c[i + 1] = b[i]
      /\ \A i \in 1..Len(c) : i = 1 \/ (i - 1 \in 1..Len(b) /\ i = (i - 1) + 1)
  <2>1. /\ a \o b \in Seq(ScanStep) /\ Len(a) \in Nat /\ Len(b) \in Nat /\ Len(a \o b) = Len(a) + Len(b)
        /\ \A i \in 1..Len(a) : i \in 1..Len(a \o b) /\ (a \o b)[i] = a[i]
        /\ \A i \in 1..Len(b) : i + Len(a) \in 1..Len(a \o b) /\ (a \o b)[i + Len(a)] = b[i]
        /\ \A i \in 1..Len(a \o b) : i \in 1..Len(a) \/ (i - Len(a) \in 1..Len(b) /\ i = (i - Len(a)) + Len(a))
    BY <1>1, ScanConcat
  <2> HIDE DEF c
  <2> QED
    BY <1>1, <2>1 DEF c
<1>5. \A k \in 1..Len(b) : JumpsWell(c, k + 1)
  BY <1>1, JumpsJoin DEF Parts
<1> HIDE DEF c
<1>6. JumpsWell(c, 1)
  <2>1. st.arg + 1 = 1 + c[1].arg /\ c[st.arg + 1] = b[st.arg] /\ st.arg + 1 \in 1..Len(c) /\ st.arg # 0
    BY <1>4
  <2> QED
    BY <1>4, <2>1 DEF JumpsWell
<1>7. \A k \in 1..Len(c) : JumpsWell(c, k)
  BY <1>4, <1>5, <1>6
<1>8. free \/ Settled(c)
  BY <1>1, <1>2, SettledJoin DEF Parts, c
<1> QED
  BY <1>3, <1>4, <1>7, <1>8 DEF Parts, c

LEMMA NoParts == ASSUME NEW V, NEW free \in BOOLEAN PROVE <<>> \in Parts(V, free)
BY DEF Parts, OnVendors, Settled

(* A part that switches nothing and jumps nowhere. *)
Quiet  == QuietStep \cap ScanStep
Silent == {st \in Quiet : ~Hears(st)}

LEMMA QuietParts ==
  ASSUME NEW V, NEW free \in BOOLEAN, NEW a \in Seq(Quiet), free \/ a \in Seq(Silent)
  PROVE  a \in Parts(V, free)
<1>1. a \in Seq(ScanStep)
  <2>1. Quiet \subseteq ScanStep
    BY DEF Quiet
  <2> QED
    BY <2>1, SeqMonotonic
<1>2. \A k \in 1..Len(a) : ~Switching(a[k]) /\ a[k].op \notin {"skip_if_hits", "rescue"}
  <2>1. \A k \in 1..Len(a) : a[k] \in QuietStep
    BY ElementOfSeq DEF Quiet
  <2> QED
    BY <2>1 DEF QuietStep, Switching
<1>3. a \in Seq(Silent) => Settled(a)
  BY ElementOfSeq DEF Settled, Silent
<1> QED
  BY <1>1, <1>2, <1>3 DEF Parts, OnVendors, JumpsWell

LEMMA QuietSteps ==
  /\ Close \in Quiet
  /\ \A v \in Vendors, i \in Nat : /\ Open(v) \in Quiet /\ TryOpen(i, v) \in Quiet
                                   /\ [TryOpen(i, v) EXCEPT !.must = TRUE] \in Quiet
  /\ \A i \in Nat, f \in Nat : /\ Add(i, f) \in Quiet /\ TryAdd(i, f) \in Quiet
                               /\ [TryAdd(i, f) EXCEPT !.must = TRUE] \in Quiet
  /\ \A i \in Nat, f \in Nat, w \in Whats : Probe(i, f, w) \in Quiet
  /\ \A i \in Nat : Send(i, "query") \in Quiet /\ Post(i, "param") \in Quiet /\ Post(i, "control") \in Quiet
<1> USE DEF Quiet, QuietStep, ScanStep
<1>1. Close \in Quiet
  BY PlainSteps
<1>2. ASSUME NEW v \in Vendors, NEW i \in Nat
      PROVE  /\ Open(v) \in Quiet /\ TryOpen(i, v) \in Quiet
             /\ [TryOpen(i, v) EXCEPT !.must = TRUE] \in Quiet
  <2> DEFINE st == [TryOpen(i, v) EXCEPT !.must = TRUE]
  <2>1. st \in StepType /\ st.op = "open"
    BY DEF TryOpen, Step, StepType, Ops, Whats
  <2> HIDE DEF st
  <2>2. st \in Quiet
    BY <2>1
  <2>3. Open(v) \in Quiet /\ TryOpen(i, v) \in Quiet
    BY OpenSteps
  <2> QED
    BY <2>2, <2>3 DEF st
<1>3. ASSUME NEW i \in Nat, NEW f \in Nat
      PROVE  /\ Add(i, f) \in Quiet /\ TryAdd(i, f) \in Quiet
             /\ [TryAdd(i, f) EXCEPT !.must = TRUE] \in Quiet
  <2> DEFINE st == [TryAdd(i, f) EXCEPT !.must = TRUE]
  <2>1. st \in StepType /\ st.op = "add"
    BY DEF TryAdd, Step, StepType, Ops, Whats
  <2> HIDE DEF st
  <2>2. st \in Quiet
    BY <2>1
  <2>3. Add(i, f) \in Quiet /\ TryAdd(i, f) \in Quiet
    BY AddSteps
  <2> QED
    BY <2>2, <2>3 DEF st
<1>4. \A i \in Nat, f \in Nat, w \in Whats : Probe(i, f, w) \in Quiet
  BY ProbeSteps
<1>5. ASSUME NEW i \in Nat
      PROVE  Send(i, "query") \in Quiet /\ Post(i, "param") \in Quiet /\ Post(i, "control") \in Quiet
  <2>1. {"query", "param", "control"} \subseteq Whats /\ {"query", "param", "control"} \cap Switches = {}
    BY DEF Whats, Switches
  <2>2. Send(i, "query") \in Quiet
    BY <2>1, SendSteps
  <2>3. Post(i, "param") \in Quiet /\ Post(i, "control") \in Quiet
    BY <2>1, SendSteps
  <2> QED
    BY <2>2, <2>3
<1> HIDE DEF Quiet, QuietStep, ScanStep
<1> QED
  BY <1>1, <1>2, <1>3, <1>4, <1>5

(* The same for each of a list. *)
LEMMA EachIn ==
  ASSUME NEW S, NEW T, NEW seq \in Seq(T), NEW f, f = [k \in DOMAIN seq |-> f[k]],
         \A k \in DOMAIN seq : f[k] \in Seq(S)
  PROVE  FlattenSeq(f) \in Seq(S)
<1>1. DOMAIN seq = 1..Len(seq) /\ Len(seq) \in Nat
  BY LenProperties
<1>2. f \in Seq(Seq(S))
  BY <1>1
<1> QED
  BY <1>2, FlattenInSeq

LEMMA EachPart ==
  ASSUME NEW V, NEW free \in BOOLEAN, NEW T, NEW seq \in Seq(T), NEW f, f = [k \in DOMAIN seq |-> f[k]],
         \A k \in DOMAIN seq : f[k] \in Parts(V, free)
  PROVE  FlattenSeq(f) \in Parts(V, free)
<1>1. DOMAIN seq = 1..Len(seq) /\ Len(seq) \in Nat
  BY LenProperties
<1>2. f \in Seq(Parts(V, free))
  BY <1>1
<1>3. <<>> \in Parts(V, free) /\ \A a, b \in Parts(V, free) : a \o b \in Parts(V, free)
  BY NoParts, PartsJoin
<1> QED
  BY <1>2, <1>3, FlattenCloses

(* A part that opens its bus first. *)
Inner == {st \in ScanStep : st.op \notin Breaks /\ ~Hears(st)}

LEMMA OpenedPart ==
  ASSUME NEW V, NEW free \in BOOLEAN, NEW v \in V, v \in Vendors, NEW body \in Seq(Inner), NEW end \in {Close, Shutdown}
  PROVE  /\ <<Open(v)>> \o body \o <<end>> \in Parts(V, free)
         /\ Len(<<Open(v)>> \o body \o <<end>>) \in Nat \ {0}
         /\ (<<Open(v)>> \o body \o <<end>>)[Len(<<Open(v)>> \o body \o <<end>>)] = end
<1> DEFINE first == <<Open(v)>>
           last  == <<end>>
           c == first \o body \o last
<1>0. /\ Open(v) \in ScanStep /\ Open(v).op = "open" /\ Open(v).must /\ ~Open(v).unfound /\ Open(v).what = v
      /\ end \in ScanStep /\ end.op \in {"close", "shutdown"}
  BY OpenSteps, PlainSteps DEF ScanStep
<1>1. /\ first \in Seq(ScanStep) /\ last \in Seq(ScanStep) /\ body \in Seq(ScanStep)
      /\ Len(first) = 1 /\ first[1] = Open(v) /\ Len(last) = 1 /\ last[1] = end
  <2>1. Inner \subseteq ScanStep
    BY DEF Inner
  <2>2. body \in Seq(ScanStep)
    BY <2>1, SeqMonotonic
  <2> QED
    BY <1>0, <2>2
<1> HIDE DEF first, last
<1>2. /\ first \o body \in Seq(ScanStep) /\ Len(first \o body) = 1 + Len(body) /\ Len(body) \in Nat
      /\ \A i \in 1..(1 + Len(body)) : (first \o body)[i] = IF i <= 1 THEN first[i] ELSE body[i - 1]
  <2>1. /\ first \o body \in Seq(ScanStep) /\ Len(first \o body) = Len(first) + Len(body) /\ Len(body) \in Nat
        /\ \A i \in 1..(Len(first) + Len(body)) :
             (first \o body)[i] = IF i <= Len(first) THEN first[i] ELSE body[i - Len(first)]
    BY <1>1, ConcatProperties, LenProperties
  <2> QED
    BY <1>1, <2>1
<1>3. /\ c \in Seq(ScanStep) /\ Len(c) = 2 + Len(body)
      /\ \A i \in 1..(2 + Len(body)) :
           c[i] = IF i <= 1 + Len(body) THEN (first \o body)[i] ELSE last[i - (1 + Len(body))]
  BY <1>1, <1>2, ConcatProperties
<1>4. /\ c[1] = Open(v) /\ c[2 + Len(body)] = end
      /\ \A i \in 2..(1 + Len(body)) : c[i] \in Inner
  <2>1. c[1] = Open(v) /\ c[2 + Len(body)] = end
    BY <1>1, <1>2, <1>3
  <2>2. ASSUME NEW i \in 2..(1 + Len(body)) PROVE c[i] \in Inner
    <3>1. c[i] = body[i - 1] /\ i - 1 \in 1..Len(body)
      BY <1>2, <1>3
    <3> QED
      BY <3>1, ElementOfSeq
  <2> QED
    BY <2>1, <2>2
<1> HIDE DEF c
<1>5. ASSUME NEW k \in 1..Len(c) PROVE JumpsWell(c, k)
  <2>1. c[k].op \notin {"skip_if_hits", "rescue"}
    <3>1. CASE k = 1
      BY <1>0, <1>4, <3>1
    <3>2. CASE k = 2 + Len(body)
      BY <1>0, <1>4, <3>2
    <3>3. CASE k \in 2..(1 + Len(body))
      BY <1>4, <3>3 DEF Inner, Breaks
    <3> QED
      BY <1>2, <1>3, <3>1, <3>2, <3>3
  <2> QED
    BY <2>1 DEF JumpsWell
<1>6. ASSUME NEW k \in 1..Len(c), Switching(c[k]) PROVE \E j \in 1..(k - 1) : OpenedBy(c, j, k) /\ c[j].what \in V
  <2>1. k # 1
    BY <1>0, <1>4, <1>6 DEF Switching
  <2>2. \A i \in 2..k : c[i].op \notin Breaks
    <3>1. ASSUME NEW i \in 2..k, i = 2 + Len(body) PROVE c[i].op \notin Breaks
      <4>1. i = k /\ c[i] = end
        BY <1>2, <1>3, <1>4, <3>1
      <4>2. end.op = "shutdown"
        BY <1>0, <1>6, <4>1 DEF Switching
      <4> QED
        BY <4>1, <4>2 DEF Breaks
    <3>2. \A i \in 2..k : i = 2 + Len(body) \/ i \in 2..(1 + Len(body))
      BY <1>2, <1>3
    <3> QED
      BY <1>4, <3>1, <3>2 DEF Inner
  <2>3. OpenedBy(c, 1, k) /\ c[1].what \in V /\ 1 \in 1..(k - 1)
    BY <1>0, <1>4, <2>1, <2>2 DEF OpenedBy
  <2> QED
    BY <2>3
<1>7. OnVendors(c, V)
  BY <1>6 DEF OnVendors
<1>8. Settled(c)
  <2>1. \A i \in 1..Len(c) : i = 1 \/ i = 2 + Len(body) \/ i \in 2..(1 + Len(body))
    BY <1>2, <1>3
  <2> QED
    BY <1>0, <1>4, <2>1 DEF Settled, Hears, Inner
<1>9. c \in Parts(V, free)
  BY <1>3, <1>5, <1>7, <1>8 DEF Parts
<1>10. Len(c) \in Nat \ {0} /\ c[Len(c)] = end
  BY <1>2, <1>3, <1>4
<1> QED
  BY <1>9, <1>10 DEF c, first, last

LEMMA AttemptPart ==
  ASSUME NEW V, NEW free \in BOOLEAN, NEW a \in Parts(V, free)
  PROVE  Attempt(a) \in Parts(V, free)
<1> DEFINE n  == Len(a)
           st == Rescue(n + 1)
           z  == <<Rescue(0)>>
           b  == a \o z
<1>1. a \in Seq(ScanStep) /\ n \in Nat
  BY LenProperties DEF Parts
<1>2. \A k \in Nat : Rescue(k) \in ScanStep /\ Rescue(k).op = "rescue" /\ Rescue(k).arg = k
  <2>1. \A k \in Nat : Rescue(k).arg = k
    BY DEF Rescue, Step
  <2> QED
    BY <2>1, TurnSteps DEF ScanStep
<1>3. z \in Parts(V, free) /\ z \in Seq(ScanStep) /\ Len(z) = 1 /\ z[1] = Rescue(0)
  BY <1>2 DEF Parts, OnVendors, Switching, JumpsWell, Settled, Hears
<1> HIDE DEF z
<1>4. b \in Parts(V, free)
  BY <1>3, PartsJoin
<1>5. Len(b) = n + 1 /\ b[n + 1] = Rescue(0)
  <2>1. Len(b) = n + Len(z) /\ \A i \in 1..Len(z) : b[i + n] = z[i]
    BY <1>1, <1>3, ScanConcat
  <2>2. 1 \in 1..Len(z) /\ 1 + n = n + 1
    BY <1>1, <1>3
  <2> QED
    BY <1>3, <2>1, <2>2
<1>6. st \in ScanStep /\ st.op = "rescue" /\ st.arg = n + 1
  BY <1>1, <1>2
<1>7. <<st>> \in Seq(ScanStep)
  BY <1>6
<1> HIDE DEF st, b
<1>8. <<st>> \o b \in Parts(V, free)
  BY <1>1, <1>2, <1>4, <1>5, <1>6, JumpBefore
<1>9. Attempt(a) = <<st>> \o b
  <2>1. Attempt(a) = (<<st>> \o a) \o z
    BY DEF Attempt, st, z
  <2> QED
    BY <1>1, <1>3, <1>7, <2>1, ConcatAssociative DEF b
<1> QED
  BY <1>8, <1>9

(***************************************************************************)
(* The scans that switch nothing.                                          *)
(***************************************************************************)
QuietOf(v) == {st \in Quiet : (st.op = "open" => st.what = v) /\ (Hears(st) => v = "damiao")}
Unhosted   == {st \in Silent : st.op = "probe" => st.fid = 0}

LEMMA SomeWhats ==
  {"regs", "feedback", "ping", "param", "status", "sdo", "fault", "version", "query", "control"} \subseteq Whats
BY DEF Whats

LEMMA QuietOfSteps ==
  ASSUME NEW v \in Vendors, NEW i \in Nat
  PROVE  /\ Close \in QuietOf(v) /\ Open(v) \in QuietOf(v)
         /\ [TryOpen(i, v) EXCEPT !.must = TRUE] \in QuietOf(v)
         /\ \A f \in Nat : TryAdd(i, f) \in QuietOf(v) /\ [TryAdd(i, f) EXCEPT !.must = TRUE] \in QuietOf(v)
         /\ \A f \in Nat, w \in Whats : (w = "feedback" => v = "damiao") => Probe(i, f, w) \in QuietOf(v)
<1>1. Close \in QuietOf(v)
  BY QuietSteps, PlainSteps DEF QuietOf, Hears
<1>2. Open(v) \in QuietOf(v)
  BY QuietSteps, OpenSteps DEF QuietOf, Hears
<1>3. [TryOpen(i, v) EXCEPT !.must = TRUE] \in QuietOf(v)
  <2>1. [TryOpen(i, v) EXCEPT !.must = TRUE].what = v /\ [TryOpen(i, v) EXCEPT !.must = TRUE].op = "open"
    BY DEF TryOpen, Step
  <2> QED
    BY <2>1, QuietSteps DEF QuietOf, Hears
<1>4. ASSUME NEW f \in Nat
      PROVE  TryAdd(i, f) \in QuietOf(v) /\ [TryAdd(i, f) EXCEPT !.must = TRUE] \in QuietOf(v)
  <2>1. TryAdd(i, f).op = "add" /\ [TryAdd(i, f) EXCEPT !.must = TRUE].op = "add"
    BY DEF TryAdd, Step
  <2> QED
    BY <2>1, QuietSteps DEF QuietOf, Hears
<1>5. \A f \in Nat, w \in Whats : (w = "feedback" => v = "damiao") => Probe(i, f, w) \in QuietOf(v)
  BY QuietSteps, ProbeSteps DEF QuietOf, Hears
<1> QED
  BY <1>1, <1>2, <1>3, <1>4, <1>5

LEMMA UnhostedSteps ==
  ASSUME NEW i \in Nat
  PROVE  /\ Close \in Unhosted /\ \A v \in Vendors : Open(v) \in Unhosted
         /\ \A f \in Nat : Add(i, f) \in Unhosted /\ TryAdd(i, f) \in Unhosted
         /\ \A w \in Whats \ {"feedback"} : Probe(i, 0, w) \in Unhosted
         /\ Send(i, "query") \in Unhosted
<1>1. Close \in Unhosted /\ \A v \in Vendors : Open(v) \in Unhosted
  BY QuietSteps, PlainSteps, OpenSteps DEF Unhosted, Silent, Hears
<1>2. \A f \in Nat : Add(i, f) \in Unhosted /\ TryAdd(i, f) \in Unhosted
  BY QuietSteps, AddSteps DEF Unhosted, Silent, Hears
<1>3. \A w \in Whats \ {"feedback"} : Probe(i, 0, w) \in Unhosted
  BY QuietSteps, ProbeSteps DEF Unhosted, Silent, Hears
<1>4. Send(i, "query") \in Unhosted
  BY QuietSteps, SendSteps, SomeWhats DEF Unhosted, Silent, Hears
<1> QED
  BY <1>1, <1>2, <1>3, <1>4

LEMMA HintsAre == \A base, i \in Nat : FeedbackHints(base, i) \in Seq(Nat)
<1> SUFFICES ASSUME NEW base \in Nat, NEW i \in Nat PROVE FeedbackHints(base, i) \in Seq(Nat)
  OBVIOUS
<1> DEFINE Added(hints, f) == IF f \in ToSet(hints) THEN hints ELSE Append(hints, f)
<1>1. ASSUME NEW hints \in Seq(Nat), NEW f \in Nat PROVE Added(hints, f) \in Seq(Nat)
  OBVIOUS
<1>2. <<i + 16>> \in Seq(Nat)
  OBVIOUS
<1>3. FeedbackHints(base, i) = Added(Added(Added(<<i + 16>>, base), 17), 23)
  BY DEF FeedbackHints
<1> HIDE DEF Added
<1>4. Added(<<i + 16>>, base) \in Seq(Nat)
  BY <1>1, <1>2
<1>5. Added(Added(<<i + 16>>, base), 17) \in Seq(Nat)
  BY <1>1, <1>4
<1> QED
  BY <1>1, <1>3, <1>5

LEMMA TriesAre ==
  ASSUME NEW s \in Setups, NEW what \in Whats, NEW k \in DOMAIN s.ids
  PROVE  DamiaoCandidates(s, what)[s.ids[k]] \in Seq(QuietOf("damiao"))
<1> DEFINE i == s.ids[k]
           hints == FeedbackHints(s.fid, i)
           Inner1(f) == [l \in DOMAIN ScanModels |-> <<TryAdd(i, f), Probe(i, f, what)>>]
           outer == [l \in DOMAIN hints |-> FlattenSeq(Inner1(hints[l]))]
<1>1. s.ids \in Seq(Nat) /\ s.fid \in Nat /\ i \in Nat /\ i \in ToSet(s.ids) /\ "damiao" \in Vendors
  BY SetupFields, ElementOfSeq DEF ToSet, Vendors
<1>2. hints \in Seq(Nat) /\ ScanModels \in Seq(STRING)
  BY <1>1, HintsAre, CommandAssumption
<1>3. ASSUME NEW f \in Nat PROVE FlattenSeq(Inner1(f)) \in Seq(QuietOf("damiao"))
  <2>1. <<TryAdd(i, f), Probe(i, f, what)>> \in Seq(QuietOf("damiao"))
    <3>1. TryAdd(i, f) \in QuietOf("damiao") /\ Probe(i, f, what) \in QuietOf("damiao")
      BY <1>1, QuietOfSteps
    <3> QED
      BY <3>1
  <2>2. \A l \in DOMAIN ScanModels : Inner1(f)[l] \in Seq(QuietOf("damiao"))
    BY <2>1
  <2>3. Inner1(f) = [l \in DOMAIN ScanModels |-> Inner1(f)[l]]
    OBVIOUS
  <2> QED
    BY <1>2, <2>2, <2>3, EachIn
<1>4. ASSUME NEW l \in DOMAIN hints PROVE outer[l] \in Seq(QuietOf("damiao"))
  <2>1. hints[l] \in Nat
    BY <1>2, ElementOfSeq
  <2>2. outer[l] = FlattenSeq(Inner1(hints[l]))
    OBVIOUS
  <2> QED
    BY <1>3, <2>1, <2>2
<1>5. outer = [l \in DOMAIN hints |-> outer[l]]
  OBVIOUS
<1>6. FlattenSeq(outer) \in Seq(QuietOf("damiao"))
  BY <1>2, <1>4, <1>5, EachIn
<1>7. DamiaoCandidates(s, what)[i] = FlattenSeq(outer)
  BY <1>1 DEF DamiaoCandidates, Each
<1> QED
  BY <1>6, <1>7

(* A scan opens its bus, does something for each of a list, and ends. *)
LEMMA Framed ==
  ASSUME NEW S, NEW a \in Seq(S), NEW b \in Seq(S), NEW c \in Seq(S)
  PROVE  a \o b \o c \in Seq(S) /\ a \o b \in Seq(S)
BY ConcatProperties

LEMMA DamiaoScanIs ==
  ASSUME NEW s \in Setups
  PROVE  DamiaoScan(s) \in Seq(QuietOf("damiao")) /\ WsDamiaoScan(s) \in Seq(QuietOf("damiao"))
<1> DEFINE S == QuietOf("damiao")
           R(k) == DamiaoRegisterTries(s)[s.ids[k]]
           F(k) == DamiaoFeedbackTries(s)[s.ids[k]]
           f == [k \in DOMAIN s.ids |-> R(k) \o F(k)]
           w == [k \in DOMAIN s.ids |-> When("dm_device" \notin s.flags, R(k)) \o F(k)]
           first == <<Open("damiao")>>
           last == <<Close>>
<1>1. s.ids \in Seq(Nat) /\ "damiao" \in Vendors
  BY SetupFields DEF Vendors
<1>2. first \in Seq(S) /\ last \in Seq(S)
  <2>1. Open("damiao") \in S /\ Close \in S
    BY <1>1, QuietOfSteps
  <2> HIDE DEF S
  <2> QED
    BY <2>1
<1>3. ASSUME NEW k \in DOMAIN s.ids PROVE R(k) \in Seq(S) /\ F(k) \in Seq(S)
  <2>1. DamiaoCandidates(s, "regs")[s.ids[k]] \in Seq(S) /\ DamiaoCandidates(s, "feedback")[s.ids[k]] \in Seq(S)
    BY TriesAre, SomeWhats
  <2> QED
    BY <2>1 DEF DamiaoRegisterTries, DamiaoFeedbackTries
<1> HIDE DEF S, R, F, first, last
<1>4. \A k \in DOMAIN s.ids : f[k] \in Seq(S)
  BY <1>3, Framed
<1>5. \A k \in DOMAIN s.ids : w[k] \in Seq(S)
  BY <1>3, Framed DEF When
<1>6. FlattenSeq(f) \in Seq(S) /\ FlattenSeq(w) \in Seq(S)
  <2>1. f = [k \in DOMAIN s.ids |-> f[k]] /\ w = [k \in DOMAIN s.ids |-> w[k]]
    OBVIOUS
  <2> HIDE DEF f, w
  <2> QED
    BY <1>1, <1>4, <1>5, <2>1, EachIn
<1>7. DamiaoScan(s) = first \o FlattenSeq(f) \o last
  BY DEF DamiaoScan, Each, first, last, R, F
<1>8. WsDamiaoScan(s) = first \o FlattenSeq(w) \o last
  BY DEF WsDamiaoScan, Each, first, last, R, F
<1> HIDE DEF f, w
<1>9. DamiaoScan(s) \in Seq(S) /\ WsDamiaoScan(s) \in Seq(S)
  BY <1>2, <1>6, <1>7, <1>8, Framed
<1> QED
  BY <1>9 DEF S

LEMMA DmDeviceScanIs ==
  ASSUME NEW s \in Setups
  PROVE  DmDeviceScan(s) \in Seq(Quiet)
<1> DEFINE f == [k \in DOMAIN s.ids |-> <<TryAdd(s.ids[k], s.ids[k] + 16)>>]
           g == [k \in DOMAIN s.ids |-> <<Probe(s.ids[k], s.ids[k] + 16, "feedback")>>]
           first == <<Open("damiao")>>
           last == When("hard_exit" \notin s.flags, <<Close>>)
<1>1. s.ids \in Seq(Nat) /\ "damiao" \in Vendors
  BY SetupFields DEF Vendors
<1>2. first \in Seq(Quiet) /\ last \in Seq(Quiet)
  <2>1. Open("damiao") \in Quiet /\ Close \in Quiet
    BY <1>1, QuietSteps
  <2> QED
    BY <2>1 DEF When
<1>3. ASSUME NEW k \in DOMAIN s.ids PROVE f[k] \in Seq(Quiet) /\ g[k] \in Seq(Quiet)
  <2>1. s.ids[k] \in Nat /\ s.ids[k] + 16 \in Nat /\ "feedback" \in Whats
    BY <1>1, ElementOfSeq, SomeWhats
  <2>2. TryAdd(s.ids[k], s.ids[k] + 16) \in Quiet
    BY <2>1, QuietSteps
  <2>3. Probe(s.ids[k], s.ids[k] + 16, "feedback") \in Quiet
    BY <2>1, QuietSteps
  <2> QED
    BY <2>2, <2>3
<1>4. FlattenSeq(f) \in Seq(Quiet) /\ FlattenSeq(g) \in Seq(Quiet)
  <2>1. f = [k \in DOMAIN s.ids |-> f[k]] /\ g = [k \in DOMAIN s.ids |-> g[k]]
    OBVIOUS
  <2> HIDE DEF f, g
  <2> QED
    BY <1>1, <1>3, <2>1, EachIn
<1>5. DmDeviceScan(s) = first \o FlattenSeq(f) \o FlattenSeq(g) \o last
  BY DEF DmDeviceScan, Each
<1> HIDE DEF f, g, first, last
<1>6. first \o FlattenSeq(f) \o FlattenSeq(g) \in Seq(Quiet)
  BY <1>2, <1>4, Framed
<1> QED
  BY <1>2, <1>5, <1>6, Framed

LEMMA RobstrideProbesAre ==
  ASSUME NEW s \in Setups
  PROVE  RobstrideProbes(s) \in Seq(QuietOf("robstride"))
<1> DEFINE S == QuietOf("robstride")
           Ping(i, h) == <<[TryOpen(i, "robstride") EXCEPT !.must = TRUE], [TryAdd(i, h) EXCEPT !.must = TRUE],
                           Probe(i, h, "ping"), Probe(i, h, "param"), Close>>
           Hosts(i) == [l \in DOMAIN s.hosts |-> Ping(i, s.hosts[l])]
           f == [k \in DOMAIN s.ids |-> FlattenSeq(Hosts(s.ids[k]))]
<1>1. s.ids \in Seq(Nat) /\ s.hosts \in Seq(Nat) /\ "robstride" \in Vendors
  BY SetupFields DEF Vendors
<1>2. ASSUME NEW i \in Nat, NEW h \in Nat PROVE Ping(i, h) \in Seq(S)
  <2>1. /\ [TryOpen(i, "robstride") EXCEPT !.must = TRUE] \in S /\ [TryAdd(i, h) EXCEPT !.must = TRUE] \in S
        /\ Close \in S
    BY <1>1, QuietOfSteps
  <2>2. Probe(i, h, "ping") \in S /\ Probe(i, h, "param") \in S
    BY <1>1, QuietOfSteps, SomeWhats
  <2> HIDE DEF S
  <2> QED
    BY <2>1, <2>2
<1> HIDE DEF S, Ping
<1>3. ASSUME NEW i \in Nat PROVE FlattenSeq(Hosts(i)) \in Seq(S)
  <2>1. \A l \in DOMAIN s.hosts : Hosts(i)[l] \in Seq(S)
    <3> SUFFICES ASSUME NEW l \in DOMAIN s.hosts PROVE Hosts(i)[l] \in Seq(S)
      OBVIOUS
    <3>1. s.hosts[l] \in Nat
      BY <1>1, ElementOfSeq
    <3> QED
      BY <1>2, <3>1
  <2>2. Hosts(i) = [l \in DOMAIN s.hosts |-> Hosts(i)[l]]
    OBVIOUS
  <2> HIDE DEF Hosts
  <2> QED
    BY <1>1, <2>1, <2>2, EachIn
<1>4. \A k \in DOMAIN s.ids : f[k] \in Seq(S)
  <2> SUFFICES ASSUME NEW k \in DOMAIN s.ids PROVE f[k] \in Seq(S)
    OBVIOUS
  <2>1. s.ids[k] \in Nat
    BY <1>1, ElementOfSeq
  <2>2. f[k] = FlattenSeq(Hosts(s.ids[k]))
    OBVIOUS
  <2> QED
    BY <1>3, <2>1, <2>2
<1>5. f = [k \in DOMAIN s.ids |-> f[k]]
  OBVIOUS
<1>6. RobstrideProbes(s) = FlattenSeq(f)
  BY DEF RobstrideProbes, Each, Ping
<1> HIDE DEF f
<1>7. FlattenSeq(f) \in Seq(S)
  BY <1>1, <1>4, <1>5, EachIn
<1> QED
  BY <1>6, <1>7 DEF S

LEMMA Cia402ScanIs ==
  ASSUME NEW s \in Setups
  PROVE  Cia402Scan(s) \in Seq(Unhosted)
<1> DEFINE f == [k \in DOMAIN s.ids |-> <<Probe(s.ids[k], 0, "sdo"), Probe(s.ids[k], 0, "sdo"), Probe(s.ids[k], 0, "sdo")>>]
           first == <<Open("robstride_cia402"), Send(0, "query")>>
           last == <<Close>>
<1>1. s.ids \in Seq(Nat) /\ "robstride_cia402" \in Vendors
  BY SetupFields DEF Vendors
<1>2. first \in Seq(Unhosted) /\ last \in Seq(Unhosted)
  <2>1. Open("robstride_cia402") \in Unhosted /\ Send(0, "query") \in Unhosted /\ Close \in Unhosted
    BY <1>1, UnhostedSteps
  <2> QED
    BY <2>1
<1>3. ASSUME NEW k \in DOMAIN s.ids PROVE f[k] \in Seq(Unhosted)
  <2>1. s.ids[k] \in Nat /\ 576 + s.ids[k] \in Nat
    BY <1>1, ElementOfSeq
  <2>2. Probe(s.ids[k], 0, "sdo") \in Unhosted
    BY <2>1, UnhostedSteps, SomeWhats
  <2> QED
    BY <2>2
<1>4. f = [k \in DOMAIN s.ids |-> f[k]]
  OBVIOUS
<1>5. Cia402Scan(s) = first \o FlattenSeq(f) \o last
  BY DEF Cia402Scan, Each
<1> HIDE DEF f, first, last
<1>6. FlattenSeq(f) \in Seq(Unhosted)
  BY <1>1, <1>3, <1>4, EachIn
<1> QED
  BY <1>2, <1>5, <1>6, Framed

LEMMA MitScanIs ==
  ASSUME NEW s \in Setups
  PROVE  MitScan(s) \in Seq(Unhosted)
<1> DEFINE f == [k \in DOMAIN s.ids |-> <<Probe(s.ids[k], 0, "fault")>>]
           first == <<Open("robstride_mit")>>
           last == <<Close>>
<1>1. s.ids \in Seq(Nat) /\ "robstride_mit" \in Vendors
  BY SetupFields DEF Vendors
<1>2. first \in Seq(Unhosted) /\ last \in Seq(Unhosted)
  <2>1. Open("robstride_mit") \in Unhosted /\ Close \in Unhosted
    BY <1>1, UnhostedSteps
  <2> QED
    BY <2>1
<1>3. ASSUME NEW k \in DOMAIN s.ids PROVE f[k] \in Seq(Unhosted)
  <2>1. s.ids[k] \in Nat /\ 576 + s.ids[k] \in Nat
    BY <1>1, ElementOfSeq
  <2>2. Probe(s.ids[k], 0, "fault") \in Unhosted
    BY <2>1, UnhostedSteps, SomeWhats
  <2> QED
    BY <2>2
<1>4. f = [k \in DOMAIN s.ids |-> f[k]]
  OBVIOUS
<1>5. MitScan(s) = first \o FlattenSeq(f) \o last
  BY DEF MitScan, Each
<1> HIDE DEF f, first, last
<1>6. FlattenSeq(f) \in Seq(Unhosted)
  BY <1>1, <1>3, <1>4, EachIn
<1> QED
  BY <1>2, <1>5, <1>6, Framed

LEMMA HighTorqueScanIs ==
  ASSUME NEW s \in Setups
  PROVE  HighTorqueScan(s) \in Seq(Unhosted)
<1> DEFINE f == [k \in DOMAIN s.ids |-> <<Send(s.ids[k], "query"), Probe(s.ids[k], 0, "status")>>]
           first == <<Open("hightorque")>>
           last == <<Close>>
<1>1. s.ids \in Seq(Nat) /\ "hightorque" \in Vendors
  BY SetupFields DEF Vendors
<1>2. first \in Seq(Unhosted) /\ last \in Seq(Unhosted)
  <2>1. Open("hightorque") \in Unhosted /\ Close \in Unhosted
    BY <1>1, UnhostedSteps
  <2> QED
    BY <2>1
<1>3. ASSUME NEW k \in DOMAIN s.ids PROVE f[k] \in Seq(Unhosted)
  <2>1. s.ids[k] \in Nat /\ 576 + s.ids[k] \in Nat
    BY <1>1, ElementOfSeq
  <2>2. Probe(s.ids[k], 0, "status") \in Unhosted /\ Send(s.ids[k], "query") \in Unhosted
    BY <2>1, UnhostedSteps, SomeWhats
  <2> QED
    BY <2>2
<1>4. f = [k \in DOMAIN s.ids |-> f[k]]
  OBVIOUS
<1>5. HighTorqueScan(s) = first \o FlattenSeq(f) \o last
  BY DEF HighTorqueScan, Each
<1> HIDE DEF f, first, last
<1>6. FlattenSeq(f) \in Seq(Unhosted)
  BY <1>1, <1>3, <1>4, EachIn
<1> QED
  BY <1>2, <1>5, <1>6, Framed

LEMMA MyActuatorScanIs ==
  ASSUME NEW s \in Setups
  PROVE  MyActuatorScan(s) \in Seq(Unhosted)
<1> DEFINE f == [k \in DOMAIN s.ids |-> <<Add(s.ids[k], 576 + s.ids[k]), Probe(s.ids[k], 0, "version")>>]
           first == <<Open("myactuator")>>
           last == <<Close>>
<1>1. s.ids \in Seq(Nat) /\ "myactuator" \in Vendors
  BY SetupFields DEF Vendors
<1>2. first \in Seq(Unhosted) /\ last \in Seq(Unhosted)
  <2>1. Open("myactuator") \in Unhosted /\ Close \in Unhosted
    BY <1>1, UnhostedSteps
  <2> QED
    BY <2>1
<1>3. ASSUME NEW k \in DOMAIN s.ids PROVE f[k] \in Seq(Unhosted)
  <2>1. s.ids[k] \in Nat /\ 576 + s.ids[k] \in Nat
    BY <1>1, ElementOfSeq
  <2>2. Add(s.ids[k], 576 + s.ids[k]) \in Unhosted /\ Probe(s.ids[k], 0, "version") \in Unhosted
    BY <2>1, UnhostedSteps, SomeWhats
  <2> QED
    BY <2>2
<1>4. f = [k \in DOMAIN s.ids |-> f[k]]
  OBVIOUS
<1>5. MyActuatorScan(s) = first \o FlattenSeq(f) \o last
  BY DEF MyActuatorScan, Each
<1> HIDE DEF f, first, last
<1>6. FlattenSeq(f) \in Seq(Unhosted)
  BY <1>1, <1>3, <1>4, EachIn
<1> QED
  BY <1>2, <1>5, <1>6, Framed

LEMMA WsMyActuatorScanIs ==
  ASSUME NEW s \in Setups
  PROVE  WsMyActuatorScan(s) \in Seq(Unhosted)
<1> DEFINE f == [k \in DOMAIN s.ids |-> <<TryAdd(s.ids[k], 576 + s.ids[k]), Probe(s.ids[k], 0, "version")>>]
           first == <<Open("myactuator")>>
           last == <<Close>>
<1>1. s.ids \in Seq(Nat) /\ "myactuator" \in Vendors
  BY SetupFields DEF Vendors
<1>2. first \in Seq(Unhosted) /\ last \in Seq(Unhosted)
  <2>1. Open("myactuator") \in Unhosted /\ Close \in Unhosted
    BY <1>1, UnhostedSteps
  <2> QED
    BY <2>1
<1>3. ASSUME NEW k \in DOMAIN s.ids PROVE f[k] \in Seq(Unhosted)
  <2>1. s.ids[k] \in Nat /\ 576 + s.ids[k] \in Nat
    BY <1>1, ElementOfSeq
  <2>2. Probe(s.ids[k], 0, "version") \in Unhosted /\ TryAdd(s.ids[k], 576 + s.ids[k]) \in Unhosted
    BY <2>1, UnhostedSteps, SomeWhats
  <2> QED
    BY <2>2
<1>4. f = [k \in DOMAIN s.ids |-> f[k]]
  OBVIOUS
<1>5. WsMyActuatorScan(s) = first \o FlattenSeq(f) \o last
  BY DEF WsMyActuatorScan, Each
<1> HIDE DEF f, first, last
<1>6. FlattenSeq(f) \in Seq(Unhosted)
  BY <1>1, <1>3, <1>4, EachIn
<1> QED
  BY <1>2, <1>5, <1>6, Framed

LEMMA HexfellowScanIs ==
  ASSUME NEW s \in Setups
  PROVE  HexfellowScan(s) \in Seq(Unhosted)
<1> DEFINE f == [k \in DOMAIN s.ids |-> <<Probe(s.ids[k], 0, "sdo"), Probe(s.ids[k], 0, "sdo"), Probe(s.ids[k], 0, "sdo"), Probe(s.ids[k], 0, "sdo")>>]
           first == <<Open("hexfellow"), Send(0, "query")>>
           last == <<Close>>
<1>1. s.ids \in Seq(Nat) /\ "hexfellow" \in Vendors
  BY SetupFields DEF Vendors
<1>2. first \in Seq(Unhosted) /\ last \in Seq(Unhosted)
  <2>1. Open("hexfellow") \in Unhosted /\ Send(0, "query") \in Unhosted /\ Close \in Unhosted
    BY <1>1, UnhostedSteps
  <2> QED
    BY <2>1
<1>3. ASSUME NEW k \in DOMAIN s.ids PROVE f[k] \in Seq(Unhosted)
  <2>1. s.ids[k] \in Nat /\ 576 + s.ids[k] \in Nat
    BY <1>1, ElementOfSeq
  <2>2. Probe(s.ids[k], 0, "sdo") \in Unhosted
    BY <2>1, UnhostedSteps, SomeWhats
  <2> QED
    BY <2>2
<1>4. f = [k \in DOMAIN s.ids |-> f[k]]
  OBVIOUS
<1>5. HexfellowScan(s) = first \o FlattenSeq(f) \o last
  BY DEF HexfellowScan, Each
<1> HIDE DEF f, first, last
<1>6. FlattenSeq(f) \in Seq(Unhosted)
  BY <1>1, <1>3, <1>4, EachIn
<1> QED
  BY <1>2, <1>5, <1>6, Framed

(***************************************************************************)
(* The scans that start and stop what they try.                            *)
(***************************************************************************)
LEMMA InnerSteps ==
  ASSUME NEW i \in Nat, NEW f \in Nat
  PROVE  /\ Add(i, f) \in Inner /\ TryAdd(i, f) \in Inner
         /\ \A w \in Whats \ {"feedback"} : Probe(i, f, w) \in Inner
         /\ \A w \in {"start", "stop", "param", "control"} : Post(i, w) \in Inner /\ Try(i, w) \in Inner
<1> USE DEF Inner, ScanStep, Breaks, Hears
<1>1. Add(i, f) \in Inner /\ TryAdd(i, f) \in Inner
  BY AddSteps
<1>2. \A w \in Whats \ {"feedback"} : Probe(i, f, w) \in Inner
  BY ProbeSteps
<1>3. ASSUME NEW w \in {"start", "stop", "param", "control"} PROVE Post(i, w) \in Inner /\ Try(i, w) \in Inner
  <2>1. w \in Whats /\ w \notin {"estop", "motor_id", "feedback_id"}
    BY DEF Whats
  <2>2. Post(i, w) \in Inner
    BY <2>1, SendSteps
  <2>3. Try(i, w) \in Inner
    BY <2>1, CallSteps
  <2> QED
    BY <2>2, <2>3
<1> HIDE DEF Inner, ScanStep, Breaks, Hears
<1> QED
  BY <1>1, <1>2, <1>3

LEMMA CyberScansAre ==
  ASSUME NEW s \in Setups, NEW free \in BOOLEAN
  PROVE  CyberScan(s) \in Parts({"cyberbeast"}, free) /\ WsCyberScan(s) \in Parts({"cyberbeast"}, free)
<1> DEFINE f == [k \in DOMAIN s.ids |-> <<TryAdd(s.ids[k], s.ids[k]), Probe(s.ids[k], s.ids[k], "status")>>]
           w == [k \in DOMAIN s.ids |-> <<TryAdd(s.ids[k], s.ids[k]), Post(s.ids[k], "start"),
                                          Probe(s.ids[k], s.ids[k], "status"), Post(s.ids[k], "stop")>>]
<1>1. s.ids \in Seq(Nat) /\ "cyberbeast" \in Vendors /\ "cyberbeast" \in {"cyberbeast"}
  BY SetupFields DEF Vendors
<1>2. ASSUME NEW k \in DOMAIN s.ids PROVE f[k] \in Seq(Inner) /\ w[k] \in Seq(Inner)
  <2>1. s.ids[k] \in Nat
    BY <1>1, ElementOfSeq
  <2>2. TryAdd(s.ids[k], s.ids[k]) \in Inner /\ Probe(s.ids[k], s.ids[k], "status") \in Inner
    BY <2>1, InnerSteps, SomeWhats
  <2>3. Post(s.ids[k], "start") \in Inner /\ Post(s.ids[k], "stop") \in Inner
    BY <2>1, InnerSteps
  <2> QED
    BY <2>2, <2>3
<1>3. f = [k \in DOMAIN s.ids |-> f[k]] /\ w = [k \in DOMAIN s.ids |-> w[k]]
  OBVIOUS
<1>4. CyberScan(s) = <<Open("cyberbeast")>> \o FlattenSeq(f) \o <<Shutdown>>
  BY DEF CyberScan, Each
<1>5. WsCyberScan(s) = <<Open("cyberbeast")>> \o FlattenSeq(w) \o <<Shutdown>>
  BY DEF WsCyberScan, Each
<1> HIDE DEF f, w
<1>6. FlattenSeq(f) \in Seq(Inner) /\ FlattenSeq(w) \in Seq(Inner)
  BY <1>1, <1>2, <1>3, EachIn
<1>7. Shutdown \in {Close, Shutdown}
  OBVIOUS
<1>8. <<Open("cyberbeast")>> \o FlattenSeq(f) \o <<Shutdown>> \in Parts({"cyberbeast"}, free)
  BY <1>1, <1>6, <1>7, OpenedPart
<1>9. <<Open("cyberbeast")>> \o FlattenSeq(w) \o <<Shutdown>> \in Parts({"cyberbeast"}, free)
  BY <1>1, <1>6, <1>7, OpenedPart
<1> QED
  BY <1>4, <1>5, <1>8, <1>9

LEMMA WsRobstrideScanIs ==
  ASSUME NEW s \in Setups, NEW V, NEW free \in BOOLEAN
  PROVE  WsRobstrideScan(s) \in Parts(V, free)
<1> DEFINE Tries(i, h) == <<TryAdd(i, h), Probe(i, h, "ping")>>
                            \o When("param_fallback" \in s.flags, <<Probe(i, h, "param")>>)
           f(h) == [k \in DOMAIN s.ids |-> Tries(s.ids[k], h)]
           Pass(h) == <<Open("robstride")>> \o FlattenSeq(f(h)) \o <<Close>>
           Part(h) == When("all_hosts" \notin s.flags, <<SkipIfHits("robstride", Len(Pass(h)))>>) \o Pass(h)
           g == [l \in DOMAIN s.hosts |-> Part(s.hosts[l])]
<1>1. s.ids \in Seq(Nat) /\ s.hosts \in Seq(Nat) /\ "robstride" \in Vendors
  BY SetupFields DEF Vendors
<1>2. ASSUME NEW i \in Nat, NEW h \in Nat PROVE Tries(i, h) \in Seq(Inner) /\ Tries(i, h) \in Seq(Silent)
  <2>1. TryAdd(i, h) \in Inner /\ Probe(i, h, "ping") \in Inner /\ Probe(i, h, "param") \in Inner
    BY InnerSteps, SomeWhats
  <2>2. TryAdd(i, h) \in Silent /\ Probe(i, h, "ping") \in Silent /\ Probe(i, h, "param") \in Silent
    <3>1. TryAdd(i, h) \in Quiet /\ Probe(i, h, "ping") \in Quiet /\ Probe(i, h, "param") \in Quiet
      BY QuietSteps, SomeWhats
    <3>2. TryAdd(i, h).op = "add"
      BY AddSteps
    <3>3. Probe(i, h, "ping").what = "ping" /\ Probe(i, h, "param").what = "param"
      BY ProbeSteps, SomeWhats
    <3> QED
      BY <3>1, <3>2, <3>3 DEF Silent, Hears
  <2>3. /\ <<TryAdd(i, h), Probe(i, h, "ping")>> \in Seq(Inner)
        /\ When("param_fallback" \in s.flags, <<Probe(i, h, "param")>>) \in Seq(Inner)
    BY <2>1 DEF When
  <2>4. /\ <<TryAdd(i, h), Probe(i, h, "ping")>> \in Seq(Silent)
        /\ When("param_fallback" \in s.flags, <<Probe(i, h, "param")>>) \in Seq(Silent)
    BY <2>2 DEF When
  <2> QED
    BY <2>3, <2>4, ConcatProperties
<1> HIDE DEF Tries
<1>3. ASSUME NEW h \in Nat
      PROVE  Pass(h) \in Parts(V, free) /\ Len(Pass(h)) \in Nat \ {0} /\ Pass(h)[Len(Pass(h))] = Close
  <2>1. \A k \in DOMAIN s.ids : s.ids[k] \in Nat
    BY <1>1, ElementOfSeq
  <2>2. \A k \in DOMAIN s.ids : f(h)[k] \in Seq(Inner) /\ f(h)[k] \in Seq(Silent)
    BY <1>2, <2>1
  <2>3. f(h) = [k \in DOMAIN s.ids |-> f(h)[k]]
    OBVIOUS
  <2> HIDE DEF f
  <2>4. FlattenSeq(f(h)) \in Seq(Inner) /\ FlattenSeq(f(h)) \in Seq(Silent)
    BY <1>1, <2>2, <2>3, EachIn
  <2>5. <<Open("robstride")>> \in Seq(Silent) /\ <<Close>> \in Seq(Silent)
    <3>1. Open("robstride") \in Silent /\ Close \in Silent
      BY <1>1, QuietSteps, OpenSteps, PlainSteps DEF Silent, Hears
    <3> QED
      BY <3>1
  <2>6. Pass(h) \in Seq(Silent)
    BY <2>4, <2>5, Framed
  <2>7. Pass(h) \in Parts(V, free)
    <3>1. Silent \subseteq Quiet
      BY DEF Silent
    <3>2. Pass(h) \in Seq(Quiet)
      BY <2>6, <3>1, SeqMonotonic
    <3> HIDE DEF Pass
    <3> QED
      BY <2>6, <3>2, QuietParts
  <2>8. Close \in {Close, Shutdown} /\ "robstride" \in {"robstride"}
    OBVIOUS
  <2>9. Len(Pass(h)) \in Nat \ {0} /\ Pass(h)[Len(Pass(h))] = Close
    BY <1>1, <2>4, <2>8, OpenedPart
  <2> QED
    BY <2>7, <2>9
<1> HIDE DEF f
<1>4. WsRobstrideScan(s) = FlattenSeq(g)
  BY DEF WsRobstrideScan, Each, f, Tries
<1> HIDE DEF Pass
<1>5. ASSUME NEW h \in Nat PROVE Part(h) \in Parts(V, free)
  <2> DEFINE n == Len(Pass(h))
             st == SkipIfHits("robstride", n)
  <2>1. st \in ScanStep /\ st.op = "skip_if_hits" /\ st.arg = n
    <3>1. n \in Nat
      BY <1>3
    <3> QED
      BY <1>1, <3>1, TurnSteps DEF ScanStep
  <2> HIDE DEF st
  <2>2. Pass(h)[st.arg].op = "close" /\ st.arg \in 1..Len(Pass(h))
    <3>1. n \in Nat \ {0} /\ Pass(h)[n] = Close /\ Close.op = "close"
      BY <1>3, PlainSteps
    <3> QED
      BY <2>1, <3>1
  <2>3. Pass(h) \in Parts(V, free)
    BY <1>3
  <2>4. <<st>> \o Pass(h) \in Parts(V, free)
    BY <2>1, <2>2, <2>3, JumpBefore
  <2>5. <<>> \o Pass(h) = Pass(h)
    BY <2>3, ConcatEmptySeq DEF Parts
  <2>6. Part(h) = <<st>> \o Pass(h) \/ Part(h) = <<>> \o Pass(h)
    BY DEF When, st
  <2> QED
    BY <2>3, <2>4, <2>5, <2>6
<1> HIDE DEF Part
<1>6. \A l \in DOMAIN s.hosts : g[l] \in Parts(V, free)
  <2> SUFFICES ASSUME NEW l \in DOMAIN s.hosts PROVE g[l] \in Parts(V, free)
    OBVIOUS
  <2>1. s.hosts[l] \in Nat
    BY <1>1, ElementOfSeq
  <2> QED
    BY <1>5, <2>1
<1>7. g = [l \in DOMAIN s.hosts |-> g[l]]
  OBVIOUS
<1> HIDE DEF g
<1>8. FlattenSeq(g) \in Parts(V, free)
  BY <1>1, <1>6, <1>7, EachPart
<1> QED
  BY <1>4, <1>8

(***************************************************************************)
(* A Damiao scan tries the registers of an id under every hint before it   *)
(* tries its feedback, so what it asks for feedback it has added before.   *)
(***************************************************************************)
Calm == {st \in ScanStep : st.op \notin Breaks}

(* Tries of one id: feedback is asked of what was added just before.       *)
Tries(i, what) ==
  {q \in Seq(Calm) : \A k \in 1..Len(q) : Hears(q[k]) =>
     /\ what = "feedback" /\ q[k].unfound /\ q[k].id = i
     /\ k - 1 \in 1..Len(q) /\ Adds(q, k - 1, i)}
Adding(i, what) == {q \in Tries(i, what) : \E l \in 1..Len(q) : Adds(q, l, i)}

Twice ==
  {q \in Seq(Calm) : \A k \in 1..Len(q) : Hears(q[k]) =>
     /\ q[k].unfound /\ k - 1 \in 1..Len(q) /\ Adds(q, k - 1, q[k].id)
     /\ \E l \in 1..(k - 2) : Adds(q, l, q[k].id)}

LEMMA CalmConcat ==
  ASSUME NEW a \in Seq(Calm), NEW b \in Seq(Calm)
  PROVE  /\ a \o b \in Seq(Calm) /\ Len(a) \in Nat /\ Len(b) \in Nat /\ Len(a \o b) = Len(a) + Len(b)
         /\ \A i \in 1..Len(a) : i \in 1..Len(a \o b) /\ (a \o b)[i] = a[i]
         /\ \A i \in 1..Len(b) : i + Len(a) \in 1..Len(a \o b) /\ (a \o b)[i + Len(a)] = b[i]
         /\ \A i \in 1..Len(a \o b) : i \in 1..Len(a) \/ (i - Len(a) \in 1..Len(b) /\ i = (i - Len(a)) + Len(a))
<1>1. Calm \subseteq ScanStep
  BY DEF Calm
<1>2. a \in Seq(ScanStep) /\ b \in Seq(ScanStep)
  BY <1>1, SeqMonotonic
<1>3. a \o b \in Seq(Calm)
  BY ConcatProperties
<1> QED
  BY ONLY <1>2, <1>3, ScanConcat

LEMMA AddingJoin ==
  ASSUME NEW i, NEW what, NEW a \in Adding(i, what), NEW b \in Adding(i, what)
  PROVE  a \o b \in Adding(i, what)
<1> DEFINE c == a \o b
           n == Len(a)
<1>1. a \in Seq(Calm) /\ b \in Seq(Calm)
  BY DEF Adding, Tries
<1>2. /\ c \in Seq(Calm) /\ n \in Nat /\ Len(b) \in Nat /\ Len(c) = n + Len(b)
      /\ \A k \in 1..n : k \in 1..Len(c) /\ c[k] = a[k]
      /\ \A k \in 1..Len(b) : k + n \in 1..Len(c) /\ c[k + n] = b[k]
      /\ \A k \in 1..Len(c) : k \in 1..n \/ (k - n \in 1..Len(b) /\ k = (k - n) + n)
  BY <1>1, CalmConcat
<1> HIDE DEF c
<1>3. ASSUME NEW k \in 1..Len(c), Hears(c[k])
      PROVE  /\ what = "feedback" /\ c[k].unfound /\ c[k].id = i
             /\ k - 1 \in 1..Len(c) /\ Adds(c, k - 1, i)
  <2>1. CASE k \in 1..n
    <3>1. /\ what = "feedback" /\ a[k].unfound /\ a[k].id = i
          /\ k - 1 \in 1..n /\ Adds(a, k - 1, i)
      BY <1>2, <1>3, <2>1 DEF Adding, Tries
    <3> HIDE DEF n
    <3> QED
      BY <1>2, <2>1, <3>1 DEF Adds
  <2>2. CASE k - n \in 1..Len(b) /\ k = (k - n) + n
    <3> DEFINE l == k - n
    <3>1. l \in 1..Len(b) /\ c[k] = b[l]
      BY <1>2, <2>2
    <3>2. /\ what = "feedback" /\ b[l].unfound /\ b[l].id = i
          /\ l - 1 \in 1..Len(b) /\ Adds(b, l - 1, i)
      BY <1>3, <3>1 DEF Adding, Tries
    <3>3. k - 1 = (l - 1) + n
      BY <1>2
    <3> HIDE DEF n, l
    <3> QED
      BY <1>2, <3>1, <3>2, <3>3 DEF Adds
  <2> QED
    BY <1>2, <2>1, <2>2
<1>4. \E l \in 1..Len(c) : Adds(c, l, i)
  <2>1. PICK l \in 1..n : Adds(a, l, i)
    BY DEF Adding
  <2>2. l \in 1..Len(c) /\ Adds(c, l, i)
    BY <1>2, <2>1 DEF Adds
  <2> QED
    BY <2>2
<1>5. c \in Adding(i, what)
  BY <1>2, <1>3, <1>4 DEF Adding, Tries
<1> QED
  BY <1>5 DEF c

LEMMA TriedTwice ==
  ASSUME NEW i, NEW a \in Adding(i, "regs"), NEW b \in Adding(i, "feedback")
  PROVE  a \o b \in Twice
<1> DEFINE c == a \o b
           n == Len(a)
<1>1. a \in Seq(Calm) /\ b \in Seq(Calm)
  BY DEF Adding, Tries
<1>2. /\ c \in Seq(Calm) /\ n \in Nat /\ Len(b) \in Nat /\ Len(c) = n + Len(b)
      /\ \A k \in 1..n : k \in 1..Len(c) /\ c[k] = a[k]
      /\ \A k \in 1..Len(b) : k + n \in 1..Len(c) /\ c[k + n] = b[k]
      /\ \A k \in 1..Len(c) : k \in 1..n \/ (k - n \in 1..Len(b) /\ k = (k - n) + n)
  BY <1>1, CalmConcat
<1> HIDE DEF c
<1>3. PICK l \in 1..n : Adds(a, l, i)
  BY DEF Adding
<1>4. ASSUME NEW k \in 1..Len(c), Hears(c[k])
      PROVE  /\ c[k].unfound /\ k - 1 \in 1..Len(c) /\ Adds(c, k - 1, c[k].id)
             /\ \E j \in 1..(k - 2) : Adds(c, j, c[k].id)
  <2>1. k \notin 1..n
    BY <1>2, <1>4 DEF Adding, Tries
  <2> DEFINE m == k - n
  <2>2. m \in 1..Len(b) /\ c[k] = b[m]
    BY <1>2, <2>1
  <2>3. /\ b[m].unfound /\ b[m].id = i /\ m - 1 \in 1..Len(b) /\ Adds(b, m - 1, i)
    BY <1>4, <2>2 DEF Adding, Tries
  <2>4. k - 1 = (m - 1) + n /\ l \in 1..(k - 2)
    BY <1>2, <1>3, <2>3
  <2> HIDE DEF n, m
  <2>5. Adds(c, k - 1, i) /\ k - 1 \in 1..Len(c) /\ Adds(c, l, i)
    BY <1>2, <1>3, <2>3, <2>4 DEF Adds
  <2> QED
    BY <2>2, <2>3, <2>4, <2>5
<1>5. c \in Twice
  BY <1>2, <1>4 DEF Twice
<1> QED
  BY <1>5 DEF c

LEMMA TwiceJoin ==
  ASSUME NEW a \in Twice, NEW b \in Twice
  PROVE  a \o b \in Twice
<1> DEFINE c == a \o b
           n == Len(a)
<1>1. a \in Seq(Calm) /\ b \in Seq(Calm)
  BY DEF Twice
<1>2. /\ c \in Seq(Calm) /\ n \in Nat /\ Len(b) \in Nat /\ Len(c) = n + Len(b)
      /\ \A k \in 1..n : k \in 1..Len(c) /\ c[k] = a[k]
      /\ \A k \in 1..Len(b) : k + n \in 1..Len(c) /\ c[k + n] = b[k]
      /\ \A k \in 1..Len(c) : k \in 1..n \/ (k - n \in 1..Len(b) /\ k = (k - n) + n)
  BY <1>1, CalmConcat
<1> HIDE DEF c
<1>3. ASSUME NEW k \in 1..Len(c), Hears(c[k])
      PROVE  /\ c[k].unfound /\ k - 1 \in 1..Len(c) /\ Adds(c, k - 1, c[k].id)
             /\ \E l \in 1..(k - 2) : Adds(c, l, c[k].id)
  <2>1. CASE k \in 1..n
    <3>1. a[k].unfound /\ k - 1 \in 1..n /\ Adds(a, k - 1, a[k].id) /\ \E l \in 1..(k - 2) : Adds(a, l, a[k].id)
      BY <1>2, <1>3, <2>1 DEF Twice
    <3>2. PICK l \in 1..(k - 2) : Adds(a, l, a[k].id)
      BY <3>1
    <3>3. l \in 1..n
      BY <1>2, <2>1, <3>2
    <3> HIDE DEF n
    <3>4. c[k].unfound /\ k - 1 \in 1..Len(c) /\ Adds(c, k - 1, c[k].id) /\ Adds(c, l, c[k].id)
      BY <1>2, <2>1, <3>1, <3>2, <3>3 DEF Adds
    <3> QED
      BY <3>2, <3>4
  <2>2. CASE k - n \in 1..Len(b) /\ k = (k - n) + n
    <3> DEFINE m == k - n
    <3>1. m \in 1..Len(b) /\ c[k] = b[m]
      BY <1>2, <2>2
    <3>2. b[m].unfound /\ m - 1 \in 1..Len(b) /\ Adds(b, m - 1, b[m].id) /\ \E l \in 1..(m - 2) : Adds(b, l, b[m].id)
      BY <1>3, <3>1 DEF Twice
    <3>3. PICK l \in 1..(m - 2) : Adds(b, l, b[m].id)
      BY <3>2
    <3>4. k - 1 = (m - 1) + n /\ l \in 1..Len(b) /\ l + n \in 1..(k - 2)
      BY <1>2, <3>1, <3>3
    <3> HIDE DEF n, m
    <3>5. c[k].unfound /\ k - 1 \in 1..Len(c) /\ Adds(c, k - 1, c[k].id) /\ Adds(c, l + n, c[k].id)
      BY <1>2, <3>1, <3>2, <3>3, <3>4 DEF Adds
    <3> QED
      BY <3>4, <3>5
  <2> QED
    BY <1>2, <2>1, <2>2
<1>4. c \in Twice
  BY <1>2, <1>3 DEF Twice
<1> QED
  BY <1>4 DEF c

LEMMA TwiceSettles ==
  ASSUME NEW v \in Vendors, NEW body \in Twice
  PROVE  Settled(<<Open(v)>> \o body \o <<Close>>)
<1> DEFINE first == <<Open(v)>>
           last == <<Close>>
           c == first \o body \o last
           n == Len(body)
<1>1. /\ Open(v) \in ScanStep /\ Open(v).op = "open" /\ Open(v).must /\ ~Open(v).unfound
      /\ Close \in ScanStep /\ Close.op = "close"
  BY OpenSteps, PlainSteps DEF ScanStep
<1>2. /\ first \in Seq(ScanStep) /\ last \in Seq(ScanStep) /\ body \in Seq(ScanStep)
      /\ Len(first) = 1 /\ first[1] = Open(v) /\ Len(last) = 1 /\ last[1] = Close
  <2>1. Calm \subseteq ScanStep
    BY DEF Calm
  <2>2. body \in Seq(ScanStep)
    BY <2>1, SeqMonotonic DEF Twice
  <2> QED
    BY <1>1, <2>2
<1> HIDE DEF first, last
<1>3. /\ n \in Nat /\ Len(c) = 2 + n /\ c[1] = Open(v) /\ c[2 + n] = Close
      /\ \A k \in 1..n : c[k + 1] = body[k]
  <2>1. /\ first \o body \in Seq(ScanStep) /\ Len(first \o body) = 1 + n /\ n \in Nat
        /\ (first \o body)[1] = Open(v) /\ \A k \in 1..n : (first \o body)[k + 1] = body[k] /\ k + 1 \in 1..(1 + n)
    <3>1. /\ first \o body \in Seq(ScanStep) /\ Len(first) \in Nat /\ Len(body) \in Nat
          /\ Len(first \o body) = Len(first) + Len(body)
          /\ \A i \in 1..Len(first) : (first \o body)[i] = first[i]
          /\ \A i \in 1..Len(body) : (first \o body)[i + Len(first)] = body[i]
      BY ONLY <1>2, ScanConcat
    <3>2. 1 \in 1..Len(first)
      BY <1>2
    <3> QED
      BY <1>2, <3>1, <3>2
  <2>2. /\ Len(c) = (1 + n) + 1 /\ \A i \in 1..(1 + n) : c[i] = (first \o body)[i]
        /\ c[1 + (1 + n)] = last[1]
    <3> DEFINE d == first \o body
    <3>1. d \in Seq(ScanStep) /\ Len(d) = 1 + n
      BY <2>1
    <3> HIDE DEF d
    <3>2. /\ Len(d \o last) = Len(d) + Len(last)
          /\ \A i \in 1..Len(d) : (d \o last)[i] = d[i]
          /\ \A i \in 1..Len(last) : (d \o last)[i + Len(d)] = last[i]
      BY ONLY <1>2, <3>1, ScanConcat
    <3>3. 1 \in 1..Len(last)
      BY <1>2
    <3> QED
      BY <1>2, <3>1, <3>2, <3>3 DEF d
  <2>3. 1 + (1 + n) = 2 + n /\ (1 + n) + 1 = 2 + n /\ 1 \in 1..(1 + n)
    BY <2>1
  <2> QED
    BY <1>2, <2>1, <2>2, <2>3
<1> HIDE DEF c
<1>4. ASSUME NEW k \in 1..Len(c), Hears(c[k]) PROVE Again(c, k)
  <2> DEFINE m == k - 1
  <2>1. k # 1 /\ k # 2 + n
    BY <1>1, <1>3, <1>4 DEF Hears
  <2>2. m \in 1..n /\ k = m + 1 /\ c[k] = body[m]
    BY <1>3, <2>1
  <2>3. /\ body[m].unfound /\ m - 1 \in 1..n /\ Adds(body, m - 1, body[m].id)
        /\ \E l \in 1..(m - 2) : Adds(body, l, body[m].id)
    BY <1>4, <2>2 DEF Twice
  <2>4. PICK l \in 1..(m - 2) : Adds(body, l, body[m].id)
    BY <2>3
  <2>5. /\ l \in 1..n /\ l + 1 \in 2..(k - 2) /\ k - 1 = (m - 1) + 1 /\ k - 1 \in 1..Len(c) /\ 1 \in 1..(k - 1)
    BY <1>3, <2>2, <2>3, <2>4
  <2>6. \A i \in 2..k : i - 1 \in 1..n /\ i = (i - 1) + 1
    BY <1>3, <2>2
  <2>7. \A i \in 2..k : c[i] \in Calm
    <3>1. body \in Seq(Calm)
      BY DEF Twice
    <3>2. \A i \in 2..k : c[i] = body[i - 1] /\ i - 1 \in 1..n
      BY <1>3, <2>6
    <3> QED
      BY <3>1, <3>2, ElementOfSeq
  <2> HIDE DEF m, n
  <2>8. OpenedBy(c, 1, k)
    BY <1>1, <1>3, <2>7 DEF OpenedBy, Calm
  <2>9. c[k].unfound /\ Adds(c, k - 1, c[k].id) /\ Adds(c, l + 1, c[k].id)
    BY <1>3, <2>2, <2>3, <2>4, <2>5 DEF Adds
  <2>10. \E i \in 2..(k - 2) : Adds(c, i, c[k].id)
    BY <2>5, <2>9
  <2>11. 1 + 1 = 2
    OBVIOUS
  <2> QED
    BY <2>5, <2>8, <2>9, <2>10, <2>11 DEF Again
<1> QED
  BY <1>4 DEF Settled, c, first, last

LEMMA HintsNotEmpty == \A base, i \in Nat : FeedbackHints(base, i) # <<>>
<1> SUFFICES ASSUME NEW base \in Nat, NEW i \in Nat PROVE FeedbackHints(base, i) # <<>>
  OBVIOUS
<1> DEFINE Added(hints, f) == IF f \in ToSet(hints) THEN hints ELSE Append(hints, f)
<1>1. ASSUME NEW hints \in Seq(Nat) \ {<<>>}, NEW f \in Nat PROVE Added(hints, f) \in Seq(Nat) \ {<<>>}
  OBVIOUS
<1>2. <<i + 16>> \in Seq(Nat) \ {<<>>}
  OBVIOUS
<1>3. FeedbackHints(base, i) = Added(Added(Added(<<i + 16>>, base), 17), 23)
  BY DEF FeedbackHints
<1> HIDE DEF Added
<1>4. Added(<<i + 16>>, base) \in Seq(Nat) \ {<<>>}
  BY <1>1, <1>2
<1>5. Added(Added(<<i + 16>>, base), 17) \in Seq(Nat) \ {<<>>}
  BY <1>1, <1>4
<1> QED
  BY <1>1, <1>3, <1>5

LEMMA OnePair ==
  ASSUME NEW i \in Nat, NEW f \in Nat, NEW what \in Whats
  PROVE  <<TryAdd(i, f), Probe(i, f, what)>> \in Adding(i, what)
<1> DEFINE a == TryAdd(i, f)
           b == Probe(i, f, what)
           q == <<a, b>>
<1>1. a \in StepType /\ a.op = "add" /\ a.id = i
  BY AddSteps
<1>2. b \in StepType /\ b.op = "probe" /\ b.id = i /\ b.what = what
  BY ProbeSteps
<1>3. b.unfound
  BY DEF Probe, Step
<1> HIDE DEF a, b
<1>4. a \in Calm /\ b \in Calm
  BY <1>1, <1>2 DEF Calm, ScanStep, Breaks
<1>5. q \in Seq(Calm) /\ Len(q) = 2 /\ q[1] = a /\ q[2] = b
  BY <1>4
<1> HIDE DEF q
<1>6. Adds(q, 1, i)
  BY <1>1, <1>5 DEF Adds
<1>7. ASSUME NEW k \in 1..Len(q), Hears(q[k])
      PROVE  /\ what = "feedback" /\ q[k].unfound /\ q[k].id = i
             /\ k - 1 \in 1..Len(q) /\ Adds(q, k - 1, i)
  <2>1. k = 2
    BY <1>1, <1>5, <1>7 DEF Hears
  <2>2. q[k] = b /\ k - 1 = 1 /\ 1 \in 1..Len(q)
    BY <1>5, <2>1
  <2>3. what = "feedback"
    BY <1>2, <1>7, <2>2 DEF Hears
  <2>4. q[k].unfound /\ q[k].id = i
    BY <1>2, <1>3, <2>2
  <2>5. k - 1 \in 1..Len(q) /\ Adds(q, k - 1, i)
    BY <1>6, <2>2
  <2> QED
    BY <2>3, <2>4, <2>5
<1>8. q \in Adding(i, what)
  <2>1. q \in Tries(i, what)
    BY <1>5, <1>7 DEF Tries
  <2>2. \E l \in 1..Len(q) : Adds(q, l, i)
    BY <1>5, <1>6
  <2> QED
    BY <2>1, <2>2 DEF Adding
<1> QED
  BY <1>8 DEF q, a, b

(* With no model to try, an id is not tried at all. *)
LEMMA CandidatesAdd ==
  ASSUME NEW s \in Setups, NEW what \in Whats, NEW k \in DOMAIN s.ids
  PROVE  IF ScanModels = <<>> THEN DamiaoCandidates(s, what)[s.ids[k]] = <<>>
         ELSE DamiaoCandidates(s, what)[s.ids[k]] \in Adding(s.ids[k], what)
<1> DEFINE i == s.ids[k]
           hints == FeedbackHints(s.fid, i)
           Inner1(f) == [l \in DOMAIN ScanModels |-> <<TryAdd(i, f), Probe(i, f, what)>>]
           outer == [l \in DOMAIN hints |-> FlattenSeq(Inner1(hints[l]))]
           G == IF ScanModels = <<>> THEN {<<>>} ELSE Adding(i, what)
<1>1. s.ids \in Seq(Nat) /\ s.fid \in Nat /\ i \in Nat /\ i \in ToSet(s.ids)
  BY SetupFields, ElementOfSeq DEF ToSet
<1>2. hints \in Seq(Nat) /\ hints # <<>> /\ ScanModels \in Seq(STRING)
  BY <1>1, HintsAre, HintsNotEmpty, CommandAssumption
<1>3. \A a, b \in G : a \o b \in G
  <2>1. <<>> \o <<>> = <<>>
    OBVIOUS
  <2> QED
    BY <2>1, AddingJoin
<1> HIDE DEF G
<1>4. ASSUME NEW f \in Nat PROVE FlattenSeq(Inner1(f)) \in G
  <2>1. CASE ScanModels = <<>>
    <3>1. Inner1(f) = <<>>
      BY <2>1
    <3>2. FlattenSeq(<<>>) = <<>>
      BY DEF FlattenSeq
    <3> QED
      BY <2>1, <3>1, <3>2 DEF G
  <2>2. CASE ScanModels # <<>>
    <3>1. <<TryAdd(i, f), Probe(i, f, what)>> \in G
      BY <1>1, <2>2, OnePair DEF G
    <3>2. DOMAIN ScanModels = 1..Len(ScanModels) /\ Len(ScanModels) \in Nat \ {0}
      BY <1>2, <2>2, LenProperties, EmptySeq
    <3>3. Inner1(f) \in Seq(G) /\ Len(Inner1(f)) = Len(ScanModels)
      BY <3>1, <3>2
    <3> HIDE DEF Inner1
    <3>4. Inner1(f) # <<>>
      BY <3>2, <3>3
    <3> QED
      BY <1>3, <3>3, <3>4, FlattenCloses
  <2> QED
    BY <2>1, <2>2
<1>5. outer \in Seq(G) /\ outer # <<>>
  <2>1. DOMAIN hints = 1..Len(hints) /\ Len(hints) \in Nat \ {0}
    BY <1>2, LenProperties, EmptySeq
  <2>2. \A l \in DOMAIN hints : hints[l] \in Nat
    BY <1>2, ElementOfSeq
  <2>3. \A l \in DOMAIN hints : outer[l] \in G
    BY <1>4, <2>2
  <2>4. outer = [l \in 1..Len(hints) |-> outer[l]]
    BY <2>1
  <2> HIDE DEF outer, hints
  <2>5. outer \in Seq(G) /\ Len(outer) = Len(hints)
    BY <2>1, <2>3, <2>4
  <2> QED
    BY <2>1, <2>5
<1>6. DamiaoCandidates(s, what)[i] = FlattenSeq(outer)
  BY <1>1 DEF DamiaoCandidates, Each
<1> HIDE DEF outer
<1>7. FlattenSeq(outer) \in G
  BY <1>3, <1>5, FlattenCloses
<1> QED
  BY <1>6, <1>7 DEF G

LEMMA DamiaoScanSettles ==
  ASSUME NEW s \in Setups
  PROVE  /\ Settled(DamiaoScan(s))
         /\ "dm_device" \notin s.flags => Settled(WsDamiaoScan(s))
<1> DEFINE R(k) == DamiaoRegisterTries(s)[s.ids[k]]
           F(k) == DamiaoFeedbackTries(s)[s.ids[k]]
           f == [k \in DOMAIN s.ids |-> R(k) \o F(k)]
           w == [k \in DOMAIN s.ids |-> When("dm_device" \notin s.flags, R(k)) \o F(k)]
<1>1. s.ids \in Seq(Nat) /\ "damiao" \in Vendors
  BY SetupFields DEF Vendors
<1>2. <<>> \in Twice
  BY DEF Twice
<1>3. ASSUME NEW k \in DOMAIN s.ids PROVE R(k) \o F(k) \in Twice
  <2>1. R(k) = DamiaoCandidates(s, "regs")[s.ids[k]] /\ F(k) = DamiaoCandidates(s, "feedback")[s.ids[k]]
    BY DEF DamiaoRegisterTries, DamiaoFeedbackTries
  <2>2. IF ScanModels = <<>> THEN R(k) = <<>> ELSE R(k) \in Adding(s.ids[k], "regs")
    BY <2>1, CandidatesAdd, SomeWhats
  <2>3. IF ScanModels = <<>> THEN F(k) = <<>> ELSE F(k) \in Adding(s.ids[k], "feedback")
    BY <2>1, CandidatesAdd, SomeWhats
  <2>4. <<>> \o <<>> = <<>>
    OBVIOUS
  <2> HIDE DEF R, F
  <2> QED
    BY <1>2, <2>2, <2>3, <2>4, TriedTwice
<1>4. f \in Seq(Twice)
  <2>1. DOMAIN s.ids = 1..Len(s.ids) /\ Len(s.ids) \in Nat
    BY <1>1, LenProperties
  <2> HIDE DEF R, F
  <2> QED
    BY <1>3, <2>1
<1>5. \A a, b \in Twice : a \o b \in Twice
  BY TwiceJoin
<1>6. DamiaoScan(s) = <<Open("damiao")>> \o FlattenSeq(f) \o <<Close>>
  BY DEF DamiaoScan, Each
<1>7. "dm_device" \notin s.flags => w = f
  BY DEF When
<1>8. WsDamiaoScan(s) = <<Open("damiao")>> \o FlattenSeq(w) \o <<Close>>
  BY DEF WsDamiaoScan, Each
<1> HIDE DEF f, w
<1>9. FlattenSeq(f) \in Twice
  BY <1>2, <1>4, <1>5, FlattenCloses
<1>10. Settled(<<Open("damiao")>> \o FlattenSeq(f) \o <<Close>>)
  BY <1>1, <1>9, TwiceSettles
<1> QED
  BY <1>6, <1>7, <1>8, <1>10

LEMMA DamiaoParts ==
  ASSUME NEW s \in Setups, NEW V, NEW free \in BOOLEAN
  PROVE  /\ DamiaoScan(s) \in Parts(V, free)
         /\ free \/ "dm_device" \notin s.flags => WsDamiaoScan(s) \in Parts(V, free)
<1>1. DamiaoScan(s) \in Seq(Quiet) /\ WsDamiaoScan(s) \in Seq(Quiet)
  <2>1. QuietOf("damiao") \subseteq Quiet
    BY DEF QuietOf
  <2> QED
    BY <2>1, DamiaoScanIs, SeqMonotonic
<1>2. DamiaoScan(s) \in Parts(V, TRUE) /\ WsDamiaoScan(s) \in Parts(V, TRUE)
  BY <1>1, QuietParts
<1> QED
  BY <1>2, DamiaoScanSettles DEF Parts

LEMMA QuietLists ==
  /\ \A v : Seq(QuietOf(v)) \subseteq Seq(Quiet)
  /\ Seq(Unhosted) \subseteq Seq(Quiet)
  /\ \A V : /\ Seq(Quiet) \subseteq Parts(V, TRUE)
            /\ \A free \in BOOLEAN : /\ Seq(Unhosted) \subseteq Parts(V, free)
                                      /\ Seq(QuietOf("robstride")) \subseteq Parts(V, free)
<1>1. ASSUME NEW v PROVE Seq(QuietOf(v)) \subseteq Seq(Quiet)
  <2>1. QuietOf(v) \subseteq Quiet
    BY DEF QuietOf
  <2> QED
    BY <2>1, SeqMonotonic
<1>2. Seq(Unhosted) \subseteq Seq(Quiet) /\ Seq(Unhosted) \subseteq Seq(Silent)
  <2>1. Unhosted \subseteq Quiet /\ Unhosted \subseteq Silent
    BY DEF Unhosted, Silent
  <2> QED
    BY <2>1, SeqMonotonic
<1>3. Seq(QuietOf("robstride")) \subseteq Seq(Silent)
  <2>1. QuietOf("robstride") \subseteq Silent
    BY DEF QuietOf, Silent
  <2> QED
    BY <2>1, SeqMonotonic
<1>4. \A V : Seq(Quiet) \subseteq Parts(V, TRUE)
  BY QuietParts
<1>5. ASSUME NEW V, NEW free \in BOOLEAN
      PROVE  Seq(Unhosted) \subseteq Parts(V, free) /\ Seq(QuietOf("robstride")) \subseteq Parts(V, free)
  BY <1>1, <1>2, <1>3, QuietParts
<1> QED
  BY <1>1, <1>2, <1>4, <1>5

LEMMA WsScansAre ==
  ASSUME NEW s \in Setups, NEW v \in ScanVendors, NEW free \in BOOLEAN, "dm_device" \in s.flags => free
  PROVE  WsScan(s, v) \in Parts({"cyberbeast"}, free)
<1>1. CASE v = "damiao"
  <2>1. WsScan(s, v) = WsDamiaoScan(s)
    BY <1>1 DEF WsScan
  <2> QED
    BY <2>1, DamiaoParts
<1>2. CASE v = "robstride"
  <2>1. WsScan(s, v) = WsRobstrideScan(s)
    BY <1>2 DEF WsScan
  <2> QED
    BY <2>1, WsRobstrideScanIs
<1>3. CASE v = "hexfellow"
  <2>1. WsScan(s, v) = HexfellowScan(s)
    BY <1>3 DEF WsScan
  <2> QED
    BY <2>1, HexfellowScanIs, QuietLists
<1>4. CASE v = "myactuator"
  <2>1. WsScan(s, v) = WsMyActuatorScan(s)
    BY <1>4 DEF WsScan
  <2> QED
    BY <2>1, WsMyActuatorScanIs, QuietLists
<1>5. CASE v = "hightorque"
  <2>1. WsScan(s, v) = HighTorqueScan(s)
    BY <1>5 DEF WsScan
  <2> QED
    BY <2>1, HighTorqueScanIs, QuietLists
<1>6. CASE v = "cyberbeast"
  <2>1. WsScan(s, v) = WsCyberScan(s)
    BY <1>6 DEF WsScan
  <2> QED
    BY <2>1, CyberScansAre
<1> QED
  BY <1>1, <1>2, <1>3, <1>4, <1>5, <1>6 DEF ScanVendors

LEMMA WsBatchIs ==
  ASSUME NEW s \in Setups, s.batch \in Seq(ScanVendors), NEW free \in BOOLEAN, "dm_device" \in s.flags => free
  PROVE  WsBatchScan(s) \in Parts({"cyberbeast"}, free)
<1> DEFINE f == [k \in DOMAIN s.batch |-> Attempt(WsScan(s, s.batch[k]))]
<1>1. ASSUME NEW k \in DOMAIN s.batch PROVE f[k] \in Parts({"cyberbeast"}, free)
  <2>1. s.batch[k] \in ScanVendors
    BY ElementOfSeq
  <2> QED
    BY <2>1, WsScansAre, AttemptPart
<1>2. f = [k \in DOMAIN s.batch |-> f[k]] /\ WsBatchScan(s) = FlattenSeq(f)
  BY DEF WsBatchScan, Each
<1> HIDE DEF f
<1> QED
  BY <1>1, <1>2, EachPart

(* The pulse: no jump, and whatever answers it answers without a host id. *)
PulseStep == {st \in ScanStep : st.op \notin {"skip_if_hits", "rescue"} /\ (st.op = "probe" => st.fid = 0)}

LEMMA BlindPulseIs ==
  ASSUME NEW s \in Setups, NEW free \in BOOLEAN
  PROVE  /\ BlindPulse(s) \in Parts({"robstride"}, free) /\ BlindPulse(s) \in Seq(PulseStep)
         /\ Len(BlindPulse(s)) \in Nat \ {0} /\ BlindPulse(s)[Len(BlindPulse(s))] = Close
<1> DEFINE h == s.hosts[1]
           Pulse(i) == <<Add(i, h), Try(i, "start"), Post(i, "param"), Post(i, "control"),
                         Post(i, "control"), Try(i, "stop"), Probe(i, 0, "status")>>
           f == [k \in DOMAIN s.ids |-> Pulse(s.ids[k])]
           Both == Inner \cap PulseStep
<1>1. s.ids \in Seq(Nat) /\ h \in Nat /\ "robstride" \in Vendors /\ "robstride" \in {"robstride"}
  <2>1. s.hosts \in Seq(Nat) /\ s.hosts # <<>>
    BY SetupFields
  <2>2. Len(s.hosts) \in Nat \ {0}
    BY <2>1, EmptySeq, LenProperties
  <2>3. h \in Nat
    BY <2>1, <2>2, ElementOfSeq
  <2> QED
    BY <2>3, SetupFields DEF Vendors
<1> HIDE DEF h
<1>2. ASSUME NEW i \in Nat PROVE Pulse(i) \in Seq(Both)
  <2>1. /\ Add(i, h) \in Inner /\ Try(i, "start") \in Inner /\ Try(i, "stop") \in Inner
        /\ Post(i, "param") \in Inner /\ Post(i, "control") \in Inner
    BY <1>1, InnerSteps
  <2>2. Probe(i, 0, "status") \in Inner
    BY InnerSteps, SomeWhats
  <2>3. /\ Add(i, h).op = "add" /\ Try(i, "start").op = "call" /\ Try(i, "stop").op = "call"
        /\ Post(i, "param").op = "send" /\ Post(i, "control").op = "send"
    BY DEF Add, Try, Call, Post, Step
  <2>4. Probe(i, 0, "status").op = "probe" /\ Probe(i, 0, "status").fid = 0
    BY DEF Probe, Step
  <2>5. /\ Add(i, h) \in Both /\ Try(i, "start") \in Both /\ Try(i, "stop") \in Both
        /\ Post(i, "param") \in Both /\ Post(i, "control") \in Both
    BY <2>1, <2>3 DEF PulseStep, Inner
  <2>6. Probe(i, 0, "status") \in Both
    BY <2>2, <2>4 DEF PulseStep, Inner
  <2> HIDE DEF Both
  <2> QED
    BY <2>5, <2>6
<1> HIDE DEF Pulse
<1>3. ASSUME NEW k \in DOMAIN s.ids PROVE f[k] \in Seq(Both)
  <2>1. s.ids[k] \in Nat
    BY <1>1, ElementOfSeq
  <2> QED
    BY <1>2, <2>1
<1>4. f = [k \in DOMAIN s.ids |-> f[k]] /\ BlindPulse(s) = <<Open("robstride")>> \o FlattenSeq(f) \o <<Close>>
  BY DEF BlindPulse, Each, Pulse, h
<1> HIDE DEF f
<1>5. FlattenSeq(f) \in Seq(Both)
  BY <1>1, <1>3, <1>4, EachIn
<1>6. FlattenSeq(f) \in Seq(Inner) /\ FlattenSeq(f) \in Seq(PulseStep)
  <2>1. Both \subseteq Inner /\ Both \subseteq PulseStep
    OBVIOUS
  <2> QED
    BY <1>5, <2>1, SeqMonotonic
<1>7. <<Open("robstride")>> \in Seq(PulseStep) /\ <<Close>> \in Seq(PulseStep)
  <2>1. Open("robstride") \in PulseStep /\ Close \in PulseStep
    BY <1>1, OpenSteps, PlainSteps DEF PulseStep, ScanStep
  <2> QED
    BY <2>1
<1>8. BlindPulse(s) \in Seq(PulseStep)
  BY <1>4, <1>6, <1>7, Framed
<1>9. Close \in {Close, Shutdown}
  OBVIOUS
<1> DEFINE c == <<Open("robstride")>> \o FlattenSeq(f) \o <<Close>>
<1>10. c \in Parts({"robstride"}, free) /\ Len(c) \in Nat \ {0} /\ c[Len(c)] = Close
  BY <1>1, <1>6, <1>9, OpenedPart
<1>11. BlindPulse(s) = c
  BY <1>4
<1> HIDE DEF c
<1> QED
  BY <1>8, <1>10, <1>11

LEMMA RobstrideScanIs ==
  ASSUME NEW s \in Setups, NEW free \in BOOLEAN
  PROVE  /\ SkipIfHits("robstride", Len(BlindPulse(s))) \in
                {st \in ScanStep : st.op = "skip_if_hits" /\ st.what = "robstride" /\ st.arg = Len(BlindPulse(s))}
         /\ RobstrideScan(s) =
              RobstrideProbes(s) \o (<<SkipIfHits("robstride", Len(BlindPulse(s)))>> \o BlindPulse(s))
         /\ RobstrideScan(s) \in Parts({"robstride"}, free)
<1> DEFINE B == BlindPulse(s)
           n == Len(B)
           st == SkipIfHits("robstride", n)
           A == RobstrideProbes(s)
<1>1. B \in Parts({"robstride"}, free) /\ n \in Nat \ {0} /\ B[n] = Close /\ B \in Seq(ScanStep)
  BY BlindPulseIs DEF Parts
<1>2. A \in Seq(Quiet) /\ A \in Parts({"robstride"}, free) /\ A \in Seq(ScanStep)
  <2>1. A \in Seq(Quiet) /\ A \in Parts({"robstride"}, free)
    BY RobstrideProbesAre, QuietLists
  <2> QED
    BY <2>1 DEF Parts
<1>3. st \in ScanStep /\ st.op = "skip_if_hits" /\ st.what = "robstride" /\ st.arg = n
  <2>1. "robstride" \in Vendors
    BY DEF Vendors
  <2> QED
    BY <1>1, <2>1, TurnSteps DEF ScanStep
<1>4. RobstrideScan(s) = A \o <<st>> \o B
  BY DEF RobstrideScan
<1> HIDE DEF A, B, st
<1>5. B[st.arg].op = "close" /\ st.arg \in 1..Len(B)
  BY <1>1, <1>3, PlainSteps
<1>6. <<st>> \o B \in Parts({"robstride"}, free)
  BY <1>1, <1>3, <1>5, JumpBefore
<1>7. <<st>> \in Seq(ScanStep)
  BY <1>3
<1>8. RobstrideScan(s) = A \o (<<st>> \o B)
  BY <1>1, <1>2, <1>4, <1>7, ConcatAssociative
<1>9. A \o (<<st>> \o B) \in Parts({"robstride"}, free)
  BY <1>2, <1>6, PartsJoin
<1> QED
  BY <1>3, <1>8, <1>9 DEF A, B, st

(***************************************************************************)
(* A program with RobStride's scan in it: the first a steps switch nothing *)
(* and jump nowhere, then the b steps of the pulse are passed over if      *)
(* there were hits, and nothing after them switches a motor or probes with *)
(* a host id.                                                              *)
(***************************************************************************)
AfterStep == {st \in ScanStep : /\ ~Switching(st) /\ st.op # "skip_if_hits"
                                /\ st.op = "probe" => st.fid = 0}

Pulsed(p, a, b) ==
  /\ a \in Nat /\ b \in Nat /\ a + 1 + b <= Len(p)
  /\ p[a + 1].op = "skip_if_hits" /\ p[a + 1].what = "robstride" /\ p[a + 1].arg = b
  /\ \A k \in 1..a : p[k] \in Quiet
  /\ \A k \in (a + 2)..(a + 1 + b) : p[k] \in PulseStep
  /\ \A k \in (a + 2 + b)..Len(p) : p[k] \in AfterStep

LEMMA PulsedFirst ==
  ASSUME NEW A \in Seq(Quiet), NEW B \in Seq(PulseStep),
         NEW st \in ScanStep, st.op = "skip_if_hits", st.what = "robstride", st.arg = Len(B)
  PROVE  Pulsed(A \o (<<st>> \o B), Len(A), Len(B))
<1> DEFINE one == <<st>>
           c == one \o B
           p == A \o c
           a == Len(A)
           b == Len(B)
<1>1. A \in Seq(ScanStep) /\ B \in Seq(ScanStep) /\ one \in Seq(ScanStep) /\ Len(one) = 1 /\ one[1] = st
  <2>1. Quiet \subseteq ScanStep /\ PulseStep \subseteq ScanStep
    BY DEF Quiet, PulseStep
  <2> QED
    BY <2>1, SeqMonotonic
<1> HIDE DEF one
<1>2. c \in Seq(ScanStep) /\ b \in Nat /\ Len(c) = 1 + b /\ c[1] = st /\ \A i \in 1..b : c[i + 1] = B[i]
  <2>1. /\ one \o B \in Seq(ScanStep) /\ Len(B) \in Nat /\ Len(one \o B) = Len(one) + Len(B)
        /\ \A i \in 1..Len(one) : (one \o B)[i] = one[i]
        /\ \A i \in 1..Len(B) : (one \o B)[i + Len(one)] = B[i]
    BY <1>1, ScanConcat
  <2> HIDE DEF c
  <2>2. c = one \o B
    BY DEF c
  <2>3. 1 \in 1..Len(one)
    BY <1>1
  <2> QED
    BY <1>1, <2>1, <2>2, <2>3
<1> HIDE DEF c
<1>3. /\ Len(p) = a + (1 + b) /\ a \in Nat
      /\ \A i \in 1..a : p[i] = A[i]
      /\ \A i \in 1..(1 + b) : p[i + a] = c[i]
  <2>1. /\ Len(A \o c) = Len(A) + Len(c) /\ Len(A) \in Nat
        /\ \A i \in 1..Len(A) : (A \o c)[i] = A[i]
        /\ \A i \in 1..Len(c) : (A \o c)[i + Len(A)] = c[i]
    <3>1. A \in Seq(ScanStep) /\ c \in Seq(ScanStep)
      BY <1>1, <1>2
    <3> QED
      BY ONLY <3>1, ScanConcat
  <2> QED
    BY <1>2, <2>1
<1> HIDE DEF p
<1>4. p[a + 1] = st
  <2>1. 1 \in 1..(1 + b) /\ 1 + a = a + 1
    BY <1>2, <1>3
  <2> QED
    BY <1>2, <1>3, <2>1
<1>5. ASSUME NEW k \in 1..a PROVE p[k] \in Quiet
  BY <1>3, <1>5, ElementOfSeq
<1>6. ASSUME NEW k \in (a + 2)..(a + 1 + b) PROVE p[k] \in PulseStep
  <2>1. k - a - 1 \in 1..b /\ k - a \in 1..(1 + b) /\ (k - a) + a = k /\ (k - a - 1) + 1 = k - a
    BY <1>2, <1>3
  <2>2. p[k] = c[k - a] /\ c[k - a] = B[k - a - 1]
    BY <1>2, <1>3, <2>1
  <2> QED
    BY <2>1, <2>2, ElementOfSeq
<1>7. ASSUME NEW k \in (a + 2 + b)..Len(p) PROVE FALSE
  BY <1>2, <1>3, <1>7
<1>8. a + 1 + b <= Len(p)
  BY <1>2, <1>3
<1> HIDE DEF a, b
<1>9. p[a + 1].arg = b
  BY <1>4 DEF b
<1>10. Pulsed(p, a, b)
  BY <1>2, <1>3, <1>4, <1>5, <1>6, <1>7, <1>8, <1>9 DEF Pulsed
<1> QED
  BY <1>10 DEF p, c, one, a, b

LEMMA PulsedLater ==
  ASSUME NEW D \in Seq(Quiet), NEW p \in Seq(ScanStep), NEW a, NEW b, Pulsed(p, a, b)
  PROVE  Pulsed(D \o p, Len(D) + a, b)
<1> DEFINE n == Len(D)
           q == D \o p
<1>1. D \in Seq(ScanStep)
  <2>1. Quiet \subseteq ScanStep
    BY DEF Quiet
  <2> QED
    BY <2>1, SeqMonotonic
<1>2. /\ n \in Nat /\ Len(p) \in Nat /\ Len(q) = n + Len(p)
      /\ \A i \in 1..n : q[i] = D[i]
      /\ \A i \in 1..Len(p) : q[i + n] = p[i]
  BY <1>1, ScanConcat
<1> HIDE DEF q
<1>3. a \in Nat /\ b \in Nat /\ a + 1 + b <= Len(p)
  BY DEF Pulsed
<1>4. ASSUME NEW k \in 1..n PROVE q[k] \in Quiet
  BY <1>2, <1>4, ElementOfSeq
<1>5. \A k \in (n + 1)..(n + Len(p)) : k - n \in 1..Len(p) /\ (k - n) + n = k /\ q[k] = p[k - n]
  BY <1>2
<1> HIDE DEF n
<1>6. ASSUME NEW k \in 1..(n + a) PROVE q[k] \in Quiet
  <2>1. CASE k \in 1..n
    BY <1>4, <2>1
  <2>2. CASE k > n
    <3>1. k - n \in 1..a /\ k \in (n + 1)..(n + Len(p))
      BY <1>2, <1>3, <2>2
    <3>2. q[k] = p[k - n]
      BY <1>5, <3>1
    <3> QED
      BY <3>1, <3>2 DEF Pulsed
  <2> QED
    BY <1>2, <2>1, <2>2
<1>7. q[n + a + 1].op = "skip_if_hits" /\ q[n + a + 1].what = "robstride" /\ q[n + a + 1].arg = b
  <2>1. n + a + 1 \in (n + 1)..(n + Len(p)) /\ (n + a + 1) - n = a + 1
    BY <1>2, <1>3
  <2> QED
    BY <1>5, <2>1 DEF Pulsed
<1>8. ASSUME NEW k \in (n + a + 2)..(n + a + 1 + b) PROVE q[k] \in PulseStep
  <2>1. k - n \in (a + 2)..(a + 1 + b) /\ k \in (n + 1)..(n + Len(p))
    BY <1>2, <1>3
  <2>2. q[k] = p[k - n]
    BY <1>5, <2>1
  <2> QED
    BY <2>1, <2>2 DEF Pulsed
<1>9. ASSUME NEW k \in (n + a + 2 + b)..Len(q) PROVE q[k] \in AfterStep
  <2>1. k - n \in (a + 2 + b)..Len(p) /\ q[k] = p[k - n]
    BY <1>2, <1>3, <1>5
  <2> QED
    BY <2>1 DEF Pulsed
<1>10. n + a \in Nat /\ n + a + 1 + b <= Len(q)
  BY <1>2, <1>3
<1>11. Pulsed(q, n + a, b)
  BY <1>3, <1>6, <1>7, <1>8, <1>9, <1>10 DEF Pulsed
<1> QED
  BY <1>11 DEF q, n

LEMMA PulsedLonger ==
  ASSUME NEW p \in Seq(ScanStep), NEW C \in Seq(AfterStep), NEW a, NEW b, Pulsed(p, a, b)
  PROVE  p \o C \in Seq(ScanStep) /\ Pulsed(p \o C, a, b)
<1> DEFINE n == Len(p)
           q == p \o C
<1>1. C \in Seq(ScanStep)
  <2>1. AfterStep \subseteq ScanStep
    BY DEF AfterStep
  <2> QED
    BY <2>1, SeqMonotonic
<1>2. /\ q \in Seq(ScanStep) /\ n \in Nat /\ Len(C) \in Nat /\ Len(q) = n + Len(C)
      /\ \A i \in 1..n : q[i] = p[i]
      /\ \A i \in 1..Len(C) : q[i + n] = C[i]
  BY <1>1, ScanConcat
<1> HIDE DEF q
<1>3. a \in Nat /\ b \in Nat /\ a + 1 + b <= n
  BY DEF Pulsed
<1>4. ASSUME NEW k \in (a + 2 + b)..Len(q) PROVE q[k] \in AfterStep
  <2>1. CASE k \in 1..n
    <3>1. k \in (a + 2 + b)..n /\ q[k] = p[k]
      BY <1>2, <1>3, <2>1
    <3> QED
      BY <3>1 DEF Pulsed
  <2>2. CASE k > n
    <3>1. k - n \in 1..Len(C) /\ (k - n) + n = k
      BY <1>2, <1>3, <2>2
    <3>2. q[k] = C[k - n]
      BY <1>2, <3>1
    <3> QED
      BY <3>1, <3>2, ElementOfSeq
  <2> QED
    BY <1>2, <1>3, <2>1, <2>2
<1>5. /\ \A k \in 1..a : q[k] = p[k]
      /\ q[a + 1] = p[a + 1]
      /\ \A k \in (a + 2)..(a + 1 + b) : q[k] = p[k]
  <2>1. \A k \in 1..a : k \in 1..n
    BY <1>2, <1>3
  <2>2. a + 1 \in 1..n
    BY <1>2, <1>3
  <2>3. \A k \in (a + 2)..(a + 1 + b) : k \in 1..n
    BY <1>2, <1>3
  <2> QED
    BY <1>2, <2>1, <2>2, <2>3
<1>6. a + 1 + b <= Len(q)
  BY <1>2, <1>3
<1>7. /\ \A k \in 1..a : p[k] \in Quiet
      /\ p[a + 1].op = "skip_if_hits" /\ p[a + 1].what = "robstride" /\ p[a + 1].arg = b
      /\ \A k \in (a + 2)..(a + 1 + b) : p[k] \in PulseStep
  BY DEF Pulsed
<1>8. Pulsed(q, a, b)
  BY <1>3, <1>4, <1>5, <1>6, <1>7 DEF Pulsed
<1> QED
  BY <1>2, <1>8 DEF q

LEMMA AfterLists ==
  ASSUME NEW a \in Seq(Unhosted)
  PROVE  a \in Seq(AfterStep) /\ Attempt(a) \in Seq(AfterStep)
<1>1. Unhosted \subseteq AfterStep
  BY DEF Unhosted, AfterStep, Silent, Quiet, QuietStep, Switching
<1>2. a \in Seq(AfterStep) /\ Len(a) + 1 \in Nat
  BY <1>1, SeqMonotonic, LenProperties
<1>3. \A n \in Nat : Rescue(n) \in AfterStep
  BY TurnSteps DEF AfterStep, ScanStep, Switching
<1>4. <<Rescue(Len(a) + 1)>> \in Seq(AfterStep) /\ <<Rescue(0)>> \in Seq(AfterStep)
  <2>1. Rescue(Len(a) + 1) \in AfterStep /\ Rescue(0) \in AfterStep
    BY <1>2, <1>3
  <2> QED
    BY <2>1
<1> QED
  BY <1>2, <1>4, Framed DEF Attempt

Wakes(s) ==
  IF s.by = "cli" /\ s.vendor \in {"robstride", "all"} THEN {"robstride"}
  ELSE IF s.by = "ws" \/ s.vendor = "cyberbeast" THEN {"cyberbeast"} ELSE {}

LEMMA RobstridePulsed ==
  ASSUME NEW s \in Setups
  PROVE  RobstrideScan(s) \in Seq(ScanStep) /\ \E a, b : Pulsed(RobstrideScan(s), a, b)
<1>1. /\ SkipIfHits("robstride", Len(BlindPulse(s))) \in
             {st \in ScanStep : st.op = "skip_if_hits" /\ st.what = "robstride" /\ st.arg = Len(BlindPulse(s))}
      /\ RobstrideScan(s) =
           RobstrideProbes(s) \o (<<SkipIfHits("robstride", Len(BlindPulse(s)))>> \o BlindPulse(s))
      /\ RobstrideScan(s) \in Seq(ScanStep)
  BY RobstrideScanIs DEF Parts
<1>2. RobstrideProbes(s) \in Seq(Quiet) /\ BlindPulse(s) \in Seq(PulseStep)
  BY RobstrideProbesAre, BlindPulseIs, QuietLists
<1>3. Pulsed(RobstrideScan(s), Len(RobstrideProbes(s)), Len(BlindPulse(s)))
  BY <1>1, <1>2, PulsedFirst
<1> QED
  BY <1>1, <1>3

LEMMA ScanAllIs ==
  ASSUME NEW s \in Setups, NEW free \in BOOLEAN
  PROVE  ScanAll(s) \in Parts({"robstride"}, free) /\ \E a, b : Pulsed(ScanAll(s), a, b)
<1> DEFINE D == DamiaoScan(s)
           R == RobstrideScan(s)
           c1 == Attempt(Cia402Scan(s))
           c2 == Attempt(MitScan(s))
           c3 == HighTorqueScan(s)
           c4 == MyActuatorScan(s)
           V == {"robstride"}
<1>1. D \in Seq(Quiet) /\ D \in Parts(V, free) /\ D \in Seq(ScanStep)
  <2>1. D \in Seq(Quiet) /\ D \in Parts(V, free)
    BY DamiaoScanIs, DamiaoParts, QuietLists
  <2> QED
    BY <2>1 DEF Parts
<1>2. R \in Parts(V, free) /\ R \in Seq(ScanStep)
  BY RobstrideScanIs, RobstridePulsed
<1>3. c1 \in Seq(AfterStep) /\ c2 \in Seq(AfterStep) /\ c3 \in Seq(AfterStep) /\ c4 \in Seq(AfterStep)
  BY AfterLists, Cia402ScanIs, MitScanIs, HighTorqueScanIs, MyActuatorScanIs
<1>4. c1 \in Parts(V, free) /\ c2 \in Parts(V, free) /\ c3 \in Parts(V, free) /\ c4 \in Parts(V, free)
  <2>1. Cia402Scan(s) \in Parts(V, free) /\ MitScan(s) \in Parts(V, free) /\ c3 \in Parts(V, free) /\ c4 \in Parts(V, free)
    BY Cia402ScanIs, MitScanIs, HighTorqueScanIs, MyActuatorScanIs, QuietLists
  <2> QED
    BY <2>1, AttemptPart
<1>5. ScanAll(s) = D \o R \o c1 \o c2 \o c3 \o c4
  BY DEF ScanAll
<1>6. PICK a, b : Pulsed(R, a, b)
  BY RobstridePulsed
<1> HIDE DEF D, R, c1, c2, c3, c4, V
<1>7. D \o R \in Seq(ScanStep) /\ D \o R \in Parts(V, free) /\ Pulsed(D \o R, Len(D) + a, b)
  BY <1>1, <1>2, <1>6, PulsedLater, PartsJoin DEF Parts
<1>8. /\ D \o R \o c1 \in Seq(ScanStep) /\ D \o R \o c1 \in Parts(V, free)
      /\ Pulsed(D \o R \o c1, Len(D) + a, b)
  BY <1>3, <1>4, <1>7, PulsedLonger, PartsJoin
<1>9. /\ D \o R \o c1 \o c2 \in Seq(ScanStep) /\ D \o R \o c1 \o c2 \in Parts(V, free)
      /\ Pulsed(D \o R \o c1 \o c2, Len(D) + a, b)
  BY <1>3, <1>4, <1>8, PulsedLonger, PartsJoin
<1>10. /\ D \o R \o c1 \o c2 \o c3 \in Seq(ScanStep) /\ D \o R \o c1 \o c2 \o c3 \in Parts(V, free)
       /\ Pulsed(D \o R \o c1 \o c2 \o c3, Len(D) + a, b)
  BY <1>3, <1>4, <1>9, PulsedLonger, PartsJoin
<1>11. /\ D \o R \o c1 \o c2 \o c3 \o c4 \in Parts(V, free)
       /\ Pulsed(D \o R \o c1 \o c2 \o c3 \o c4, Len(D) + a, b)
  BY <1>3, <1>4, <1>10, PulsedLonger, PartsJoin
<1> QED
  BY <1>5, <1>11 DEF V

(* What every scan is made of. *)
LEMMA ScansAre ==
  ASSUME NEW s \in Setups, Scanning(s), NEW free \in BOOLEAN, "dm_device" \in s.flags => free
  PROVE  /\ Program(s) \in Parts(Wakes(s), free)
         /\ Wakes(s) = {"robstride"} => \E a, b : Pulsed(Program(s), a, b)
<1>1. s.by \in {"cli", "ws"}
  BY SetupFields
<1>2. CASE s.by = "ws"
  <2>1. Program(s) = Gateway(s) /\ Wakes(s) = {"cyberbeast"} /\ "cyberbeast" # "robstride"
    BY <1>2 DEF Program, Wakes
  <2>2. CASE s.mode = "scan"
    <3>1. Gateway(s) = WsScan(s, s.vendor) /\ s.vendor \in ScanVendors
      BY <1>2, <2>2, WsAccepts DEF Gateway
    <3> QED
      BY <2>1, <3>1, WsScansAre
  <2>3. CASE s.mode = "batch_scan"
    <3>1. Gateway(s) = WsBatchScan(s) /\ s.batch \in Seq(ScanVendors)
      BY <1>2, <2>3, WsAccepts DEF Gateway
    <3> QED
      BY <2>1, <3>1, WsBatchIs
  <2> QED
    BY <2>2, <2>3 DEF Scanning
<1>3. CASE s.by = "cli"
  <2>1. Program(s) = CommandLine(s)
    BY <1>3 DEF Program
  <2>2. s.vendor = "all" \/ (s.vendor \in Vendors /\ s.mode = "scan")
    <3>1. s.vendor = "all" \/ (s.vendor \in Vendors /\ s.mode \in Modes[s.vendor])
      BY <1>3, CliAccepts
    <3>2. s.mode = "scan" \/ s.mode = "batch_scan"
      BY DEF Scanning
    <3>3. \A v \in Vendors : "batch_scan" \notin Modes[v]
      BY DEF Modes, Vendors
    <3> QED
      BY <3>1, <3>2, <3>3
  <2>3. CASE s.vendor = "all"
    <3>1. CommandLine(s) = ScanAll(s) /\ Wakes(s) = {"robstride"}
      BY <1>3, <2>3 DEF CommandLine, Wakes
    <3> QED
      BY <2>1, <3>1, ScanAllIs
  <2>4. CASE s.vendor = "robstride" /\ s.mode = "scan"
    <3>1. CommandLine(s) = RobstrideScan(s) /\ Wakes(s) = {"robstride"}
      BY <1>3, <2>4 DEF CommandLine, Wakes, Robstride, OneShots
    <3>2. RobstrideScan(s) \in Parts({"robstride"}, free)
      BY RobstrideScanIs
    <3>3. \E a, b : Pulsed(RobstrideScan(s), a, b)
      BY RobstridePulsed
    <3> QED
      BY <2>1, <3>1, <3>2, <3>3
  <2>5. CASE s.vendor \in Vendors \ {"robstride"} /\ s.mode = "scan"
    <3>1. /\ s.vendor = "cyberbeast" => Wakes(s) = {"cyberbeast"}
          /\ Wakes(s) # {"robstride"}
      BY <1>3, <2>5 DEF Wakes, Vendors
    <3> DEFINE V == Wakes(s)
    <3> HIDE DEF V
    <3>2. Program(s) \in Parts(V, free)
      <4>1. CASE s.vendor = "damiao"
        <5>1. CommandLine(s) = IF "dm_device" \in s.flags THEN DmDeviceScan(s) ELSE DamiaoScan(s)
          BY <2>5, <4>1 DEF CommandLine, Damiao
        <5>2. free => DmDeviceScan(s) \in Parts(V, free)
          BY DmDeviceScanIs, QuietLists
        <5>3. DamiaoScan(s) \in Parts(V, free)
          BY DamiaoParts
        <5> QED
          BY <2>1, <5>1, <5>2, <5>3
      <4>2. CASE s.vendor = "robstride_cia402"
        <5>1. CommandLine(s) = Cia402Scan(s)
          BY <2>5, <4>2 DEF CommandLine, Cia402
        <5> QED
          BY <2>1, <5>1, Cia402ScanIs, QuietLists
      <4>3. CASE s.vendor = "robstride_mit"
        <5>1. CommandLine(s) = MitScan(s)
          BY <2>5, <4>3 DEF CommandLine, Mit
        <5> QED
          BY <2>1, <5>1, MitScanIs, QuietLists
      <4>4. CASE s.vendor = "hightorque"
        <5>1. CommandLine(s) = HighTorqueScan(s)
          BY <2>5, <4>4 DEF CommandLine, HighTorque
        <5> QED
          BY <2>1, <5>1, HighTorqueScanIs, QuietLists
      <4>5. CASE s.vendor = "myactuator"
        <5>1. CommandLine(s) = MyActuatorScan(s)
          BY <2>5, <4>5 DEF CommandLine, MyActuator
        <5> QED
          BY <2>1, <5>1, MyActuatorScanIs, QuietLists
      <4>6. CASE s.vendor = "hexfellow"
        <5>1. CommandLine(s) = HexfellowScan(s)
          BY <2>5, <4>6 DEF CommandLine, Hexfellow
        <5> QED
          BY <2>1, <5>1, HexfellowScanIs, QuietLists
      <4>7. CASE s.vendor = "cyberbeast"
        <5>1. CommandLine(s) = CyberScan(s)
          BY <2>5, <4>7 DEF CommandLine, CyberBeast
        <5> QED
          BY <2>1, <3>1, <4>7, <5>1, CyberScansAre DEF V
      <4> QED
        BY <2>5, <4>1, <4>2, <4>3, <4>4, <4>5, <4>6, <4>7 DEF Vendors
    <3> QED
      BY <3>1, <3>2 DEF V
  <2> QED
    BY <2>2, <2>3, <2>4, <2>5
<1> QED
  BY <1>1, <1>2, <1>3

(***************************************************************************)
(* How a step moves the program, and what it adds to the hits.             *)
(***************************************************************************)
Hit == \E h \in hits : h[1] = Now.what

Stays    == UNCHANGED <<pc, status, rescue, vendor>>
Stops    == status' # "running" /\ UNCHANGED <<pc, rescue, vendor>>
Goes     == status = "running" /\ status' = "running" /\ pc <= Len(Programs[setup])
Rescued  == Goes /\ rescue # 0 /\ pc' = rescue /\ rescue' = 0
Advances ==
  /\ Goes /\ pc' = pc + 1
  /\ rescue' = IF Now.op = "rescue" THEN (IF Now.arg = 0 THEN 0 ELSE pc + Now.arg) ELSE rescue
  /\ vendor' = vendor \/ (Now.op = "open" /\ vendor' = Now.what)
  /\ Now.op = "open" /\ Now.must /\ ~Now.unfound => vendor' = Now.what
  /\ Now.op = "skip_if_hits" => ~Hit
Jumps == Goes /\ Now.op = "skip_if_hits" /\ Hit /\ pc' = pc + 1 + Now.arg /\ UNCHANGED <<rescue, vendor>>
Moves == Stays \/ Stops \/ Rescued \/ Advances \/ Jumps

LEMMA FailMoves ==
  ASSUME status = "running", pc <= Len(Programs[setup]), Fail, vendor' = vendor
  PROVE  Rescued \/ Stops
BY DEF Fail, Rescued, Stops, Goes

LEMMA AdvanceMoves ==
  ASSUME NEW ops, Running(ops), Advance, vendor' = vendor, ops \cap {"open", "rescue", "skip_if_hits"} = {}
  PROVE  Advances
BY DEF Running, Advance, Advances, Goes

LEMMA StepMoves ==
  ASSUME [Next]_vars
  PROVE  Moves
<1>1. ASSUME NEW ops, Running(ops), ops \cap {"open", "rescue", "skip_if_hits"} = {}, vendor' = vendor,
             NEW done, Advance \/ Fail \/ FailOr(done)
      PROVE  Moves
  <2>1. Advance \/ Fail
    BY <1>1 DEF FailOr
  <2>2. CASE Advance
    BY <1>1, <2>2, AdvanceMoves DEF Moves
  <2>3. CASE Fail
    BY <1>1, <2>3, FailMoves DEF Moves, Running
  <2> QED
    BY <2>1, <2>2, <2>3
<1>2. CASE OpenBus
  <2>1. Running({"open"}) /\ ~Skipped
    BY <1>2 DEF OpenBus
  <2>2. status = "running" /\ pc <= Len(Programs[setup]) /\ Now.op = "open"
    BY <2>1 DEF Running
  <2>3. CASE vendor' = Now.what /\ Advance
    BY <2>2, <2>3 DEF Advance, Moves, Advances, Goes
  <2>4. CASE vendor' = vendor /\ FailOr(FALSE)
    <3>1. CASE Now.must
      <4>1. Fail
        BY <2>4, <3>1 DEF FailOr
      <4> QED
        BY <2>2, <2>4, <4>1, FailMoves DEF Moves
    <3>2. CASE ~Now.must
      <4>1. Advance
        BY <2>4, <3>2 DEF FailOr
      <4> QED
        BY <2>2, <2>4, <3>2, <4>1 DEF Advance, Moves, Advances, Goes
    <3> QED
      BY <3>1, <3>2
  <2> QED
    BY <1>2, <2>3, <2>4 DEF OpenBus
<1>3. CASE AddMotor
  <2>1. Running({"add"}) /\ vendor' = vendor /\ FailOr(bound')
    BY <1>3 DEF AddMotor
  <2> QED
    BY <1>1, <2>1
<1>4. CASE Skip
  <2>1. Skipped /\ Advance /\ vendor' = vendor
    BY <1>4 DEF Skip, controller
  <2>2. Running({"open", "add", "ask", "check", "probe", "read_ids", "send", "call", "loop"})
    BY <1>4 DEF Skip
  <2>3. Now.op = "open" => Now.unfound
    BY <2>1 DEF Skipped
  <2>4. /\ status = "running" /\ pc <= Len(Programs[setup])
        /\ Now.op \in {"open", "add", "ask", "check", "probe", "read_ids", "send", "call", "loop"}
    BY <2>2 DEF Running
  <2> QED
    BY <2>1, <2>3, <2>4 DEF Advance, Moves, Advances, Goes
<1>5. CASE Query
  <2>1. Running({"ask", "check", "probe", "read_ids"}) /\ vendor' = vendor
    BY <1>5 DEF Query
  <2>2. \E done : FailOr(done)
    BY <1>5 DEF Query
  <2> QED
    BY <1>1, <2>1, <2>2
<1>6. CASE Tell
  <2>1. Running({"send", "call"}) /\ vendor' = vendor
    BY <1>6 DEF Tell
  <2>2. \E done : FailOr(done)
    BY <1>6 DEF Tell
  <2> QED
    BY <1>1, <2>1, <2>2
<1>7. CASE LoopRound
  <2>1. Running({"loop"}) /\ vendor' = vendor /\ (Advance \/ Fail)
    BY <1>7 DEF LoopRound
  <2> QED
    BY <1>1, <2>1
<1>8. CASE InstallHandler \/ CloseBus \/ ShutdownAll
  <2>1. \E ops \in {{"catch"}, {"close"}, {"shutdown"}} : Running(ops)
    BY <1>8 DEF InstallHandler, CloseBus, ShutdownAll
  <2>2. vendor' = vendor /\ Advance
    BY <1>8 DEF InstallHandler, CloseBus, ShutdownAll, controller
  <2> QED
    BY <1>1, <2>1, <2>2
<1>9. CASE Turn
  <2>1. vendor' = vendor
    BY <1>9 DEF Turn
  <2>2. CASE Running({"skip_if_hits"}) /\ UNCHANGED <<status, rescue, open>> /\ pc' = IF Hit THEN pc + 1 + Now.arg ELSE pc + 1
    <3>1. status = "running" /\ pc <= Len(Programs[setup]) /\ Now.op = "skip_if_hits"
      BY <2>2 DEF Running
    <3>2. CASE Hit
      BY <2>1, <2>2, <3>1, <3>2 DEF Moves, Jumps, Goes
    <3>3. CASE ~Hit
      BY <2>1, <2>2, <3>1, <3>3 DEF Moves, Advances, Goes
    <3> QED
      BY <3>2, <3>3
  <2>3. CASE /\ Running({"rescue"}) /\ rescue' = IF Now.arg = 0 THEN 0 ELSE pc + Now.arg
             /\ pc' = pc + 1 /\ UNCHANGED <<status, open>>
    BY <2>1, <2>3 DEF Moves, Advances, Goes, Running
  <2>4. CASE Running({"refuse"}) /\ Fail
    BY <2>1, <2>4, FailMoves DEF Moves, Running
  <2> QED
    BY <1>9, <2>2, <2>3, <2>4 DEF Turn, Hit
<1>10. CASE Return \/ Interrupt
  BY <1>10 DEF Return, Interrupt, Moves, Stops, Stays, controller
<1>11. CASE Done \/ UNCHANGED vars
  BY <1>11 DEF Done, vars, controller, Moves, Stays
<1> QED
  BY <1>2, <1>3, <1>4, <1>5, <1>6, <1>7, <1>8, <1>9, <1>10, <1>11 DEF Next

(* A hit is of the controller's vendor, and of the ids that were probed    *)
(* with.                                                                   *)
LEMMA HitsGrow ==
  ASSUME [Next]_vars, NEW h \in hits', h \notin hits
  PROVE  /\ Running({"probe", "read_ids"}) /\ vendor' = vendor /\ h[1] = vendor
         /\ Now.op = "probe" => h[3] = Now.fid
<1>1. Query
  BY DEF Next, vars, OpenBus, AddMotor, Skip, Tell, LoopRound, InstallHandler, CloseBus,
     ShutdownAll, Turn, Return, Interrupt, Done
<1> DEFINE me == <<Now.id, Now.fid>>
           Ids1(m) == IF Now.op = "read_ids" THEN <<motor[m].id, motor[m].fid>> ELSE me
           Grown(ids) == h = <<vendor>> \o ids /\ Now.op \in {"probe", "read_ids"}
<1>2. (\E m : Grown(Ids1(m))) \/ Grown(me)
  BY <1>1 DEF Query
<1>3. Now.op \in {"probe", "read_ids"} /\ \E i, f : h = <<vendor>> \o <<i, f>> /\ (Now.op = "probe" => f = Now.fid)
  BY <1>2
<1>4. Running({"probe", "read_ids"}) /\ vendor' = vendor
  BY <1>1, <1>3 DEF Query, Running
<1> QED
  BY <1>3, <1>4, HitFields

(***************************************************************************)
(* In a scan, what the bus was last opened for is what the steps up to the *)
(* next break go to, so that only the vendors it switches lose or get      *)
(* power.                                                                  *)
(***************************************************************************)
P == Program(setup)

ScanInv ==
  /\ BaseInv
  /\ rescue # 0 => rescue \in 1..Len(P) /\ P[rescue].op = "rescue"
  /\ status = "running" /\ pc <= Len(P) => \A j \in 1..(pc - 1) : OpenedBy(P, j, pc) => vendor = P[j].what
  /\ \A m \in Motors : Before(m).vendor \notin Wakes(setup) => motor[m].power = Before(m).power

LEMMA ScanNow ==
  ASSUME BaseInv, Scanning(setup)
  PROVE  /\ setup \in Setups /\ pc \in Nat \ {0} /\ rescue \in Nat
         /\ P \in Seq(ScanStep) /\ Len(P) \in Nat /\ OnVendors(P, Wakes(setup))
         /\ \A k \in 1..Len(P) : P[k] \in ScanStep /\ P[k] \in StepType /\ JumpsWell(P, k)
         /\ Programs[setup] = P
         /\ pc <= Len(P) => Now = P[pc] /\ pc \in 1..Len(P)
         /\ \A ops : Running(ops) => pc <= Len(P) /\ Now \in StepType /\ Now.op \in ops
         /\ "dm_device" \in setup.flags \/ Settled(P)
<1>1. setup \in Setups /\ pc \in Nat \ {0} /\ rescue \in Nat
  BY DEF BaseInv
<1>2. P \in Parts(Wakes(setup), TRUE) /\ ("dm_device" \in setup.flags \/ P \in Parts(Wakes(setup), FALSE))
  BY <1>1, ScansAre DEF P
<1>3. /\ P \in Seq(ScanStep) /\ OnVendors(P, Wakes(setup)) /\ \A k \in 1..Len(P) : JumpsWell(P, k)
      /\ "dm_device" \in setup.flags \/ Settled(P)
  BY <1>2 DEF Parts
<1>4. Len(P) \in Nat /\ \A k \in 1..Len(P) : P[k] \in ScanStep /\ P[k] \in StepType
  BY <1>3, LenProperties, ElementOfSeq DEF ScanStep
<1>5. Programs[setup] = P
  BY <1>1 DEF Programs, P
<1>6. pc <= Len(P) => Now = P[pc] /\ pc \in 1..Len(P)
  BY <1>1, <1>4, <1>5 DEF Now
<1>7. \A ops : Running(ops) => pc <= Len(P) /\ Now \in StepType /\ Now.op \in ops
  BY <1>4, <1>5, <1>6 DEF Running
<1> QED
  BY <1>1, <1>3, <1>4, <1>5, <1>6, <1>7

LEMMA OpenedKept ==
  ASSUME ScanInv, Scanning(setup), [Next]_vars, status' = "running", pc' <= Len(P),
         NEW j \in 1..(pc' - 1), OpenedBy(P, j, pc')
  PROVE  vendor' = P[j].what
<1>1. /\ setup \in Setups /\ pc \in Nat \ {0} /\ rescue \in Nat
      /\ P \in Seq(ScanStep) /\ Len(P) \in Nat
      /\ \A k \in 1..Len(P) : P[k] \in ScanStep /\ P[k] \in StepType /\ JumpsWell(P, k)
      /\ Programs[setup] = P
      /\ pc <= Len(P) => Now = P[pc] /\ pc \in 1..Len(P)
  BY ScanNow DEF ScanInv
<1>2. /\ P[j].op = "open" /\ P[j].must /\ ~P[j].unfound
      /\ \A i \in (j + 1)..pc' : P[i].op \notin Breaks
  BY DEF OpenedBy
<1>3. status = "running" /\ pc <= Len(P) => \A l \in 1..(pc - 1) : OpenedBy(P, l, pc) => vendor = P[l].what
  BY DEF ScanInv
<1>4. CASE Stays
  BY <1>3, <1>4 DEF Stays
<1>5. CASE Rescued
  <2>1. pc' = rescue /\ P[rescue].op = "rescue" /\ rescue \in (j + 1)..pc'
    BY <1>1, <1>5 DEF Rescued, ScanInv
  <2> QED
    BY <1>2, <2>1 DEF Breaks
<1>6. CASE Advances
  <2>1. status = "running" /\ pc \in 1..Len(P) /\ pc' = pc + 1 /\ Now = P[pc]
    BY <1>1, <1>6 DEF Advances, Goes
  <2>2. CASE j = pc
    BY <1>2, <1>6, <2>1, <2>2 DEF Advances
  <2>3. CASE j < pc
    <3>1. j \in 1..(pc - 1) /\ pc \in (j + 1)..pc' /\ \A i \in (j + 1)..pc : i \in (j + 1)..pc'
      BY <1>1, <2>1, <2>3
    <3>2. OpenedBy(P, j, pc)
      BY <1>2, <3>1 DEF OpenedBy
    <3>3. vendor = P[j].what
      BY <1>3, <2>1, <3>1, <3>2
    <3>4. Now.op # "open"
      BY <1>2, <2>1, <3>1 DEF Breaks
    <3> QED
      BY <1>6, <3>3, <3>4 DEF Advances
  <2> QED
    BY <1>1, <2>1, <2>2, <2>3
<1>7. CASE Jumps
  <2>1. pc \in 1..Len(P) /\ Now = P[pc] /\ P[pc].op = "skip_if_hits" /\ pc' = pc + 1 + P[pc].arg
    BY <1>1, <1>7 DEF Jumps, Goes
  <2> DEFINE e == pc + P[pc].arg
  <2>2. e \in 1..Len(P) /\ P[e].op = "close" /\ pc' = e + 1
    <3>1. P[pc].arg \in Nat
      BY <1>1, <2>1 DEF StepType
    <3>2. e \in 1..Len(P) /\ P[e].op = "close"
      BY <1>1, <2>1 DEF JumpsWell
    <3>3. pc \in Nat /\ pc' = pc + 1 + P[pc].arg
      BY <1>1, <2>1
    <3>4. pc' = e + 1
      BY ONLY <3>1, <3>3
    <3> QED
      BY <3>2, <3>4
  <2> HIDE DEF e
  <2>3. j \in 1..e
    BY <2>2
  <2>4. j # e
    BY <1>2, <2>2
  <2>5. e \in (j + 1)..pc'
    BY <2>2, <2>3, <2>4
  <2> QED
    BY <1>2, <2>2, <2>5 DEF Breaks
<1> QED
  BY <1>4, <1>5, <1>6, <1>7, StepMoves DEF Moves, Stops

(* A switching step of a scan goes to a vendor the scan is allowed to. *)
LEMMA SwitchesAt ==
  ASSUME ScanInv, Scanning(setup), status = "running", pc <= Len(P), Switching(P[pc])
  PROVE  vendor \in Wakes(setup)
<1>1. OnVendors(P, Wakes(setup)) /\ pc \in 1..Len(P)
  BY ScanNow DEF ScanInv
<1>2. PICK j \in 1..(pc - 1) : OpenedBy(P, j, pc) /\ P[j].what \in Wakes(setup)
  BY <1>1 DEF OnVendors
<1>3. vendor = P[j].what
  BY <1>2 DEF ScanInv
<1> QED
  BY <1>2, <1>3

(* Power changes by a switching step, of the motors of the vendor.         *)
LEMMA PowerMoves ==
  ASSUME BaseInv, Scanning(setup), [Next]_vars, NEW m \in Motors, motor'[m].power # motor[m].power
  PROVE  /\ status = "running" /\ pc <= Len(P) /\ Switching(P[pc]) /\ Before(m).vendor = vendor
         /\ Now = P[pc] /\ Running({"send", "call", "shutdown"})
<1>1. /\ Programs[setup] = P /\ setup \in Setups
      /\ \A k \in 1..Len(P) : P[k] \in ScanStep
      /\ pc <= Len(P) => Now = P[pc] /\ pc \in 1..Len(P)
  BY ScanNow
<1>2. CASE motor' = motor
  BY <1>2
<1>3. CASE Running({"send", "call"}) /\ motor' = AfterTelling(Now)
  <2>1. /\ status = "running" /\ pc <= Len(P) /\ Now.op \in {"send", "call"} /\ Now = P[pc] /\ Now \in ScanStep
        /\ Running({"send", "call", "shutdown"})
    BY <1>1, <1>3 DEF Running
  <2>2. Now.what \in Switches
    BY <1>3, TellingKeeps DEF BaseInv
  <2>3. Now.what # "estop"
    BY <2>1 DEF ScanStep
  <2>4. Before(m).vendor = vendor
    BY <1>3, <2>3, NotTold
  <2> QED
    BY <2>1, <2>2, <2>4 DEF Switching
<1>4. CASE Running({"shutdown"}) /\ \E R \in SUBSET reg : motor' = SwitchedOff(R)
  <2>1. /\ status = "running" /\ pc <= Len(P) /\ Now.op = "shutdown" /\ Now = P[pc]
        /\ Running({"send", "call", "shutdown"})
    BY <1>1, <1>4 DEF Running
  <2>2. PICK R \in SUBSET reg : motor' = SwitchedOff(R)
    BY <1>4
  <2>3. Before(m).vendor = vendor
    BY <2>2, OffMotors
  <2> QED
    BY <2>1, <2>3 DEF Switching
<1> QED
  BY <1>2, <1>3, <1>4, MotorMoves

LEMMA ScanKept ==
  ASSUME ScanInv, Scanning(setup), [Next]_vars
  PROVE  ScanInv'
<1>1. /\ BaseInv /\ setup' = setup /\ P' = P /\ Wakes(setup') = Wakes(setup)
      /\ rescue # 0 => rescue \in 1..Len(P) /\ P[rescue].op = "rescue"
      /\ \A m \in Motors : Before(m).vendor \notin Wakes(setup) => motor[m].power = Before(m).power
  BY SetupStays DEF ScanInv, P
<1>2. /\ \A k \in 1..Len(P) : JumpsWell(P, k)
      /\ pc <= Len(P) => Now = P[pc] /\ pc \in 1..Len(P)
      /\ Programs[setup] = P
      /\ \A ops : Running(ops) => Now \in StepType
  BY <1>1, ScanNow
<1>3. BaseInv'
  BY <1>1, <1>2, BaseKept
<1>4. rescue' # 0 => rescue' \in 1..Len(P) /\ P[rescue'].op = "rescue"
  <2>1. CASE rescue' = rescue
    BY <1>1, <2>1
  <2>2. CASE Rescued
    BY <2>2 DEF Rescued
  <2>3. CASE Advances
    <3>1. pc \in 1..Len(P) /\ Now = P[pc]
      BY <1>2, <2>3 DEF Advances, Goes
    <3>2. JumpsWell(P, pc)
      BY <1>2, <3>1
    <3> QED
      BY <1>1, <2>3, <3>1, <3>2 DEF Advances, JumpsWell
  <2> QED
    BY <2>1, <2>2, <2>3, StepMoves DEF Moves, Stays, Stops, Jumps
<1>5. status' = "running" /\ pc' <= Len(P) => \A j \in 1..(pc' - 1) : OpenedBy(P, j, pc') => vendor' = P[j].what
  BY OpenedKept
<1>6. ASSUME NEW m \in Motors, Before(m).vendor \notin Wakes(setup) PROVE motor'[m].power = motor[m].power
  <2> SUFFICES ASSUME motor'[m].power # motor[m].power PROVE FALSE
    OBVIOUS
  <2>1. status = "running" /\ pc <= Len(P) /\ Switching(P[pc]) /\ Before(m).vendor = vendor
    BY <1>1, PowerMoves
  <2>2. vendor \in Wakes(setup)
    BY <2>1, SwitchesAt
  <2> QED
    BY <1>6, <2>1, <2>2
<1>7. \A m \in Motors : Before(m)' = Before(m)
  BY <1>1 DEF Before
<1>8. \A m \in Motors : Before(m)'.vendor \notin Wakes(setup') => motor'[m].power = Before(m)'.power
  BY <1>1, <1>6, <1>7
<1> HIDE DEF BaseInv, P, OpenedBy, Before
<1> QED
  BY <1>1, <1>3, <1>4, <1>5, <1>8 DEF ScanInv

(***************************************************************************)
(* RobStride's pulse is reached only when no id has answered on a host id. *)
(***************************************************************************)
HostHits == \E h \in hits : h[1] = "robstride" /\ h[3] # 0

PulseInv(a, b) ==
  /\ pc \in (a + 2)..(a + 1 + b) => ~HostHits
  /\ rescue # 0 => a + 1 + b < pc /\ a + 1 + b < rescue
  /\ \A m \in Motors : \/ Before(m).vendor # "robstride" \/ motor[m].power = Before(m).power
                       \/ a + 1 < pc /\ ~HostHits

(* Where a program with a pulse is. *)
LEMMA PulsedAt ==
  ASSUME BaseInv, Scanning(setup), NEW a, NEW b, Pulsed(P, a, b), pc <= Len(P)
  PROVE  /\ pc <= a => Now \in Quiet
         /\ pc = a + 1 => Now.op = "skip_if_hits" /\ Now.what = "robstride" /\ Now.arg = b
         /\ pc \in (a + 2)..(a + 1 + b) => Now \in PulseStep
         /\ pc > a + 1 + b => Now \in AfterStep
<1>1. pc \in Nat \ {0} /\ pc \in 1..Len(P) /\ Now = P[pc]
  BY ScanNow
<1>2. a \in Nat /\ b \in Nat
  BY DEF Pulsed
<1>3. pc <= a => pc \in 1..a
  BY <1>1, <1>2
<1>4. pc > a + 1 + b => pc \in (a + 2 + b)..Len(P)
  BY <1>1, <1>2
<1> QED
  BY <1>1, <1>3, <1>4 DEF Pulsed

(* Only the first part finds anything on a host id. *)
LEMMA HostHitsGrow ==
  ASSUME BaseInv, Scanning(setup), [Next]_vars, NEW a, NEW b, Pulsed(P, a, b), HostHits', ~HostHits
  PROVE  pc <= a
<1>1. PICK h \in hits' : h[1] = "robstride" /\ h[3] # 0
  BY DEF HostHits
<1>2. h \notin hits
  BY <1>1 DEF HostHits
<1>3. /\ Running({"probe", "read_ids"}) /\ vendor' = vendor /\ h[1] = vendor
      /\ Now.op = "probe" => h[3] = Now.fid
  BY <1>2, HitsGrow
<1>4. pc <= Len(P) /\ Now.op \in {"probe", "read_ids"} /\ Now \in ScanStep /\ pc \in Nat /\ a \in Nat /\ b \in Nat
  BY <1>3, ScanNow DEF Pulsed
<1>5. Now.op = "probe" /\ Now.fid # 0
  BY <1>1, <1>3, <1>4 DEF ScanStep
<1>6. ~(pc \in (a + 2)..(a + 1 + b)) /\ ~(pc > a + 1 + b) /\ pc # a + 1
  BY <1>4, <1>5, PulsedAt DEF PulseStep, AfterStep
<1> QED
  BY <1>4, <1>6

LEMMA PulseKept ==
  ASSUME BaseInv, Scanning(setup), [Next]_vars, NEW a, NEW b, Pulsed(P, a, b), PulseInv(a, b)
  PROVE  PulseInv(a, b)'
<1>1. /\ a \in Nat /\ b \in Nat /\ pc \in Nat \ {0} /\ rescue \in Nat /\ Len(P) \in Nat
      /\ Programs[setup] = P
  BY ScanNow DEF Pulsed
<1>2. HostHits' /\ ~HostHits => pc <= a
  BY HostHitsGrow
<1>3. Moves
  BY StepMoves
<1>4. /\ pc \in (a + 2)..(a + 1 + b) => ~HostHits
      /\ rescue # 0 => a + 1 + b < pc /\ a + 1 + b < rescue
  BY DEF PulseInv
<1>5. pc <= Len(P) =>
        /\ pc <= a => Now.op \notin {"rescue", "skip_if_hits"}
        /\ pc = a + 1 => Now.op = "skip_if_hits" /\ Now.what = "robstride" /\ Now.arg = b
        /\ pc \in (a + 2)..(a + 1 + b) => Now.op \notin {"rescue", "skip_if_hits"}
        /\ pc > a + 1 + b => Now.op # "skip_if_hits"
  BY PulsedAt DEF Quiet, QuietStep, PulseStep, AfterStep
<1>6. pc <= Len(P) => Now.arg \in Nat
  BY ScanNow DEF StepType
<1>7. pc' \in Nat /\ rescue' \in Nat
  <2>1. \A ops : Running(ops) => Now \in StepType
    BY ScanNow
  <2> QED
    BY <2>1, BaseKept DEF BaseInv
(* Where the step leads to.                                                *)
<1>8. \/ pc' = pc /\ rescue' = rescue
      \/ pc' > a + 1 + b /\ rescue' = 0
      \/ pc <= a /\ pc' = pc + 1 /\ rescue' = rescue
      \/ pc = a + 1 /\ pc' = pc + 1 /\ rescue' = rescue /\ ~HostHits
      \/ pc = a + 1 /\ pc' = a + 2 + b /\ rescue' = rescue
      \/ pc \in (a + 2)..(a + 1 + b) /\ pc' = pc + 1 /\ rescue' = rescue
      \/ pc > a + 1 + b /\ pc' = pc + 1 /\ (rescue' = rescue \/ rescue' = 0 \/ rescue' > a + 1 + b)
  <2>1. CASE Stays \/ Stops
    BY <2>1 DEF Stays, Stops
  <2>2. CASE Rescued
    BY <1>1, <1>4, <2>2 DEF Rescued
  <2>3. CASE Jumps
    <3>1. pc <= Len(P) /\ Now.op = "skip_if_hits" /\ pc' = pc + 1 + Now.arg /\ rescue' = rescue
      BY <1>1, <2>3 DEF Jumps, Goes
    <3>2. pc = a + 1
      BY <1>1, <1>5, <3>1
    <3>3. pc' = a + 2 + b
      BY <1>1, <1>5, <3>1, <3>2
    <3> QED
      BY <3>1, <3>2, <3>3
  <2>4. CASE Advances
    <3>1. /\ pc <= Len(P) /\ pc' = pc + 1
          /\ rescue' = IF Now.op = "rescue" THEN (IF Now.arg = 0 THEN 0 ELSE pc + Now.arg) ELSE rescue
          /\ Now.op = "skip_if_hits" => ~Hit
      BY <1>1, <2>4 DEF Advances, Goes
    <3>2. CASE pc <= a
      BY <1>5, <3>1, <3>2
    <3>3. CASE pc = a + 1
      <4>1. ~HostHits
        BY <1>5, <3>1, <3>3 DEF HostHits, Hit
      <4> QED
        BY <1>5, <3>1, <3>3, <4>1
    <3>4. CASE pc \in (a + 2)..(a + 1 + b)
      BY <1>5, <3>1, <3>4
    <3>5. CASE pc > a + 1 + b
      BY <1>1, <1>6, <3>1, <3>5
    <3> QED
      BY <1>1, <3>2, <3>3, <3>4, <3>5
  <2> QED
    BY <1>3, <2>1, <2>2, <2>3, <2>4 DEF Moves
<1>9. pc' \in (a + 2)..(a + 1 + b) => ~HostHits'
  BY <1>1, <1>2, <1>4, <1>8
<1>10. rescue' # 0 => a + 1 + b < pc' /\ a + 1 + b < rescue'
  BY <1>1, <1>4, <1>8
<1>11. pc > a + 1 => pc' > a + 1
  BY <1>1, <1>8, <1>7
<1>12. ASSUME NEW m \in Motors, Before(m).vendor = "robstride", motor'[m].power # Before(m).power
       PROVE  a + 1 < pc' /\ ~HostHits'
  <2>1. CASE motor'[m].power = motor[m].power
    <3>1. a + 1 < pc /\ ~HostHits
      BY <1>12, <2>1 DEF PulseInv
    <3> QED
      BY <1>1, <1>2, <1>11, <3>1
  <2>2. CASE motor'[m].power # motor[m].power
    <3>1. pc <= Len(P) /\ Switching(Now)
      BY <2>2, PowerMoves
    <3>2. ~(pc <= a) /\ pc # a + 1 /\ ~(pc > a + 1 + b)
      BY <3>1, PulsedAt DEF Quiet, QuietStep, AfterStep, Switching
    <3>3. pc \in (a + 2)..(a + 1 + b)
      BY <1>1, <3>2
    <3> QED
      BY <1>1, <1>2, <1>4, <1>11, <3>3
  <2> QED
    BY <2>1, <2>2
<1>13. \A m \in Motors : Before(m)' = Before(m)
  BY SetupStays DEF Before
<1>14. \A m \in Motors : \/ Before(m)'.vendor # "robstride" \/ motor'[m].power = Before(m)'.power
                         \/ a + 1 < pc' /\ ~HostHits'
  BY <1>12, <1>13
<1> HIDE DEF HostHits, Before
<1> QED
  BY <1>9, <1>10, <1>14 DEF PulseInv

LookInv ==
  Scanning(setup) =>
    /\ ScanInv
    /\ \A a, b : Pulsed(P, a, b) => PulseInv(a, b)

LEMMA LookStarts == Init => LookInv
<1> SUFFICES ASSUME Init, Scanning(setup) PROVE ScanInv /\ \A a, b : Pulsed(P, a, b) => PulseInv(a, b)
  BY DEF LookInv
<1>1. BaseInv /\ \A m \in Motors : Intact(m)
  BY BaseStarts
<1>2. \A m \in Motors : motor[m].power = Before(m).power
  BY <1>1 DEF Intact
<1>3. pc = 1 /\ rescue = 0 /\ vendor = "none" /\ hits = {}
  BY DEF Init
<1>4. ScanInv
  BY <1>1, <1>2, <1>3 DEF ScanInv
<1>5. ASSUME NEW a, NEW b, Pulsed(P, a, b) PROVE PulseInv(a, b)
  <2>1. a \in Nat /\ b \in Nat
    BY <1>5 DEF Pulsed
  <2> QED
    BY <1>2, <1>3, <2>1 DEF PulseInv, HostHits
<1> QED
  BY <1>4, <1>5

LEMMA LookKept == LookInv /\ [Next]_vars => LookInv'
<1> SUFFICES ASSUME LookInv, [Next]_vars, Scanning(setup)'
             PROVE  ScanInv' /\ \A a, b : Pulsed(P, a, b)' => PulseInv(a, b)'
  BY DEF LookInv
<1>1. setup' = setup /\ P' = P /\ Scanning(setup)
  BY SetupStays DEF Scanning, P
<1>2. ScanInv /\ BaseInv
  BY <1>1 DEF LookInv, ScanInv
<1>3. ScanInv'
  BY <1>1, <1>2, ScanKept
<1>4. ASSUME NEW a, NEW b, Pulsed(P, a, b)' PROVE PulseInv(a, b)'
  <2>1. Pulsed(P, a, b)
    BY <1>1, <1>4 DEF Pulsed
  <2>2. PulseInv(a, b)
    BY <1>1, <2>1 DEF LookInv
  <2> QED
    BY <1>1, <1>2, <2>1, <2>2, PulseKept
<1> QED
  BY <1>3, <1>4

(***************************************************************************)
(* A CyberBeast command line that looks sends no command: what it does to  *)
(* a motor is the shutdown it ends in.                                     *)
(***************************************************************************)
Resting(s) == s.by = "cli" /\ s.vendor = "cyberbeast" /\ s.mode \in Queries
RestStep   == {st \in StepType : st.op \notin {"send", "call"}}
RestInv    == Resting(setup) => \A m \in Motors : motor[m].power \in {Before(m).power, "off"}

LEMMA CyberRests ==
  ASSUME NEW s \in Setups, Resting(s)
  PROVE  Program(s) \in Seq(RestStep)
<1> DEFINE S == RestStep
           i == s.id
<1>1. /\ Program(s) = CyberBeast(s)
      /\ s.mode \in {"scan", "read-param", "find-endpoint", "endpoint-map", "keep-alive", "status", "monitor"}
  <2>1. \A w \in Modes["cyberbeast"] \cap Queries :
          w \in {"scan", "read-param", "find-endpoint", "endpoint-map", "keep-alive", "status", "monitor"}
    BY DEF Modes, Queries
  <2>2. "cyberbeast" # "all"
    OBVIOUS
  <2> QED
    BY <2>1, <2>2, CliAccepts DEF Resting, Program, CommandLine
<1>2. i \in Nat /\ s.ids \in Seq(Nat)
  BY SetupFields
<1> HIDE DEF i
<1>3. Open("cyberbeast") \in S /\ Shutdown \in S /\ Catch \in S
  <2>1. "cyberbeast" \in Vendors
    BY DEF Vendors
  <2> QED
    BY <2>1, OpenSteps, PlainSteps DEF RestStep
<1>4. \A j \in Nat : Add(j, j) \in S /\ TryAdd(j, j) \in S
  BY AddSteps DEF RestStep
<1>5. \A j \in Nat : \A w \in Whats : Ask(j, j, w) \in S /\ Peek(j, j, w) \in S /\ Probe(j, j, w) \in S /\ Loop(j, w) \in S
  BY AskSteps, ProbeSteps, LoopSteps DEF RestStep
<1>6. Ask(i, i, "map") \in S /\ Ask(i, i, "endpoint") \in S /\ Peek(i, i, "endpoint") \in S
      /\ Peek(i, i, "warm_up") \in S /\ Peek(i, i, "status") \in S
      /\ Loop(i, "listen") \in S /\ Loop(i, "query") \in S
  BY <1>2, <1>5, WhatsHave
<1>7. Add(i, i) \in S
  BY <1>2, <1>4
<1> DEFINE open1 == <<Open("cyberbeast")>>
           shut  == <<Shutdown>>
<1>8. open1 \in Seq(S) /\ shut \in Seq(S)
  BY <1>3, Tuples
<1>9. CASE s.mode = "scan"
  <2> DEFINE tries == [k \in DOMAIN s.ids |-> <<TryAdd(s.ids[k], s.ids[k]), Probe(s.ids[k], s.ids[k], "status")>>]
  <2>1. ASSUME NEW k \in DOMAIN s.ids PROVE tries[k] \in Seq(S)
    <3>1. s.ids[k] \in Nat
      BY <1>2, ElementOfSeq
    <3>2. TryAdd(s.ids[k], s.ids[k]) \in S /\ Probe(s.ids[k], s.ids[k], "status") \in S
      BY <1>4, <1>5, <3>1, WhatsHave
    <3> HIDE DEF S
    <3> QED
      BY <3>2
  <2>2. tries = [k \in DOMAIN s.ids |-> tries[k]]
    OBVIOUS
  <2>3. FlattenSeq(tries) \in Seq(S)
    <3> HIDE DEF tries
    <3> QED
      BY <1>2, <2>1, <2>2, EachIn
  <2>4. Program(s) = open1 \o FlattenSeq(tries) \o shut
    BY <1>1, <1>9 DEF CyberBeast, CyberScan, Each
  <2> HIDE DEF open1, shut, tries, S
  <2> QED
    BY <1>8, <2>3, <2>4, ConcatMember DEF S
<1>10. CASE s.mode # "scan"
  <2> DEFINE map   == <<Ask(i, i, "map")>>
             con   == <<Add(i, i), Ask(i, i, "map")>>
             add   == <<Add(i, i)>>
             warm  == <<Peek(i, i, "warm_up")>>
             read  == <<Ask(i, i, "endpoint"), Shutdown>>
             state == <<Peek(i, i, "status"), Peek(i, i, "status"), Peek(i, i, "status"),
                        Peek(i, i, "endpoint"), Shutdown>>
             keep  == <<Catch, Loop(i, "query"), Shutdown>>
             mon   == <<Add(i, i), Catch, Loop(i, "listen"), Shutdown>>
  <2>1. /\ map \in Seq(S) /\ con \in Seq(S) /\ add \in Seq(S) /\ warm \in Seq(S) /\ read \in Seq(S)
        /\ state \in Seq(S) /\ keep \in Seq(S) /\ mon \in Seq(S)
    <3> HIDE DEF S
    <3> QED
      BY <1>3, <1>6, <1>7, Tuples
  <2>2. CyberConnect(s) = IF "map" \in s.flags THEN con ELSE add \o When(s.mode # "estop", warm)
    BY DEF CyberConnect, i
  <2>3. CyberMap(s) = When("map" \notin s.flags \/ (s.mode = "endpoint-map" /\ "refresh" \in s.flags), map) \o shut
    BY DEF CyberMap, i
  <2>4. Program(s) = open1 \o
          (CASE s.mode = "monitor"    -> mon
             [] s.mode = "status"     -> CyberConnect(s) \o state
             [] s.mode = "read-param" -> CyberConnect(s) \o read
             [] s.mode \in {"find-endpoint", "endpoint-map"} -> CyberConnect(s) \o CyberMap(s)
             [] OTHER                 -> CyberConnect(s) \o keep)
    BY <1>1, <1>10 DEF CyberBeast, CyberMonitor, CyberStatus, CyberReadParam, CyberKeepAlive, i
  <2> HIDE DEF S, open1, shut, map, con, add, warm, read, state, keep, mon
  <2>5. CyberConnect(s) \in Seq(S)
    <3>1. add \o When(s.mode # "estop", warm) \in Seq(S)
      BY <2>1, WhenMember, ConcatMember
    <3> QED
      BY <2>1, <2>2, <3>1
  <2>6. CyberMap(s) \in Seq(S)
    BY <1>8, <2>1, <2>3, WhenMember, ConcatMember
  <2>7. /\ CyberConnect(s) \o state \in Seq(S) /\ CyberConnect(s) \o read \in Seq(S)
        /\ CyberConnect(s) \o CyberMap(s) \in Seq(S) /\ CyberConnect(s) \o keep \in Seq(S)
    BY <2>1, <2>5, <2>6, ConcatMember
  <2> DEFINE part == CASE s.mode = "monitor"    -> mon
                       [] s.mode = "status"     -> CyberConnect(s) \o state
                       [] s.mode = "read-param" -> CyberConnect(s) \o read
                       [] s.mode \in {"find-endpoint", "endpoint-map"} -> CyberConnect(s) \o CyberMap(s)
                       [] OTHER                 -> CyberConnect(s) \o keep
  <2>8. part \in Seq(S)
    BY <2>1, <2>7
  <2>9. Program(s) = open1 \o part
    BY <2>4
  <2> HIDE DEF part
  <2> QED
    BY <1>8, <2>8, <2>9, ConcatMember DEF S
<1> QED
  BY <1>9, <1>10

LEMMA RestKept ==
  ASSUME BaseInv, RestInv, [Next]_vars
  PROVE  RestInv'
<1>1. setup' = setup
  BY SetupStays
<1> SUFFICES ASSUME Resting(setup), NEW m \in Motors PROVE motor'[m].power \in {Before(m).power, "off"}
  BY <1>1 DEF RestInv, Resting, Before
<1>2. motor[m].power \in {Before(m).power, "off"} /\ IsMotor(motor[m]) /\ setup \in Setups /\ pc \in Nat \ {0}
  BY DEF RestInv, BaseInv
<1>3. CASE motor' = motor
  BY <1>2, <1>3
<1>4. CASE Running({"send", "call"})
  <2>1. Now = Program(setup)[pc] /\ pc <= Len(Program(setup)) /\ Now.op \in {"send", "call"}
    BY <1>2, <1>4, NowIs
  <2>2. Program(setup) \in Seq(RestStep)
    BY <1>2, CyberRests
  <2>3. Now \in RestStep
    BY <1>2, <2>1, <2>2, LenProperties, ElementOfSeq
  <2> QED
    BY <2>1, <2>3 DEF RestStep
<1>5. CASE \E R \in SUBSET reg : motor' = SwitchedOff(R)
  <2>1. [motor[m] EXCEPT !.power = "off"].power = "off"
    BY <1>2, MotorOff, MotorFields
  <2>2. motor'[m] = motor[m] \/ motor'[m] = [motor[m] EXCEPT !.power = "off"]
    BY <1>5 DEF SwitchedOff
  <2> QED
    BY <1>2, <2>1, <2>2
<1> QED
  BY <1>3, <1>4, <1>5, MotorMoves

(* A query switches nothing on or off but what it disturbs: a RobStride    *)
(* scan that no id answered on a host id those it pulses, a CyberBeast     *)
(* command line, which only ever stops, those of its shutdown, the         *)
(* gateway's scan CyberBeast motors, and a MyActuator query the motor it   *)
(* is for.                                                                 *)
THEOREM QueriesLook == Spec => []QueriesOnlyLook
<1>0. ASSUME AlwaysAlone, LookInv, Resting(setup) PROVE BaseInv
  <2>1. CASE Scanning(setup)
    BY <1>0, <2>1 DEF LookInv, ScanInv
  <2>2. CASE ~Scanning(setup)
    <3>1. Single(setup)
      BY <1>0, <2>2 DEF Single, Resting, Queries
    <3> QED
      BY <1>0, <3>1 DEF AlwaysAlone, AloneInv
  <2> QED
    BY <2>1, <2>2
<1>1. Init => AlwaysAlone /\ LookInv /\ RestInv
  <2>1. Init => AlwaysAlone /\ LookInv
    BY AloneStarts, LookStarts DEF AlwaysAlone
  <2>2. Init => RestInv
    BY BaseStarts DEF RestInv, Intact
  <2> QED
    BY <2>1, <2>2
<1>2. AlwaysAlone /\ LookInv /\ RestInv /\ [Next]_vars => AlwaysAlone' /\ LookInv' /\ RestInv'
  <2>1. AlwaysAlone /\ LookInv /\ [Next]_vars => AlwaysAlone' /\ LookInv'
    BY AlwaysAloneKept, LookKept
  <2>2. ASSUME AlwaysAlone, LookInv, RestInv, [Next]_vars PROVE RestInv'
    <3>1. CASE Resting(setup)
      BY <2>2, <3>1, <1>0, RestKept
    <3>2. CASE ~Resting(setup)
      BY <2>2, <3>2, SetupStays DEF RestInv, Resting
    <3> QED
      BY <3>1, <3>2
  <2> QED
    BY <2>1, <2>2
<1>3. AlwaysAlone /\ LookInv /\ RestInv => QueriesOnlyLook
  <2> SUFFICES ASSUME AlwaysAlone, LookInv, RestInv, setup.mode \in Queries, NEW m \in Motors
               PROVE  motor[m].power = Before(m).power \/ Disturbed(m)
    BY DEF QueriesOnlyLook
  <2>1. CASE Scanning(setup)
    <3>1. ScanInv /\ setup \in Setups
      BY <2>1 DEF LookInv, ScanInv, BaseInv
    <3>2. CASE Before(m).vendor \notin Wakes(setup)
      BY <3>1, <3>2 DEF ScanInv
    <3>3. CASE Wakes(setup) = {"cyberbeast"} /\ Before(m).vendor = "cyberbeast"
      <4>1. setup.by = "ws" \/ (setup.by = "cli" /\ setup.vendor = "cyberbeast")
        BY <3>1, <3>3, SetupFields DEF Wakes
      <4> QED
        BY <3>3, <4>1 DEF RestInv, Resting, Disturbed
    <3>4. CASE Wakes(setup) = {"robstride"} /\ Before(m).vendor = "robstride"
      <4>1. PICK a, b : Pulsed(P, a, b)
        BY <2>1, <3>1, <3>4, ScansAre DEF P
      <4>2. motor[m].power = Before(m).power \/ ~HostHits
        BY <2>1, <3>4, <4>1 DEF LookInv, PulseInv
      <4>3. setup.by = "cli" /\ setup.vendor \in {"robstride", "all"}
        <5>1. "robstride" # "cyberbeast"
          OBVIOUS
        <5> QED
          BY <3>4, <5>1 DEF Wakes
      <4>4. setup.mode = "scan"
        <5>1. setup.mode = "scan" \/ setup.mode \in Modes["robstride"]
          <6>1. setup.vendor = "all" => setup.vendor \notin Vendors
            BY ModesAre
          <6> QED
            BY <3>1, <4>3, <6>1, CliAccepts
        <5>2. "batch_scan" \notin Modes["robstride"]
          BY DEF Modes
        <5> QED
          BY <2>1, <5>1, <5>2 DEF Scanning
      <4> QED
        BY <3>4, <4>2, <4>3, <4>4 DEF Disturbed, HostHits
    <3>5. Wakes(setup) \in {{"robstride"}, {"cyberbeast"}, {}}
      BY DEF Wakes
    <3> QED
      BY <3>2, <3>3, <3>4, <3>5
  <2>2. CASE ~Scanning(setup)
    <3>1. Single(setup)
      <4>1. "estop" \notin Queries
        BY DEF Queries
      <4> QED
        BY <2>2, <4>1 DEF Single
    <3>2. AloneInv
      BY <3>1 DEF AlwaysAlone
    <3>3. CASE Looking(setup)
      BY <3>2, <3>3 DEF AloneInv
    <3>4. CASE ~Meant(m)
      BY <3>2, <3>4 DEF AloneInv, Intact
    <3>5. CASE Meant(m) /\ ~Looking(setup)
      <4>1. setup.by \in {"cli", "ws"}
        BY <3>2, SetupFields DEF AloneInv, BaseInv
      <4>2. Before(m).vendor = setup.vendor
        BY <3>5 DEF Meant
      <4>3. CASE setup.vendor = "cyberbeast"
        BY <4>1, <4>2, <4>3 DEF RestInv, Resting, Disturbed
      <4>4. CASE setup.vendor # "cyberbeast"
        BY <3>5, <4>2, <4>4 DEF Looking, Disturbed
      <4> QED
        BY <4>3, <4>4
    <3> QED
      BY <3>3, <3>4, <3>5
  <2> QED
    BY <2>1, <2>2
<1> QED
  BY <1>1, <1>2, <1>3, PTL DEF Spec

(***************************************************************************)
(* What a scan reports is there.  A reply comes from a motor of the bus,   *)
(* but it is handed to whoever takes it: a frame held for an id says only  *)
(* that a motor can be taken for it.  That is enough on an adapter; on any *)
(* other bus no id is ever asked for its feedback, as it is registered     *)
(* already when it is added a second time, and so is not bound.            *)
(***************************************************************************)
FoundV(hs, v, i) == \E h \in hs : h[1] = v /\ h[2] = i

TakenFor(m, x) ==
  /\ Before(m).vendor = vendor
  /\ \/ Before(m).id = x[1]
     \/ vendor = "damiao" /\ (Before(m).fid = x[2] \/ Before(m).id % 16 = x[1] % 16)

SameIds == \A m \in Motors : motor[m].id = Before(m).id /\ motor[m].fid = Before(m).fid

(* What was added on the bus in use, and what is bound at its second turn. *)
Added(j) ==
  /\ \A l \in (j + 1)..(pc - 1) :
       P[l].op = "add" => ~open \/ FoundV(hits, vendor, P[l].id) \/ \E r \in reg : r[1] = P[l].id
  /\ \A l \in (j + 1)..(pc - 2) : P[pc - 1].op = "add" /\ Adds(P, l, P[pc - 1].id) => ~bound \/ FoundV(hits, vendor, P[pc - 1].id)

HearInv ==
  /\ ScanInv /\ SameIds
  /\ \A x \in heard : \E m \in Motors : TakenFor(m, x)
  /\ \A h \in hits : \E m \in Motors : StandsFor(h, m)
  /\ status = "running" /\ pc <= Len(P) => \A j \in 1..(pc - 1) : OpenedBy(P, j, pc) => Added(j)

LEMMA HearStarts == Init /\ Scanning(setup) => HearInv
<1> SUFFICES ASSUME Init, Scanning(setup) PROVE HearInv
  OBVIOUS
<1>1. ScanInv
  BY LookStarts DEF LookInv
<1>2. SameIds
  BY BaseStarts DEF Intact, SameIds
<1>3. pc = 1 /\ heard = {} /\ hits = {}
  BY DEF Init
<1>4. 1..(pc - 1) = {}
  BY <1>3
<1> QED
  BY <1>1, <1>2, <1>3, <1>4 DEF HearInv

(* On the bus it has opened, a program only adds to what it knows. *)
LEMMA KnowsMore ==
  ASSUME [Next]_vars
  PROVE  /\ hits \subseteq hits'
         /\ Now.op # "open" => reg \subseteq reg' /\ (open' => open)
<1>1. CASE OpenBus
  BY <1>1 DEF OpenBus, Running
<1>2. CASE AddMotor
  BY <1>2 DEF AddMotor, FailOr, Fail
<1>3. CASE Query
  BY <1>3 DEF Query, FailOr, Fail
<1>4. CASE Tell
  BY <1>4 DEF Tell, FailOr, Fail
<1> QED
  BY <1>1, <1>2, <1>3, <1>4 DEF Next, vars, controller, Skip, LoopRound, InstallHandler, CloseBus, ShutdownAll,
     Turn, Return, Interrupt, Done, Fail

(* A step that goes nowhere changes nothing of the controller.             *)
LEMMA WaitsStill ==
  ASSUME BaseInv, Scanning(setup), [Next]_vars, Stays, status' = "running"
  PROVE  UNCHANGED <<controller, hits>>
<1>1. pc \in Nat /\ pc' = pc /\ status' = status /\ rescue' = rescue
  BY ScanNow DEF Stays
<1>2. ~Advance /\ ~Fail
  BY <1>1 DEF Advance, Fail
<1>3. \A done : ~FailOr(done)
  BY <1>2 DEF FailOr
<1>4. ~OpenBus /\ ~AddMotor /\ ~Skip /\ ~Query /\ ~Tell /\ ~LoopRound /\ ~InstallHandler /\ ~CloseBus /\ ~ShutdownAll
  <2>1. ~OpenBus /\ ~AddMotor /\ ~Skip
    BY <1>2, <1>3 DEF OpenBus, AddMotor, Skip
  <2>2. ~Query
    BY <1>3 DEF Query
  <2>3. ~Tell /\ ~LoopRound /\ ~InstallHandler /\ ~CloseBus /\ ~ShutdownAll
    BY <1>2, <1>3 DEF Tell, LoopRound, InstallHandler, CloseBus, ShutdownAll
  <2> QED
    BY <2>1, <2>2, <2>3
<1>5. ~Turn
  <2>1. Running({"skip_if_hits"}) => Now.arg \in Nat
    BY ScanNow DEF StepType
  <2> QED
    BY <1>1, <1>2, <2>1 DEF Turn
<1> QED
  BY <1>4, <1>5 DEF Next, vars, controller, Return, Interrupt, Done

(* What an add comes to: it is bound only when the id is new to the bus.   *)
LEMMA AddedNow ==
  ASSUME [Next]_vars, Advances, pc \in Nat, Now.op = "add", vendor' = vendor
  PROVE  /\ ~open' \/ FoundV(hits', vendor', Now.id) \/ \E r \in reg' : r[1] = Now.id
         /\ bound' => FoundV(hits', vendor', Now.id) \/ (open /\ ~\E r \in reg : r[1] = Now.id)
<1>1. AddMotor \/ Skip
  <2>1. pc' = pc + 1 /\ status = "running"
    BY DEF Advances, Goes
  <2> QED
    BY <2>1 DEF Next, vars, OpenBus, Query, Tell, LoopRound, InstallHandler, CloseBus, ShutdownAll,
       Turn, Return, Interrupt, Done, Running
<1>2. CASE AddMotor
  <2>1. bound' = (open /\ \A r \in reg : r[1] # Now.id)
        /\ reg' = (IF bound' THEN reg \cup {<<Now.id, Now.fid>>} ELSE reg) /\ (open' => open)
    BY <1>2 DEF AddMotor, FailOr, Fail
  <2>2. <<Now.id, Now.fid>>[1] = Now.id
    OBVIOUS
  <2> QED
    BY <2>1, <2>2
<1>3. CASE Skip
  <2>1. Skipped /\ hits' = hits
    BY <1>3 DEF Skip
  <2>2. FoundV(hits, vendor, Now.id)
    BY <2>1 DEF Skipped, Found, FoundV
  <2> QED
    BY <2>1, <2>2 DEF FoundV
<1> QED
  BY <1>1, <1>2, <1>3

LEMMA AddedKept ==
  ASSUME HearInv, Scanning(setup), [Next]_vars, status' = "running", pc' <= Len(P),
         NEW j \in 1..(pc' - 1), OpenedBy(P, j, pc')
  PROVE  /\ \A l \in (j + 1)..(pc' - 1) :
              P[l].op = "add" => ~open' \/ FoundV(hits', vendor', P[l].id) \/ \E r \in reg' : r[1] = P[l].id
         /\ \A l \in (j + 1)..(pc' - 2) :
              P[pc' - 1].op = "add" /\ Adds(P, l, P[pc' - 1].id) => ~bound' \/ FoundV(hits', vendor', P[pc' - 1].id)
<1>1. /\ pc \in Nat \ {0} /\ Len(P) \in Nat /\ BaseInv /\ ScanInv
      /\ \A k \in 1..Len(P) : P[k] \in StepType /\ JumpsWell(P, k)
      /\ Programs[setup] = P
      /\ pc <= Len(P) => Now = P[pc] /\ pc \in 1..Len(P)
  BY ScanNow DEF HearInv, ScanInv
<1>2. /\ P[j].op = "open" /\ P[j].must /\ ~P[j].unfound
      /\ \A i \in (j + 1)..pc' : P[i].op \notin Breaks
  BY DEF OpenedBy
<1>3. status = "running" /\ pc <= Len(P) => \A i \in 1..(pc - 1) : OpenedBy(P, i, pc) => Added(i)
  BY DEF HearInv
<1>4. CASE Stays
  <2>1. UNCHANGED <<controller, hits>> /\ pc' = pc /\ status = "running"
    BY <1>1, <1>4, WaitsStill DEF Stays
  <2>2. Added(j)
    BY <1>3, <2>1
  <2> QED
    BY <2>1, <2>2 DEF Added, controller
<1>5. CASE Rescued
  <2>1. pc' = rescue /\ P[rescue].op = "rescue" /\ rescue \in (j + 1)..pc'
    BY <1>1, <1>5 DEF Rescued, ScanInv
  <2> QED
    BY <1>2, <2>1 DEF Breaks
<1>6. CASE Advances
  <2>1. status = "running" /\ pc \in 1..Len(P) /\ pc' = pc + 1 /\ Now = P[pc] /\ pc' - 1 = pc /\ pc' - 2 = pc - 1
    BY <1>1, <1>6 DEF Advances, Goes
  <2>2. CASE j = pc
    BY <2>1, <2>2
  <2>3. CASE j < pc
    <3>1. j \in 1..(pc - 1) /\ pc \in (j + 1)..pc' /\ \A i \in (j + 1)..pc : i \in (j + 1)..pc'
      BY <1>1, <2>1, <2>3
    <3>2. OpenedBy(P, j, pc)
      BY <1>2, <3>1 DEF OpenedBy
    <3>3. Added(j)
      BY <1>3, <2>1, <3>1, <3>2
    <3>4. Now.op # "open"
      BY <1>2, <2>1, <3>1 DEF Breaks
    <3>5. vendor' = vendor /\ hits \subseteq hits' /\ reg \subseteq reg' /\ (open' => open)
      BY <1>6, <3>4, KnowsMore DEF Advances
    <3>6. Now.op = "add" =>
            /\ ~open' \/ FoundV(hits', vendor', Now.id) \/ \E r \in reg' : r[1] = Now.id
            /\ bound' => FoundV(hits', vendor', Now.id) \/ (open /\ ~\E r \in reg : r[1] = Now.id)
      BY <1>1, <1>6, <3>5, AddedNow
    <3>7. \A i : FoundV(hits, vendor, i) => FoundV(hits', vendor', i)
      BY <3>5 DEF FoundV
    <3>8. ASSUME NEW l \in (j + 1)..(pc - 1), P[l].op = "add"
          PROVE  ~open' \/ FoundV(hits', vendor', P[l].id) \/ \E r \in reg' : r[1] = P[l].id
      BY <3>3, <3>5, <3>7, <3>8 DEF Added
    <3>9. ASSUME NEW l \in (j + 1)..(pc - 1), P[pc].op = "add", Adds(P, l, P[pc].id)
          PROVE  ~bound' \/ FoundV(hits', vendor', P[pc].id)
      <4>1. ~open \/ FoundV(hits, vendor, P[pc].id) \/ \E r \in reg : r[1] = P[pc].id
        BY <3>3, <3>9 DEF Added, Adds
      <4> QED
        BY <2>1, <3>6, <3>7, <3>9, <4>1
    <3>10. \A l \in (j + 1)..pc : l = pc \/ l \in (j + 1)..(pc - 1)
      BY <1>1
    <3> QED
      BY <2>1, <3>6, <3>8, <3>9, <3>10
  <2> QED
    BY <1>1, <2>1, <2>2, <2>3
<1>7. CASE Jumps
  <2>1. pc \in 1..Len(P) /\ Now = P[pc] /\ P[pc].op = "skip_if_hits" /\ pc' = pc + 1 + P[pc].arg
    BY <1>1, <1>7 DEF Jumps, Goes
  <2> DEFINE e == pc + P[pc].arg
  <2>2. e \in 1..Len(P) /\ P[e].op = "close" /\ pc' = e + 1
    <3>1. P[pc].arg \in Nat /\ pc \in Nat
      BY <1>1, <2>1 DEF StepType
    <3>2. e \in 1..Len(P) /\ P[e].op = "close"
      BY <1>1, <2>1 DEF JumpsWell
    <3>3. pc' = e + 1
      BY ONLY <2>1, <3>1
    <3> QED
      BY <3>2, <3>3
  <2> HIDE DEF e
  <2>3. j \in 1..e
    BY <2>2
  <2>4. j # e
    BY <1>2, <2>2
  <2>5. e \in (j + 1)..pc'
    BY <2>2, <2>3, <2>4
  <2> QED
    BY <1>2, <2>2, <2>5 DEF Breaks
<1> QED
  BY <1>4, <1>5, <1>6, <1>7, StepMoves DEF Moves, Stops

(* A scan changes the ids of no motor.                                     *)
LEMMA IdsKept ==
  ASSUME BaseInv, Scanning(setup), [Next]_vars, NEW m \in Motors
  PROVE  motor'[m].id = motor[m].id /\ motor'[m].fid = motor[m].fid
<1>1. IsMotor(motor[m])
  BY DEF BaseInv
<1>2. CASE motor' = motor
  BY <1>2
<1>3. CASE Running({"send", "call"}) /\ motor' = AfterTelling(Now)
  <2>1. Now.what \notin {"estop", "motor_id", "feedback_id"}
    BY <1>3, ScanNow DEF Running, ScanStep
  <2>2. Told(motor[m], Now).id = motor[m].id /\ Told(motor[m], Now).fid = motor[m].fid
    BY <1>1, <2>1 DEF Told, IsMotor
  <2>3. motor'[m] = Told(motor[m], Now) \/ motor'[m] = motor[m]
    BY <1>3, <2>1 DEF AfterTelling
  <2> QED
    BY <2>2, <2>3
<1>4. CASE \E R \in SUBSET reg : motor' = SwitchedOff(R)
  BY <1>1, <1>4 DEF SwitchedOff, IsMotor
<1> QED
  BY <1>2, <1>3, <1>4, MotorMoves

(* A reply is handed to one who can take its sender for the motor meant.   *)
LEMMA TakenRight ==
  ASSUME SameIds, NEW m \in Answering(Now), NEW x \in Takers(m, Now)
  PROVE  m \in Motors /\ TakenFor(m, x) /\ Before(m).vendor = vendor /\ Before(m).id = Now.id
<1>1. m \in Motors /\ Before(m).vendor = vendor /\ motor[m].id = Now.id
  BY DEF Answering, Reached, Before
<1>2. motor[m].id = Before(m).id /\ motor[m].fid = Before(m).fid
  BY <1>1 DEF SameIds
<1>3. CASE vendor = "damiao"
  BY <1>1, <1>2, <1>3 DEF Takers, TakenFor
<1>4. CASE vendor # "damiao"
  <2>1. x = <<Now.id, Now.fid>>
    BY <1>4 DEF Takers
  <2> QED
    BY <1>1, <1>2, <2>1 DEF TakenFor
<1> QED
  BY <1>1, <1>2, <1>3, <1>4

(* What is held after a question, and what it reports. *)
LEMMA AskedRight ==
  ASSUME SameIds, Query, Now.op # "read_ids", \A x \in heard : \E m \in Motors : TakenFor(m, x)
  PROVE  /\ vendor' = vendor /\ \A x \in heard' : \E m \in Motors : TakenFor(m, x)
         /\ \A h \in hits' \ hits :
              /\ h[1] = vendor /\ h[2] = Now.id /\ h[3] = Now.fid
              /\ IF Now.what = "feedback" THEN <<Now.id, Now.fid>> \in heard'
                 ELSE \E m \in Motors : Before(m).vendor = vendor /\ Before(m).id = Now.id
<1> DEFINE me == <<Now.id, Now.fid>>
           replies == {r \in [of : Answering(Now), taker : reg \cup {me}] : r.taker \in Takers(r.of, Now)}
           Got(r)  == r.taker = me /\ (Now.op = "check" => motor[r.of].fid = Now.fid)
           Hit1(answered) == hits' = IF answered /\ Now.op \in {"probe", "read_ids"} THEN hits \cup {<<vendor>> \o me} ELSE hits
<1>1. vendor' = vendor
  BY DEF Query
<1>2. \/ \E r \in replies :
           /\ heard' = IF Now.what = "feedback" THEN heard \cup {r.taker} ELSE heard
           /\ Hit1(IF Now.what = "feedback" THEN me \in heard' ELSE Got(r))
      \/ Hit1(Now.what = "feedback" /\ me \in heard) /\ heard' = heard
  BY Zenon DEF Query
<1>3. \A r \in replies : /\ \E m \in Motors : TakenFor(m, r.taker)
                         /\ \E m \in Motors : Before(m).vendor = vendor /\ Before(m).id = Now.id
  BY TakenRight
<1>4. \A h : h = <<vendor>> \o me => h[1] = vendor /\ h[2] = Now.id /\ h[3] = Now.fid
  BY HitFields
<1> HIDE DEF replies, me
<1>5. CASE \E r \in replies :
             /\ heard' = IF Now.what = "feedback" THEN heard \cup {r.taker} ELSE heard
             /\ Hit1(IF Now.what = "feedback" THEN me \in heard' ELSE Got(r))
  BY <1>1, <1>3, <1>4, <1>5 DEF me
<1>6. CASE Hit1(Now.what = "feedback" /\ me \in heard) /\ heard' = heard
  BY <1>1, <1>4, <1>6 DEF me
<1> QED
  BY <1>2, <1>5, <1>6

(* Feedback is asked only on an adapter. *)
LEMMA HearsNot ==
  ASSUME HearInv, Scanning(setup), Query, Now.op = "probe", Now.what = "feedback"
  PROVE  "dm_device" \in setup.flags
<1> SUFFICES ASSUME "dm_device" \notin setup.flags PROVE FALSE
  OBVIOUS
<1>1. /\ status = "running" /\ pc \in 1..Len(P) /\ Now = P[pc] /\ Settled(P) /\ pc <= Len(P) /\ ~Skipped /\ pc \in Nat
      /\ Programs[setup] = P
  BY ScanNow DEF Query, Running, HearInv, ScanInv
<1>2. Again(P, pc)
  BY <1>1 DEF Settled, Hears
<1>3. /\ Now.unfound /\ P[pc - 1].op = "add" /\ P[pc - 1].id = Now.id
      /\ \E j \in 1..(pc - 1) : OpenedBy(P, j, pc) /\ \E l \in (j + 1)..(pc - 2) : Adds(P, l, Now.id)
  BY <1>1, <1>2 DEF Again, Adds
<1>4. PICK j \in 1..(pc - 1) : OpenedBy(P, j, pc) /\ \E l \in (j + 1)..(pc - 2) : Adds(P, l, Now.id)
  BY <1>3
<1>5. Added(j)
  BY <1>1, <1>4 DEF HearInv
<1>6. ~bound \/ FoundV(hits, vendor, Now.id)
  BY <1>3, <1>4, <1>5 DEF Added
<1>7. Skipped
  BY <1>3, <1>6 DEF Skipped, Found, FoundV
<1> QED
  BY <1>1, <1>7

LEMMA HearKept ==
  ASSUME HearInv, Scanning(setup), [Next]_vars
  PROVE  HearInv'
<1>1. /\ BaseInv /\ ScanInv /\ SameIds /\ setup' = setup /\ P' = P
      /\ \A x \in heard : \E m \in Motors : TakenFor(m, x)
      /\ \A h \in hits : \E m \in Motors : StandsFor(h, m)
  BY SetupStays DEF HearInv, ScanInv, P
<1>2. \A m \in Motors : Before(m)' = Before(m)
  BY <1>1 DEF Before
<1>3. ScanInv'
  BY <1>1, ScanKept
<1>4. SameIds'
  BY <1>1, <1>2, IdsKept DEF SameIds
<1>5. ASSUME Query
      PROVE  /\ \A h \in hits' : \E m \in Motors : StandsFor(h, m)
             /\ \A x \in heard' : \E m \in Motors : TakenFor(m, x)
             /\ vendor' = vendor
  <2>1. Now.op # "read_ids" /\ Now.op # "check"
    BY <1>1, <1>5, ScanNow DEF Query, Running, ScanStep
  <2>2. /\ vendor' = vendor /\ \A x \in heard' : \E m \in Motors : TakenFor(m, x)
        /\ \A h \in hits' \ hits :
              /\ h[1] = vendor /\ h[2] = Now.id /\ h[3] = Now.fid
              /\ IF Now.what = "feedback" THEN <<Now.id, Now.fid>> \in heard'
                 ELSE \E m \in Motors : Before(m).vendor = vendor /\ Before(m).id = Now.id
    BY <1>1, <1>5, <2>1, AskedRight
  <2>3. ASSUME NEW h \in hits', h \notin hits PROVE \E m \in Motors : StandsFor(h, m)
    <3>1. Now.op = "probe"
      BY <1>1, <2>1, <2>3, HitsGrow DEF Running
    <3>2. CASE Now.what = "feedback"
      <4>1. "dm_device" \in setup.flags
        BY <1>5, <3>1, <3>2, HearsNot
      <4>2. PICK m \in Motors : TakenFor(m, <<Now.id, Now.fid>>)
        BY <2>2, <2>3, <3>2
      <4>3. StandsFor(h, m)
        BY <2>2, <2>3, <4>1, <4>2 DEF StandsFor, TakenFor
      <4> QED
        BY <4>3
    <3>3. CASE Now.what # "feedback"
      BY <2>2, <2>3, <3>3 DEF StandsFor
    <3> QED
      BY <3>2, <3>3
  <2> QED
    BY <1>1, <2>2, <2>3
<1>6. ASSUME ~Query PROVE hits' = hits /\ (heard' = {} \/ (heard' = heard /\ vendor' = vendor))
  BY <1>6 DEF Next, vars, controller, OpenBus, AddMotor, Skip, Tell, LoopRound, InstallHandler, CloseBus,
     ShutdownAll, Turn, Return, Interrupt, Done
<1>7. /\ \A h \in hits' : \E m \in Motors : StandsFor(h, m)
      /\ heard' = {} \/ (vendor' = vendor /\ \A x \in heard' : \E m \in Motors : TakenFor(m, x))
  BY <1>1, <1>5, <1>6
<1>8. \A h \in hits' : \E m \in Motors : StandsFor(h, m)'
  BY <1>1, <1>2, <1>7 DEF StandsFor
<1>9. \A x \in heard' : \E m \in Motors : TakenFor(m, x)'
  BY <1>2, <1>7 DEF TakenFor
<1>10. status' = "running" /\ pc' <= Len(P) => \A j \in 1..(pc' - 1) : OpenedBy(P, j, pc') => Added(j)'
  BY <1>1, AddedKept DEF Added
<1> HIDE DEF P, OpenedBy, Added
<1> QED
  BY <1>1, <1>3, <1>4, <1>8, <1>9, <1>10 DEF HearInv

(* A scan reports only motors that are there, whatever is lost, answers    *)
(* late or was registered before (Query, of motor_cli's and the gateway's  *)
(* scans): a hit is an exact answer, or on an adapter the feedback of a    *)
(* motor that shares it.                                                   *)
THEOREM ReportsAreTrue == Spec => []ReportsAreReal
<1> DEFINE HearAll == Scanning(setup) => HearInv
<1>1. Init => HearAll
  BY HearStarts
<1>2. HearAll /\ [Next]_vars => HearAll'
  <2> SUFFICES ASSUME HearAll, [Next]_vars, Scanning(setup)' PROVE HearInv'
    OBVIOUS
  <2>1. Scanning(setup)
    BY SetupStays DEF Scanning
  <2> QED
    BY <2>1, HearKept
<1>3. HearAll => ReportsAreReal
  BY DEF HearInv, ReportsAreReal
<1> QED
  BY <1>1, <1>2, <1>3, PTL DEF Spec

(***************************************************************************)
(* Commands that are to leave a motor enabled, disabled or stopped.  Their *)
(* programs open the bus, register the motor and then go straight on, and  *)
(* nothing after the last step that switches the motor as asked switches   *)
(* it back.                                                                *)
(***************************************************************************)
Directs(s) ==
  /\ s.mode \in Motions \cup {"enable", "disable", "quick-stop"}
  /\ s.vendor # "myactuator" /\ s.loops # 0
Acks(s)   == s.vendor \in {"robstride_cia402", "robstride_mit", "hexfellow"} /\ s.mode \in {"enable", "disable"}
Wanted(s) == IF s.mode = "enable" THEN "on" ELSE "off"
Doing(s)  == IF s.mode = "enable" THEN "start" ELSE "stop"

PlainStep ==
  {st \in StepType :
     /\ ~st.unfound
     /\ st.op \in {"ask", "send", "call", "catch", "loop", "refuse", "close", "shutdown"}
     /\ st.op = "refuse" => st.must
     /\ st.op \in {"send", "call"} => st.what \notin {"estop", "motor_id", "feedback_id", "store"}}

(* The step does what is asked; it undoes it. *)
Sets(st, s) ==
  \/ /\ st.op \in {"send", "call"} /\ st.id = s.id /\ st.what = Doing(s)
     /\ Acks(s) => st.op = "call" /\ st.must
  \/ st.op = "shutdown" /\ s.mode # "enable" /\ ~Acks(s)
Undoes(st, s) ==
  IF s.mode = "enable" THEN st.op = "shutdown" \/ (st.op \in {"send", "call"} /\ st.what \in {"stop", "reset"})
  ELSE st.op \in {"send", "call"} /\ st.what = "start"
Kept(s) == {st \in PlainStep : ~Undoes(st, s)}

Ends(s) ==
  {r \in Seq(PlainStep) : \E k \in 1..Len(r) : Sets(r[k], s) /\ \A l \in (k + 1)..Len(r) : ~Undoes(r[l], s)}
Firm(s) == {r \in Seq(Kept(s)) : \E k \in 1..Len(r) : Sets(r[k], s)}

Leads(p, s) ==
  /\ Len(p) \in Nat /\ Len(p) >= 2
  /\ p[1].op = "open" /\ p[1].must /\ ~p[1].unfound
  /\ p[2].op = "add" /\ p[2].must /\ ~p[2].unfound /\ p[2].id = s.id
  /\ \A k \in 3..Len(p) : p[k] \in PlainStep
Straight(p, s) ==
  /\ Leads(p, s)
  /\ \E k \in 3..Len(p) : Sets(p[k], s) /\ \A l \in (k + 1)..Len(p) : ~Undoes(p[l], s)

LEMMA SeqParts ==
  ASSUME NEW S, NEW a \in Seq(S), NEW b \in Seq(S)
  PROVE  /\ a \o b \in Seq(S) /\ Len(a) \in Nat /\ Len(b) \in Nat /\ Len(a \o b) = Len(a) + Len(b)
         /\ \A i \in 1..Len(a) : i \in 1..Len(a \o b) /\ (a \o b)[i] = a[i] /\ a[i] \in S
         /\ \A i \in 1..Len(b) : i + Len(a) \in 1..Len(a \o b) /\ (a \o b)[i + Len(a)] = b[i] /\ b[i] \in S
         /\ \A i \in 1..Len(a \o b) : i \in 1..Len(a) \/ (i - Len(a) \in 1..Len(b) /\ i = (i - Len(a)) + Len(a))
<1>1. /\ a \o b \in Seq(S) /\ Len(a \o b) = Len(a) + Len(b)
      /\ \A i \in 1..(Len(a) + Len(b)) : (a \o b)[i] = IF i <= Len(a) THEN a[i] ELSE b[i - Len(a)]
  BY ConcatProperties
<1>2. /\ Len(a) \in Nat /\ Len(b) \in Nat
      /\ \A i \in 1..Len(a) : a[i] \in S
      /\ \A i \in 1..Len(b) : b[i] \in S
  BY LenProperties, ElementOfSeq
<1> QED
  BY <1>1, <1>2

LEMMA FirmEnds ==
  ASSUME NEW s
  PROVE  Firm(s) \subseteq Ends(s)
<1> SUFFICES ASSUME NEW r \in Firm(s) PROVE r \in Ends(s)
  OBVIOUS
<1>1. r \in Seq(Kept(s)) /\ Len(r) \in Nat /\ \A l \in 1..Len(r) : r[l] \in Kept(s)
  BY LenProperties, ElementOfSeq DEF Firm
<1>2. r \in Seq(PlainStep)
  <2>1. Kept(s) \subseteq PlainStep
    BY DEF Kept
  <2> QED
    BY <1>1, <2>1, SeqMonotonic
<1>3. PICK k \in 1..Len(r) : Sets(r[k], s)
  BY DEF Firm
<1>4. \A l \in (k + 1)..Len(r) : ~Undoes(r[l], s)
  BY <1>1, <1>3 DEF Kept
<1> QED
  BY <1>2, <1>3, <1>4 DEF Ends

LEMMA FirmJoin ==
  ASSUME NEW s, NEW a \in Seq(Kept(s)), NEW b \in Seq(Kept(s)), a \in Firm(s) \/ b \in Firm(s)
  PROVE  a \o b \in Firm(s)
<1> DEFINE c == a \o b
<1>1. /\ c \in Seq(Kept(s))
      /\ \A i \in 1..Len(a) : i \in 1..Len(c) /\ c[i] = a[i]
      /\ \A i \in 1..Len(b) : i + Len(a) \in 1..Len(c) /\ c[i + Len(a)] = b[i]
  BY SeqParts
<1> HIDE DEF c
<1>2. \E k \in 1..Len(c) : Sets(c[k], s)
  <2>1. CASE a \in Firm(s)
    <3>1. PICK k \in 1..Len(a) : Sets(a[k], s)
      BY <2>1 DEF Firm
    <3> QED
      BY <1>1, <3>1
  <2>2. CASE b \in Firm(s)
    <3>1. PICK k \in 1..Len(b) : Sets(b[k], s)
      BY <2>2 DEF Firm
    <3> QED
      BY <1>1, <3>1
  <2> QED
    BY <2>1, <2>2
<1>3. c \in Firm(s)
  BY <1>1, <1>2 DEF Firm
<1> QED
  BY <1>3 DEF c

LEMMA EndsJoin ==
  ASSUME NEW s, NEW a \in Seq(PlainStep), NEW b \in Ends(s)
  PROVE  a \o b \in Ends(s)
<1> DEFINE c == a \o b
           n == Len(a)
<1>1. b \in Seq(PlainStep)
  BY DEF Ends
<1>2. /\ c \in Seq(PlainStep) /\ n \in Nat /\ Len(b) \in Nat /\ Len(c) = n + Len(b)
      /\ \A i \in 1..Len(b) : i + n \in 1..Len(c) /\ c[i + n] = b[i]
  BY <1>1, SeqParts
<1> HIDE DEF c, n
<1>3. PICK k \in 1..Len(b) : Sets(b[k], s) /\ \A l \in (k + 1)..Len(b) : ~Undoes(b[l], s)
  BY DEF Ends
<1>4. k + n \in 1..Len(c) /\ Sets(c[k + n], s)
  BY <1>2, <1>3
<1>5. ASSUME NEW l \in (k + n + 1)..Len(c) PROVE ~Undoes(c[l], s)
  <2>1. l - n \in (k + 1)..Len(b) /\ l - n \in 1..Len(b) /\ (l - n) + n = l
    BY <1>2, <1>3
  <2> QED
    BY <1>2, <1>3, <2>1
<1>6. c \in Ends(s)
  BY <1>2, <1>4, <1>5 DEF Ends
<1> QED
  BY <1>6 DEF c

LEMMA FirmTimes ==
  ASSUME NEW s, NEW n \in Nat \ {0}, NEW a \in Firm(s)
  PROVE  Times(n, a) \in Firm(s)
<1> DEFINE q == [k \in 1..n |-> a]
<1>1. q \in Seq(Firm(s)) /\ q # <<>>
  <2>1. q \in Seq(Firm(s)) /\ Len(q) = n
    OBVIOUS
  <2> QED
    BY <2>1, EmptySeq
<1>2. \A x, y \in Firm(s) : x \o y \in Firm(s)
  BY FirmJoin DEF Firm
<1> HIDE DEF q
<1>3. FlattenSeq(q) \in Firm(s)
  BY <1>1, <1>2, FlattenCloses
<1> QED
  BY <1>3 DEF Times, q

(* A program is its head and what leaves the motor as asked.               *)
LEMMA HeadJoin ==
  ASSUME NEW s, NEW p \in Seq(StepType), Leads(p, s), NEW b \in Seq(PlainStep)
  PROVE  /\ p \o b \in Seq(StepType) /\ Leads(p \o b, s)
         /\ b \in Ends(s) => Straight(p \o b, s)
<1> DEFINE c == p \o b
           n == Len(p)
<1>1. b \in Seq(StepType)
  <2>1. PlainStep \subseteq StepType
    BY DEF PlainStep
  <2> QED
    BY <2>1, SeqMonotonic
<1>2. \A i \in 1..Len(b) : b[i] \in PlainStep
  BY ElementOfSeq
<1>3. /\ c \in Seq(StepType) /\ n \in Nat /\ Len(b) \in Nat /\ Len(c) = n + Len(b)
      /\ \A i \in 1..n : i \in 1..Len(c) /\ c[i] = p[i]
      /\ \A i \in 1..Len(b) : i + n \in 1..Len(c) /\ c[i + n] = b[i]
      /\ \A i \in 1..Len(c) : i \in 1..n \/ (i - n \in 1..Len(b) /\ i = (i - n) + n)
  BY <1>1, SeqParts
<1>4. n >= 2
  BY DEF Leads
<1> HIDE DEF c, n
<1>5. \A k \in 3..Len(c) : c[k] \in PlainStep
  <2>1. \A k \in 3..n : p[k] \in PlainStep
    BY DEF Leads, n
  <2> SUFFICES ASSUME NEW k \in 3..Len(c) PROVE c[k] \in PlainStep
    OBVIOUS
  <2>2. k \in 1..Len(c)
    BY <1>3
  <2>3. CASE k \in 1..n
    BY <1>3, <2>1, <2>3
  <2>4. CASE k - n \in 1..Len(b) /\ k = (k - n) + n
    <3>1. c[k] = b[k - n]
      BY <1>3, <2>4
    <3> QED
      BY <1>2, <2>4, <3>1
  <2> QED
    BY <1>3, <2>2, <2>3, <2>4
<1>6. Leads(c, s)
  <2>1. c[1] = p[1] /\ c[2] = p[2] /\ Len(c) \in Nat /\ Len(c) >= 2
    BY <1>3, <1>4
  <2> QED
    BY <1>5, <2>1 DEF Leads
<1>7. ASSUME b \in Ends(s) PROVE Straight(c, s)
  <2>1. PICK k \in 1..Len(b) : Sets(b[k], s) /\ \A l \in (k + 1)..Len(b) : ~Undoes(b[l], s)
    BY <1>7 DEF Ends
  <2>2. k + n \in 3..Len(c) /\ Sets(c[k + n], s)
    BY <1>3, <1>4, <2>1
  <2>3. ASSUME NEW l \in (k + n + 1)..Len(c) PROVE ~Undoes(c[l], s)
    <3>1. l - n \in (k + 1)..Len(b) /\ l - n \in 1..Len(b) /\ (l - n) + n = l
      BY <1>3, <2>1
    <3> QED
      BY <1>3, <2>1, <3>1
  <2> QED
    BY <1>6, <2>2, <2>3 DEF Straight
<1> QED
  BY <1>3, <1>6, <1>7 DEF c

(***************************************************************************)
(* The steps these programs are made of.                                   *)
(***************************************************************************)
Moot == {"", "regs", "feedback", "ping", "param", "run_mode", "map", "endpoint", "obstacle", "warm_up",
         "control", "query"}

LEMMA MootSteps ==
  ASSUME NEW s, NEW i \in Nat, NEW f \in Nat, NEW w \in Moot
  PROVE  /\ Ask(i, f, w) \in Kept(s) /\ Peek(i, f, w) \in Kept(s) /\ Loop(i, w) \in Kept(s)
         /\ Send(i, w) \in Kept(s) /\ Post(i, w) \in Kept(s) /\ Call(i, w) \in Kept(s) /\ Try(i, w) \in Kept(s)
         /\ Close \in Kept(s) /\ Catch \in Kept(s) /\ Refuse \in Kept(s)
         /\ s.mode # "enable" => Shutdown \in Kept(s)
<1>1. w \in Whats /\ w \notin {"start", "stop", "reset", "estop", "motor_id", "feedback_id", "store"}
  BY DEF Moot, Whats
<1>2. Ask(i, f, w) \in Kept(s) /\ Peek(i, f, w) \in Kept(s)
  <2>1. ~Ask(i, f, w).unfound /\ ~Peek(i, f, w).unfound
    BY DEF Ask, Peek, Step
  <2> QED
    BY <1>1, <2>1, AskSteps DEF Kept, PlainStep, Undoes
<1>3. Loop(i, w) \in Kept(s)
  <2>1. ~Loop(i, w).unfound
    BY DEF Loop, Step
  <2> QED
    BY <1>1, <2>1, LoopSteps DEF Kept, PlainStep, Undoes
<1>4. Send(i, w) \in Kept(s) /\ Post(i, w) \in Kept(s)
  BY <1>1, SendSteps DEF Kept, PlainStep, Undoes
<1>5. Call(i, w) \in Kept(s) /\ Try(i, w) \in Kept(s)
  BY <1>1, CallSteps DEF Kept, PlainStep, Undoes
<1>6. Close \in Kept(s) /\ Catch \in Kept(s) /\ Refuse \in Kept(s) /\ (s.mode # "enable" => Shutdown \in Kept(s))
  BY PlainSteps DEF Kept, PlainStep, Undoes
<1> QED
  BY <1>2, <1>3, <1>4, <1>5, <1>6

LEMMA DoingSteps ==
  ASSUME NEW s, s.id \in Nat
  PROVE  /\ \A w \in {"start", "stop"} : /\ Send(s.id, w) \in PlainStep /\ Post(s.id, w) \in PlainStep
                                         /\ Call(s.id, w) \in PlainStep /\ Try(s.id, w) \in PlainStep
         /\ Send(s.id, Doing(s)) \in Kept(s) /\ Post(s.id, Doing(s)) \in Kept(s)
         /\ Call(s.id, Doing(s)) \in Kept(s) /\ Try(s.id, Doing(s)) \in Kept(s)
         /\ Sets(Call(s.id, Doing(s)), s)
         /\ ~Acks(s) => Sets(Send(s.id, Doing(s)), s)
         /\ s.mode # "enable" => Shutdown \in Kept(s)
         /\ s.mode # "enable" /\ ~Acks(s) => Sets(Shutdown, s)
<1>1. /\ "start" \in Whats /\ "stop" \in Whats /\ Doing(s) \in {"start", "stop"}
      /\ Doing(s) = "start" <=> s.mode = "enable"
  BY DEF Whats, Doing
<1>2. \A w \in {"start", "stop"} : /\ Send(s.id, w) \in PlainStep /\ Post(s.id, w) \in PlainStep
                                   /\ Call(s.id, w) \in PlainStep /\ Try(s.id, w) \in PlainStep
  BY <1>1, SendSteps, CallSteps DEF PlainStep
<1>3. /\ Send(s.id, Doing(s)) \in Kept(s) /\ Post(s.id, Doing(s)) \in Kept(s)
      /\ Call(s.id, Doing(s)) \in Kept(s) /\ Try(s.id, Doing(s)) \in Kept(s)
  BY <1>1, <1>2, SendSteps, CallSteps DEF Kept, Undoes
<1>4. Sets(Call(s.id, Doing(s)), s) /\ (~Acks(s) => Sets(Send(s.id, Doing(s)), s))
  BY <1>1, SendSteps, CallSteps DEF Sets
<1>5. /\ s.mode # "enable" => Shutdown \in Kept(s)
      /\ s.mode # "enable" /\ ~Acks(s) => Sets(Shutdown, s)
  BY PlainSteps DEF Kept, PlainStep, Undoes, Sets
<1> QED
  BY <1>2, <1>3, <1>4, <1>5

(* The short parts. *)
LEMMA FirmShort ==
  ASSUME NEW s
  PROVE  /\ \A a \in Kept(s) : Sets(a, s) => <<a>> \in Firm(s)
         /\ \A a, b \in Kept(s) : Sets(a, s) \/ Sets(b, s) => <<a, b>> \in Firm(s)
<1>1. ASSUME NEW a \in Kept(s), Sets(a, s) PROVE <<a>> \in Firm(s)
  <2>1. <<a>> \in Seq(Kept(s)) /\ Len(<<a>>) = 1 /\ <<a>>[1] = a
    BY Tuples
  <2>2. 1 \in 1..Len(<<a>>)
    BY <2>1
  <2> QED
    BY <1>1, <2>1, <2>2 DEF Firm
<1>2. ASSUME NEW a \in Kept(s), NEW b \in Kept(s), Sets(a, s) \/ Sets(b, s) PROVE <<a, b>> \in Firm(s)
  <2>1. <<a, b>> \in Seq(Kept(s)) /\ Len(<<a, b>>) = 2 /\ <<a, b>>[1] = a /\ <<a, b>>[2] = b
    BY Tuples
  <2>2. 1 \in 1..Len(<<a, b>>) /\ 2 \in 1..Len(<<a, b>>)
    BY <2>1
  <2> QED
    BY <1>2, <2>1, <2>2 DEF Firm
<1> QED
  BY <1>1, <1>2

LEMMA HeadShort ==
  ASSUME NEW s \in Setups, NEW v \in Vendors, NEW f \in Nat
  PROVE  <<Open(v), Add(s.id, f)>> \in Seq(StepType) /\ Leads(<<Open(v), Add(s.id, f)>>, s)
<1> DEFINE a == Open(v)
           b == Add(s.id, f)
<1>1. s.id \in Nat
  BY SetupFields
<1>2. a \in StepType /\ b \in StepType /\ a.op = "open" /\ a.must /\ ~a.unfound
      /\ b.op = "add" /\ b.must /\ ~b.unfound /\ b.id = s.id
  BY <1>1, OpenSteps, AddSteps
<1> HIDE DEF a, b
<1>3. <<a, b>> \in Seq(StepType)
  BY <1>2, Tuples
<1>4. Leads(<<a, b>>, s)
  BY <1>2 DEF Leads
<1> QED
  BY <1>3, <1>4 DEF a, b

LEMMA KeptPlain ==
  ASSUME NEW s
  PROVE  Kept(s) \subseteq PlainStep /\ Seq(Kept(s)) \subseteq Seq(PlainStep) /\ Firm(s) \subseteq Seq(Kept(s))
<1>1. Kept(s) \subseteq PlainStep
  BY DEF Kept
<1> QED
  BY <1>1, SeqMonotonic DEF Firm

(* The program of a session: its head, what it does on the way, and what   *)
(* it ends with.                                                           *)
LEMMA Session ==
  ASSUME NEW s \in Setups, NEW v \in Vendors, NEW f \in Nat, NEW a \in Seq(PlainStep), NEW b \in Ends(s)
  PROVE  /\ Straight(<<Open(v), Add(s.id, f)>> \o a \o b, s)
         /\ Straight(<<Open(v), Add(s.id, f)>> \o b, s)
         /\ Straight(<<Open(v), Add(s.id, f)>> \o (a \o b), s)
<1> DEFINE h == <<Open(v), Add(s.id, f)>>
<1>1. h \in Seq(StepType) /\ Leads(h, s)
  BY HeadShort
<1>2. b \in Seq(PlainStep) /\ a \o b \in Ends(s)
  BY EndsJoin DEF Ends
<1>3. a \o b \in Seq(PlainStep)
  BY <1>2 DEF Ends
<1> HIDE DEF h
<1>4. h \o a \in Seq(StepType) /\ Leads(h \o a, s)
  BY <1>1, HeadJoin
<1>5. Straight((h \o a) \o b, s)
  BY <1>2, <1>4, HeadJoin
<1>6. Straight(h \o b, s) /\ Straight(h \o (a \o b), s)
  BY <1>1, <1>2, <1>3, HeadJoin
<1> QED
  BY <1>5, <1>6 DEF h

(* A motion ends in a shutdown. *)
LEMMA ShutEnds ==
  ASSUME NEW s, s.mode # "enable", ~Acks(s), s.id \in Nat
  PROVE  <<Shutdown>> \in Firm(s) /\ <<Shutdown>> \in Ends(s)
BY DoingSteps, FirmShort, FirmEnds

LEMMA DamiaoDirects ==
  ASSUME NEW s \in Setups, s.vendor = "damiao", s.mode \in {"enable", "disable", "control"}, s.loops # 0
  PROVE  Straight(Damiao(s), s)
<1> DEFINE head == <<Open("damiao"), Add(s.id, s.fid)>>
           on   == <<Send(s.id, "start"), Peek(s.id, s.fid, "feedback")>>
           off  == <<Send(s.id, "stop"), Peek(s.id, s.fid, "feedback")>>
           c    == <<Close>>
           a    == <<Send(s.id, "start"), Peek(s.id, s.fid, "regs")>>
           b    == <<Send(s.id, "control")>>
           d    == <<Shutdown>>
           regs == <<Ask(s.id, s.fid, "regs")>>
<1>1. s.id \in Nat /\ s.fid \in Nat /\ s.loops \in Nat \ {0} /\ ~Acks(s) /\ "damiao" \in Vendors
  BY SetupFields DEF Acks, Vendors
<1>2. /\ Peek(s.id, s.fid, "feedback") \in Kept(s) /\ Peek(s.id, s.fid, "regs") \in Kept(s)
      /\ Ask(s.id, s.fid, "regs") \in Kept(s) /\ Send(s.id, "control") \in Kept(s) /\ Close \in Kept(s)
  BY <1>1, MootSteps DEF Moot
<1>3. c \in Seq(Kept(s)) /\ b \in Seq(Kept(s)) /\ regs \in Seq(Kept(s))
  BY <1>2, Tuples
<1>4. a \in Seq(PlainStep)
  <2>1. Send(s.id, "start") \in PlainStep /\ Peek(s.id, s.fid, "regs") \in PlainStep
    BY <1>1, <1>2, DoingSteps, KeptPlain
  <2> QED
    BY <2>1, Tuples
<1>5. s.mode = "enable" => on \in Firm(s)
  <2>1. s.mode = "enable" => Doing(s) = "start"
    BY DEF Doing
  <2> QED
    BY <1>1, <1>2, <2>1, DoingSteps, FirmShort
<1>6. s.mode = "disable" => off \in Firm(s)
  <2>1. s.mode = "disable" => Doing(s) = "stop"
    BY DEF Doing
  <2> QED
    BY <1>1, <1>2, <2>1, DoingSteps, FirmShort
<1>7. s.mode = "control" => d \in Ends(s)
  BY <1>1, ShutEnds
<1>8. VerifyModel(s) = When("verify_model" \in s.flags, regs)
  BY DEF VerifyModel
<1>9. Damiao(s) = head \o VerifyModel(s) \o
        CASE s.mode = "enable"  -> Times(s.loops, on) \o c
          [] s.mode = "disable" -> Times(s.loops, off) \o c
          [] OTHER -> a \o Times(s.loops, b) \o d
  BY DEF Damiao, DamiaoSession
<1> HIDE DEF on, off, a, b, c, d, regs
<1>10. VerifyModel(s) \in Seq(PlainStep)
  BY <1>3, <1>8, WhenMember, KeptPlain
<1>11. s.mode = "enable" => Times(s.loops, on) \o c \in Ends(s)
  BY <1>1, <1>3, <1>5, FirmTimes, FirmJoin, FirmEnds, KeptPlain
<1>12. s.mode = "disable" => Times(s.loops, off) \o c \in Ends(s)
  BY <1>1, <1>3, <1>6, FirmTimes, FirmJoin, FirmEnds, KeptPlain
<1>13. s.mode = "control" => a \o Times(s.loops, b) \o d \in Ends(s)
  <2>1. Times(s.loops, b) \in Seq(PlainStep)
    BY <1>1, <1>3, TimesMember, KeptPlain
  <2>2. a \o Times(s.loops, b) \in Seq(PlainStep)
    BY <1>4, <2>1, ConcatMember
  <2> QED
    BY <1>7, <2>2, EndsJoin
<1> QED
  BY <1>1, <1>9, <1>10, <1>11, <1>12, <1>13, Session

LEMMA RobstrideDirects ==
  ASSUME NEW s \in Setups, s.vendor = "robstride", s.mode \in {"enable", "disable", "mit", "pos-vel", "vel"}, s.loops # 0
  PROVE  Straight(Robstride(s), s)
<1> DEFINE head == <<Open("robstride"), Add(s.id, s.fid)>>
           mode == <<Try(s.id, "stop"), Ask(s.id, 0, "run_mode")>>
           on   == <<Call(s.id, "start")>>
           rOn  == <<Send(s.id, "start")>>
           rOff == <<Send(s.id, "stop")>>
           rGo  == <<Send(s.id, "control")>>
           c    == <<Close>>
           d    == <<Shutdown>>
<1>1. s.id \in Nat /\ s.fid \in Nat /\ s.loops \in Nat \ {0} /\ ~Acks(s) /\ "robstride" \in Vendors
  BY SetupFields DEF Acks, Vendors
<1>2. Ask(s.id, 0, "run_mode") \in Kept(s) /\ Send(s.id, "control") \in Kept(s) /\ Close \in Kept(s)
  BY <1>1, MootSteps DEF Moot
<1>3. c \in Seq(Kept(s)) /\ rGo \in Seq(Kept(s))
  BY <1>2, Tuples
<1>4. mode \in Seq(PlainStep) /\ on \in Seq(PlainStep)
  <2>1. Try(s.id, "stop") \in PlainStep /\ Call(s.id, "start") \in PlainStep /\ Ask(s.id, 0, "run_mode") \in PlainStep
    BY <1>1, <1>2, DoingSteps, KeptPlain
  <2> QED
    BY <2>1, Tuples
<1>5. s.mode = "enable" => rOn \in Firm(s)
  <2>1. s.mode = "enable" => Doing(s) = "start"
    BY DEF Doing
  <2> QED
    BY <1>1, <2>1, DoingSteps, FirmShort
<1>6. s.mode = "disable" => rOff \in Firm(s)
  <2>1. s.mode = "disable" => Doing(s) = "stop"
    BY DEF Doing
  <2> QED
    BY <1>1, <2>1, DoingSteps, FirmShort
<1>7. s.mode \in {"mit", "pos-vel", "vel"} => d \in Ends(s)
  BY <1>1, ShutEnds
<1>8. /\ EnsureRunMode(s) = When("ensure_mode" \in s.flags /\ s.mode \in {"mit", "pos-vel", "vel"}, mode)
      /\ EnableFirst(s) = When(s.mode \notin {"disable", "stop", "set-zero", "clear-error", "pos-vel-pp", "pos-vel-csp"}, on)
      /\ RobstrideRound(s) = IF s.mode = "enable" THEN rOn ELSE IF s.mode = "disable" THEN rOff ELSE rGo
      /\ RobstrideEnd(s) = IF s.mode \in {"enable", "disable"} THEN c ELSE d
  BY DEF EnsureRunMode, EnableFirst, RobstrideRound, RobstrideEnd
<1>9. Robstride(s) = head \o EnsureRunMode(s) \o EnableFirst(s) \o Times(s.loops, RobstrideRound(s)) \o RobstrideEnd(s)
  BY DEF Robstride, OneShots
<1> HIDE DEF mode, on, rOn, rOff, rGo, c, d
<1> DEFINE x == EnsureRunMode(s)
           y == EnableFirst(s)
           t == Times(s.loops, RobstrideRound(s))
           e == RobstrideEnd(s)
<1>10. x \in Seq(PlainStep) /\ y \in Seq(PlainStep)
  BY <1>4, <1>8, WhenMember
<1>11. head \in Seq(StepType) /\ Leads(head, s)
  BY <1>1, HeadShort
<1>12. CASE s.mode \in {"enable", "disable"}
  <2>1. RobstrideRound(s) \in Firm(s) /\ e \in Seq(Kept(s))
    BY <1>3, <1>5, <1>6, <1>8, <1>12
  <2>2. t \in Firm(s)
    BY <1>1, <2>1, FirmTimes
  <2>3. t \in Ends(s) /\ t \in Seq(PlainStep) /\ t \in Seq(Kept(s))
    BY <2>2, FirmEnds, KeptPlain
  <2> HIDE DEF x, y, t, e, head
  <2>4. t \o e \in Ends(s)
    BY <2>1, <2>2, <2>3, FirmJoin, FirmEnds
  <2>5. t \o e \in Seq(PlainStep) /\ e \in Seq(PlainStep)
    BY <2>1, <2>4, KeptPlain DEF Ends
  <2>6. head \o x \in Seq(StepType) /\ Leads(head \o x, s)
    BY <1>10, <1>11, HeadJoin
  <2>7. (head \o x) \o y \in Seq(StepType) /\ Leads((head \o x) \o y, s)
    BY <1>10, <2>6, HeadJoin
  <2>8. Straight(((head \o x) \o y) \o (t \o e), s)
    BY <2>4, <2>5, <2>7, HeadJoin
  <2>9. (((head \o x) \o y) \o t) \o e = ((head \o x) \o y) \o (t \o e)
    <3>1. t \in Seq(StepType) /\ e \in Seq(StepType)
      <4>1. PlainStep \subseteq StepType
        BY DEF PlainStep
      <4> QED
        BY <2>3, <2>5, <4>1, SeqMonotonic
    <3> DEFINE q == (head \o x) \o y
    <3>2. q \in Seq(StepType)
      BY <2>7
    <3> HIDE DEF q
    <3>3. (q \o t) \o e = q \o (t \o e)
      BY <3>1, <3>2, ConcatAssociative
    <3> QED
      BY <3>3 DEF q
  <2> QED
    BY <1>9, <2>8, <2>9 DEF x, y, t, e, head
<1>13. CASE s.mode \in {"mit", "pos-vel", "vel"}
  <2>1. RobstrideRound(s) \in Seq(PlainStep) /\ e \in Ends(s)
    BY <1>3, <1>7, <1>8, <1>13, KeptPlain
  <2>2. t \in Seq(PlainStep)
    BY <1>1, <2>1, TimesMember
  <2> HIDE DEF x, y, t, e, head
  <2>3. head \o x \in Seq(StepType) /\ Leads(head \o x, s)
    BY <1>10, <1>11, HeadJoin
  <2>4. (head \o x) \o y \in Seq(StepType) /\ Leads((head \o x) \o y, s)
    BY <1>10, <2>3, HeadJoin
  <2>5. ((head \o x) \o y) \o t \in Seq(StepType) /\ Leads(((head \o x) \o y) \o t, s)
    BY <2>2, <2>4, HeadJoin
  <2>6. Straight((((head \o x) \o y) \o t) \o e, s)
    BY <2>1, <2>5, HeadJoin DEF Ends
  <2> QED
    BY <1>9, <2>6 DEF x, y, t, e, head
<1> QED
  BY <1>12, <1>13

LEMMA Cia402Directs ==
  ASSUME NEW s \in Setups, s.vendor = "robstride_cia402", s.mode \in {"enable", "disable", "quick-stop", "control"},
         s.loops # 0
  PROVE  Straight(Cia402(s), s)
<1> DEFINE head  == <<Open("robstride_cia402"), Add(s.id, s.fid)>>
           on    == <<Call(s.id, "start"), Close>>
           off   == <<Call(s.id, "stop"), Close>>
           round == <<Try(s.id, "stop"), Call(s.id, "param"), Call(s.id, "start"), Call(s.id, "control")>>
           d     == <<Shutdown>>
<1>1. s.id \in Nat /\ s.fid \in Nat /\ s.loops \in Nat \ {0} /\ "robstride_cia402" \in Vendors
  BY SetupFields DEF Vendors
<1>2. Call(s.id, "param") \in Kept(s) /\ Call(s.id, "control") \in Kept(s) /\ Close \in Kept(s)
  BY <1>1, MootSteps DEF Moot
<1>3. round \in Seq(PlainStep)
  <2>1. /\ Try(s.id, "stop") \in PlainStep /\ Call(s.id, "start") \in PlainStep
        /\ Call(s.id, "param") \in PlainStep /\ Call(s.id, "control") \in PlainStep
    BY <1>1, <1>2, DoingSteps, KeptPlain
  <2> QED
    BY <2>1, Tuples
<1>4. s.mode = "enable" => on \in Ends(s)
  <2>1. s.mode = "enable" => Doing(s) = "start"
    BY DEF Doing
  <2> QED
    BY <1>1, <1>2, <2>1, DoingSteps, FirmShort, FirmEnds
<1>5. s.mode \in {"disable", "quick-stop"} => off \in Ends(s)
  <2>1. s.mode \in {"disable", "quick-stop"} => Doing(s) = "stop"
    BY DEF Doing
  <2> QED
    BY <1>1, <1>2, <2>1, DoingSteps, FirmShort, FirmEnds
<1>6. s.mode = "control" => d \in Ends(s)
  BY <1>1, ShutEnds DEF Acks
<1>7. Cia402(s) = head \o
        IF s.mode = "enable" THEN on ELSE IF s.mode \in {"disable", "quick-stop"} THEN off
        ELSE Times(s.loops, round) \o d
  BY DEF Cia402, Cia402Mode
<1> HIDE DEF on, off, round, d
<1>8. Times(s.loops, round) \in Seq(PlainStep)
  BY <1>1, <1>3, TimesMember
<1> QED
  BY <1>1, <1>4, <1>5, <1>6, <1>7, <1>8, Session

LEMMA MitDirects ==
  ASSUME NEW s \in Setups, s.vendor = "robstride_mit", s.mode \in {"enable", "disable", "control"}, s.loops # 0
  PROVE  Straight(Mit(s), s)
<1> DEFINE head  == <<Open("robstride_mit"), Add(s.id, s.fid)>>
           on    == <<Call(s.id, "start"), Close>>
           off   == <<Call(s.id, "stop"), Close>>
           round == <<Call(s.id, "control")>>
           d     == <<Shutdown>>
<1>1. s.id \in Nat /\ s.fid \in Nat /\ s.loops \in Nat \ {0} /\ "robstride_mit" \in Vendors
  BY SetupFields DEF Vendors
<1>2. Call(s.id, "control") \in Kept(s) /\ Close \in Kept(s)
  BY <1>1, MootSteps DEF Moot
<1>3. round \in Seq(PlainStep)
  BY <1>2, Tuples, KeptPlain
<1>4. s.mode = "enable" => on \in Ends(s)
  <2>1. s.mode = "enable" => Doing(s) = "start"
    BY DEF Doing
  <2> QED
    BY <1>1, <1>2, <2>1, DoingSteps, FirmShort, FirmEnds
<1>5. s.mode = "disable" => off \in Ends(s)
  <2>1. s.mode = "disable" => Doing(s) = "stop"
    BY DEF Doing
  <2> QED
    BY <1>1, <1>2, <2>1, DoingSteps, FirmShort, FirmEnds
<1>6. s.mode = "control" => d \in Ends(s)
  BY <1>1, ShutEnds DEF Acks
<1>7. Mit(s) = head \o
        IF s.mode = "enable" THEN on ELSE IF s.mode = "disable" THEN off ELSE Times(s.loops, round) \o d
  BY DEF Mit, MitMode
<1> HIDE DEF on, off, round, d
<1>8. Times(s.loops, round) \in Seq(PlainStep)
  BY <1>1, <1>3, TimesMember
<1> QED
  BY <1>1, <1>4, <1>5, <1>6, <1>7, <1>8, Session

LEMMA RegroupThree ==
  ASSUME NEW S, NEW w \in Seq(S), NEW x \in Seq(S), NEW y \in Seq(S)
  PROVE  (w \o x) \o y = w \o (x \o y)
OBVIOUS

LEMMA HexfellowDirects ==
  ASSUME NEW s \in Setups, s.vendor = "hexfellow", s.mode \in {"enable", "disable"}
  PROVE  Straight(Hexfellow(s), s)
<1> DEFINE head == <<Open("hexfellow"), Add(s.id, s.fid)>>
           a    == <<Send(0, "query"), Call(s.id, "param"), Call(s.id, "stop")>>
           on   == <<Call(s.id, "start")>>
           off  == <<Call(s.id, "stop")>>
           c    == <<Close>>
<1>1. s.id \in Nat /\ s.fid \in Nat /\ "hexfellow" \in Vendors
  BY SetupFields DEF Vendors
<1>2. Send(0, "query") \in Kept(s) /\ Call(s.id, "param") \in Kept(s) /\ Close \in Kept(s)
  BY <1>1, MootSteps DEF Moot
<1>3. a \in Seq(PlainStep)
  <2>1. Call(s.id, "stop") \in PlainStep
    BY <1>1, DoingSteps
  <2> QED
    BY <1>2, <2>1, Tuples, KeptPlain
<1>4. s.mode = "enable" => on \in Firm(s)
  <2>1. s.mode = "enable" => Doing(s) = "start"
    BY DEF Doing
  <2> QED
    BY <1>1, <2>1, DoingSteps, FirmShort
<1>5. s.mode = "disable" => off \in Firm(s)
  <2>1. s.mode = "disable" => Doing(s) = "stop"
    BY DEF Doing
  <2> QED
    BY <1>1, <2>1, DoingSteps, FirmShort
<1>6. c \in Seq(Kept(s))
  BY <1>2, Tuples
<1>7. HexfellowStart(s.id) = a \o on
  BY DEF HexfellowStart
<1>8. Hexfellow(s) = head \o (IF s.mode = "enable" THEN a \o on ELSE off) \o c
  BY <1>7 DEF Hexfellow
<1> HIDE DEF a, on, off, c, head
<1>9. CASE s.mode = "enable"
  <2>1. on \o c \in Ends(s) /\ on \in Seq(Kept(s))
    BY <1>4, <1>6, <1>9, FirmJoin, FirmEnds, KeptPlain
  <2>2. a \in Seq(StepType) /\ on \in Seq(StepType) /\ c \in Seq(StepType) /\ head \in Seq(StepType)
    <3>1. PlainStep \subseteq StepType
      BY DEF PlainStep
    <3>2. Seq(PlainStep) \subseteq Seq(StepType)
      BY <3>1, SeqMonotonic
    <3> QED
      BY <1>1, <1>3, <1>6, <2>1, <3>2, KeptPlain, HeadShort DEF head
  <2>3. (head \o (a \o on)) \o c = (head \o a) \o (on \o c)
    <3> DEFINE ha == head \o a
    <3>1. ha \in Seq(StepType)
      BY <2>2, ConcatMember
    <3>2. ha \o on = head \o (a \o on)
      BY ONLY <2>2, RegroupThree
    <3> HIDE DEF ha
    <3>3. (ha \o on) \o c = ha \o (on \o c)
      BY ONLY <2>2, <3>1, RegroupThree
    <3> QED
      BY ONLY <3>2, <3>3 DEF ha
  <2>4. Straight((head \o a) \o (on \o c), s)
    BY <1>1, <1>3, <2>1, Session DEF head
  <2> QED
    BY <1>8, <1>9, <2>3, <2>4
<1>10. CASE s.mode = "disable"
  <2>1. off \o c \in Ends(s) /\ off \in Seq(PlainStep) /\ c \in Seq(PlainStep)
    BY <1>5, <1>6, <1>10, FirmJoin, FirmEnds, KeptPlain
  <2>2. (head \o off) \o c = head \o (off \o c)
    <3>1. PlainStep \subseteq StepType
      BY DEF PlainStep
    <3>2. off \in Seq(StepType) /\ c \in Seq(StepType)
      BY <2>1, <3>1, SeqMonotonic
    <3>3. head \in Seq(StepType)
      BY <1>1, HeadShort DEF head
    <3> QED
      BY <3>2, <3>3, ConcatAssociative
  <2>3. Straight(head \o (off \o c), s)
    <3>1. <<>> \in Seq(PlainStep)
      BY Tuples
    <3> QED
      BY <1>1, <2>1, <3>1, Session DEF head
  <2> QED
    BY <1>8, <1>10, <2>2, <2>3
<1> QED
  BY <1>9, <1>10

(* CyberBeast's program opens the bus before it connects.                  *)
LEMMA CyberHead ==
  ASSUME NEW s \in Setups
  PROVE  /\ CyberConnect(s) \in Seq(StepType)
         /\ <<Open("cyberbeast")>> \o CyberConnect(s) \in Seq(StepType)
         /\ Leads(<<Open("cyberbeast")>> \o CyberConnect(s), s)
<1> DEFINE o  == <<Open("cyberbeast")>>
           a  == <<Add(s.id, s.id)>>
           q  == <<Ask(s.id, s.id, "map")>>
           w  == When(s.mode # "estop", <<Peek(s.id, s.id, "warm_up")>>)
           oa == <<Open("cyberbeast"), Add(s.id, s.id)>>
<1>1. s.id \in Nat /\ "cyberbeast" \in Vendors
  BY SetupFields DEF Vendors
<1>2. Ask(s.id, s.id, "map") \in PlainStep /\ Peek(s.id, s.id, "warm_up") \in PlainStep
  BY <1>1, MootSteps, KeptPlain DEF Moot
<1>3. q \in Seq(PlainStep) /\ <<Peek(s.id, s.id, "warm_up")>> \in Seq(PlainStep)
  BY <1>2, Tuples
<1>4. w \in Seq(PlainStep)
  BY <1>3, WhenMember
<1>5. oa \in Seq(StepType) /\ Leads(oa, s)
  BY <1>1, HeadShort
<1>6. o \in Seq(StepType) /\ a \in Seq(StepType)
  <2>1. Open("cyberbeast") \in StepType /\ Add(s.id, s.id) \in StepType
    BY <1>1, OpenSteps, AddSteps
  <2> QED
    BY <2>1, Tuples
<1>7. oa = o \o a /\ <<Add(s.id, s.id), Ask(s.id, s.id, "map")>> = a \o q
  OBVIOUS
<1>8. Seq(PlainStep) \subseteq Seq(StepType)
  <2>1. PlainStep \subseteq StepType
    BY DEF PlainStep
  <2> QED
    BY <2>1, SeqMonotonic
<1>9. CyberConnect(s) = a \o q \/ CyberConnect(s) = a \o w
  BY <1>7 DEF CyberConnect
<1> HIDE DEF o, a, q, w, oa
<1>10. \A x \in Seq(PlainStep) : /\ a \o x \in Seq(StepType)
                                 /\ o \o (a \o x) \in Seq(StepType) /\ Leads(o \o (a \o x), s)
  <2> SUFFICES ASSUME NEW x \in Seq(PlainStep)
               PROVE  /\ a \o x \in Seq(StepType)
                      /\ o \o (a \o x) \in Seq(StepType) /\ Leads(o \o (a \o x), s)
    OBVIOUS
  <2>1. x \in Seq(StepType)
    BY <1>8
  <2>2. a \o x \in Seq(StepType)
    BY <1>6, <2>1, ConcatMember
  <2>3. (o \o a) \o x = o \o (a \o x)
    BY <1>6, <2>1, ConcatAssociative
  <2>4. oa \o x \in Seq(StepType) /\ Leads(oa \o x, s)
    BY <1>5, HeadJoin
  <2> QED
    BY <1>7, <2>2, <2>3, <2>4
<1> QED
  BY <1>3, <1>4, <1>9, <1>10 DEF o

LEMMA CyberDirects ==
  ASSUME NEW s \in Setups, s.vendor = "cyberbeast", s.mode \in {"enable", "disable", "control"}
  PROVE  Straight(CyberBeast(s), s)
<1> DEFINE on   == <<Send(s.id, "start"), Close>>
           off  == <<Send(s.id, "stop"), Shutdown>>
           go   == <<Catch, Post(s.id, "start"), Loop(s.id, "control"), Post(s.id, "stop")>>
           d    == <<Shutdown>>
           two  == <<Peek(s.id, s.id, "endpoint"), Peek(s.id, s.id, "endpoint")>>
           rf   == <<Ask(s.id, s.id, "obstacle")>>
           head == <<Open("cyberbeast")>> \o CyberConnect(s)
<1>1. s.id \in Nat /\ ~Acks(s)
  BY SetupFields DEF Acks
<1>2. /\ Peek(s.id, s.id, "endpoint") \in Kept(s) /\ Ask(s.id, s.id, "obstacle") \in Kept(s)
      /\ Close \in Kept(s) /\ Catch \in Kept(s) /\ Loop(s.id, "control") \in Kept(s)
  BY <1>1, MootSteps DEF Moot
<1>3. two \in Seq(PlainStep) /\ rf \in Seq(PlainStep)
  BY <1>2, Tuples, KeptPlain
<1>4. go \in Seq(PlainStep)
  <2>1. Post(s.id, "start") \in PlainStep /\ Post(s.id, "stop") \in PlainStep
    BY <1>1, DoingSteps
  <2> QED
    BY <1>2, <2>1, Tuples, KeptPlain
<1>5. s.mode = "enable" => on \in Ends(s)
  <2>1. s.mode = "enable" => Doing(s) = "start"
    BY DEF Doing
  <2> QED
    BY <1>1, <1>2, <2>1, DoingSteps, FirmShort, FirmEnds
<1>6. s.mode = "disable" => off \in Ends(s)
  <2>1. s.mode = "disable" => Doing(s) = "stop"
    BY DEF Doing
  <2> QED
    BY <1>1, <2>1, DoingSteps, FirmShort, FirmEnds
<1>7. s.mode = "control" => d \in Ends(s)
  BY <1>1, ShutEnds
<1>8. /\ MitScaling(s) = When(s.mode # "status", two)
      /\ MotionPreconditions(s) = When("map" \in s.flags, IF "faulted" \in s.flags THEN rf ELSE two)
  BY DEF MitScaling, MotionPreconditions
<1>9. <<Catch, Post(s.id, "start"), Loop(s.id, "control"), Post(s.id, "stop"), Shutdown>> = go \o d
  OBVIOUS
<1>10. CyberControl(s) = MitScaling(s) \o MotionPreconditions(s) \o (go \o d)
  BY <1>9 DEF CyberControl
<1>11. CyberBeast(s) = <<Open("cyberbeast")>> \o (CyberConnect(s) \o
         IF s.mode = "enable" THEN on ELSE IF s.mode = "disable" THEN off ELSE CyberControl(s))
  BY DEF CyberBeast, CyberOneFrame
<1> HIDE DEF on, off, go, d, two, rf
<1>12. s.mode = "control" => CyberControl(s) \in Ends(s)
  <2>1. MitScaling(s) \in Seq(PlainStep) /\ MotionPreconditions(s) \in Seq(PlainStep)
    BY <1>3, <1>8, WhenMember, ConcatMember
  <2>2. MitScaling(s) \o MotionPreconditions(s) \in Seq(PlainStep)
    BY <2>1, ConcatMember
  <2> QED
    BY <1>4, <1>7, <1>10, <2>2, EndsJoin
<1> DEFINE e == IF s.mode = "enable" THEN on ELSE IF s.mode = "disable" THEN off ELSE CyberControl(s)
<1>13. e \in Ends(s)
  BY <1>5, <1>6, <1>12
<1> HIDE DEF e
<1>14. e \in Seq(PlainStep) /\ e \in Seq(StepType)
  <2>1. PlainStep \subseteq StepType
    BY DEF PlainStep
  <2> QED
    BY <1>13, <2>1, SeqMonotonic DEF Ends
<1>15. Straight(head \o e, s)
  BY <1>13, <1>14, CyberHead, HeadJoin
<1>16. head \o e = <<Open("cyberbeast")>> \o (CyberConnect(s) \o e)
  <2>1. <<Open("cyberbeast")>> \in Seq(StepType)
    BY OpenSteps, Tuples DEF Vendors
  <2> QED
    BY <1>14, <2>1, CyberHead, ConcatAssociative
<1> QED
  BY <1>11, <1>15, <1>16 DEF e

(* Every program of these commands. *)
LEMMA DirectsStraight ==
  ASSUME NEW s \in Setups, Directs(s)
  PROVE  Straight(Program(s), s) /\ Single(s) /\ s.mode \notin {"id-set", "set_id"}
<1>1. /\ s.mode \notin {"scan", "batch_scan", "verify", "set_id", "id-set", "estop"}
      /\ s.by \in {"cli", "ws"} /\ s.vendor # "myactuator" /\ s.loops # 0
  BY SetupFields DEF Directs, Motions
<1>2. s.by = "cli" /\ s.vendor \in Vendors /\ s.mode \in Modes[s.vendor]
  BY <1>1, CliAccepts, WsAccepts
<1>3. Program(s) = CommandLine(s)
  BY <1>2 DEF Program
<1>4. s.mode \in Motions \cup {"enable", "disable", "quick-stop"}
  BY DEF Directs
<1>5. CASE s.vendor = "damiao"
  <2>1. s.mode \in {"enable", "disable", "control"}
    BY <1>2, <1>4, <1>5 DEF Modes, Motions
  <2> QED
    BY <1>1, <1>3, <1>5, <2>1, DamiaoDirects DEF CommandLine, Single, Scanning
<1>6. CASE s.vendor = "robstride"
  <2>1. s.mode \in {"enable", "disable", "mit", "pos-vel", "vel"}
    BY <1>2, <1>4, <1>6 DEF Modes, Motions
  <2> QED
    BY <1>1, <1>3, <1>6, <2>1, RobstrideDirects DEF CommandLine, Single, Scanning
<1>7. CASE s.vendor = "robstride_cia402"
  <2>1. s.mode \in {"enable", "disable", "quick-stop", "control"}
    BY <1>2, <1>4, <1>7 DEF Modes, Motions
  <2> QED
    BY <1>1, <1>3, <1>7, <2>1, Cia402Directs DEF CommandLine, Single, Scanning
<1>8. CASE s.vendor = "robstride_mit"
  <2>1. s.mode \in {"enable", "disable", "control"}
    BY <1>2, <1>4, <1>8 DEF Modes, Motions
  <2> QED
    BY <1>1, <1>3, <1>8, <2>1, MitDirects DEF CommandLine, Single, Scanning
<1>9. CASE s.vendor = "hightorque"
  BY <1>2, <1>4, <1>9 DEF Modes, Motions
<1>10. CASE s.vendor = "hexfellow"
  <2>1. s.mode \in {"enable", "disable"}
    BY <1>2, <1>4, <1>10 DEF Modes, Motions
  <2> QED
    BY <1>1, <1>3, <1>10, <2>1, HexfellowDirects DEF CommandLine, Single, Scanning
<1>11. CASE s.vendor = "cyberbeast"
  <2>1. s.mode \in {"enable", "disable", "control"}
    BY <1>2, <1>4, <1>11 DEF Modes, Motions
  <2> QED
    BY <1>1, <1>3, <1>11, <2>1, CyberDirects DEF CommandLine, Single, Scanning
<1> QED
  BY <1>1, <1>2, <1>5, <1>6, <1>7, <1>8, <1>9, <1>10, <1>11 DEF Vendors

(* The motor is bound from the second step on and registered from the      *)
(* third, and once the last step that sets it is behind it stands as asked.*)
LastSet(p, n, s) ==
  \E k \in 3..Len(p) : k < n /\ Sets(p[k], s) /\ \A l \in (k + 1)..Len(p) : l < n => ~Undoes(p[l], s)
AskInv ==
  /\ AloneInv /\ rescue = 0 /\ mishaps \in Nat
  /\ \A m \in Motors : motor[m].id = Before(m).id
  /\ status \in {"running", "ok"} =>
       /\ pc > 1 => bound
       /\ pc > 2 => \E r \in reg : r[1] = setup.id
       /\ (mishaps = 0 \/ Acks(setup)) /\ LastSet(Program(setup), pc, setup) =>
            \A m \in Motors : For(m) => motor[m].power = Wanted(setup)

LEMMA AskNow ==
  ASSUME setup \in Setups, pc \in Nat \ {0}, Directs(setup), NEW ops, Running(ops)
  PROVE  /\ Now = Program(setup)[pc] /\ Now.op \in ops /\ ~Now.unfound
         /\ status = "running" /\ pc \in 1..Len(Program(setup))
         /\ \/ pc = 1 /\ Now.op = "open" /\ Now.must
            \/ pc = 2 /\ Now.op = "add" /\ Now.must /\ Now.id = setup.id
            \/ pc > 2 /\ Now \in PlainStep
<1> DEFINE p == Program(setup)
<1>1. Now = p[pc] /\ Now.op \in ops /\ status = "running" /\ pc <= Len(p)
  BY NowIs
<1>2. Leads(p, setup)
  BY DirectsStraight DEF Straight
<1> HIDE DEF p
<1>3. /\ Len(p) \in Nat /\ Len(p) >= 2
      /\ p[1].op = "open" /\ p[1].must /\ ~p[1].unfound
      /\ p[2].op = "add" /\ p[2].must /\ ~p[2].unfound /\ p[2].id = setup.id
      /\ \A k \in 3..Len(p) : p[k] \in PlainStep
  BY <1>2 DEF Leads
<1>4. pc \in 1..Len(p)
  BY <1>1, <1>3
<1>5. pc = 1 => Now.op = "open" /\ Now.must /\ ~Now.unfound
  BY <1>1, <1>3
<1>6. pc = 2 => Now.op = "add" /\ Now.must /\ ~Now.unfound /\ Now.id = setup.id
  BY <1>1, <1>3
<1>7. pc > 2 => Now \in PlainStep /\ ~Now.unfound
  <2>1. pc > 2 => Now \in PlainStep
    BY <1>1, <1>3, <1>4
  <2> QED
    BY <2>1 DEF PlainStep
<1>8. pc = 1 \/ pc = 2 \/ pc > 2
  OBVIOUS
<1>9. p = Program(setup)
  BY DEF p
<1> QED
  BY <1>1, <1>4, <1>5, <1>6, <1>7, <1>8, <1>9

(* A step of such a program that does not end it. *)
Walks ==
  /\ pc' = pc + 1 /\ status = "running" /\ pc \in 1..Len(Program(setup))
  /\ bound' /\ (pc > 1 => \E r \in reg' : r[1] = setup.id)
AskSwitches ==
  \/ motor' = motor /\ (pc <= 2 \/ Now.op \notin {"send", "call", "shutdown"})
  \/ /\ pc > 2 /\ Now.op \in {"send", "call"} /\ bound
     /\ \/ motor' = AfterTelling(Now)
        \/ motor' = motor /\ mishaps' # 0 /\ (Now.op = "send" \/ ~Now.must)
  \/ /\ pc > 2 /\ Now.op = "shutdown" /\ bound
     /\ \E R \in SUBSET reg : motor' = SwitchedOff(R) /\ (mishaps' = 0 => R = reg)
Rests == status \in {"running", "ok"} /\ UNCHANGED <<pc, motor, reg, bound, mishaps>>
Ahead ==
  /\ rescue' = 0
  /\ status' \in {"running", "ok"} => Rests \/ (Walks /\ AskSwitches)

LEMMA Unfailed ==
  ASSUME rescue = 0, NEW done \in BOOLEAN, Advance \/ Fail \/ FailOr(done)
  PROVE  /\ rescue' = 0
         /\ status' \in {"running", "ok"} => Advance /\ pc' = pc + 1 /\ (FailOr(done) => done \/ ~Now.must)
<1>1. CASE Fail
  BY <1>1 DEF Fail
<1>2. CASE Advance
  <2>1. rescue' = 0 /\ pc' = pc + 1
    BY <1>2 DEF Advance
  <2>2. status' \in {"running", "ok"} => ~Fail
    BY DEF Fail
  <2>3. status' \in {"running", "ok"} => (FailOr(done) => done \/ ~Now.must)
    BY <2>2 DEF FailOr
  <2> QED
    BY <1>2, <2>1, <2>3
<1>3. FailOr(done) => Advance \/ Fail
  BY DEF FailOr
<1> QED
  BY <1>1, <1>2, <1>3

AskFacts ==
  /\ setup \in Setups /\ pc \in Nat \ {0} /\ Directs(setup) /\ rescue = 0 /\ mishaps \in Nat
  /\ status = "running" =>
       (pc > 1 => bound) /\ (pc > 2 => \E r \in reg : r[1] = setup.id)

LEMMA AskSkips ==
  ASSUME AskFacts, NEW ops, Running(ops)
  PROVE  /\ ~Skipped /\ (pc > 2 => bound /\ \E r \in reg : r[1] = setup.id)
         /\ \/ pc = 1 /\ Now.op = "open" /\ Now.must
            \/ pc = 2 /\ Now.op = "add" /\ Now.must /\ Now.id = setup.id /\ bound
            \/ pc > 2 /\ Now \in PlainStep
<1>1. /\ ~Now.unfound /\ status = "running"
      /\ \/ pc = 1 /\ Now.op = "open" /\ Now.must
         \/ pc = 2 /\ Now.op = "add" /\ Now.must /\ Now.id = setup.id
         \/ pc > 2 /\ Now \in PlainStep
  BY AskNow DEF AskFacts
<1>2. /\ pc \in Nat /\ (pc > 1 => bound)
      /\ (pc > 2 => \E r \in reg : r[1] = setup.id)
  BY <1>1 DEF AskFacts
<1>3. ~Skipped
  BY <1>1, <1>2 DEF Skipped
<1> QED
  BY <1>1, <1>2, <1>3

LEMMA AskOpens ==
  ASSUME AskFacts, OpenBus
  PROVE  Ahead
<1>1. Running({"open"})
  BY DEF OpenBus
<1>2. pc = 1 /\ Now.must /\ status = "running" /\ pc \in 1..Len(Program(setup))
  <2>1. Now.op \in {"open"} /\ status = "running" /\ pc \in 1..Len(Program(setup))
    BY <1>1, AskNow DEF AskFacts
  <2> QED
    BY <1>1, <2>1, AskSkips DEF PlainStep
<1>3. motor' = motor
  BY DEF OpenBus
<1>4. (bound' /\ Advance) \/ FailOr(FALSE)
  BY DEF OpenBus
<1>5. rescue' = 0 /\ (status' \in {"running", "ok"} => pc' = pc + 1 /\ bound')
  BY <1>2, <1>4, Unfailed DEF AskFacts
<1> QED
  BY <1>2, <1>3, <1>5 DEF Ahead, Walks, AskSwitches

LEMMA AskAdds ==
  ASSUME AskFacts, AddMotor
  PROVE  Ahead
<1>1. Running({"add"})
  BY DEF AddMotor
<1>2. pc = 2 /\ Now.must /\ Now.id = setup.id /\ status = "running" /\ pc \in 1..Len(Program(setup))
  <2>1. Now.op \in {"add"} /\ status = "running" /\ pc \in 1..Len(Program(setup))
    BY <1>1, AskNow DEF AskFacts
  <2> QED
    BY <1>1, <2>1, AskSkips DEF PlainStep
<1>3. motor' = motor /\ bound' \in BOOLEAN /\ FailOr(bound')
  BY DEF AddMotor
<1>4. rescue' = 0 /\ (status' \in {"running", "ok"} => pc' = pc + 1 /\ bound')
  BY <1>2, <1>3, Unfailed DEF AskFacts
<1>5. bound' => <<Now.id, Now.fid>> \in reg' /\ <<Now.id, Now.fid>>[1] = Now.id
  BY DEF AddMotor
<1>6. bound' => \E r \in reg' : r[1] = setup.id
  BY <1>2, <1>5
<1> QED
  BY <1>2, <1>3, <1>4, <1>6 DEF Ahead, Walks, AskSwitches

(* Any other step goes on with the motor bound and registered.             *)
LEMMA AskWalks ==
  ASSUME AskFacts, NEW ops, Running(ops), ops \cap {"open", "add"} = {}, UNCHANGED <<reg, bound>>
  PROVE  /\ pc > 2 /\ Now \in PlainStep /\ bound /\ Now.op \in ops
         /\ \A done : Advance \/ Fail \/ FailOr(done) =>
              /\ rescue' = 0
              /\ status' \in {"running", "ok"} => Advance /\ Walks
<1>1. status = "running" /\ Now.op \in ops /\ pc \in 1..Len(Program(setup))
  BY AskNow DEF AskFacts
<1>2. pc > 2 /\ Now \in PlainStep /\ bound /\ \E r \in reg : r[1] = setup.id
  BY <1>1, AskSkips
<1>3. rescue = 0
  BY DEF AskFacts
<1>4. ASSUME Fail PROVE rescue' = 0 /\ status' = "failed"
  BY <1>3, <1>4 DEF Fail
<1>5. ASSUME Advance PROVE rescue' = 0 /\ Walks
  BY <1>1, <1>2, <1>3, <1>5 DEF Advance, Walks
<1>6. \A done : FailOr(done) => Advance \/ Fail
  BY DEF FailOr
<1> QED
  BY <1>1, <1>2, <1>4, <1>5, <1>6

LEMMA AskQuiet ==
  ASSUME AskFacts, NEW ops, Running(ops), ops \cap {"open", "add", "send", "call", "shutdown"} = {},
         UNCHANGED <<reg, bound, motor>>, NEW done, Advance \/ Fail \/ FailOr(done)
  PROVE  Ahead
<1>1. Now.op \in ops /\ rescue' = 0 /\ (status' \in {"running", "ok"} => Walks)
  BY AskWalks
<1> QED
  BY <1>1 DEF Ahead, AskSwitches

LEMMA AskTells ==
  ASSUME AskFacts, Tell
  PROVE  Ahead
<1>1. Running({"send", "call"}) /\ UNCHANGED <<reg, bound>>
  BY DEF Tell
<1>2. /\ pc > 2 /\ bound /\ Now.op \in {"send", "call"}
      /\ \A done : FailOr(done) => rescue' = 0 /\ (status' \in {"running", "ok"} => Advance /\ Walks)
  BY <1>1, AskWalks
<1>3. \E done : FailOr(done)
  BY DEF Tell
<1>4. rescue' = 0 /\ (status' \in {"running", "ok"} => Walks)
  BY <1>2, <1>3
<1>5. Mishap => mishaps' # 0
  BY DEF Mishap, Mishaps, AskFacts
<1>6. motor' = AfterTelling(Now) \/ (motor' = motor /\ Mishap /\ (FailOr(FALSE) \/ FailOr(Now.op = "send")))
  BY DEF Tell
<1>7. status' \in {"running", "ok"} /\ (FailOr(FALSE) \/ FailOr(Now.op = "send")) => Now.op = "send" \/ ~Now.must
  <2>1. \A done \in BOOLEAN : status' \in {"running", "ok"} /\ FailOr(done) => done \/ ~Now.must
    BY Unfailed DEF AskFacts
  <2> QED
    BY <2>1
<1>8. status' \in {"running", "ok"} => AskSwitches
  BY <1>2, <1>5, <1>6, <1>7 DEF AskSwitches
<1> QED
  BY <1>4, <1>8 DEF Ahead

LEMMA AskShuts ==
  ASSUME AskFacts, ShutdownAll
  PROVE  Ahead
<1>1. Running({"shutdown"}) /\ UNCHANGED <<reg, bound>> /\ Advance
  BY DEF ShutdownAll
<1>2. pc > 2 /\ bound /\ Now.op = "shutdown" /\ rescue' = 0 /\ (status' \in {"running", "ok"} => Walks)
  BY <1>1, AskWalks
<1>3. Mishap => mishaps' # 0
  BY DEF Mishap, Mishaps, AskFacts
<1>4. PICK missed : /\ missed # {} => Mishap
                    /\ motor' = [m \in Motors |->
                         IF /\ setup.motors[m].vendor = vendor
                            /\ \E r \in reg \ missed : r[1] = motor[m].id
                         THEN [motor[m] EXCEPT !.power = "off"] ELSE motor[m]]
  BY DEF ShutdownAll
<1>5. motor' = SwitchedOff(reg \ missed)
  BY <1>4 DEF SwitchedOff
<1>6. reg \ missed \in SUBSET reg /\ (mishaps' = 0 => reg \ missed = reg)
  BY <1>3, <1>4
<1>7. AskSwitches
  BY <1>2, <1>5, <1>6 DEF AskSwitches
<1> QED
  BY <1>2, <1>7 DEF Ahead

LEMMA AskAhead ==
  ASSUME AskFacts, [Next]_vars
  PROVE  Ahead
<1>1. CASE Skip
  <2>1. \E ops : Running(ops) /\ Skipped
    BY <1>1 DEF Skip
  <2> QED
    BY <2>1, AskSkips
<1>2. CASE Query
  <2>1. Running({"ask", "check", "probe", "read_ids"}) /\ UNCHANGED <<reg, bound, motor>>
    BY <1>2 DEF Query
  <2>2. \E done : FailOr(done)
    BY <1>2 DEF Query
  <2> QED
    BY <2>1, <2>2, AskQuiet
<1>3. CASE LoopRound
  <2>1. Running({"loop"}) /\ UNCHANGED <<reg, bound, motor>> /\ (Advance \/ Fail)
    BY <1>3 DEF LoopRound
  <2> QED
    BY <2>1, AskQuiet
<1>4. CASE InstallHandler
  <2>1. Running({"catch"}) /\ UNCHANGED <<reg, bound, motor>> /\ Advance
    BY <1>4 DEF InstallHandler, controller
  <2> QED
    BY <2>1, AskQuiet
<1>5. CASE CloseBus
  <2>1. Running({"close"}) /\ UNCHANGED <<reg, bound, motor>> /\ Advance
    BY <1>5 DEF CloseBus
  <2> QED
    BY <2>1, AskQuiet
<1>6. CASE Turn
  <2>1. UNCHANGED <<reg, bound, motor>>
    BY <1>6 DEF Turn
  <2>2. ASSUME NEW op \in {"skip_if_hits", "rescue"}, Running({op}) PROVE FALSE
    <3>1. Now.op = op /\ Now \in PlainStep
      BY <2>1, <2>2, AskWalks
    <3> QED
      BY <3>1 DEF PlainStep
  <2>3. Running({"refuse"}) /\ Fail
    BY <1>6, <2>2 DEF Turn
  <2> QED
    BY <2>1, <2>3, AskQuiet
<1>7. CASE Return \/ Interrupt \/ Done \/ UNCHANGED vars
  <2>1. rescue' = rescue /\ UNCHANGED <<pc, motor, reg, bound, mishaps>>
    BY <1>7 DEF Return, Interrupt, Done, vars, controller, signal
  <2>2. status' \in {"running", "ok"} => status \in {"running", "ok"}
    BY <1>7 DEF Return, Interrupt, Done, vars
  <2> QED
    BY <2>1, <2>2 DEF Ahead, Rests, AskFacts
<1>8. CASE OpenBus
  BY <1>8, AskOpens
<1>9. CASE AddMotor
  BY <1>9, AskAdds
<1>10. CASE Tell
  BY <1>10, AskTells
<1>11. CASE ShutdownAll
  BY <1>11, AskShuts
<1>12. Next \/ UNCHANGED vars
  OBVIOUS
<1>13. \/ OpenBus \/ AddMotor \/ Skip \/ Query \/ Tell \/ LoopRound \/ InstallHandler \/ CloseBus
       \/ ShutdownAll \/ Turn \/ Return \/ Interrupt \/ Done \/ UNCHANGED vars
  BY <1>12 DEF Next
<1> QED
  BY <1>1, <1>2, <1>3, <1>4, <1>5, <1>6, <1>7, <1>8, <1>9, <1>10, <1>11, <1>13

(* What a plain step and a shutdown do to the motor a program is for.      *)
LEMMA AskPower ==
  ASSUME BaseInv, vendor = setup.vendor, NEW m \in Motors, For(m), motor[m].id = setup.id
  PROVE  /\ \A st \in PlainStep : st.op \in {"send", "call"} =>
              /\ st.id = setup.id /\ st.what = Doing(setup) => AfterTelling(st)[m].power = Wanted(setup)
              /\ ~Undoes(st, setup) /\ motor[m].power = Wanted(setup) => AfterTelling(st)[m].power = Wanted(setup)
         /\ \A R : /\ (\E r \in R : r[1] = setup.id) => SwitchedOff(R)[m].power = "off"
                   /\ SwitchedOff(R)[m].power = motor[m].power \/ SwitchedOff(R)[m].power = "off"
<1>1. IsMotor(motor[m]) /\ setup.motors[m].vendor = vendor
  BY DEF BaseInv, For, Before
<1>2. ASSUME NEW st \in PlainStep, st.op \in {"send", "call"}
      PROVE  /\ st.id = setup.id /\ st.what = Doing(setup) => AfterTelling(st)[m].power = Wanted(setup)
             /\ ~Undoes(st, setup) /\ motor[m].power = Wanted(setup) => AfterTelling(st)[m].power = Wanted(setup)
  <2>1. st.what \notin {"estop", "motor_id", "feedback_id", "store"}
    BY <1>2 DEF PlainStep
  <2>2. AfterTelling(st)[m] = IF m \in Reached(st) THEN Told(motor[m], st) ELSE motor[m]
    BY <2>1 DEF AfterTelling
  <2>3. st.id = setup.id => m \in Reached(st)
    BY <1>1 DEF Reached
  <2>4. /\ st.what = "start" => Told(motor[m], st).power = "on"
        /\ st.what \in {"stop", "reset"} => Told(motor[m], st).power = "off"
        /\ st.what \notin {"start", "stop", "reset"} => Told(motor[m], st).power = motor[m].power
    <3> DEFINE r == motor[m]
               t == Told(r, st)
    <3>1. /\ st.what = "start" => t = Motor(r.id, r.fid, "on", r.saved)
          /\ st.what \in {"stop", "reset"} => t = Motor(r.id, r.fid, "off", r.saved)
          /\ st.what \notin {"start", "stop", "reset"} => t = r
      BY <1>1, <2>1, ToldWhat
    <3>2. \A p : Motor(r.id, r.fid, p, r.saved).power = p
      BY MotorFields
    <3> HIDE DEF t
    <3>3. /\ st.what = "start" => t.power = "on"
          /\ st.what \in {"stop", "reset"} => t.power = "off"
          /\ st.what \notin {"start", "stop", "reset"} => t.power = r.power
      BY <3>1, <3>2
    <3> QED
      BY <3>3 DEF t
  <2>5. st.id = setup.id /\ st.what = Doing(setup) => AfterTelling(st)[m].power = Wanted(setup)
    BY <2>2, <2>3, <2>4 DEF Doing, Wanted
  <2>6. ASSUME ~Undoes(st, setup), motor[m].power = Wanted(setup) PROVE AfterTelling(st)[m].power = Wanted(setup)
    BY <1>2, <2>2, <2>4, <2>6 DEF Undoes, Wanted
  <2> QED
    BY <2>5, <2>6
<1>3. [motor[m] EXCEPT !.power = "off"].power = "off"
  BY <1>1, MotorOff, MotorFields
<1>4. ASSUME NEW R
      PROVE  /\ (\E r \in R : r[1] = setup.id) => SwitchedOff(R)[m].power = "off"
             /\ SwitchedOff(R)[m].power = motor[m].power \/ SwitchedOff(R)[m].power = "off"
  BY <1>1, <1>3 DEF SwitchedOff
<1> QED
  BY <1>2, <1>4

LEMMA AskMoment ==
  ASSUME BaseInv, Directs(setup), Walks
  PROVE  Now = Program(setup)[pc] /\ (pc > 2 => Now \in PlainStep)
<1>1. setup \in Setups /\ pc \in Nat \ {0} /\ Program(setup) = Programs[setup]
  BY DEF BaseInv, Programs
<1>2. Running({Now.op})
  BY <1>1 DEF Walks, Running
<1>3. /\ Now = Program(setup)[pc]
      /\ \/ pc = 1 \/ pc = 2 \/ Now \in PlainStep
  BY <1>1, <1>2, AskNow
<1> QED
  BY <1>1, <1>3

(* The step that sets the motor, and one after it that does not undo it.   *)
LEMMA AskSet ==
  ASSUME AloneInv, Directs(setup), Walks, AskSwitches, pc > 2, NEW m \in Motors, For(m), motor[m].id = setup.id,
         mishaps' = 0 \/ Acks(setup), \E r \in reg : r[1] = setup.id,
         Sets(Now, setup)
  PROVE  motor'[m].power = Wanted(setup)
<1>1. Now \in PlainStep
  BY AskMoment DEF AloneInv
<1>2. BaseInv /\ (bound => vendor = setup.vendor) /\ pc \in Nat
  BY DEF AloneInv, BaseInv
<1>3. CASE Now.op \in {"send", "call"}
  <2>1. Now.id = setup.id /\ Now.what = Doing(setup) /\ (Acks(setup) => Now.op = "call" /\ Now.must)
    BY <1>3 DEF Sets
  <2>2. bound /\ motor' = AfterTelling(Now)
    BY <1>2, <1>3, <2>1 DEF AskSwitches
  <2> QED
    BY <1>1, <1>2, <1>3, <2>1, <2>2, AskPower
<1>4. CASE Now.op = "shutdown"
  <2>1. setup.mode # "enable" /\ ~Acks(setup)
    BY <1>4 DEF Sets
  <2>2. bound /\ motor' = SwitchedOff(reg)
    BY <1>2, <1>4, <2>1 DEF AskSwitches
  <2> QED
    BY <1>2, <2>1, <2>2, AskPower DEF Wanted
<1> QED
  BY <1>3, <1>4 DEF Sets

LEMMA AskHeld ==
  ASSUME AloneInv, Directs(setup), Walks, AskSwitches, pc > 2, NEW m \in Motors, For(m), motor[m].id = setup.id,
         motor[m].power = Wanted(setup), ~Undoes(Now, setup)
  PROVE  motor'[m].power = Wanted(setup)
<1>1. Now \in PlainStep
  BY AskMoment DEF AloneInv
<1>2. BaseInv /\ (bound => vendor = setup.vendor) /\ pc \in Nat
  BY DEF AloneInv, BaseInv
<1>3. CASE motor' = motor
  BY <1>3
<1>4. CASE Now.op \in {"send", "call"} /\ bound /\ motor' = AfterTelling(Now)
  BY <1>1, <1>2, <1>4, AskPower
<1>5. CASE Now.op = "shutdown" /\ bound /\ \E R \in SUBSET reg : motor' = SwitchedOff(R)
  <2>1. setup.mode # "enable"
    BY <1>5 DEF Undoes
  <2>2. Wanted(setup) = "off"
    BY <2>1 DEF Wanted
  <2> QED
    BY <1>2, <1>5, <2>2, AskPower
<1> QED
  BY <1>2, <1>3, <1>4, <1>5 DEF AskSwitches

LEMMA AskPlain ==
  ASSUME AskFacts, NEW ops, Running(ops), ops \cap {"open", "add"} = {}
  PROVE  Now.op \in ops /\ Now \in PlainStep
<1>1. Now.op \in ops
  BY AskNow DEF AskFacts
<1> QED
  BY <1>1, AskSkips

LEMMA AskIds ==
  ASSUME AloneInv, Directs(setup), [Next]_vars, Ahead, AskFacts, NEW m \in Motors, motor[m].id = Before(m).id
  PROVE  motor'[m].id = motor[m].id
<1>1. BaseInv /\ IsMotor(motor[m])
  BY DEF AloneInv, BaseInv
<1>2. CASE motor' = motor
  BY <1>2
<1>3. CASE Running({"send", "call"}) /\ motor' = AfterTelling(Now)
  <2>1. Now.op \in {"send", "call"} /\ Now \in PlainStep
    BY <1>3, AskPlain
  <2>2. Now.what # "motor_id"
    BY <2>1 DEF PlainStep
  <2> QED
    BY <1>1, <1>3, <2>2, TellingIds DEF BaseInv
<1>4. CASE \E R : motor' = SwitchedOff(R)
  <2>1. [motor[m] EXCEPT !.power = "off"].id = motor[m].id
    BY <1>1, OffIds
  <2>2. \A R : SwitchedOff(R)[m].id = motor[m].id
    BY <2>1 DEF SwitchedOff
  <2> QED
    BY <1>4, <2>2
<1> QED
  BY <1>2, <1>3, <1>4, MotorMoves

LEMMA AskStarts ==
  ASSUME Init, Directs(setup)
  PROVE  AskInv
<1>1. BaseInv /\ AloneInv /\ \A m \in Motors : Intact(m)
  BY BaseStarts, AloneStarts
<1>2. pc = 1 /\ rescue = 0 /\ mishaps = 0
  BY DEF Init
<1>3. \A m \in Motors : motor[m].id = Before(m).id
  BY <1>1 DEF Intact
<1>4. ~LastSet(Program(setup), pc, setup)
  BY <1>2 DEF LastSet
<1> QED
  BY <1>1, <1>2, <1>3, <1>4 DEF AskInv

LEMMA AskKept ==
  ASSUME AskInv, Directs(setup), [Next]_vars
  PROVE  AskInv'
<1>1. /\ AloneInv /\ BaseInv /\ rescue = 0 /\ mishaps \in Nat /\ setup \in Setups /\ pc \in Nat \ {0}
      /\ \A m \in Motors : motor[m].id = Before(m).id
      /\ status \in {"running", "ok"} =>
           /\ pc > 1 => bound
           /\ pc > 2 => \E r \in reg : r[1] = setup.id
           /\ (mishaps = 0 \/ Acks(setup)) /\ LastSet(Program(setup), pc, setup) =>
                \A m \in Motors : For(m) => motor[m].power = Wanted(setup)
  BY DEF AskInv, AloneInv, BaseInv
<1>2. AskFacts
  BY <1>1 DEF AskFacts
<1>3. Single(setup) /\ setup' = setup
  BY <1>1, DirectsStraight, SetupStays
<1>4. AloneInv' /\ mishaps' \in Nat /\ (mishaps' = 0 => mishaps = 0)
  BY <1>1, <1>3, AloneKept, MishapsAdd
<1>5. Ahead /\ rescue' = 0
  BY <1>2, AskAhead DEF Ahead
<1>6. \A m \in Motors : motor'[m].id = Before(m).id
  BY <1>1, <1>2, <1>5, AskIds
<1>7. status' \in {"running", "ok"} => (pc' > 1 => bound') /\ (pc' > 2 => \E r \in reg' : r[1] = setup.id)
  BY <1>1, <1>5 DEF Ahead, Rests, Walks
<1>8. ASSUME status' \in {"running", "ok"}, mishaps' = 0 \/ Acks(setup), LastSet(Program(setup), pc', setup),
             NEW m \in Motors, For(m)
      PROVE  motor'[m].power = Wanted(setup)
  <2>1. motor[m].id = setup.id /\ (mishaps = 0 \/ Acks(setup))
    BY <1>1, <1>4, <1>8 DEF For
  <2>2. CASE Rests
    BY <1>1, <1>8, <2>1, <2>2 DEF Rests
  <2>3. CASE Walks /\ AskSwitches
    <3>1. pc' = pc + 1 /\ status = "running" /\ pc \in 1..Len(Program(setup))
      BY <2>3 DEF Walks
    <3>2. PICK k \in 3..Len(Program(setup)) :
            /\ k < pc + 1 /\ Sets(Program(setup)[k], setup)
            /\ \A l \in (k + 1)..Len(Program(setup)) : l < pc + 1 => ~Undoes(Program(setup)[l], setup)
      BY <1>8, <3>1 DEF LastSet
    <3>3. pc > 2 /\ Now = Program(setup)[pc] /\ \E r \in reg : r[1] = setup.id
      BY <1>1, <2>3, <3>1, <3>2, AskMoment
    <3>4. CASE k = pc
      BY <1>1, <1>8, <2>1, <2>3, <3>2, <3>3, <3>4, AskSet
    <3>5. CASE k # pc
      <4>1. k < pc /\ pc \in (k + 1)..Len(Program(setup)) /\ pc < pc + 1
        BY <1>1, <3>1, <3>2, <3>5
      <4>2. LastSet(Program(setup), pc, setup)
        BY <1>1, <3>2, <4>1 DEF LastSet
      <4>3. motor[m].power = Wanted(setup)
        BY <1>1, <1>8, <2>1, <3>1, <4>2
      <4>4. ~Undoes(Now, setup)
        BY <3>2, <3>3, <4>1
      <4> QED
        BY <1>1, <1>8, <2>1, <2>3, <3>3, <4>3, <4>4, AskHeld
    <3> QED
      BY <3>4, <3>5
  <2> QED
    BY <1>5, <1>8, <2>2, <2>3 DEF Ahead
<1> QED
  BY <1>3, <1>4, <1>5, <1>6, <1>7, <1>8 DEF AskInv, For, Before

(* A command that ends well leaves the motor it is for enabled, disabled   *)
(* or stopped as it was asked to, whatever the motors and the options, and *)
(* where the protocol acknowledges it, whatever was lost.                  *)
THEOREM CommandsDoAsAsked == Spec => []LeavesAsAsked
<1> DEFINE Asked == Directs(setup) => AskInv
<1>1. Init => Asked
  BY AskStarts
<1>2. Asked /\ [Next]_vars => Asked'
  <2> SUFFICES ASSUME Asked, [Next]_vars, Directs(setup)' PROVE AskInv'
    OBVIOUS
  <2>1. Directs(setup)
    BY SetupStays DEF Directs
  <2> QED
    BY <2>1, AskKept
<1>3. Asked => LeavesAsAsked
  <2> SUFFICES ASSUME Asked, Clean \/ (Ended /\ Acknowledged),
                      setup.mode \in Motions \cup {"enable", "disable", "quick-stop"},
                      setup.vendor # "myactuator", setup.loops # 0, NEW m \in Motors, For(m)
               PROVE  motor[m].power = IF setup.mode = "enable" THEN "on" ELSE "off"
    BY DEF LeavesAsAsked
  <2>1. Directs(setup) /\ AskInv
    BY DEF Directs
  <2>2. setup \in Setups /\ pc \in Nat
    BY <2>1 DEF AskInv, AloneInv, BaseInv
  <2>3. status = "ok" /\ pc > Len(Program(setup)) /\ (mishaps = 0 \/ Acks(setup))
    BY <2>2 DEF Clean, Ended, Acknowledged, Acks, Programs
  <2>4. Straight(Program(setup), setup)
    BY <2>1, <2>2, DirectsStraight
  <2>5. LastSet(Program(setup), pc, setup)
    <3> DEFINE p == Program(setup)
    <3>1. Len(p) \in Nat /\ \E k \in 3..Len(p) : Sets(p[k], setup) /\ \A l \in (k + 1)..Len(p) : ~Undoes(p[l], setup)
      BY <2>4 DEF Straight, Leads
    <3> HIDE DEF p
    <3>2. pc > Len(p)
      BY <2>3 DEF p
    <3>3. LastSet(p, pc, setup)
      BY <2>2, <3>1, <3>2 DEF LastSet
    <3> QED
      BY <3>3 DEF p
  <2> QED
    BY <2>1, <2>3, <2>5 DEF AskInv, Wanted
<1> QED
  BY <1>1, <1>2, <1>3, PTL DEF Spec

(* What a program changes is what it was asked to change.                  *)
THEOREM OnlyItsOwnTouched == Spec => []TouchesOnlyItsOwn
BY OthersAreLeftAlone, QueriesLook, PTL DEF TouchesOnlyItsOwn
=============================================================================
