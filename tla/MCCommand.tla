------------------------------ MODULE MCCommand ------------------------------
EXTENDS Command
(* Two motors of each set-up; the ids 1 and 2 are scanned, 3 is free. *)
Off(v, i, f)  == [vendor |-> v, id |-> i, fid |-> f, power |-> "off", mute |-> {}]
On(v, i, f)   == [Off(v, i, f) EXCEPT !.power = "on"]
Mute(r, what) == [r EXCEPT !.mute = what]
None          == Off("none", 0, 0)
Pair(a, b)    == [m \in Motors |-> IF m = "m1" THEN a ELSE b]

Feedback(v, i) == CASE v = "damiao" -> i + 16 [] v = "robstride" -> 253 [] OTHER -> i
Both(v)        == Pair(On(v, 1, Feedback(v, 1)), Off(v, 2, Feedback(v, 2)))

Base(v, mode) ==
  [by |-> "cli", vendor |-> v, mode |-> mode, id |-> 1, fid |-> Feedback(v, 1), new |-> <<3, 19>>,
   ids |-> <<1, 2>>, hosts |-> <<253, 255>>, loops |-> 1, flags |-> {}, batch |-> <<>>, motors |-> Both(v)]
Flagged(s, flags) == [s EXCEPT !.flags = flags]
ByWs(s)           == [s EXCEPT !.by = "ws"]

Plain == UNION {{Base(v, mode) : mode \in Modes[v]} : v \in DOMAIN Modes}

Idle(s) == [s EXCEPT !.motors = Pair(Off(s.vendor, 1, s.fid), Off(s.vendor, 2, Feedback(s.vendor, 2)))]

(* Scans that meet motors with other feedback ids, with equal last four    *)
(* bits (both there, or one of the two), deaf to what is asked first, or   *)
(* that answer another host id.                                            *)
Scans ==
  LET D == Base("damiao", "scan")   R == Base("robstride", "scan")   Twins == Off("damiao", 17, 33)
      Hosts == Pair(Off("robstride", 1, 253), Off("robstride", 2, 255))
      Silent == Pair(On("robstride", 1, 254), Mute(Off("robstride", 2, 253), {"ping"}))
  IN  {[D EXCEPT !.motors = Pair(On("damiao", 1, 33), None)],
       Flagged(D, {"dm_device"}),
       [Flagged(D, {"dm_device", "hard_exit"}) EXCEPT !.motors = Pair(On("damiao", 1, 17), None)],
       ByWs(D), ByWs(Flagged(D, {"dm_device"})),
       [Flagged(D, {"dm_device"}) EXCEPT !.ids = <<1, 17>>, !.motors = Pair(On("damiao", 1, 17), None)],
       [D EXCEPT !.ids = <<1, 17>>, !.motors = Pair(On("damiao", 1, 17), Twins)],
       [R EXCEPT !.motors = Silent], [R EXCEPT !.motors = Hosts], ByWs([R EXCEPT !.motors = Hosts]),
       [ByWs([R EXCEPT !.motors = Hosts]) EXCEPT !.flags = {"all_hosts"}],
       [ByWs([R EXCEPT !.motors = Silent]) EXCEPT !.flags = {"param_fallback"}],
       ByWs(Base("hexfellow", "scan")), ByWs(Base("myactuator", "scan")), ByWs(Base("hightorque", "scan")),
       ByWs(Base("cyberbeast", "scan")),
       [Base("all", "scan") EXCEPT !.motors = Pair(Off("robstride", 1, 253), Off("hightorque", 2, 2))],
       [Base("all", "scan") EXCEPT !.motors = Pair(On("damiao", 1, 17), Off("robstride_mit", 2, 253))],
       [Base("all", "scan") EXCEPT !.motors = Pair(On("damiao", 1, 17), Mute(Off("robstride", 1, 253), {"status"}))],
       [ByWs(Base("none", "batch_scan")) EXCEPT !.batch = <<"robstride", "cyberbeast", "damiao">>,
          !.motors = Pair(Off("robstride", 1, 253), Off("damiao", 2, 18))],
       [ByWs(Base("none", "batch_scan")) EXCEPT !.batch = <<"damiao", "robstride">>,
          !.motors = Pair(On("damiao", 1, 17), Off("robstride", 1, 253))]}

(* Id changes and checks.                                                  *)
IdChanges ==
  LET D == Base("damiao", "id-set")  W == ByWs(Base("damiao", "set_id"))  V == ByWs(Base("damiao", "verify"))
  IN  {Flagged(D, {"store", "verify"}), Flagged(D, {"verify"}), Flagged(W, {"store", "verify"}), Flagged(W, {"verify"}),
       [Flagged(D, {"verify"}) EXCEPT !.new = <<1, 19>>],
       [Flagged(D, {"store", "verify"}) EXCEPT !.motors = Idle(D).motors],
       V, [V EXCEPT !.fid = 20]}
    \cup {Flagged(ByWs(Base("robstride", "set_id")), {"verify"}), Flagged(Base("robstride", "id-set"), {"store"})}
    \cup {ByWs(Base(v, "verify")) : v \in {"robstride", "hexfellow", "myactuator", "hightorque"}}

(* Options of the other modes.                                             *)
Options ==
  LET R == Base("robstride", "mit")  C == Base("cyberbeast", "control")
  IN  {Flagged(R, {"ensure_mode"}), Flagged(Base("robstride", "set-zero"), {"zero_exp", "store"}),
       Flagged(Base("robstride", "write-param"), {"store"}), [R EXCEPT !.loops = 2],
       Flagged(Base("damiao", "control"), {"verify_model"}), Flagged(Base("damiao", "enable"), {"verify_model"}),
       Flagged(Base("damiao", "write-param"), {"verify", "store"}),
       [Base("damiao", "enable") EXCEPT !.loops = 2],
       [Base("cyberbeast", "disable") EXCEPT !.motors = Pair(On("cyberbeast", 1, 1), On("cyberbeast", 2, 2))],
       Idle(C), Flagged(C, {"map"}), Flagged(Idle(C), {"map", "faulted"}),
       Flagged(Base("cyberbeast", "endpoint-map"), {"map"}), Flagged(Base("cyberbeast", "endpoint-map"), {"map", "refresh"}),
       Idle(Base("cyberbeast", "keep-alive"))}
    \cup {Idle(Base(v, "enable")) : v \in {"damiao", "robstride", "robstride_cia402", "robstride_mit", "cyberbeast", "hexfellow"}}
    \cup {[Base(v, "enable") EXCEPT !.id = 3] : v \in {"damiao", "robstride", "robstride_cia402", "robstride_mit", "hexfellow"}}

MCSetups == Plain \cup Scans \cup IdChanges \cup Options

CyberQueries == {Base("cyberbeast", mode) : mode \in {"scan", "status", "monitor"}}
GatewayStore == {Flagged(ByWs(Base("damiao", "set_id")), {"store", "verify"})}
DeafToReads  == {[Base("damiao", "scan") EXCEPT !.motors = Pair(Mute(Off("damiao", 1, 17), {"regs"}), None)]}
MCScanModels == <<"4340P", "4310">>

ASSUME DistinctIds == OneMotorPerId
=============================================================================
