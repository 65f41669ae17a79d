------------------------------ MODULE MCXpuSmi ------------------------------
(* Instances of XpuSmi for TLC.                                            *)
EXTENDS XpuSmi

(* A GPU without subdevices, and one with two in the driver's own order.   *)
PlainGpu ==
  [sub |-> <<>>, freq |-> <<[on |-> OnDevice, gpu |-> TRUE], [on |-> OnDevice, gpu |-> FALSE]>>,
   sched |-> <<OnDevice>>, standby |-> 2, power |-> <<[on |-> OnDevice, limit |-> "free"]>>,
   ras |-> 2, fan |-> <<TRUE, FALSE>>, ecc |-> TRUE, pcie |-> "on", users |-> FALSE,
   peers |-> FALSE]
TiledGpu ==
  [sub |-> <<1, 0>>,
   freq |-> <<[on |-> 0, gpu |-> TRUE], [on |-> 1, gpu |-> FALSE], [on |-> 1, gpu |-> TRUE],
             [on |-> OnDevice, gpu |-> TRUE]>>,
   sched |-> <<0, OnDevice, 1>>, standby |-> 0,
   power |-> <<[on |-> 0, limit |-> "free"], [on |-> OnDevice, limit |-> "locked"],
               [on |-> OnDevice, limit |-> "absent"]>>,
   ras |-> 0, fan |-> <<TRUE, TRUE>>, ecc |-> FALSE, pcie |-> "none", users |-> TRUE,
   peers |-> TRUE]
MCGpus == {PlainGpu, TiledGpu}

(* TileBits is 3: tile 7 stands for 2^32 - 1, tile 4 for 2^31.             *)
MCIdleLine ==
  [dev |-> "bdf", cmds |-> {}, bad |-> {}, huge |-> FALSE, on |-> TRUE, tile |-> NoTile,
   fan |-> AllFans, root |-> TRUE, ignore |-> FALSE, force |-> FALSE]
Line(c) == [MCIdleLine EXCEPT !.cmds = c]
MCLines ==
  {[MCIdleLine EXCEPT !.dev = d] : d \in {"help", "error", "absent", "unknown", "index", "bdf"}}
  \cup {[Line({c}) EXCEPT !.tile = t] :
          c \in {"frequencyrange", "scheduler"}, t \in {BadTile, 0, 1, 2, 7, 4}}
  \cup {[Line({c}) EXCEPT !.fan = f] : c \in Fans, f \in {BadFan, 0, 1, 2}}
  \cup {[Line({"memoryecc", "pciedowngrade"}) EXCEPT !.on = o] : o \in BOOLEAN}
  \cup {[Line({"scheduler"}) EXCEPT !.huge = TRUE]}
  \cup {[Line({"standby", "clearras"}) EXCEPT !.bad = b] : b \in {{}, {"standby"}}}
  \cup {Line({"frequencyrange", "powerlimit", "fanspeed", "scheduler"})}
  \cup {[Line({"reset", "powerlimit"}) EXCEPT !.tile = t] : t \in {NoTile, 0}}
  \cup {[Line({"coldreset", "powerlimit"}) EXCEPT !.root = r, !.ignore = i, !.force = i,
                                                  !.dev = d] :
          r, i \in BOOLEAN, d \in {"bdf", "index"}}

(* A vgpu.conf with a DEF section only, and one with a section for 2 VFs   *)
(* that leaves the doorbells to it.                                        *)
Quotas(lmem, doorbells) ==
  [f \in VfFile |-> CASE f = "lmem" -> lmem [] f = "doorbells" -> doorbells
                      [] f = "ggtt" -> 2 * doorbells [] f = "contexts" -> 1 [] OTHER -> 0]
MCConfFiles ==
  {<<[key |-> MaxVfNum, attrs |-> Quotas(4, 4)]>>,
   <<[key |-> MaxVfNum, attrs |-> Quotas(4, 4)], [key |-> 2, attrs |-> Quotas(2, 0)]>>}
Create(n, lmem) == [op |-> "create", n |-> n, lmem |-> lmem]
MCRequests ==
  {Create(2, 2), Create(2, 3), [op |-> "remove", n |-> 0, lmem |-> 0],
   [op |-> "read", n |-> 0, lmem |-> 0]}

(* Everyone may write to both directories; or one only to /tmp and one to  *)
(* neither.                                                                *)
MCOpenable ==
  {[p \in FwProcs |-> {"/var/lock", "/tmp"}],
   [p \in FwProcs |-> IF p = "a" THEN {"/tmp"} ELSE {}]}

(* Dumps and queries with each kind of end, from a terminal or not.        *)
Dump(count, time, file, tty) ==
  [kind |-> "dump", count |-> count, time |-> time, loop |-> TRUE, file |-> file, tty |-> tty]
Query(count, loop, tty) ==
  [kind |-> "query", count |-> count, time |-> 0, loop |-> loop, file |-> FALSE, tty |-> tty]
MCDumpLines ==
  {Dump(3, 0, FALSE, FALSE), Dump(1, 0, TRUE, TRUE), Dump(2, 0, TRUE, TRUE),
   Dump(0, 3, FALSE, TRUE), Dump(0, 4, TRUE, TRUE), Dump(0, 0, TRUE, TRUE),
   Dump(2, 4, TRUE, TRUE), Query(0, FALSE, TRUE),
   Query(1, TRUE, TRUE), Query(2, TRUE, TRUE), Query(0, TRUE, TRUE)}
=============================================================================
