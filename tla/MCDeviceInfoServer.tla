-------------------------- MODULE MCDeviceInfoServer --------------------------
(* Instances of DeviceInfoServer for TLC.                                  *)
EXTENDS DeviceInfoServer

CONSTANTS h1, h2, e1, m1, m2, l1, l2

(* Overlapping pushes for one client, one push after the other for two     *)
(* clients, and batches of one or two events of two listeners.             *)
Loads ==
  {[clients |-> {h1}, pushers |-> {m1, m2}, health |-> 3, events |-> 0],
   [clients |-> {h1, h2}, pushers |-> {m1}, health |-> 2, events |-> 0],
   [clients |-> {e1}, pushers |-> {l1, l2}, health |-> 0, events |-> 2]}
=============================================================================
