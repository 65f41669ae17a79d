-------------------------------- MODULE MCAmc --------------------------------
(* Instances of Amc for TLC.                                               *)
EXTENDS Amc

(* A package with two components, or with one.                             *)
TwoSizes == <<3, 2>>
TwoOffsets == <<1, 4>>
OneSize == <<2>>
OneOffset == <<1>>

(* PLDM types 0 and 7; GetCommands is not sent for type 7.                 *)
Types == <<0, 7>>

(* Two sensors and two file descriptors of different lengths that share    *)
(* their IDs: sensor 1 comes before file 1, sensor 3 after file 3.         *)
Pdrs == <<[type |-> "sensor", id |-> 1, parts |-> 1],
          [type |-> "file", id |-> 1, parts |-> 2],
          [type |-> "file", id |-> 3, parts |-> 1],
          [type |-> "sensor", id |-> 3, parts |-> 1]>>
=============================================================================
