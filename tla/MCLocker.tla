------------------------------ MODULE MCLocker ------------------------------
(* The two slots of a sled, with every fault the locker is built to survive. *)
EXTENDS Locker

BothSlots == 2
AllFaults == {"wipe", "damage", "write", "read", "absent", "cancel"}
==============================================================================
