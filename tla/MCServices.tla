---------------------------- MODULE MCServices -----------------------------
EXTENDS Services

CONSTANTS t1, t2, t3, t4, t5, t6

(* As many tabs as the permits and buffers hold; a service that dies; a    *)
(* store whose writes fail.                                                *)
MCInstances ==
  {[tabs |-> {t1, t2, t3, t4, t5}, operations |-> {"Get"}, deaths |-> 0, failures |-> 0],
   [tabs |-> {t1, t2, t3}, operations |-> {"Get"}, deaths |-> 2, failures |-> 0],
   [tabs |-> {t1}, operations |-> {"Get", "Set"}, deaths |-> 1, failures |-> 2]}

(* One tab more than they hold.                                            *)
MCCrowd ==
  {[tabs |-> {t1, t2, t3, t4, t5, t6}, operations |-> {"Get"}, deaths |-> 0, failures |-> 0]}
=============================================================================
