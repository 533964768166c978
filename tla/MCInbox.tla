------------------------------ MODULE MCInbox -------------------------------
EXTENDS Inbox

CONSTANTS t1, storage, net

(* One tab opened and swapped or closed; a service and the net component   *)
(* through a respawn or a shutdown; a tab whose requests a service answers. *)
MCInstances ==
  {[sources |-> {t1}, commands |-> 3, swaps |-> 1],
   [sources |-> {storage, net}, commands |-> 1, swaps |-> 1],
   [sources |-> {t1, storage}, commands |-> 1, swaps |-> 1]}
=============================================================================
