---------------------------- MODULE MCProcesses -----------------------------
(* Small instances of Processes for TLC.                                   *)
EXTENDS Processes

CONSTANTS c1, c2

Usual == [libc |-> "glibc", namespaces |-> "net and pid", cgroup |-> "own",
          landlock |-> TRUE, seccomp |-> TRUE]

(* The usual host, and each way to differ from it.                         *)
Hosts ==
  {Usual}
  \cup {[Usual EXCEPT !.libc = libc] : libc \in DOMAIN Libcs}
  \cup {[Usual EXCEPT !.namespaces = n] : n \in {"none", "net"}}
  \cup {[Usual EXCEPT !.cgroup = c] : c \in {"undelegated", "shared"}}
  \cup {[Usual EXCEPT !.landlock = FALSE], [Usual EXCEPT !.seccomp = FALSE]}

(* One content process on every host, two on the usual one; each helper on *)
(* the usual host and, where no group is delegated, under each C library.  *)
MCInstances ==
  [host : Hosts, helper : {"none"}, asked : {{c1}}]
  \cup [host : {Usual}, helper : {"none"}, asked : {{c1, c2}}]
  \cup [host : {Usual}
               \cup {[Usual EXCEPT !.libc = libc, !.cgroup = "undelegated"] :
                      libc \in Known \cup {"other_open"}},
        helper : HelperRole, asked : {{}}]
=============================================================================
