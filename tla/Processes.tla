----------------------------- MODULE Processes ------------------------------
(***************************************************************************)
(* The processes of the multi-process build on Linux: the broker confining *)
(* itself (src/src/sandbox/linux.rs), the helpers it execs, the fork       *)
(* server that proves its own filter and then forks every renderer and     *)
(* decoder (src/src/fork_server.rs), the PID namespace they share with a   *)
(* placeholder, and the order of the shutdown (src/src/engine.rs).         *)
(*                                                                         *)
(* A process is somewhere in its startup, carries the filters and Landlock *)
(* domains it has put on or inherited, and is in a control group.  What a  *)
(* filter answers is module Seccomp; what the processes say to each other  *)
(* once they serve is left to the other modules.  The kernel (fork,        *)
(* namespaces, parent-death signals, control groups) is modelled by what   *)
(* this code relies on.                                                    *)
(***************************************************************************)
EXTENDS Naturals, Sequences, Seccomp

CONSTANTS
  Content,    \* renderers and decoders, each used once
  Instances   \* the hosts, which helper is spawned beside the fork server, and
              \* the content processes that are asked for

(* A host refuses every new namespace, only the PID namespace, or none; its *)
(* memory controller is not delegated, shared with other processes, or our  *)
(* own.                                                                     *)
HelperRole == {"net", "vault", "filesystem", "device"}
Host == [libc : DOMAIN Libcs, namespaces : {"none", "net", "net and pid"},
         cgroup : {"undelegated", "shared", "own"}, landlock : BOOLEAN, seccomp : BOOLEAN]

ASSUME ProcessesAssumption ==
  /\ Instances \subseteq [host : Host, helper : HelperRole \cup {"none"},
                     asked : SUBSET Content]
  /\ Content \cap {"broker", "forkserver", "init", "canary", "helper",
                   "none", "fresh", "gone", "base", "leader", "shutdown", "torn"} = {}

Forked  == {"init", "canary"} \cup Content      \* by the fork server
Process == {"broker", "forkserver", "helper"} \cup Forked

VARIABLES
  instance,  \* what this behaviour runs on
  pc,        \* where each process is
  filters,   \* the names of the filters each process is under
  scope,     \* the Landlock domains each process is under
  group,     \* the control group of each process
  leaves,    \* the processes that a leaf was made for
  workers,   \* TRUE when the workers subtree is delegated
  pid1,      \* of the fork server's PID namespace: "none" (there is none),
             \* "fresh" (no process yet), a process, or "gone" with it
  control,   \* the control channel: requests with their descriptors
  kind,      \* what each content process was asked to be
  link,      \* the broker's end of each content process's link
  failed     \* what was tried, failed and was only logged (history):
             \* the placeholder, a helper's own Landlock domain, the placing
             \* of a process in its control group

confinement == <<filters, scope, group>>
cgroups == <<leaves, workers>>
vars == <<instance, pc, confinement, cgroups, pid1, control, kind, link, failed>>

host   == instance.host
helper == instance.helper

Dead  == {"exited", "trapped", "killed"}
Alive(p) == pc[p] \notin {"unborn"} \cup Dead

Init ==
  /\ instance \in Instances
  /\ pc = [p \in Process |-> IF p = "broker" THEN "boot" ELSE "unborn"]
  /\ filters = [p \in Process |-> {}]
  /\ scope = [p \in Process |-> {}]
  /\ group = [p \in Process |-> "base"]
  /\ leaves = {} /\ workers = FALSE
  /\ pid1 = "none"
  /\ control = <<>>
  /\ kind \in {k \in [Content -> {"renderer", "decoder"}] :
              \A s \in Content \ instance.asked : k[s] = "renderer"}
  /\ link = [s \in Content |-> "unused"]
  /\ failed = {}

-----------------------------------------------------------------------------
(* Helpers of the actions.                                                 *)

Goto(p, where) == pc' = [pc EXCEPT ![p] = where]

(* Process p makes the calls and goes on, or dies of the first that traps. *)
Issue(p, calls, where) == Goto(p, IF AllPass(filters[p], calls) THEN where ELSE "trapped")

(* p puts on a filter: FALSE host.seccomp makes it exit instead, see       *)
(* enforce.                                                                *)
Install(p, name, calls, where) ==
  IF host.seccomp
  THEN /\ Issue(p, calls \cup InstallCalls, where)
       /\ filters' = [filters EXCEPT ![p] = @ \cup {name}]
  ELSE Goto(p, "exited") /\ UNCHANGED filters

(* A child starts under everything its parent is under.                    *)
Inherit(child, parent) ==
  /\ filters' = [filters EXCEPT ![child] = filters[parent]]
  /\ scope' = [scope EXCEPT ![child] = scope[parent]]
  /\ group' = [group EXCEPT ![child] = group[parent]]

(* The processes that hold an end of the control channel besides the       *)
(* broker: its forked children do until they close it, the placeholder     *)
(* never does.                                                             *)
HoldsControl(p) ==
  Alive(p) /\ (p \in Content => pc[p] = "forked")
ControlOpen == \E p \in {"forkserver"} \cup Forked : HoldsControl(p)

(* A descriptor in flight is closed with the channel.                      *)
InFlight(s) == ControlOpen /\ \E i \in DOMAIN control : control[i] = s

(* Broken variant: the fork server keeps the descriptors it was passed.    *)
NobodyAtEndKept(s) == ~Alive(s) /\ ~InFlight(s) /\ ~Alive("forkserver")

(* The fork server closes its copy once it has forked, or failed to.       *)
NobodyAtEnd(s) == ~Alive(s) /\ ~InFlight(s)

BrokerGone == pc["broker"] \in Dead

(* Process p ends at `where`; if it was the first of its namespace that    *)
(* goes too, with every process in it.                                     *)
Dies(p, where) ==
  /\ pid1' = IF pid1 = p THEN "gone" ELSE pid1
  /\ pc' = [q \in Process |->
       IF q = p THEN where ELSE IF pid1 = p /\ q \in Forked /\ Alive(q) THEN "killed" ELSE pc[q]]

(* The fork server ends at `where`; the placeholder is signalled if it     *)
(* asked for that.                                                         *)
ForkServerStops(where) ==
  pc' = [pc EXCEPT !["forkserver"] = where, !["init"] = IF @ = "armed" THEN "doomed" ELSE @]

-----------------------------------------------------------------------------
(* The broker starts.                                                      *)

(* cgroup::prepare.  Where the controller is shared the broker moves to    *)
(* the leader leaf, is refused, and moves back.                            *)
PrepareCgroup ==
  /\ pc["broker"] = "boot"
  /\ workers' = (host.cgroup = "own")
  /\ group' = [group EXCEPT !["broker"] = IF host.cgroup = "own" THEN "leader" ELSE @]
  /\ Goto("broker", "grouped")
  /\ UNCHANGED <<instance, filters, scope, leaves, pid1, control, kind, link, failed>>

(* Broken variant: the broker's rules do not name the workers subtree.     *)
RestrictBrokerToTemp ==
  /\ pc["broker"] = "grouped"
  /\ scope' = [scope EXCEPT !["broker"] = IF host.landlock THEN {"temp"} ELSE {}]
  /\ Goto("broker", "scoped")
  /\ UNCHANGED <<instance, filters, group, cgroups, pid1, control, kind, link, failed>>

(* landlock::restrict_broker: a domain that can write in the temp          *)
(* directory and, if it is delegated, in the workers subtree.              *)
RestrictBroker ==
  /\ pc["broker"] = "grouped"
  /\ scope' = [scope EXCEPT !["broker"] =
       IF ~host.landlock THEN {} ELSE IF workers THEN {"temp and workers"} ELSE {"temp"}]
  /\ Goto("broker", "scoped")
  /\ UNCHANGED <<instance, filters, group, cgroups, pid1, control, kind, link, failed>>

DenyBroker ==
  /\ pc["broker"] = "scoped"
  /\ filters' = [filters EXCEPT !["broker"] = IF host.seccomp THEN {"broker"} ELSE {}]
  /\ Goto("broker", "confined")
  /\ UNCHANGED <<instance, scope, group, cgroups, pid1, control, kind, link, failed>>

(* Spawner::new: the child unshares before it execs; where that is refused *)
(* outright the engine does not start.                                     *)
SpawnForkServer ==
  /\ pc["broker"] = "confined"
  /\ IF host.namespaces = "none"
     THEN Goto("broker", "exited") /\ UNCHANGED <<confinement, pid1>>
     ELSE /\ pc' = [pc EXCEPT !["broker"] = "placing", !["forkserver"] = "started"]
          /\ Inherit("forkserver", "broker")
          /\ pid1' = IF host.namespaces = "net and pid" THEN "fresh" ELSE "none"
  /\ UNCHANGED <<instance, cgroups, control, kind, link, failed>>

(* cgroup::place_child: a leaf is made and the child moved, if the broker  *)
(* may write there; the children p has forked meanwhile stay behind.  A    *)
(* write that fails, with or without the leaf made, is only logged.        *)
Place(p) ==
  IF workers /\ scope["broker"] \subseteq {"temp and workers"}
  THEN \/ /\ leaves' = leaves \cup {p}
          /\ group' = [group EXCEPT ![p] = IF Alive(p) THEN p ELSE @]
          /\ UNCHANGED failed
       \/ /\ leaves' \in {leaves, leaves \cup {p}}
          /\ failed' = failed \cup {p}
          /\ UNCHANGED group
  ELSE UNCHANGED <<leaves, group, failed>>

PlaceForkServer ==
  /\ pc["broker"] = "placing"
  /\ Place("forkserver")
  /\ Goto("broker", IF helper = "none" THEN "running" ELSE "spawning")
  /\ UNCHANGED <<instance, filters, scope, workers, pid1, control, kind, link>>

(* Spawner::spawn and spawn_vault: every helper but net is isolated as the *)
(* fork server was.                                                        *)
SpawnHelper ==
  /\ pc["broker"] = "spawning"
  /\ pc' = [pc EXCEPT !["broker"] = "placing helper", !["helper"] = "started"]
  /\ Inherit("helper", "broker")
  /\ UNCHANGED <<instance, cgroups, pid1, control, kind, link, failed>>

PlaceHelper ==
  /\ pc["broker"] = "placing helper"
  /\ Place("helper")
  /\ Goto("broker", "running")
  /\ UNCHANGED <<instance, filters, scope, workers, pid1, control, kind, link>>

-----------------------------------------------------------------------------
(* A helper.                                                               *)

(* Broken variant: the vault has no filter of its own, and none is named.  *)
HelperFilterUnnamed == helper

(* The filter of lock_down_vault, lock_down_net, lock_down_service.        *)
HelperFilter == IF helper = "vault" THEN "content" ELSE helper

(* lock_down_service scopes a filesystem service to its own files first;   *)
(* when that fails (a path of its own is not there) it goes on without.    *)
HelperScopes ==
  /\ pc["helper"] = "started" /\ helper = "filesystem"
  /\ \/ /\ host.landlock
        /\ scope' = [scope EXCEPT !["helper"] = @ \cup {"own files"}]
        /\ UNCHANGED failed
     \/ /\ host.landlock
        /\ failed' = failed \cup {"own files"}
        /\ UNCHANGED scope
     \/ ~host.landlock /\ UNCHANGED <<scope, failed>>
  /\ Issue("helper", Plain({"prctl"}), "scoped")
  /\ UNCHANGED <<instance, filters, group, cgroups, pid1, control, kind, link>>

HelperConfines ==
  /\ pc["helper"] = IF helper = "filesystem" THEN "scoped" ELSE "started"
  /\ Install("helper", HelperFilter, {}, "serving")
  /\ UNCHANGED <<instance, scope, group, cgroups, pid1, control, kind, link, failed>>

(* Its link ends with the broker.                                          *)
HelperEnds ==
  /\ pc["helper"] = "serving" /\ BrokerGone
  /\ Goto("helper", "exited")
  /\ UNCHANGED <<instance, confinement, cgroups, pid1, control, kind, link, failed>>

-----------------------------------------------------------------------------
(* The fork server starts.                                                 *)

ForkServerPrefilters ==
  /\ pc["forkserver"] = "started"
  /\ Install("forkserver", "enosys", {}, "prefiltered")
  /\ UNCHANGED <<instance, scope, group, cgroups, pid1, control, kind, link, failed>>

ForkServerConfines ==
  /\ pc["forkserver"] = "prefiltered"
  /\ Install("forkserver", "forkserver", {}, "confined")
  /\ UNCHANGED <<instance, scope, group, cgroups, pid1, control, kind, link, failed>>

(* fork() in the fork server: it dies of the call, or it fails (in a       *)
(* namespace that is gone it must, elsewhere it may), or the child starts  *)
(* at "forked" and the parent goes on.                                     *)
ForkTraps == ForkAnswer(filters["forkserver"], host.libc) = "trap"

Fork(child) ==
  /\ ForkAnswer(filters["forkserver"], host.libc) = "allow" /\ pid1 # "gone"
  /\ Inherit(child, "forkserver")
  /\ pid1' = IF pid1 = "fresh" THEN child ELSE pid1

ForkFails == ~ForkTraps /\ UNCHANGED <<confinement, pid1>>

(* Broken variant: nothing is pinned.                                      *)
PinNothing ==
  /\ pc["forkserver"] = "confined"
  /\ Goto("forkserver", IF ForkTraps THEN "trapped" ELSE "pinned")
  /\ UNCHANGED <<instance, confinement, cgroups, pid1, control, kind, link, failed>>

(* fork_pinned_init: a failure is reported and passed over.  A fork that   *)
(* traps does so here, the first time.                                     *)
Pin ==
  /\ pc["forkserver"] = "confined"
  /\ \/ ForkTraps /\ ForkServerStops("trapped") /\ UNCHANGED <<confinement, pid1, failed>>
     \/ ForkFails /\ Goto("forkserver", "pinned")
        /\ failed' = failed \cup {"placeholder"}
     \/ /\ Fork("init")
        /\ pc' = [pc EXCEPT !["forkserver"] = "pinned", !["init"] = "forked"]
        /\ UNCHANGED failed
  /\ UNCHANGED <<instance, cgroups, control, kind, link>>

(* verify_fork_server_filter up to the wait.                               *)
Verify ==
  /\ pc["forkserver"] = "pinned"
  /\ \/ ForkFails /\ ForkServerStops("exited")
     \/ /\ Fork("canary")
        /\ pc' = [pc EXCEPT !["forkserver"] = "verifying", !["canary"] = "forked"]
  /\ UNCHANGED <<instance, cgroups, control, kind, link, failed>>

(* What the canary issues: what a renderer does before its lockdown.       *)
CanaryCalls == Libcs[host.libc].child \cup Libcs[host.libc].dup \cup InstallCalls

(* The canary ends; when it was the first of the namespace, so does that.  *)
CanaryRuns ==
  /\ pc["canary"] = "forked"
  /\ Dies("canary", IF AllPass(filters["canary"], CanaryCalls) THEN "exited" ELSE "trapped")
  /\ UNCHANGED <<instance, confinement, cgroups, control, kind, link, failed>>

(* waitpid, the verdict, and reap_children_automatically.                  *)
Judge ==
  /\ pc["forkserver"] = "verifying" /\ ~Alive("canary")
  /\ IF pc["canary"] = "exited" THEN Goto("forkserver", "serving") ELSE ForkServerStops("exited")
  /\ UNCHANGED <<instance, confinement, cgroups, pid1, control, kind, link, failed>>

-----------------------------------------------------------------------------
(* The placeholder.                                                        *)

(* Its first calls, then PR_SET_PDEATHSIG: no signal comes for a parent    *)
(* that is dead by then.                                                   *)
InitArms ==
  /\ pc["init"] = "forked"
  /\ IF AllPass(filters["init"], Libcs[host.libc].child \cup Plain({"prctl", "getpid", "nanosleep"}))
     THEN Goto("init", IF Alive("forkserver") THEN "armed" ELSE "orphaned") /\ UNCHANGED pid1
     ELSE Dies("init", "trapped")
  /\ UNCHANGED <<instance, confinement, cgroups, control, kind, link, failed>>

(* Where there is no namespace to hold it exits.                           *)
InitLeaves ==
  /\ pc["init"] \in {"armed", "orphaned"} /\ pid1 # "init"
  /\ Goto("init", "exited")
  /\ UNCHANGED <<instance, confinement, cgroups, pid1, control, kind, link, failed>>

InitDies ==
  /\ pc["init"] = "doomed"
  /\ Dies("init", "killed")
  /\ UNCHANGED <<instance, confinement, cgroups, control, kind, link, failed>>

-----------------------------------------------------------------------------
(* The fork server serves.                                                 *)

(* One request: a content process, or the end.  When the fork fails the    *)
(* descriptor is closed again.  Where no descriptor follows, or receiving  *)
(* it fails, the loop ends; of a torn request that shows with the next     *)
(* byte of the channel, or its end.                                        *)
Serve ==
  /\ pc["forkserver"] = "serving" /\ control # <<>>
  /\ control' = Tail(control)
  /\ \/ /\ Head(control) = "torn" => Len(control) > 1 \/ BrokerGone
        /\ ForkServerStops("exited") /\ UNCHANGED <<confinement, pid1>>
     \/ Head(control) \in Content /\ ForkFails /\ Goto(Head(control), "exited")
     \/ Head(control) \in Content /\ Fork(Head(control)) /\ Goto(Head(control), "forked")
  /\ UNCHANGED <<instance, cgroups, kind, link, failed>>

(* recv_msg fails once the broker is gone and the channel is drained.      *)
ForkServerHangsUp ==
  /\ pc["forkserver"] = "serving" /\ control = <<>> /\ BrokerGone
  /\ ForkServerStops("exited")
  /\ UNCHANGED <<instance, confinement, cgroups, pid1, control, kind, link, failed>>

(* A crash or an out-of-memory kill.                                       *)
ForkServerDies ==
  /\ Alive("forkserver")
  /\ ForkServerStops("killed")
  /\ UNCHANGED <<instance, confinement, cgroups, pid1, control, kind, link, failed>>

-----------------------------------------------------------------------------
(* A content process.                                                      *)

(* The child's half of fork_child up to the serve loop.                    *)
Enter(s) ==
  /\ pc[s] = "forked"
  /\ Install(s, "content", Libcs[host.libc].child \cup Libcs[host.libc].dup, "serving")
  /\ UNCHANGED <<instance, scope, group, cgroups, pid1, control, kind, link, failed>>

(* A decoder answers once and exits; a renderer answers and stays.         *)
Speak(s) ==
  /\ pc[s] = "serving" /\ link[s] = "waiting"
  /\ IF kind[s] = "decoder"
     THEN Dies(s, "exited") /\ link' = [link EXCEPT ![s] = "idle"]
     ELSE link' = [link EXCEPT ![s] = "up"] /\ UNCHANGED <<pc, pid1>>
  /\ UNCHANGED <<instance, confinement, cgroups, control, kind, failed>>

(* It is told to, or its link has ended.                                   *)
Leave(s) ==
  /\ pc[s] = "serving" /\ (link[s] = "idle" \/ BrokerGone)
  /\ Dies(s, "exited")
  /\ UNCHANGED <<instance, confinement, cgroups, control, kind, link, failed>>

(* It stops reading its link, or crashes.                                  *)
Misbehave(s) ==
  /\ \/ pc[s] = "serving" /\ Goto(s, "wedged") /\ UNCHANGED pid1
     \/ pc[s] \in {"serving", "wedged"} /\ Dies(s, "killed")
  /\ UNCHANGED <<instance, confinement, cgroups, control, kind, link, failed>>

(* Any process may find later that its filter lacks what its work needs.   *)
Role(p) == IF p \in Content THEN kind[p] ELSE IF p = "helper" THEN helper ELSE p
Serving == {p \in {"forkserver", "helper"} \cup Content : pc[p] = "serving"}
WorkTraps(p) ==
  /\ p \in Serving /\ ~AllPass(filters[p], Working(Role(p), host.libc))
  /\ Goto(p, "trapped")
  /\ UNCHANGED <<instance, confinement, cgroups, pid1, control, kind, link, failed>>

-----------------------------------------------------------------------------
(* The broker runs.                                                        *)

(* Spawner::spawn of a renderer or decoder; without a channel the caller   *)
(* is told at once and nothing changes.  When the request is written and   *)
(* its descriptor is not, the caller is told too, and the request stays.   *)
Spawn(s) ==
  /\ s \in instance.asked /\ pc["broker"] = "running" /\ link[s] = "unused" /\ ControlOpen
  /\ \/ control' = Append(control, s) /\ link' = [link EXCEPT ![s] = "waiting"]
     \/ control' = Append(control, "torn") /\ link' = [link EXCEPT ![s] = "idle"]
  /\ UNCHANGED <<instance, pc, confinement, cgroups, pid1, kind, failed>>

(* A reader finds nobody at the other end: TabCrashed, decoder died.       *)
HearEof(s) ==
  /\ ~BrokerGone /\ link[s] \in {"waiting", "up"} /\ NobodyAtEnd(s)
  /\ link' = [link EXCEPT ![s] = "idle"]
  /\ UNCHANGED <<instance, pc, confinement, cgroups, pid1, control, kind, failed>>

(* A tab is closed or swapped; a decoder is given up after DECODE_TIMEOUT. *)
(* Neither kills a fork-served process.                                    *)
LetGo(s) ==
  /\ link[s] = IF kind[s] = "decoder" THEN "waiting" ELSE "up"
  /\ pc["broker"] = "running"
  /\ link' = [link EXCEPT ![s] = "idle"]
  /\ UNCHANGED <<instance, pc, confinement, cgroups, pid1, control, kind, failed>>

(* shutdown: the tabs, then the helpers, which are killed and waited for.  *)
CloseAll ==
  /\ pc["broker"] = "running"
  /\ pc' = [pc EXCEPT !["broker"] = "closing",
                      !["helper"] = IF Alive("helper") THEN "killed" ELSE @]
  /\ link' = [s \in Content |-> "idle"]
  /\ UNCHANGED <<instance, confinement, cgroups, pid1, control, kind, failed>>

(* Broken variant: the fork server is waited for without being told.       *)
ShutdownForkServerSilently ==
  /\ pc["broker"] = "closing"
  /\ Goto("broker", "waiting")
  /\ UNCHANGED <<instance, confinement, cgroups, pid1, control, kind, link, failed>>

(* shutdown_forkserver.                                                    *)
ShutdownForkServer ==
  /\ pc["broker"] = "closing"
  /\ control' = IF ControlOpen THEN Append(control, "shutdown") ELSE control
  /\ Goto("broker", "waiting")
  /\ UNCHANGED <<instance, confinement, cgroups, pid1, kind, link, failed>>

(* The wait ends and the leaves that are empty are removed.                *)
CleanUp ==
  /\ pc["broker"] = "waiting" /\ ~Alive("forkserver")
  /\ leaves' = {p \in leaves : \E q \in Process : Alive(q) /\ group[q] = p}
  /\ Goto("broker", "exited")
  /\ UNCHANGED <<instance, confinement, workers, pid1, control, kind, link, failed>>

(* The broker crashes: every descriptor it held is closed.                 *)
BrokerDies ==
  /\ Alive("broker")
  /\ Goto("broker", "killed")
  /\ link' = [s \in Content |-> "idle"]
  /\ UNCHANGED <<instance, confinement, cgroups, pid1, control, kind, failed>>

-----------------------------------------------------------------------------

Boot == PrepareCgroup \/ RestrictBroker \/ DenyBroker \/ SpawnForkServer
        \/ PlaceForkServer \/ SpawnHelper \/ PlaceHelper
Helper == HelperScopes \/ HelperConfines \/ HelperEnds
ForkServer == ForkServerPrefilters \/ ForkServerConfines \/ Pin \/ Verify \/ Judge
              \/ Serve \/ ForkServerHangsUp
Placeholder == InitArms \/ InitLeaves \/ InitDies
Teardown == ShutdownForkServer \/ CleanUp

Next ==
  \/ Boot \/ Helper \/ ForkServer \/ CanaryRuns \/ Placeholder
  \/ ForkServerDies \/ BrokerDies \/ CloseAll \/ Teardown
  \/ \E s \in Content : Enter(s) \/ Speak(s) \/ Leave(s) \/ Misbehave(s)
                        \/ Spawn(s) \/ HearEof(s) \/ LetGo(s)
  \/ \E p \in Process : WorkTraps(p)

(* Every process that can run runs; the decoder's timer expires.  Nothing  *)
(* makes a process crash or wedge, a tab close, or the embedder shut down. *)
Fairness ==
  /\ WF_vars(Boot) /\ WF_vars(Helper) /\ WF_vars(ForkServer) /\ WF_vars(CanaryRuns)
  /\ WF_vars(Placeholder) /\ WF_vars(Teardown)
  /\ \A s \in Content :
       /\ WF_vars(Enter(s)) /\ WF_vars(Speak(s)) /\ WF_vars(Leave(s)) /\ WF_vars(HearEof(s))
       /\ WF_vars(kind[s] = "decoder" /\ LetGo(s))

Spec == Init /\ [][Next]_vars /\ Fairness

-----------------------------------------------------------------------------
(* Properties.                                                             *)

Where == {"unborn", "started", "forked", "serving"} \cup Dead

(* The types of the state: the places each process may be at, filters,     *)
(* domains, groups and the control channel.                                *)
TypeOK ==
  /\ instance \in Instances
  /\ pc["broker"] \in {"boot", "grouped", "scoped", "confined", "placing", "spawning",
                      "placing helper", "running", "closing", "waiting"} \cup Dead
  /\ pc["forkserver"] \in {"prefiltered", "confined", "pinned", "verifying"} \cup Where
  /\ pc["helper"] \in {"scoped"} \cup Where
  /\ pc["canary"] \in Where
  /\ pc["init"] \in {"armed", "orphaned", "doomed"} \cup Where
  /\ \A s \in Content : pc[s] \in {"wedged"} \cup Where
  /\ DOMAIN pc = Process
  /\ filters \in [Process -> SUBSET FilterName]
  /\ scope \in [Process -> SUBSET {"temp", "temp and workers", "own files"}]
  /\ group \in [Process -> {"base", "leader", "forkserver", "helper"}]
  /\ leaves \subseteq {"forkserver", "helper"} /\ workers \in BOOLEAN
  /\ pid1 \in {"none", "fresh", "gone"} \cup Forked
  /\ control \in Seq(Content \cup {"shutdown", "torn"})
  /\ kind \in [Content -> {"renderer", "decoder"}]
  /\ link \in [Content -> {"unused", "waiting", "up", "idle"}]
  /\ failed \subseteq {"placeholder", "own files", "forkserver", "helper"}

(* With a C library the lists were written for nobody dies of its own      *)
(* filters, on any host: not a child of fork() that inherits its parent's, *)
(* nor a helper under the broker's (linux.rs:147-173, 386-400, 899-906).   *)
(* With any other library no renderer and no decoder does: the canary has  *)
(* found it out before one was forked (linux.rs:201-223).                  *)
NobodyTraps ==
  \A p \in Process : pc[p] = "trapped" => host.libc \notin Known /\ p \notin Content

(* What a compromised process would want.                                  *)
Escalations ==
  {call \in Calls : call.nr \notin BASELINE /\ call # Call("tgkill", "SIGSYS")}
  \cup {Call("mmap", "exec"), Call("mprotect", "exec")}
  \cup {Call("fcntl", cmd) : cmd \in {"SETFD_0", "SETFL", "DUPFD", "DUPFD_CLOEXEC"}}

(* What its work justifies.                                                *)
Granted(role) ==
  CASE role = "net" -> Plain({"socket", "socketpair", "connect", "getsockopt",
                              "setsockopt", "getsockname", "getpeername"})
    [] role = "filesystem" -> Plain({"open", "openat"})
    [] role = "device" -> Plain({"open", "openat", "ioctl"})
    [] role = "forkserver" -> Plain({"fork", "wait4", "prctl", "seccomp",
                                     "set_robust_list", "set_tid_address"})
                              \cup {Call("clone", "fork"), Call("fcntl", "DUPFD_CLOEXEC")}
    [] OTHER -> {}

(* A process that serves, wedged or not, can do nothing beyond its role,   *)
(* although it started with every privilege of the broker and, if it was   *)
(* forked, under the wider filter of the fork server (linux.rs:1-29).      *)
(* Where the kernel has Landlock it is still held to what the broker may   *)
(* write, and a file service to its own files, unless putting that domain  *)
(* on failed, which is only logged (linux.rs:1093-1103).                   *)
Confined ==
  \A p \in {"forkserver", "helper"} \cup Content : pc[p] \in {"serving", "wedged"} =>
    /\ \A call \in Escalations \ Granted(Role(p)) : Hears(filters[p], call) # "allow"
    /\ host.landlock =>
         /\ scope["broker"] # {} /\ scope["broker"] \subseteq scope[p]
         /\ Role(p) = "filesystem" /\ "own files" \notin failed => "own files" \in scope[p]

(* Where memory can be bounded every content process is bounded, although  *)
(* the broker never learns its pid: it is born in the leaf its parent was  *)
(* moved to, and its parent is moved before it can be asked for one        *)
(* (linux.rs:713-718).  Unless that move failed, which is only logged      *)
(* (linux.rs:828-847).                                                     *)
ContentBounded ==
  host.cgroup = "own" /\ "forkserver" \notin failed =>
    \A s \in Content : pc[s] \notin {"unborn"} \cup Dead => group[s] = "forkserver"

(* The namespace of the content processes stands as long as the fork       *)
(* server serves: its first process is the placeholder, so no death of a   *)
(* renderer, and not the canary's, takes the others along.  Unless the     *)
(* fork of the placeholder failed (fork_server.rs:129-143).                *)
NamespaceHeld ==
  pc["forkserver"] = "serving" /\ "placeholder" \notin failed => pid1 \in {"none", "init"}

(* The fork server died before the placeholder asked for the signal.       *)
Orphaned == pc["init"] = "orphaned" \/ (pc["init"] = "forked" /\ ~Alive("forkserver"))

(* A content process that was asked for is heard of: it speaks, or its     *)
(* link ends, or a decoder's timer does; even if the fork fails, the fork  *)
(* server dies with the request in its queue, or the process dies on the   *)
(* way (engine.rs:2205-2225).  A renderer that wedges is left to the       *)
(* embedder; an orphaned placeholder keeps the channel open.               *)
EverySpawnIsHeard ==
  \A s \in Content :
    link[s] = "waiting" ~>
      link[s] # "waiting" \/ Orphaned \/ (kind[s] = "renderer" /\ pc[s] = "wedged")

(* A shutdown ends, and with it, or with a crash of the broker, every      *)
(* process ends; a wedged one too where it shares a namespace with the     *)
(* placeholder (engine.rs:1869-1927, 1955-1960; fork_server.rs:109-113).   *)
ShutdownEndsAll ==
  (BrokerGone \/ pc["broker"] \in {"closing", "waiting"}) ~>
    /\ BrokerGone /\ ~Alive("forkserver") /\ ~Alive("helper")
    /\ \A s \in Content : Alive(s) =>
         pc[s] = "wedged" /\ (pid1 = "none" \/ Orphaned)
=============================================================================
