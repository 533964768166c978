------------------------------ MODULE Seccomp -------------------------------
(***************************************************************************)
(* The system-call filters of src/src/sandbox/linux.rs as values: what     *)
(* each one lists, what a stack of them answers to a call, and which calls *)
(* each role and each C library issues under them.                         *)
(*                                                                         *)
(* A call is its number and, where some filter looks at an argument, the   *)
(* class of that argument.  The flags of clone3 are in memory: no filter   *)
(* can look at them.                                                       *)
(***************************************************************************)
EXTENDS Naturals

Call(nr, arg) == [nr |-> nr, arg |-> arg]
Plain(nrs) == {Call(nr, "") : nr \in nrs}

-----------------------------------------------------------------------------
(* The lists.                                                              *)

BASELINE ==
  {"read", "write", "readv", "writev", "recvfrom", "sendto", "recvmsg", "sendmsg",
   "close", "fstat", "newfstatat", "statx", "lseek",
   "mmap", "munmap", "mremap", "mprotect", "madvise", "brk",
   "memfd_create", "ftruncate", "fcntl",
   "futex", "getrandom", "sched_yield", "sched_getaffinity", "membarrier",
   "rt_sigreturn", "rt_sigprocmask", "rt_sigaction", "sigaltstack",
   "clock_gettime", "clock_nanosleep", "nanosleep", "gettimeofday",
   "getpid", "gettid", "exit", "exit_group"}

(* Outbound only.                                                          *)
NET_EXTRA == {"socket", "socketpair", "connect", "getsockopt", "setsockopt",
              "getsockname", "getpeername"}

FORK_SERVER_EXTRA == {"fork", "clone", "clone3", "wait4", "prctl", "seccomp",
                      "set_robust_list", "set_tid_address"}

FS_EXTRA == {"openat", "open"}

DEVICE_EXTRA == {"openat", "open", "ioctl"}

BROKER_DENY ==
  {"ptrace", "process_vm_readv", "process_vm_writev",
   "kexec_load", "kexec_file_load", "init_module", "finit_module", "delete_module", "bpf",
   "perf_event_open", "userfaultfd", "add_key", "request_key", "keyctl", "kcmp",
   "setns", "mount", "umount2", "pivot_root", "swapon", "swapoff", "reboot",
   "fsopen", "fsconfig", "fsmount", "move_mount", "open_tree", "fspick", "mount_setattr",
   "open_by_handle_at"}

-----------------------------------------------------------------------------
(* Every call the filters are asked about: the arguments they tell apart,  *)
(* and calls on no list that a compromised process would try.              *)

Arguments ==
  [mmap     |-> {"data", "exec"},
   mprotect |-> {"data", "exec"},
   fcntl    |-> {"ADD_SEALS", "GET_SEALS", "GETFD", "SETFD_CLOEXEC", "SETFD_0",
                 "DUPFD_CLOEXEC", "DUPFD", "SETFL"},
   tgkill   |-> {"SIGSYS", "other"},
   clone    |-> {"fork", "namespace", "thread"},
   clone3   |-> {"fork", "namespace", "thread"}]

Unlisted == {"execve", "bind", "listen", "accept", "kill", "unshare", "io_uring_setup",
             "shmget", "sethostname", "unlink", "dup3", "rseq", "vfork",
             "openat2"}

Calls ==
  (UNION {{Call(nr, arg) : arg \in Arguments[nr]} : nr \in DOMAIN Arguments})
  \cup Plain((BASELINE \cup NET_EXTRA \cup FORK_SERVER_EXTRA \cup FS_EXTRA \cup DEVICE_EXTRA
              \cup BROKER_DENY \cup Unlisted) \ DOMAIN Arguments)

-----------------------------------------------------------------------------
(* Filters and stacks of them.                                             *)

Filter(listed, matched, otherwise) ==
  [listed |-> listed, matched |-> matched, otherwise |-> otherwise]

Answer(filter, call) == IF call \in filter.listed THEN filter.matched ELSE filter.otherwise

(* The kernel asks every filter of a process and takes the harshest        *)
(* answer.                                                                 *)
Verdict(stack, call) ==
  LET answers == {Answer(filter, call) : filter \in stack}
  IN  IF "trap" \in answers THEN "trap"
      ELSE IF "enosys" \in answers THEN "enosys" ELSE "allow"

(* Broken variant: F_SETFD only where F_DUPFD_CLOEXEC is needed.           *)
FcntlGatedSetfd(allow_dup_fd) ==
  {"ADD_SEALS", "GET_SEALS", "GETFD"}
  \cup IF allow_dup_fd THEN {"DUPFD_CLOEXEC", "SETFD_CLOEXEC"} ELSE {}

FcntlAllowed(allow_dup_fd) ==
  {"ADD_SEALS", "GET_SEALS", "GETFD", "SETFD_CLOEXEC"}
  \cup IF allow_dup_fd THEN {"DUPFD_CLOEXEC"} ELSE {}

(* Broken variant: the rule for clone is put in for no one.                *)
ConditionsWithoutClone(allow_dup_fd, fork_server) ==
  {Call("mmap", "data"), Call("mprotect", "data"), Call("tgkill", "SIGSYS")}
  \cup {Call("fcntl", cmd) : cmd \in FcntlAllowed(allow_dup_fd)}
  \cup {Call("clone", arg) : arg \in IF fork_server THEN Arguments.clone ELSE {}}

(* The rules that look at arguments; they replace the plain rule of their  *)
(* call, or add one.                                                       *)
Conditions(allow_dup_fd, fork_server) ==
  {Call("mmap", "data"), Call("mprotect", "data"), Call("tgkill", "SIGSYS")}
  \cup {Call("fcntl", cmd) : cmd \in FcntlAllowed(allow_dup_fd)}
  \cup IF fork_server THEN {Call("clone", "fork")} ELSE {}

install_with(allowed, allow_dup_fd, fork_server) ==
  LET conditions == Conditions(allow_dup_fd, fork_server)
      conditioned == {call.nr : call \in conditions}
  IN  Filter({call \in Calls : call.nr \in allowed \ conditioned} \cup conditions,
             "allow", "trap")

install(allowed) == install_with(allowed, FALSE, FALSE)

install_fork_server == install_with(BASELINE \cup FORK_SERVER_EXTRA, TRUE, TRUE)

install_clone3_enosys == Filter({call \in Calls : call.nr = "clone3"}, "enosys", "allow")

install_broker_seccomp == Filter({call \in Calls : call.nr \in BROKER_DENY}, "trap", "allow")

(* The filters by name; `lock_down_*` of each role installs one of them.   *)
FilterNamed ==
  [broker     |-> install_broker_seccomp,
   enosys     |-> install_clone3_enosys,
   forkserver |-> install_fork_server,
   content    |-> install(BASELINE),
   net        |-> install(BASELINE \cup NET_EXTRA),
   filesystem |-> install(BASELINE \cup FS_EXTRA),
   device     |-> install(BASELINE \cup DEVICE_EXTRA)]

FilterName == DOMAIN FilterNamed
Stack(names) == {FilterNamed[name] : name \in names}

(* What a process whose filters are `names` hears of each call.            *)
Heard == [names \in SUBSET FilterName |-> [call \in Calls |-> Verdict(Stack(names), call)]]
Hears(names, call) == Heard[names][call]
AllPass(names, calls) == \A call \in calls : Hears(names, call) = "allow"

-----------------------------------------------------------------------------
(* What the C libraries issue: the calls fork() tries one after the other, *)
(* the next when one is answered ENOSYS; those the child makes before any  *)
(* of our code; those that clone a descriptor; those that open a file.     *)

Libc(fork, child, dup, open) == [fork |-> fork, child |-> child, dup |-> dup, open |-> open]

Libcs ==
  [glibc |-> Libc(<<Call("clone3", "fork"), Call("clone", "fork")>>,
                  {Call("set_robust_list", "")},
                  {Call("fcntl", "DUPFD_CLOEXEC")}, {Call("openat", "")}),
   glibc_old |-> Libc(<<Call("clone", "fork")>>,
                  {Call("set_robust_list", "")},
                  {Call("fcntl", "DUPFD_CLOEXEC")}, {Call("openat", "")}),
   musl |-> Libc(<<Call("fork", "")>>,
                  {Call("set_tid_address", "")},
                  {Call("fcntl", "DUPFD_CLOEXEC"), Call("fcntl", "SETFD_CLOEXEC")},
                  {Call("open", ""), Call("fcntl", "SETFD_CLOEXEC")}),
   (* C libraries the lists were not written for.                          *)
   other_fork |-> Libc(<<Call("vfork", "")>>, {}, {Call("fcntl", "DUPFD_CLOEXEC")}, {}),
   other_child |-> Libc(<<Call("clone", "fork")>>, {Call("rseq", "")},
                  {Call("fcntl", "DUPFD_CLOEXEC")}, {}),
   other_dup |-> Libc(<<Call("clone", "fork")>>, {}, {Call("dup3", "")}, {}),
   other_open |-> Libc(<<Call("clone", "fork")>>, {}, {Call("fcntl", "DUPFD_CLOEXEC")},
                  {Call("openat2", "")})]

Known == {"glibc", "glibc_old", "musl"}

(* What fork() comes to: the answer to the first attempt that is not       *)
(* ENOSYS.                                                                 *)
ForkAnswer(names, libc) ==
  LET tried == Libcs[libc].fork
      refused == {i \in DOMAIN tried : Hears(names, tried[i]) = "enosys"}
  IN  IF refused = DOMAIN tried THEN "enosys"
      ELSE Hears(names, tried[CHOOSE i \in DOMAIN tried \ refused :
                                \A j \in DOMAIN tried \ refused : i <= j])

(* Putting in the reporters and the filter.                                *)
InstallCalls == Plain({"rt_sigaction", "sigaltstack", "prctl", "seccomp"})
                \cup {Call("mmap", "data")}

(* What each role issues once it serves, beyond the baseline's own.        *)
Working(role, libc) ==
  {Call("fcntl", "GETFD"), Call("mmap", "data")} \cup Plain({"recvmsg", "sendmsg", "futex"})
  \cup CASE role = "net" -> Plain({"socket", "connect", "setsockopt"})
         [] role = "filesystem" -> Libcs[libc].open
         [] role = "device" -> Libcs[libc].open \cup Plain({"ioctl"})
         [] role = "forkserver" -> Plain({"rt_sigaction", "wait4"})
         [] role = "renderer" ->
              Plain({"memfd_create", "ftruncate"}) \cup {Call("fcntl", "ADD_SEALS")}
         [] OTHER -> {}
=============================================================================
