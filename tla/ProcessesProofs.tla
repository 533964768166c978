-------------------------- MODULE ProcessesProofs --------------------------
(* Proofs about modules Seccomp and Processes: what each filter lets       *)
(* through, what it does not, what a stack of filters answers; and then,   *)
(* on every host that is described, for every helper and any number of     *)
(* content processes.                                                      *)
EXTENDS Processes, SequenceTheorems, TLAPS

-----------------------------------------------------------------------------
(* Calls.                                                                  *)

Extras == NET_EXTRA \cup FORK_SERVER_EXTRA \cup FS_EXTRA \cup DEVICE_EXTRA

LEMMA ConditionedNumbers ==
  DOMAIN Arguments = {"mmap", "mprotect", "fcntl", "tgkill", "clone", "clone3"}
BY DEF Arguments

(* The two parts of Calls.                                                 *)
Conditioned == UNION {{Call(nr, arg) : arg \in Arguments[nr]} : nr \in DOMAIN Arguments}
Unconditioned == (BASELINE \cup NET_EXTRA \cup FORK_SERVER_EXTRA \cup FS_EXTRA \cup DEVICE_EXTRA
                  \cup BROKER_DENY \cup Unlisted) \ DOMAIN Arguments

LEMMA CallsSplit == Calls = Conditioned \cup Plain(Unconditioned)
BY DEF Calls, Conditioned, Unconditioned

LEMMA PlainCalls ==
  ASSUME NEW nr \in BASELINE \cup Extras \cup BROKER_DENY \cup Unlisted, nr \notin DOMAIN Arguments
  PROVE  Call(nr, "") \in Calls
<1>1. nr \in Unconditioned
  BY DEF Unconditioned, Extras
<1>2. Call(nr, "") \in Plain(Unconditioned)
  BY <1>1 DEF Plain
<1> QED BY <1>2, CallsSplit

LEMMA ConditionalCalls ==
  ASSUME NEW nr \in DOMAIN Arguments, NEW arg \in Arguments[nr]
  PROVE  Call(nr, arg) \in Calls
<1>1. Call(nr, arg) \in {Call(nr, a) : a \in Arguments[nr]}
  OBVIOUS
<1>2. Call(nr, arg) \in Conditioned
  BY <1>1 DEF Conditioned
<1> QED BY <1>2, CallsSplit

LEMMA ACallIsItsNumber ==
  ASSUME NEW call \in Calls
  PROVE  \/ call.nr \notin DOMAIN Arguments /\ call = Call(call.nr, "")
         \/ /\ call.nr \in DOMAIN Arguments
            /\ \E arg \in Arguments[call.nr] : call = Call(call.nr, arg)
<1>1. \A nr, arg : Call(nr, arg).nr = nr
  BY DEF Call
<1>2. CASE call \in Conditioned
  <2>1. PICK nr \in DOMAIN Arguments : call \in {Call(nr, arg) : arg \in Arguments[nr]}
    BY <1>2 DEF Conditioned
  <2>2. PICK arg \in Arguments[nr] : call = Call(nr, arg)
    BY <2>1
  <2>3. call.nr = nr
    BY <1>1, <2>2
  <2> QED BY <2>1, <2>2, <2>3
<1>3. CASE call \in Plain(Unconditioned)
  <2>1. PICK nr \in Unconditioned : call = Call(nr, "")
    BY <1>3 DEF Plain
  <2>2. call.nr = nr
    BY <1>1, <2>1
  <2> QED BY <2>1, <2>2 DEF Unconditioned, Extras
<1> QED BY <1>2, <1>3, CallsSplit

-----------------------------------------------------------------------------
(* One filter.                                                             *)

Gated(server) == {"mmap", "mprotect", "fcntl", "tgkill"} \cup IF server THEN {"clone"} ELSE {}

LEMMA ConditionalNumbers ==
  ASSUME NEW dup \in BOOLEAN, NEW server \in BOOLEAN
  PROVE  {call.nr : call \in Conditions(dup, server)} = Gated(server)
<1> DEFINE numbers == {call.nr : call \in Conditions(dup, server)}
<1>1. \A nr, arg : Call(nr, arg).nr = nr
  BY DEF Call
<1>2. ASSUME NEW call \in Conditions(dup, server)
      PROVE  call.nr \in Gated(server)
  <2>1. CASE call \in {Call("mmap", "data"), Call("mprotect", "data"), Call("tgkill", "SIGSYS")}
    BY <1>1, <2>1 DEF Gated
  <2>2. CASE call \in {Call("fcntl", cmd) : cmd \in FcntlAllowed(dup)}
    BY <1>1, <2>2 DEF Gated
  <2>3. CASE server /\ call = Call("clone", "fork")
    BY <1>1, <2>3 DEF Gated
  <2> QED BY <2>1, <2>2, <2>3 DEF Conditions
<1>3. /\ Call("mmap", "data") \in Conditions(dup, server)
      /\ Call("mprotect", "data") \in Conditions(dup, server)
      /\ Call("tgkill", "SIGSYS") \in Conditions(dup, server)
      /\ Call("fcntl", "GETFD") \in Conditions(dup, server)
      /\ server => Call("clone", "fork") \in Conditions(dup, server)
  <2>1. "GETFD" \in FcntlAllowed(dup)
    BY DEF FcntlAllowed
  <2> QED BY <2>1 DEF Conditions
<1>4. \A nr, arg : Call(nr, arg) \in Conditions(dup, server) => nr \in numbers
  BY <1>1
<1>5. Gated(server) \subseteq numbers
  BY <1>3, <1>4 DEF Gated
<1> QED BY <1>2, <1>5

(* A filter of install_with lets through exactly the calls it lists        *)
(* without an argument and those that meet a condition.                    *)
LEMMA InstalledAnswers ==
  ASSUME NEW allowed, NEW dup \in BOOLEAN, NEW server \in BOOLEAN, NEW call \in Calls
  PROVE  Answer(install_with(allowed, dup, server), call) =
           IF call.nr \in allowed \ Gated(server) \/ call \in Conditions(dup, server)
             THEN "allow" ELSE "trap"
BY ConditionalNumbers DEF install_with, Answer, Filter

LEMMA FilterNames ==
  FilterName = {"broker", "enosys", "forkserver", "content", "net", "filesystem", "device"}
BY DEF FilterName, FilterNamed

LEMMA BrokerAnswers ==
  ASSUME NEW call \in Calls
  PROVE  Answer(FilterNamed["broker"], call) = IF call.nr \in BROKER_DENY THEN "trap" ELSE "allow"
BY DEF FilterNamed, install_broker_seccomp, Answer, Filter

LEMMA EnosysAnswers ==
  ASSUME NEW call \in Calls
  PROVE  Answer(FilterNamed["enosys"], call) = IF call.nr = "clone3" THEN "enosys" ELSE "allow"
BY DEF FilterNamed, install_clone3_enosys, Answer, Filter

LEMMA ForkServerAnswers ==
  ASSUME NEW call \in Calls
  PROVE  Answer(FilterNamed["forkserver"], call) =
           IF \/ call.nr \in (BASELINE \cup FORK_SERVER_EXTRA) \ Gated(TRUE)
              \/ call \in Conditions(TRUE, TRUE) THEN "allow" ELSE "trap"
BY InstalledAnswers DEF FilterNamed, install_fork_server

LEMMA ContentAnswers ==
  ASSUME NEW call \in Calls
  PROVE  Answer(FilterNamed["content"], call) =
           IF \/ call.nr \in BASELINE \ Gated(FALSE)
              \/ call \in Conditions(FALSE, FALSE) THEN "allow" ELSE "trap"
BY InstalledAnswers DEF FilterNamed, install

LEMMA NetAnswers ==
  ASSUME NEW call \in Calls
  PROVE  Answer(FilterNamed["net"], call) =
           IF \/ call.nr \in (BASELINE \cup NET_EXTRA) \ Gated(FALSE)
              \/ call \in Conditions(FALSE, FALSE) THEN "allow" ELSE "trap"
BY InstalledAnswers DEF FilterNamed, install

LEMMA FileAnswers ==
  ASSUME NEW call \in Calls
  PROVE  Answer(FilterNamed["filesystem"], call) =
           IF \/ call.nr \in (BASELINE \cup FS_EXTRA) \ Gated(FALSE)
              \/ call \in Conditions(FALSE, FALSE) THEN "allow" ELSE "trap"
BY InstalledAnswers DEF FilterNamed, install

LEMMA DeviceAnswers ==
  ASSUME NEW call \in Calls
  PROVE  Answer(FilterNamed["device"], call) =
           IF \/ call.nr \in (BASELINE \cup DEVICE_EXTRA) \ Gated(FALSE)
              \/ call \in Conditions(FALSE, FALSE) THEN "allow" ELSE "trap"
BY InstalledAnswers DEF FilterNamed, install

-----------------------------------------------------------------------------
(* A stack.                                                                *)

LEMMA SomeAnswer ==
  ASSUME NEW name \in FilterName, NEW call \in Calls
  PROVE  Answer(FilterNamed[name], call) \in {"allow", "trap", "enosys"}
<1>1. CASE name = "broker"
  BY <1>1, BrokerAnswers
<1>2. CASE name = "enosys"
  BY <1>2, EnosysAnswers
<1>3. CASE name = "forkserver"
  BY <1>3, ForkServerAnswers
<1>4. CASE name = "content"
  BY <1>4, ContentAnswers
<1>5. CASE name = "net"
  BY <1>5, NetAnswers
<1>6. CASE name = "filesystem"
  BY <1>6, FileAnswers
<1>7. CASE name = "device"
  BY <1>7, DeviceAnswers
<1> QED BY <1>1, <1>2, <1>3, <1>4, <1>5, <1>6, <1>7, FilterNames

(* A call passes a stack when it passes every filter of it.                *)
LEMMA StackPasses ==
  ASSUME NEW names \in SUBSET FilterName, NEW call \in Calls
  PROVE  Hears(names, call) = "allow" <=>
           \A name \in names : Answer(FilterNamed[name], call) = "allow"
<1> DEFINE answers == {Answer(filter, call) : filter \in Stack(names)}
<1>1. Hears(names, call) = Verdict(Stack(names), call)
  BY DEF Hears, Heard
<1>2. Hears(names, call) = IF "trap" \in answers THEN "trap"
                            ELSE IF "enosys" \in answers THEN "enosys" ELSE "allow"
  BY <1>1 DEF Verdict
<1>3. answers = {Answer(FilterNamed[name], call) : name \in names}
  BY DEF Stack
<1>4. \A answer \in answers : answer \in {"allow", "trap", "enosys"}
  BY <1>3, SomeAnswer
<1> HIDE DEF answers
<1>5. Hears(names, call) = "allow" <=> \A answer \in answers : answer = "allow"
  BY <1>2, <1>4
<1> QED BY <1>3, <1>5
-----------------------------------------------------------------------------
(* What passes.                                                            *)

LEMMA BaselineIsHarmless ==
  ASSUME NEW nr \in BASELINE
  PROVE  nr \notin BROKER_DENY /\ nr # "clone3" /\ nr # "clone"
BY DEF BASELINE, BROKER_DENY

LEMMA ExtrasAreHarmless ==
  ASSUME NEW nr \in Extras
  PROVE  nr \notin BROKER_DENY /\ nr \notin BASELINE
BY DEF Extras, NET_EXTRA, FORK_SERVER_EXTRA, FS_EXTRA, DEVICE_EXTRA, BASELINE, BROKER_DENY

(* The calls of the baseline pass every stack, those with a condition when *)
(* they meet the condition of a filter without privileges.                 *)
LEMMA BaselinePasses ==
  ASSUME NEW names \in SUBSET FilterName, NEW call \in Calls,
         \/ call.nr \in BASELINE \ {"mmap", "mprotect", "fcntl", "tgkill"}
         \/ call \in Conditions(FALSE, FALSE) /\ call.nr \in {"mmap", "mprotect", "fcntl", "tgkill"}
  PROVE  Hears(names, call) = "allow"
<1>1. call.nr \notin BROKER_DENY /\ call.nr # "clone3" /\ call.nr # "clone"
  <2>1. CASE call.nr \in BASELINE
    BY <2>1, BaselineIsHarmless
  <2>2. CASE call.nr \in {"mmap", "mprotect", "fcntl", "tgkill"}
    BY <2>2 DEF BROKER_DENY
  <2> QED BY <2>1, <2>2
<1>2. Conditions(FALSE, FALSE) \subseteq Conditions(TRUE, TRUE)
  BY DEF Conditions, FcntlAllowed
<1>3. Answer(FilterNamed["broker"], call) = "allow" /\ Answer(FilterNamed["enosys"], call) = "allow"
  BY <1>1, BrokerAnswers, EnosysAnswers
<1>4. Answer(FilterNamed["forkserver"], call) = "allow"
  BY <1>1, <1>2, ForkServerAnswers DEF Gated
<1>5. Answer(FilterNamed["content"], call) = "allow" /\ Answer(FilterNamed["net"], call) = "allow"
  BY <1>1, ContentAnswers, NetAnswers DEF Gated
<1>6. Answer(FilterNamed["filesystem"], call) = "allow" /\ Answer(FilterNamed["device"], call) = "allow"
  BY <1>1, FileAnswers, DeviceAnswers DEF Gated
<1> QED BY <1>3, <1>4, <1>5, <1>6, StackPasses, FilterNames

(* The stack the fork server forks under.                                  *)
ForkStack == {"broker", "enosys", "forkserver"}

LEMMA ForkStackIsNamed == ForkStack \subseteq FilterName
BY FilterNames DEF ForkStack

(* What the fork server adds passes there.                                 *)
LEMMA ForkServerPasses ==
  ASSUME NEW names \in SUBSET ForkStack, NEW call \in Calls,
         \/ call.nr \in FORK_SERVER_EXTRA \ {"clone", "clone3"}
         \/ call \in {Call("clone", "fork"), Call("fcntl", "DUPFD_CLOEXEC")}
  PROVE  Hears(names, call) = "allow"
<1>1. call.nr \notin BROKER_DENY /\ call.nr # "clone3"
  <2>1. CASE call.nr \in FORK_SERVER_EXTRA \ {"clone", "clone3"}
    BY <2>1, ExtrasAreHarmless DEF Extras
  <2>2. CASE call \in {Call("clone", "fork"), Call("fcntl", "DUPFD_CLOEXEC")}
    BY <2>2 DEF Call, BROKER_DENY
  <2> QED BY <2>1, <2>2
<1>2. Answer(FilterNamed["broker"], call) = "allow" /\ Answer(FilterNamed["enosys"], call) = "allow"
  BY <1>1, BrokerAnswers, EnosysAnswers
<1>3. \/ call.nr \in (BASELINE \cup FORK_SERVER_EXTRA) \ Gated(TRUE)
      \/ call \in Conditions(TRUE, TRUE)
  <2>1. CASE call.nr \in FORK_SERVER_EXTRA \ {"clone", "clone3"}
    BY <2>1 DEF Gated, FORK_SERVER_EXTRA
  <2>2. "DUPFD_CLOEXEC" \in FcntlAllowed(TRUE)
    BY DEF FcntlAllowed
  <2>3. CASE call \in {Call("clone", "fork"), Call("fcntl", "DUPFD_CLOEXEC")}
    BY <2>2, <2>3 DEF Conditions
  <2> QED BY <2>1, <2>3
<1>4. Answer(FilterNamed["forkserver"], call) = "allow"
  BY <1>3, ForkServerAnswers
<1> QED BY <1>2, <1>4, StackPasses, ForkStackIsNamed DEF ForkStack

(* What a helper's filter adds passes under it and the broker's.           *)
LEMMA RolePasses ==
  ASSUME NEW call \in Calls
  PROVE  /\ call.nr \in NET_EXTRA => Hears({"broker", "net"}, call) = "allow"
         /\ call.nr \in FS_EXTRA => Hears({"broker", "filesystem"}, call) = "allow"
         /\ call.nr \in DEVICE_EXTRA => Hears({"broker", "device"}, call) = "allow"
<1>1. call.nr \in Extras => Answer(FilterNamed["broker"], call) = "allow"
  BY ExtrasAreHarmless, BrokerAnswers
<1>2. call.nr \in NET_EXTRA => Answer(FilterNamed["net"], call) = "allow"
  BY NetAnswers DEF Gated, NET_EXTRA
<1>3. call.nr \in FS_EXTRA => Answer(FilterNamed["filesystem"], call) = "allow"
  BY FileAnswers DEF Gated, FS_EXTRA
<1>4. call.nr \in DEVICE_EXTRA => Answer(FilterNamed["device"], call) = "allow"
  BY DeviceAnswers DEF Gated, DEVICE_EXTRA
<1>5. /\ {"broker", "net"} \in SUBSET FilterName /\ {"broker", "filesystem"} \in SUBSET FilterName
      /\ {"broker", "device"} \in SUBSET FilterName
  BY FilterNames
<1> QED BY <1>1, <1>2, <1>3, <1>4, <1>5, StackPasses DEF Extras

(* A wider stack lets through no more.                                     *)
LEMMA FewerFiltersPassMore ==
  ASSUME NEW names \in SUBSET FilterName, NEW fewer \in SUBSET names, NEW call \in Calls,
         Hears(names, call) = "allow"
  PROVE  Hears(fewer, call) = "allow"
BY StackPasses

(* Putting a filter on passes under what a starting process is under.      *)
LEMMA InstallPasses ==
  ASSUME NEW names \in SUBSET ForkStack
  PROVE  AllPass(names, InstallCalls)
<1>1. DOMAIN Arguments = {"mmap", "mprotect", "fcntl", "tgkill", "clone", "clone3"}
  BY ConditionedNumbers
<1>2. ASSUME NEW nr \in {"rt_sigaction", "sigaltstack"}
      PROVE  Hears(names, Call(nr, "")) = "allow"
  <2>1. nr \in BASELINE \ {"mmap", "mprotect", "fcntl", "tgkill"} /\ nr \notin DOMAIN Arguments
    BY <1>1 DEF BASELINE
  <2>2. Call(nr, "") \in Calls /\ Call(nr, "").nr = nr
    BY <2>1, PlainCalls DEF Call
  <2> QED BY <2>1, <2>2, BaselinePasses, ForkStackIsNamed
<1>3. ASSUME NEW nr \in {"prctl", "seccomp"}
      PROVE  Hears(names, Call(nr, "")) = "allow"
  <2>1. nr \in FORK_SERVER_EXTRA \ {"clone", "clone3"} /\ nr \notin DOMAIN Arguments
    BY <1>1 DEF FORK_SERVER_EXTRA
  <2>2. Call(nr, "") \in Calls /\ Call(nr, "").nr = nr
    BY <2>1, PlainCalls DEF Call, Extras
  <2> QED BY <2>1, <2>2, ForkServerPasses
<1>4. Hears(names, Call("mmap", "data")) = "allow"
  <2>1. Call("mmap", "data") \in Conditions(FALSE, FALSE) /\ Call("mmap", "data").nr = "mmap"
    BY DEF Conditions, Call
  <2>2. Call("mmap", "data") \in Calls
    BY ConditionalCalls DEF Arguments
  <2> QED BY <2>1, <2>2, BaselinePasses, ForkStackIsNamed
<1> QED BY <1>2, <1>3, <1>4 DEF AllPass, InstallCalls, Plain
-----------------------------------------------------------------------------
(* The C libraries the lists were written for.                             *)

LEMMA PlainOnesPass ==
  ASSUME NEW names \in SUBSET ForkStack,
         NEW nr \in {"prctl", "wait4", "set_robust_list", "set_tid_address"}
  PROVE  Hears(names, Call(nr, "")) = "allow"
<1>1. nr \in FORK_SERVER_EXTRA \ {"clone", "clone3"} /\ nr \notin DOMAIN Arguments
  BY ConditionedNumbers DEF FORK_SERVER_EXTRA
<1>2. Call(nr, "") \in Calls /\ Call(nr, "").nr = nr
  BY <1>1, PlainCalls DEF Call, Extras
<1> QED BY <1>1, <1>2, ForkServerPasses

LEMMA OrdinaryPass ==
  ASSUME NEW names \in SUBSET FilterName,
         NEW nr \in {"getpid", "nanosleep", "recvmsg", "sendmsg", "futex", "rt_sigaction",
                     "memfd_create", "ftruncate"}
  PROVE  Hears(names, Call(nr, "")) = "allow"
<1>1. nr \in BASELINE \ {"mmap", "mprotect", "fcntl", "tgkill"} /\ nr \notin DOMAIN Arguments
  BY ConditionedNumbers DEF BASELINE
<1>2. Call(nr, "") \in Calls /\ Call(nr, "").nr = nr
  BY <1>1, PlainCalls DEF Call
<1> QED BY <1>1, <1>2, BaselinePasses

LEMMA ConditionsPass ==
  ASSUME NEW names \in SUBSET FilterName,
         NEW call \in {Call("fcntl", "GETFD"), Call("fcntl", "SETFD_CLOEXEC"),
                       Call("fcntl", "ADD_SEALS"), Call("mmap", "data")}
  PROVE  Hears(names, call) = "allow"
<1>1. \A cmd \in {"GETFD", "SETFD_CLOEXEC", "ADD_SEALS"} : cmd \in FcntlAllowed(FALSE)
  BY DEF FcntlAllowed
<1>2. call \in Conditions(FALSE, FALSE)
  BY <1>1 DEF Conditions
<1>3. call.nr \in {"mmap", "fcntl"}
  BY DEF Call
<1>4. call \in Calls
  BY ConditionalCalls DEF Arguments
<1> QED BY <1>2, <1>3, <1>4, BaselinePasses

LEMMA ForkingPasses ==
  ASSUME NEW names \in SUBSET ForkStack,
         NEW call \in {Call("clone", "fork"), Call("fcntl", "DUPFD_CLOEXEC"), Call("fork", "")}
  PROVE  Hears(names, call) = "allow"
<1>1. CASE call = Call("fork", "")
  <2>1. "fork" \in FORK_SERVER_EXTRA \ {"clone", "clone3"} /\ "fork" \notin DOMAIN Arguments
    BY ConditionedNumbers DEF FORK_SERVER_EXTRA
  <2>2. call \in Calls /\ call.nr = "fork"
    BY <1>1, <2>1, PlainCalls DEF Call, Extras
  <2> QED BY <2>1, <2>2, ForkServerPasses
<1>2. CASE call # Call("fork", "")
  <2>1. call \in Calls
    BY <1>2, ConditionalCalls DEF Arguments
  <2> QED BY <1>2, <2>1, ForkServerPasses
<1> QED BY <1>1, <1>2

(* A filter of the fork server never traps clone3.                         *)
LEMMA Clone3NeverTraps ==
  ASSUME NEW names \in SUBSET ForkStack
  PROVE  Hears(names, Call("clone3", "fork")) \in {"allow", "enosys"}
<1> DEFINE call == Call("clone3", "fork")
           answers == {Answer(filter, call) : filter \in Stack(names)}
<1>1. call \in Calls /\ call.nr = "clone3"
  BY ConditionalCalls DEF Arguments, Call
<1>2. "clone3" \notin BROKER_DENY /\ "clone3" \in FORK_SERVER_EXTRA /\ "clone3" \notin Gated(TRUE)
  BY DEF BROKER_DENY, FORK_SERVER_EXTRA, Gated
<1>3. /\ Answer(FilterNamed["broker"], call) # "trap"
      /\ Answer(FilterNamed["enosys"], call) # "trap"
      /\ Answer(FilterNamed["forkserver"], call) # "trap"
  BY <1>1, <1>2, BrokerAnswers, EnosysAnswers, ForkServerAnswers
<1>4. answers = {Answer(FilterNamed[name], call) : name \in names}
  BY DEF Stack
<1>5. "trap" \notin answers
  BY <1>3, <1>4 DEF ForkStack
<1>6. Hears(names, call) = Verdict(Stack(names), call)
  BY <1>1, ForkStackIsNamed DEF Hears, Heard
<1> QED BY <1>5, <1>6 DEF Verdict

LEMMA KnownLibcs ==
  /\ Libcs["glibc"].fork = <<Call("clone3", "fork"), Call("clone", "fork")>>
  /\ Libcs["glibc_old"].fork = <<Call("clone", "fork")>>
  /\ Libcs["musl"].fork = <<Call("fork", "")>>
  /\ \A libc \in Known :
       /\ Libcs[libc].child \subseteq {Call("set_robust_list", ""), Call("set_tid_address", "")}
       /\ Libcs[libc].dup \subseteq {Call("fcntl", "DUPFD_CLOEXEC"), Call("fcntl", "SETFD_CLOEXEC")}
       /\ Libcs[libc].open \subseteq {Call("open", ""), Call("openat", ""), Call("fcntl", "SETFD_CLOEXEC")}
<1>1. Libcs["glibc"].fork = <<Call("clone3", "fork"), Call("clone", "fork")>>
  BY DEF Libcs, Libc
<1>2. Libcs["glibc_old"].fork = <<Call("clone", "fork")>>
  BY DEF Libcs, Libc
<1>3. Libcs["musl"].fork = <<Call("fork", "")>>
  BY DEF Libcs, Libc
<1>4. ASSUME NEW libc \in Known
      PROVE  /\ Libcs[libc].child \subseteq {Call("set_robust_list", ""), Call("set_tid_address", "")}
             /\ Libcs[libc].dup \subseteq {Call("fcntl", "DUPFD_CLOEXEC"), Call("fcntl", "SETFD_CLOEXEC")}
             /\ Libcs[libc].open \subseteq {Call("open", ""), Call("openat", ""), Call("fcntl", "SETFD_CLOEXEC")}
  <2>1. CASE libc = "glibc"
    <3>1. Libcs["glibc"].child \subseteq {Call("set_robust_list", ""), Call("set_tid_address", "")}
      BY DEF Libcs, Libc
    <3>2. Libcs["glibc"].dup \subseteq {Call("fcntl", "DUPFD_CLOEXEC"), Call("fcntl", "SETFD_CLOEXEC")}
      BY DEF Libcs, Libc
    <3>3. Libcs["glibc"].open \subseteq {Call("open", ""), Call("openat", ""), Call("fcntl", "SETFD_CLOEXEC")}
      BY DEF Libcs, Libc
    <3> QED BY <2>1, <3>1, <3>2, <3>3
  <2>2. CASE libc = "glibc_old"
    <3>1. Libcs["glibc_old"].child \subseteq {Call("set_robust_list", ""), Call("set_tid_address", "")}
      BY DEF Libcs, Libc
    <3>2. Libcs["glibc_old"].dup \subseteq {Call("fcntl", "DUPFD_CLOEXEC"), Call("fcntl", "SETFD_CLOEXEC")}
      BY DEF Libcs, Libc
    <3>3. Libcs["glibc_old"].open \subseteq {Call("open", ""), Call("openat", ""), Call("fcntl", "SETFD_CLOEXEC")}
      BY DEF Libcs, Libc
    <3> QED BY <2>2, <3>1, <3>2, <3>3
  <2>3. CASE libc = "musl"
    <3>1. Libcs["musl"].child \subseteq {Call("set_robust_list", ""), Call("set_tid_address", "")}
      BY DEF Libcs, Libc
    <3>2. Libcs["musl"].dup \subseteq {Call("fcntl", "DUPFD_CLOEXEC"), Call("fcntl", "SETFD_CLOEXEC")}
      BY DEF Libcs, Libc
    <3>3. Libcs["musl"].open \subseteq {Call("open", ""), Call("openat", ""), Call("fcntl", "SETFD_CLOEXEC")}
      BY DEF Libcs, Libc
    <3> QED BY <2>3, <3>1, <3>2, <3>3
  <2> QED BY <2>1, <2>2, <2>3 DEF Known
<1> QED BY <1>1, <1>2, <1>3, <1>4

(* No call that fork() tries traps.                                        *)
LEMMA KnownLibcsFork ==
  ASSUME NEW names \in SUBSET ForkStack, NEW libc \in Known
  PROVE  ForkAnswer(names, libc) # "trap"
<1> DEFINE tried == Libcs[libc].fork
           refused == {i \in DOMAIN tried : Hears(names, tried[i]) = "enosys"}
<1>1. /\ DOMAIN tried \in {{1}, {1, 2}}
      /\ \A i \in DOMAIN tried : Hears(names, tried[i]) # "trap"
  <2>1. CASE libc = "glibc"
    <3>1. tried = <<Call("clone3", "fork"), Call("clone", "fork")>>
      BY <2>1, KnownLibcs
    <3> HIDE DEF tried
    <3>2. DOMAIN tried = {1, 2} /\ tried[1] = Call("clone3", "fork") /\ tried[2] = Call("clone", "fork")
      BY <3>1
    <3>3. Hears(names, tried[1]) # "trap" /\ Hears(names, tried[2]) # "trap"
      BY <3>2, Clone3NeverTraps, ForkingPasses
    <3> QED BY <3>2, <3>3
  <2>2. CASE libc = "glibc_old"
    <3>1. tried = <<Call("clone", "fork")>>
      BY <2>2, KnownLibcs
    <3> HIDE DEF tried
    <3>2. DOMAIN tried = {1} /\ tried[1] = Call("clone", "fork")
      BY <3>1
    <3>3. Hears(names, tried[1]) # "trap"
      BY <3>2, ForkingPasses
    <3> QED BY <3>2, <3>3
  <2>3. CASE libc = "musl"
    <3>1. tried = <<Call("fork", "")>>
      BY <2>3, KnownLibcs
    <3> HIDE DEF tried
    <3>2. \A call : DOMAIN <<call>> = {1}
      OBVIOUS
    <3>3. DOMAIN tried = {1} /\ tried[1] = Call("fork", "")
      BY <3>1, <3>2
    <3>4. Hears(names, tried[1]) # "trap"
      BY <3>3, ForkingPasses
    <3> QED BY <3>3, <3>4
  <2> QED BY <2>1, <2>2, <2>3 DEF Known
<1>2. CASE refused = DOMAIN tried
  BY <1>2 DEF ForkAnswer
<1>3. CASE refused # DOMAIN tried
  <2> DEFINE first == CHOOSE i \in DOMAIN tried \ refused :
                        \A j \in DOMAIN tried \ refused : i <= j
  <2>1. \E i \in DOMAIN tried \ refused : \A j \in DOMAIN tried \ refused : i <= j
    <3>1. DOMAIN tried \ refused \in {{1}, {2}, {1, 2}}
      <4> HIDE DEF tried
      <4> QED BY <1>1, <1>3
    <3> HIDE DEF refused, tried
    <3> QED BY <3>1
  <2>2. first \in DOMAIN tried
    BY <2>1
  <2>3. ForkAnswer(names, libc) = Hears(names, tried[first])
    BY <1>3 DEF ForkAnswer
  <2> QED BY <1>1, <2>2, <2>3
<1> QED BY <1>2, <1>3

(* What a child of fork() issues before its own filter is on passes.       *)
LEMMA KnownChildrenPass ==
  ASSUME NEW names \in SUBSET ForkStack, NEW libc \in Known
  PROVE  AllPass(names, Libcs[libc].child \cup Libcs[libc].dup)
BY KnownLibcs, PlainOnesPass, ForkingPasses, ConditionsPass, ForkStackIsNamed DEF AllPass
-----------------------------------------------------------------------------
(* What the roles issue once they serve.                                   *)

Ordinary == {Call("fcntl", "GETFD"), Call("mmap", "data")} \cup Plain({"recvmsg", "sendmsg", "futex"})

LEMMA OrdinaryWorks ==
  ASSUME NEW names \in SUBSET FilterName
  PROVE  AllPass(names, Ordinary)
BY ConditionsPass, OrdinaryPass DEF AllPass, Ordinary, Plain

LEMMA ForkServerWorks ==
  ASSUME NEW names \in SUBSET ForkStack, NEW libc
  PROVE  AllPass(names, Working("forkserver", libc))
<1>1. Working("forkserver", libc) = Ordinary \cup Plain({"rt_sigaction", "wait4"})
  BY DEF Working, Ordinary
<1>2. AllPass(names, Plain({"rt_sigaction", "wait4"}))
  BY PlainOnesPass, OrdinaryPass, ForkStackIsNamed DEF AllPass, Plain
<1> QED BY <1>1, <1>2, OrdinaryWorks, ForkStackIsNamed DEF AllPass

LEMMA ContentWorks ==
  ASSUME NEW names \in SUBSET FilterName, NEW role \in {"renderer", "decoder"}, NEW libc
  PROVE  AllPass(names, Working(role, libc))
<1>1. CASE role = "renderer"
  <2>1. Working("renderer", libc) =
          Ordinary \cup Plain({"memfd_create", "ftruncate"}) \cup {Call("fcntl", "ADD_SEALS")}
    BY DEF Working, Ordinary
  <2>2. AllPass(names, Plain({"memfd_create", "ftruncate"}) \cup {Call("fcntl", "ADD_SEALS")})
    BY ConditionsPass, OrdinaryPass DEF AllPass, Plain
  <2> QED BY <1>1, <2>1, <2>2, OrdinaryWorks DEF AllPass
<1>2. CASE role = "decoder"
  <2>1. Working("decoder", libc) = Ordinary
    BY DEF Working, Ordinary
  <2> QED BY <1>2, <2>1, OrdinaryWorks
<1> QED BY <1>1, <1>2

LEMMA VaultWorks ==
  ASSUME NEW names \in SUBSET FilterName, NEW libc
  PROVE  AllPass(names, Working("vault", libc))
<1>1. Working("vault", libc) = Ordinary
  BY DEF Working, Ordinary
<1> QED BY <1>1, OrdinaryWorks

LEMMA NetWorks ==
  ASSUME NEW libc, NEW names \in SUBSET {"broker", "net"}
  PROVE  AllPass(names, Working("net", libc))
<1>1. Working("net", libc) = Ordinary \cup Plain({"socket", "connect", "setsockopt"})
  BY DEF Working, Ordinary
<1>2. ASSUME NEW nr \in {"socket", "connect", "setsockopt"}
      PROVE  Hears(names, Call(nr, "")) = "allow"
  <2>1. nr \in NET_EXTRA /\ nr \notin DOMAIN Arguments
    BY ConditionedNumbers DEF NET_EXTRA
  <2>2. Call(nr, "") \in Calls /\ Call(nr, "").nr = nr
    BY <2>1, PlainCalls DEF Call, Extras
  <2>3. {"broker", "net"} \in SUBSET FilterName
    BY FilterNames
  <2> QED BY <2>1, <2>2, <2>3, RolePasses, FewerFiltersPassMore
<1>3. names \in SUBSET FilterName
  BY FilterNames
<1> QED BY <1>1, <1>2, <1>3, OrdinaryWorks DEF AllPass, Plain

(* How the known C libraries open files.                                   *)
LEMMA OpeningPasses ==
  ASSUME NEW name \in {"filesystem", "device"}, NEW names \in SUBSET {"broker", name},
         NEW libc \in Known
  PROVE  AllPass(names, Libcs[libc].open)
<1>1. names \in SUBSET FilterName /\ {"broker", name} \in SUBSET FilterName
  BY FilterNames
<1>2. ASSUME NEW nr \in {"open", "openat"}
      PROVE  Hears(names, Call(nr, "")) = "allow"
  <2>1. nr \in FS_EXTRA /\ nr \in DEVICE_EXTRA /\ nr \notin DOMAIN Arguments
    BY ConditionedNumbers DEF FS_EXTRA, DEVICE_EXTRA
  <2>2. Call(nr, "") \in Calls /\ Call(nr, "").nr = nr
    BY <2>1, PlainCalls DEF Call, Extras
  <2>3. Hears({"broker", name}, Call(nr, "")) = "allow"
    BY <2>1, <2>2, RolePasses
  <2> QED BY <1>1, <2>2, <2>3, FewerFiltersPassMore
<1>3. Hears(names, Call("fcntl", "SETFD_CLOEXEC")) = "allow"
  BY <1>1, ConditionsPass
<1> QED BY <1>2, <1>3, KnownLibcs DEF AllPass

LEMMA FileWorks ==
  ASSUME NEW names \in SUBSET {"broker", "filesystem"}, NEW libc \in Known
  PROVE  AllPass(names, Working("filesystem", libc))
<1>1. Working("filesystem", libc) = Ordinary \cup Libcs[libc].open
  BY DEF Working, Ordinary
<1>2. names \in SUBSET FilterName
  BY FilterNames
<1> QED BY <1>1, <1>2, OpeningPasses, OrdinaryWorks DEF AllPass

LEMMA DeviceWorks ==
  ASSUME NEW names \in SUBSET {"broker", "device"}, NEW libc \in Known
  PROVE  AllPass(names, Working("device", libc))
<1>1. Working("device", libc) = Ordinary \cup (Libcs[libc].open \cup Plain({"ioctl"}))
  BY DEF Working, Ordinary
<1>2. names \in SUBSET FilterName /\ {"broker", "device"} \in SUBSET FilterName
  BY FilterNames
<1>3. Hears(names, Call("ioctl", "")) = "allow"
  <2>1. "ioctl" \in DEVICE_EXTRA /\ "ioctl" \notin DOMAIN Arguments
    BY ConditionedNumbers DEF DEVICE_EXTRA
  <2>2. Call("ioctl", "") \in Calls /\ Call("ioctl", "").nr = "ioctl"
    BY <2>1, PlainCalls DEF Call, Extras
  <2> QED BY <1>2, <2>1, <2>2, RolePasses, FewerFiltersPassMore
<1> QED BY <1>1, <1>2, <1>3, OpeningPasses, OrdinaryWorks DEF AllPass, Plain

-----------------------------------------------------------------------------
(* The processes.                                                          *)

LEMMA Names ==
  /\ Process = {"broker", "forkserver", "helper", "init", "canary"} \cup Content
  /\ Forked = {"init", "canary"} \cup Content
  /\ "broker" \notin Content /\ "forkserver" \notin Content /\ "helper" \notin Content
  /\ "init" \notin Content /\ "canary" \notin Content
  /\ "none" \notin Content /\ "fresh" \notin Content /\ "gone" \notin Content
  /\ "shutdown" \notin Content /\ "torn" \notin Content
BY ProcessesAssumption DEF Process, Forked

LEMMA Hosts ==
  ASSUME instance \in Instances
  PROVE  /\ host.libc \in DOMAIN Libcs
         /\ host.namespaces \in {"none", "net", "net and pid"}
         /\ host.cgroup \in {"undelegated", "shared", "own"}
         /\ host.landlock \in BOOLEAN /\ host.seccomp \in BOOLEAN
         /\ helper \in HelperRole \cup {"none"}
         /\ instance.asked \subseteq Content
<1>1. /\ instance.host \in Host /\ instance.helper \in HelperRole \cup {"none"}
      /\ instance.asked \in SUBSET Content
  BY ProcessesAssumption
<1> QED BY <1>1 DEF host, helper, Host

(* What the variables range over.                                          *)
Filterings == [Process -> SUBSET FilterName]
Scopings == [Process -> SUBSET {"temp", "temp and workers", "own files"}]
Groupings == [Process -> {"base", "leader", "forkserver", "helper"}]
Requests == Seq(Content \cup {"shutdown", "torn"})
Links == [Content -> {"unused", "waiting", "up", "idle"}]
Firsts == {"none", "fresh", "gone"} \cup Forked

LEMMA GotoIs ==
  ASSUME TypeOK, NEW p \in Process, NEW where, Goto(p, where)
  PROVE  /\ DOMAIN pc' = Process /\ pc'[p] = where
         /\ \A q \in Process : q # p => pc'[q] = pc[q]
BY DEF TypeOK, Goto

LEMMA InstallIs ==
  ASSUME TypeOK, NEW p \in Process, NEW name \in FilterName, NEW calls, NEW where,
         Install(p, name, calls, where), AllPass(filters[p], calls \cup InstallCalls)
  PROVE  /\ DOMAIN pc' = Process
         /\ \A q \in Process : q # p => pc'[q] = pc[q] /\ filters'[q] = filters[q]
         /\ pc'[p] = "exited" \/ (pc'[p] = where /\ name \in filters'[p])
         /\ filters[p] \subseteq filters'[p] /\ filters'[p] \subseteq filters[p] \cup {name}
         /\ filters' \in Filterings
<1>1. CASE host.seccomp
  <2>1. pc' = [pc EXCEPT ![p] = where] /\ filters' = [filters EXCEPT ![p] = @ \cup {name}]
    BY <1>1 DEF Install, Issue, Goto
  <2> QED BY <2>1 DEF TypeOK, Filterings
<1>2. CASE ~host.seccomp
  BY <1>2 DEF TypeOK, Filterings, Install, Goto
<1> QED BY <1>1, <1>2

LEMMA InheritIs ==
  ASSUME TypeOK, NEW child \in Process, NEW parent \in Process, Inherit(child, parent)
  PROVE  /\ filters'[child] = filters[parent] /\ scope'[child] = scope[parent]
         /\ group'[child] = group[parent]
         /\ \A q \in Process : q # child => /\ filters'[q] = filters[q]
                                            /\ scope'[q] = scope[q] /\ group'[q] = group[q]
         /\ filters' \in Filterings
         /\ scope' \in Scopings
         /\ group' \in Groupings
BY DEF TypeOK, Inherit, Filterings, Scopings, Groupings

LEMMA DiesIs ==
  ASSUME TypeOK, NEW p \in Process, NEW where, Dies(p, where)
  PROVE  /\ DOMAIN pc' = Process /\ pc'[p] = where
         /\ \A q \in Process : q # p =>
              pc'[q] = pc[q] \/ (pc'[q] = "killed" /\ pid1 = p /\ q \in Forked /\ Alive(q))
         /\ pid1 = p => pid1' = "gone"
         /\ pid1 # p => pid1' = pid1
BY DEF TypeOK, Dies

LEMMA StopsIs ==
  ASSUME TypeOK, NEW where, ForkServerStops(where)
  PROVE  /\ DOMAIN pc' = Process /\ pc'["forkserver"] = where
         /\ pc'["init"] = IF pc["init"] = "armed" THEN "doomed" ELSE pc["init"]
         /\ \A q \in Process \ {"forkserver", "init"} : pc'[q] = pc[q]
BY Names DEF TypeOK, ForkServerStops

LEMMA PlaceIs ==
  ASSUME TypeOK, NEW p \in {"forkserver", "helper"}, Place(p)
  PROVE  /\ leaves' \subseteq {"forkserver", "helper"}
         /\ group' \in Groupings
         /\ \A q \in Process : q # p => group'[q] = group[q]
         /\ failed' = failed \/ failed' = failed \cup {p}
         /\ /\ workers /\ scope["broker"] \subseteq {"temp and workers"}
            /\ Alive(p) /\ p \notin failed'
            => group'[p] = p
<1> DEFINE leaf == workers /\ scope["broker"] \subseteq {"temp and workers"}
<1>1. p \in Process /\ p \in {"base", "leader", "forkserver", "helper"}
  BY Names
<1>2. ASSUME leaf, leaves' = leaves \cup {p}, UNCHANGED failed,
             group' = [group EXCEPT ![p] = IF Alive(p) THEN p ELSE @]
      PROVE  /\ leaves' \subseteq {"forkserver", "helper"} /\ group' \in Groupings
             /\ \A q \in Process : q # p => group'[q] = group[q]
             /\ Alive(p) => group'[p] = p
  BY <1>1, <1>2 DEF TypeOK, Groupings
<1>3. ASSUME leaves' \in {leaves, leaves \cup {p}}, UNCHANGED group
      PROVE  /\ leaves' \subseteq {"forkserver", "helper"} /\ group' \in Groupings
             /\ \A q \in Process : q # p => group'[q] = group[q]
  BY <1>3 DEF TypeOK, Groupings
<1>4. \/ /\ leaf /\ leaves' = leaves \cup {p} /\ UNCHANGED failed
         /\ group' = [group EXCEPT ![p] = IF Alive(p) THEN p ELSE @]
      \/ /\ leaves' \in {leaves, leaves \cup {p}} /\ failed' = failed \cup {p}
         /\ UNCHANGED group
      \/ ~leaf /\ UNCHANGED <<leaves, group, failed>>
  BY DEF Place
<1> QED BY <1>2, <1>3, <1>4

-----------------------------------------------------------------------------
(* The invariant.                                                          *)

(* The two halves of TypeOK.                                               *)
BrokerAt == {"boot", "grouped", "scoped", "confined", "placing", "spawning",
             "placing helper", "running", "closing", "waiting"} \cup Dead
ForkServerAt == {"prefiltered", "confined", "pinned", "verifying"} \cup Where
HelperAt == {"scoped"} \cup Where
InitAt == {"armed", "orphaned", "doomed"} \cup Where
ContentAt == {"wedged"} \cup Where

Places ==
  /\ pc["broker"] \in BrokerAt /\ pc["forkserver"] \in ForkServerAt
  /\ pc["helper"] \in HelperAt /\ pc["canary"] \in Where /\ pc["init"] \in InitAt
  /\ \A s \in Content : pc[s] \in ContentAt
  /\ DOMAIN pc = Process

Data ==
  /\ instance \in Instances
  /\ filters \in Filterings
  /\ scope \in Scopings
  /\ group \in Groupings
  /\ leaves \subseteq {"forkserver", "helper"} /\ workers \in BOOLEAN
  /\ pid1 \in Firsts
  /\ control \in Requests
  /\ kind \in [Content -> {"renderer", "decoder"}]
  /\ link \in Links
  /\ failed \subseteq {"placeholder", "own files", "forkserver", "helper"}

(* Who is not there yet.                                                   *)
Births ==
  /\ pc["broker"] \in {"boot", "grouped", "scoped", "confined"} =>
       pc["forkserver"] = "unborn" /\ pc["helper"] = "unborn" /\ control = <<>>
  /\ pc["broker"] = "spawning" \/ pc["helper"] # "unborn" => helper # "none"
  /\ pc["forkserver"] \in {"unborn", "started", "prefiltered", "confined"} => pc["init"] = "unborn"
  /\ pc["forkserver"] \in {"unborn", "started", "prefiltered", "confined", "pinned"} =>
       pc["canary"] = "unborn"
  /\ pc["forkserver"] \in {"unborn", "started", "prefiltered", "confined", "pinned", "verifying"} =>
       \A s \in Content : pc[s] = "unborn"
  /\ pc["forkserver"] = "serving" => pc["canary"] = "exited"

(* What each process is under; whoever was forked is under what the canary *)
(* was under.                                                              *)
Stacks ==
  /\ filters["broker"] \subseteq {"broker"}
  /\ filters["forkserver"] \subseteq ForkStack
  /\ pc["forkserver"] = "started" => filters["forkserver"] \subseteq {"broker"}
  /\ pc["forkserver"] \in {"prefiltered", "confined", "pinned", "verifying", "serving"} =>
       "enosys" \in filters["forkserver"]
  /\ pc["forkserver"] \in {"confined", "pinned", "verifying", "serving"} =>
       "forkserver" \in filters["forkserver"]
  /\ filters["init"] \subseteq ForkStack
  /\ filters["canary"] \subseteq ForkStack
  /\ pc["forkserver"] \in {"pinned", "verifying", "serving"} =>
       /\ pc["init"] # "unborn" => filters["init"] = filters["forkserver"]
       /\ pc["canary"] # "unborn" => filters["canary"] = filters["forkserver"]
  /\ \A s \in Content :
       /\ filters[s] \subseteq ForkStack \cup {"content"}
       /\ pc[s] = "forked" => pc["canary"] = "exited" /\ filters[s] = filters["canary"]
       /\ pc[s] \in {"serving", "wedged"} => "content" \in filters[s]

HelperStack ==
  /\ filters["helper"] \subseteq {"broker", HelperFilter}
  /\ pc["helper"] \in {"started", "scoped"} => filters["helper"] \subseteq {"broker"}
  /\ pc["helper"] = "serving" => HelperFilter \in filters["helper"]
  /\ (helper = "filesystem" /\ host.landlock /\ pc["helper"] \in {"scoped", "serving"}) =>
       "own files" \in scope["helper"] \cup failed

(* The canary speaks for every child of fork().                            *)
Verdicts ==
  /\ pc["canary"] = "exited" => AllPass(filters["canary"], CanaryCalls)
  /\ pc["init"] = "trapped" => ~AllPass(filters["init"], CanaryCalls)

(* Who is the first process of the namespace.                              *)
Pinned ==
  /\ (pid1 = "fresh" /\ "placeholder" \notin failed) =>
       pc["forkserver"] \in {"started", "prefiltered", "confined"} \cup Dead
  /\ pid1 \in {"canary"} \cup Content => "placeholder" \in failed
  /\ (pid1 = "gone" /\ "placeholder" \notin failed) => pc["forkserver"] \in Dead \/ pc["init"] = "trapped"
  /\ pc["init"] = "doomed" => pc["forkserver"] \in Dead

(* Where memory can be bounded the fork server is in its leaf before it    *)
(* can be asked for anything.                                              *)
Bounded ==
  host.cgroup = "own" =>
    /\ scope["broker"] \subseteq {"temp and workers"}
    /\ pc["broker"] \notin {"boot"} \cup Dead => workers
    /\ \/ pc["broker"] \in {"spawning", "placing helper", "running", "closing", "waiting"}
       \/ control # <<>>
       => (Alive("forkserver") /\ "forkserver" \notin failed =>
             group["forkserver"] = "forkserver")

Inv == /\ TypeOK /\ Births /\ Stacks /\ HelperStack /\ Verdicts /\ Pinned /\ Bounded
       /\ ContentBounded /\ NobodyTraps

LEMMA Halves == TypeOK <=> Places /\ Data
BY DEF TypeOK, Places, Data, BrokerAt, ForkServerAt, HelperAt, InitAt, ContentAt,
       Filterings, Scopings, Groupings, Requests, Links, Firsts

LEMMA HalvesAfter == TypeOK' <=> Places' /\ Data'
BY DEF TypeOK, Places, Data, BrokerAt, ForkServerAt, HelperAt, InitAt, ContentAt,
       Filterings, Scopings, Groupings, Requests, Links, Firsts

LEMMA Fixed ==
  ASSUME instance' = instance
  PROVE  host' = host /\ helper' = helper /\ HelperFilter' = HelperFilter
BY DEF host, helper, HelperFilter

(* Whoever is not dead yet can die.                                        *)
LEMMA Graves ==
  Dead \subseteq BrokerAt \cap ForkServerAt \cap HelperAt \cap Where \cap InitAt \cap ContentAt
BY DEF BrokerAt, ForkServerAt, HelperAt, Where, InitAt, ContentAt

LEMMA BoundedStays ==
  ASSUME Inv, host' = host, workers' = workers, control' = control \/ control # <<>>,
         failed' = failed,
         scope'["broker"] = scope["broker"], group'["forkserver"] = group["forkserver"],
         pc'["broker"] = pc["broker"], Alive("forkserver")
  PROVE  Bounded'
BY DEF Inv, Bounded

LEMMA BoundedUnmoved ==
  ASSUME Inv, host' = host, UNCHANGED <<scope, group, workers, control, failed>>,
         pc'["broker"] = pc["broker"], pc'["forkserver"] = pc["forkserver"]
  PROVE  Bounded'
BY DEF Inv, Bounded, Alive

LEMMA PinnedStays ==
  ASSUME Inv, NEW child, failed' = failed, pid1 # "gone",
         pid1' = (IF pid1 = "fresh" THEN child ELSE pid1),
         \/ child = "init" /\ pc'["init"] = "forked"
         \/ /\ child \in {"canary"} \cup Content /\ pc'["init"] = pc["init"]
            /\ pc["forkserver"] \in {"pinned", "serving"}
  PROVE  Pinned'
<1>1. "init" \notin {"canary"} \cup Content /\ {"fresh", "gone"} \cap ({"init", "canary"} \cup Content) = {}
  BY Names
<1>2. pid1' \notin {"fresh", "gone"}
  BY <1>1
<1>3. pid1' \in {"canary"} \cup Content => "placeholder" \in failed
  BY <1>1 DEF Inv, Pinned, Dead
<1>4. pc'["init"] # "doomed"
  BY DEF Inv, Pinned, Dead
<1> QED BY <1>2, <1>3, <1>4 DEF Pinned

(* A step in which nobody is born or put under a filter.                   *)
LEMMA BirthsSpared ==
  ASSUME Inv, helper' = helper, control' = control,
         pc'["broker"] = pc["broker"], pc'["forkserver"] = pc["forkserver"],
         \A q \in {"helper", "init", "canary"} \cup Content :
           (pc'[q] = "unborn" <=> pc[q] = "unborn"),
         pc["canary"] = "exited" => pc'["canary"] = "exited"
  PROVE  Births'
BY DEF Inv, Births

LEMMA StacksSpared ==
  ASSUME Inv,
         \A q \in {"broker", "forkserver", "init", "canary"} \cup Content : filters'[q] = filters[q],
         pc'["forkserver"] = pc["forkserver"] \/ pc'["forkserver"] \in Dead,
         \A q \in {"init", "canary"} : (pc'[q] = "unborn" <=> pc[q] = "unborn"),
         pc["canary"] = "exited" => pc'["canary"] = "exited",
         \A s \in Content :
           \/ pc'[s] = pc[s] \/ pc'[s] \in Dead
           \/ {pc[s], pc'[s]} \subseteq {"serving", "wedged"}
  PROVE  Stacks'
<1>1. /\ filters'["broker"] \subseteq {"broker"} /\ filters'["forkserver"] \subseteq ForkStack
      /\ filters'["init"] \subseteq ForkStack /\ filters'["canary"] \subseteq ForkStack
  BY DEF Inv, Stacks
<1>2. /\ pc'["forkserver"] = "started" => filters'["forkserver"] \subseteq {"broker"}
      /\ pc'["forkserver"] \in {"prefiltered", "confined", "pinned", "verifying", "serving"} =>
           "enosys" \in filters'["forkserver"]
      /\ pc'["forkserver"] \in {"confined", "pinned", "verifying", "serving"} =>
           "forkserver" \in filters'["forkserver"]
  BY DEF Inv, Stacks, Dead
<1>3. pc'["forkserver"] \in {"pinned", "verifying", "serving"} =>
        /\ pc'["init"] # "unborn" => filters'["init"] = filters'["forkserver"]
        /\ pc'["canary"] # "unborn" => filters'["canary"] = filters'["forkserver"]
  BY DEF Inv, Stacks, Dead
<1>4. ASSUME NEW s \in Content
      PROVE  /\ filters'[s] \subseteq ForkStack \cup {"content"}
             /\ pc'[s] = "forked" => pc'["canary"] = "exited" /\ filters'[s] = filters'["canary"]
             /\ pc'[s] \in {"serving", "wedged"} => "content" \in filters'[s]
  <2>1. /\ pc'[s] = "forked" => pc[s] = "forked"
        /\ pc'[s] \in {"serving", "wedged"} => pc[s] \in {"serving", "wedged"}
    BY DEF Dead
  <2> QED BY <2>1 DEF Inv, Stacks
<1> QED BY <1>1, <1>2, <1>3, <1>4 DEF Stacks

LEMMA ContentSpared ==
  ASSUME Inv, host' = host, failed \subseteq failed',
         \A s \in Content : group'[s] = group[s] /\ (pc'[s] = pc[s] \/ pc'[s] \in Dead \/ Alive(s))
  PROVE  ContentBounded'
BY DEF Inv, ContentBounded, Alive

LEMMA PrepareCgroupKeeps ==
  ASSUME Inv, PrepareCgroup
  PROVE  Inv'
<1>1. /\ pc["broker"] = "boot"
      /\ DOMAIN pc' = Process /\ pc'["broker"] = "grouped"
      /\ \A q \in Process : q # "broker" => pc'[q] = pc[q]
  BY Names, GotoIs DEF Inv, PrepareCgroup
<1>2. /\ group' \in Groupings
      /\ \A q \in Process : q # "broker" => group'[q] = group[q]
  BY Names DEF Inv, TypeOK, PrepareCgroup, Groupings
<1>3. workers' \in BOOLEAN /\ workers' = (host.cgroup = "own")
  BY DEF PrepareCgroup
<1>4. UNCHANGED <<instance, filters, scope, leaves, pid1, control, kind, link, failed>>
  BY DEF PrepareCgroup, confinement, cgroups
<1>5. host' = host /\ helper' = helper /\ HelperFilter' = HelperFilter
  BY <1>4, Fixed
<1>6. Places'
  BY <1>1, <1>2, <1>3, <1>4, <1>5, Names, Halves DEF Inv, Places, Where, Dead, BrokerAt
<1>7. Data'
  BY <1>1, <1>2, <1>3, <1>4, <1>5, Names, Halves DEF Inv, Data
<1>8. Births'
  BY <1>1, <1>2, <1>3, <1>4, <1>5, Names DEF Inv, Births
<1>9. Stacks'
  BY <1>1, <1>2, <1>3, <1>4, <1>5, Names, StacksSpared DEF Dead
<1>10. HelperStack'
  BY <1>1, <1>2, <1>3, <1>4, <1>5, Names DEF Inv, HelperStack
<1>11. Verdicts'
  BY <1>1, <1>2, <1>3, <1>4, <1>5, Names DEF Inv, Verdicts, CanaryCalls
<1>12. Pinned'
  BY <1>1, <1>2, <1>3, <1>4, <1>5, Names DEF Inv, Pinned, Dead
<1>13. Bounded'
  BY <1>1, <1>2, <1>3, <1>4, <1>5, Names DEF Inv, Bounded, Dead, Alive
<1>14. ContentBounded'
  BY <1>1, <1>2, <1>3, <1>4, <1>5, Names, ContentSpared DEF Dead, Alive
<1>15. NobodyTraps'
  BY <1>1, <1>2, <1>3, <1>4, <1>5, Names DEF Inv, NobodyTraps
<1> QED BY <1>6, <1>7, <1>8, <1>9, <1>10, <1>11, <1>12, <1>13, <1>14, <1>15, HalvesAfter DEF Inv

LEMMA RestrictBrokerKeeps ==
  ASSUME Inv, RestrictBroker
  PROVE  Inv'
<1>1. /\ pc["broker"] = "grouped"
      /\ DOMAIN pc' = Process /\ pc'["broker"] = "scoped"
      /\ \A q \in Process : q # "broker" => pc'[q] = pc[q]
  BY Names, GotoIs DEF Inv, RestrictBroker
<1>2. /\ scope' \in Scopings
      /\ workers => scope'["broker"] \subseteq {"temp and workers"}
      /\ \A q \in Process : q # "broker" => scope'[q] = scope[q]
  BY Names DEF Inv, TypeOK, RestrictBroker, Scopings
<1>3. UNCHANGED <<instance, filters, group, leaves, workers, pid1, control, kind, link, failed>>
  BY DEF RestrictBroker, confinement, cgroups
<1>4. host' = host /\ helper' = helper /\ HelperFilter' = HelperFilter
  BY <1>3, Fixed
<1>5. Places'
  BY <1>1, <1>2, <1>3, <1>4, Names, Halves DEF Inv, Places, Where, Dead, BrokerAt
<1>6. Data'
  BY <1>1, <1>2, <1>3, <1>4, Names, Halves DEF Inv, Data
<1>7. Births'
  BY <1>1, <1>2, <1>3, <1>4, Names DEF Inv, Births
<1>8. Stacks'
  BY <1>1, <1>2, <1>3, <1>4, Names, StacksSpared DEF Dead
<1>9. HelperStack'
  BY <1>1, <1>2, <1>3, <1>4, Names DEF Inv, HelperStack
<1>10. Verdicts'
  BY <1>1, <1>2, <1>3, <1>4, Names DEF Inv, Verdicts, CanaryCalls
<1>11. Pinned'
  BY <1>1, <1>2, <1>3, <1>4, Names DEF Inv, Pinned, Dead
<1>12. Bounded'
  BY <1>1, <1>2, <1>3, <1>4, Names DEF Inv, Bounded, Dead, Alive
<1>13. ContentBounded'
  BY <1>1, <1>2, <1>3, <1>4, Names, ContentSpared DEF Dead, Alive
<1>14. NobodyTraps'
  BY <1>1, <1>2, <1>3, <1>4, Names DEF Inv, NobodyTraps
<1> QED BY <1>5, <1>6, <1>7, <1>8, <1>9, <1>10, <1>11, <1>12, <1>13, <1>14, HalvesAfter DEF Inv

LEMMA DenyBrokerKeeps ==
  ASSUME Inv, DenyBroker
  PROVE  Inv'
<1>1. /\ pc["broker"] = "scoped"
      /\ DOMAIN pc' = Process /\ pc'["broker"] = "confined"
      /\ \A q \in Process : q # "broker" => pc'[q] = pc[q]
  BY Names, GotoIs DEF Inv, DenyBroker
<1>2. /\ filters' \in Filterings
      /\ filters'["broker"] \subseteq {"broker"}
      /\ \A q \in Process : q # "broker" => filters'[q] = filters[q]
  BY Names, FilterNames DEF Inv, TypeOK, DenyBroker, Filterings
<1>3. UNCHANGED <<instance, scope, group, leaves, workers, pid1, control, kind, link, failed>>
  BY DEF DenyBroker, confinement, cgroups
<1>4. host' = host /\ helper' = helper /\ HelperFilter' = HelperFilter
  BY <1>3, Fixed
<1>5. Places'
  BY <1>1, <1>2, <1>3, <1>4, Names, Halves DEF Inv, Places, Where, Dead, BrokerAt
<1>6. Data'
  BY <1>1, <1>2, <1>3, <1>4, Names, Halves DEF Inv, Data
<1>7. Births'
  BY <1>1, <1>2, <1>3, <1>4, Names DEF Inv, Births
<1>8. Stacks'
  <2>1. \A q \in {"forkserver", "init", "canary"} \cup Content :
        pc'[q] = pc[q] /\ filters'[q] = filters[q]
    BY <1>1, <1>2, Names
  <2> QED BY <1>2, <2>1 DEF Inv, Stacks
<1>9. HelperStack'
  BY <1>1, <1>2, <1>3, <1>4, Names DEF Inv, HelperStack
<1>10. Verdicts'
  BY <1>1, <1>2, <1>3, <1>4, Names DEF Inv, Verdicts, CanaryCalls
<1>11. Pinned'
  BY <1>1, <1>2, <1>3, <1>4, Names DEF Inv, Pinned, Dead
<1>12. Bounded'
  BY <1>1, <1>2, <1>3, <1>4, Names DEF Inv, Bounded, Dead, Alive
<1>13. ContentBounded'
  BY <1>1, <1>2, <1>3, <1>4, Names, ContentSpared DEF Dead, Alive
<1>14. NobodyTraps'
  BY <1>1, <1>2, <1>3, <1>4, Names DEF Inv, NobodyTraps
<1> QED BY <1>5, <1>6, <1>7, <1>8, <1>9, <1>10, <1>11, <1>12, <1>13, <1>14, HalvesAfter DEF Inv

LEMMA EngineRefusesKeeps ==
  ASSUME Inv, SpawnForkServer, host.namespaces = "none"
  PROVE  Inv'
<1>1. /\ pc["broker"] = "confined"
      /\ DOMAIN pc' = Process /\ pc'["broker"] = "exited"
      /\ \A q \in Process : q # "broker" => pc'[q] = pc[q]
  BY Names, GotoIs DEF Inv, SpawnForkServer
<1>2. UNCHANGED <<instance, filters, scope, group, leaves, workers, pid1, control, kind, link, failed>>
  BY DEF SpawnForkServer, confinement, cgroups
<1>3. host' = host /\ helper' = helper /\ HelperFilter' = HelperFilter
  BY <1>2, Fixed
<1>4. Places'
  BY <1>1, <1>2, <1>3, Names, Halves DEF Inv, Places, Where, Dead, BrokerAt
<1>5. Data'
  BY <1>1, <1>2, <1>3, Names, Halves DEF Inv, Data
<1>6. Births'
  BY <1>1, <1>2, <1>3, Names DEF Inv, Births
<1>7. Stacks'
  BY <1>1, <1>2, <1>3, Names, StacksSpared DEF Dead
<1>8. HelperStack'
  BY <1>1, <1>2, <1>3, Names DEF Inv, HelperStack
<1>9. Verdicts'
  BY <1>1, <1>2, <1>3, Names DEF Inv, Verdicts, CanaryCalls
<1>10. Pinned'
  BY <1>1, <1>2, <1>3, Names DEF Inv, Pinned, Dead
<1>11. Bounded'
  BY <1>1, <1>2, <1>3, Names DEF Inv, Bounded, Dead, Alive
<1>12. ContentBounded'
  BY <1>1, <1>2, <1>3, Names, ContentSpared DEF Dead, Alive
<1>13. NobodyTraps'
  BY <1>1, <1>2, <1>3, Names DEF Inv, NobodyTraps
<1> QED BY <1>4, <1>5, <1>6, <1>7, <1>8, <1>9, <1>10, <1>11, <1>12, <1>13, HalvesAfter DEF Inv

LEMMA ForkServerStartsKeeps ==
  ASSUME Inv, SpawnForkServer, host.namespaces # "none"
  PROVE  Inv'
<1>1. /\ pc["broker"] = "confined"
      /\ DOMAIN pc' = Process /\ pc'["broker"] = "placing" /\ pc'["forkserver"] = "started"
      /\ \A q \in Process : q \notin {"broker", "forkserver"} => pc'[q] = pc[q]
  BY Names DEF Inv, TypeOK, SpawnForkServer
<1>2. Inherit("forkserver", "broker")
  BY DEF SpawnForkServer
<1>3. /\ filters' \in Filterings
      /\ scope' \in Scopings
      /\ group' \in Groupings
      /\ filters'["forkserver"] = filters["broker"] /\ group'["forkserver"] = group["broker"]
      /\ \A q \in Process : q # "forkserver" =>
           filters'[q] = filters[q] /\ scope'[q] = scope[q] /\ group'[q] = group[q]
  <2>1. TypeOK /\ "forkserver" \in Process /\ "broker" \in Process
    BY Names DEF Inv
  <2> QED BY <2>1, <1>2, InheritIs
<1>4. pid1' \in {"fresh", "none"}
  BY DEF SpawnForkServer
<1>5. UNCHANGED <<instance, leaves, workers, control, kind, link, failed>>
  BY DEF SpawnForkServer, cgroups
<1>6. host' = host /\ helper' = helper /\ HelperFilter' = HelperFilter
  BY <1>5, Fixed
<1>7. Places'
  BY <1>1, <1>2, <1>3, <1>4, <1>5, <1>6, Names, Halves DEF Inv, Places, Where, Dead, BrokerAt,
      ForkServerAt
<1>8. Data'
  BY <1>1, <1>2, <1>3, <1>4, <1>5, <1>6, Names, Halves DEF Inv, Data, Firsts
<1>9. Births'
  BY <1>1, <1>2, <1>3, <1>4, <1>5, <1>6, Names DEF Inv, Births
<1>10. Stacks'
  <2>1. /\ pc'["forkserver"] = "started" /\ filters'["forkserver"] \subseteq {"broker"}
        /\ \A q \in {"broker", "init", "canary", "helper"} : filters'[q] = filters[q]
        /\ \A q \in {"init", "canary", "helper"} : pc'[q] = pc[q]
        /\ \A q \in Content : filters'[q] = filters[q] /\ pc'[q] = pc[q]
    BY <1>1, <1>3, Names DEF Inv, Stacks
  <2> QED BY <2>1 DEF Inv, Stacks, ForkStack, Births
<1>11. HelperStack'
  BY <1>1, <1>2, <1>3, <1>4, <1>5, <1>6, Names DEF Inv, HelperStack
<1>12. Verdicts'
  BY <1>1, <1>2, <1>3, <1>4, <1>5, <1>6, Names DEF Inv, Verdicts, CanaryCalls
<1>13. Pinned'
  BY <1>1, <1>2, <1>3, <1>4, <1>5, <1>6, Names DEF Inv, Pinned, Dead, Births
<1>14. Bounded'
  <2>1. pc["forkserver"] = "unborn" /\ control = <<>> /\ scope'["broker"] = scope["broker"]
    BY <1>1, <1>3, Names DEF Inv, Births
  <2> QED BY <2>1, <1>1, <1>5 DEF Inv, Bounded, Dead, host
<1>15. ContentBounded'
  BY <1>1, <1>2, <1>3, <1>4, <1>5, <1>6, Names, ContentSpared DEF Dead, Alive
<1>16. NobodyTraps'
  BY <1>1, <1>2, <1>3, <1>4, <1>5, <1>6, Names DEF Inv, NobodyTraps
<1> QED BY <1>7, <1>8, <1>9, <1>10, <1>11, <1>12, <1>13, <1>14, <1>15, <1>16, HalvesAfter DEF Inv

LEMMA SpawnForkServerKeeps ==
  ASSUME Inv, SpawnForkServer
  PROVE  Inv'
BY EngineRefusesKeeps, ForkServerStartsKeeps

LEMMA PlaceForkServerKeeps ==
  ASSUME Inv, PlaceForkServer
  PROVE  Inv'
<1>1. /\ pc["broker"] = "placing"
      /\ DOMAIN pc' = Process /\ pc'["broker"] = IF helper = "none" THEN "running" ELSE "spawning"
      /\ \A q \in Process : q # "broker" => pc'[q] = pc[q]
  BY Names, GotoIs DEF Inv, PlaceForkServer
<1>2. /\ leaves' \subseteq {"forkserver", "helper"}
      /\ group' \in Groupings
      /\ \A q \in Process : q # "forkserver" => group'[q] = group[q]
      /\ failed' = failed \/ failed' = failed \cup {"forkserver"}
      /\ /\ workers /\ scope["broker"] \subseteq {"temp and workers"}
         /\ Alive("forkserver") /\ "forkserver" \notin failed'
         => group'["forkserver"] = "forkserver"
  BY Names, PlaceIs DEF Inv, PlaceForkServer
<1>3. UNCHANGED <<instance, filters, scope, workers, pid1, control, kind, link>>
  BY DEF PlaceForkServer
<1>4. host' = host /\ helper' = helper /\ HelperFilter' = HelperFilter
  BY <1>3, Fixed
<1>5. Places'
  BY <1>1, <1>2, <1>3, <1>4, Names, Halves DEF Inv, Places, Where, Dead, BrokerAt
<1>6. Data'
  BY <1>1, <1>2, <1>3, <1>4, Names, Halves DEF Inv, Data
<1>7. Births'
  BY <1>1, <1>2, <1>3, <1>4, Names DEF Inv, Births
<1>8. Stacks'
  BY <1>1, <1>2, <1>3, <1>4, Names, StacksSpared DEF Dead
<1>9. HelperStack'
  BY <1>1, <1>2, <1>3, <1>4, Names DEF Inv, HelperStack
<1>10. Verdicts'
  BY <1>1, <1>2, <1>3, <1>4, Names DEF Inv, Verdicts, CanaryCalls
<1>11. Pinned'
  BY <1>1, <1>2, <1>3, <1>4, Names DEF Inv, Pinned, Dead
<1>12. Bounded'
  BY <1>1, <1>2, <1>3, <1>4, Names DEF Inv, Bounded, Dead, Alive
<1>13. ContentBounded'
  BY <1>1, <1>2, <1>3, <1>4, Names, ContentSpared DEF Dead, Alive
<1>14. NobodyTraps'
  BY <1>1, <1>2, <1>3, <1>4, Names DEF Inv, NobodyTraps
<1> QED BY <1>5, <1>6, <1>7, <1>8, <1>9, <1>10, <1>11, <1>12, <1>13, <1>14, HalvesAfter DEF Inv

LEMMA SpawnHelperKeeps ==
  ASSUME Inv, SpawnHelper
  PROVE  Inv'
<1>1. /\ pc["broker"] = "spawning"
      /\ DOMAIN pc' = Process /\ pc'["broker"] = "placing helper" /\ pc'["helper"] = "started"
      /\ \A q \in Process : q \notin {"broker", "helper"} => pc'[q] = pc[q]
  BY Names DEF Inv, TypeOK, SpawnHelper
<1>2. Inherit("helper", "broker")
  BY DEF SpawnHelper
<1>3. /\ filters' \in Filterings
      /\ scope' \in Scopings
      /\ group' \in Groupings
      /\ filters'["helper"] = filters["broker"] /\ group'["helper"] = group["broker"]
      /\ \A q \in Process : q # "helper" =>
           filters'[q] = filters[q] /\ scope'[q] = scope[q] /\ group'[q] = group[q]
  <2>1. TypeOK /\ "helper" \in Process /\ "broker" \in Process
    BY Names DEF Inv
  <2> QED BY <2>1, <1>2, InheritIs
<1>4. UNCHANGED <<instance, leaves, workers, pid1, control, kind, link, failed>>
  BY DEF SpawnHelper, cgroups
<1>5. host' = host /\ helper' = helper /\ HelperFilter' = HelperFilter
  BY <1>4, Fixed
<1>6. Places'
  BY <1>1, <1>2, <1>3, <1>4, <1>5, Names, Halves DEF Inv, Places, Where, Dead, BrokerAt, HelperAt
<1>7. Data'
  BY <1>1, <1>2, <1>3, <1>4, <1>5, Names, Halves DEF Inv, Data
<1>8. Births'
  BY <1>1, <1>2, <1>3, <1>4, <1>5, Names DEF Inv, Births
<1>9. Stacks'
  <2>1. /\ pc'["helper"] = "started" /\ filters'["helper"] \subseteq {"broker"}
        /\ \A q \in {"broker", "init", "canary", "forkserver"} : filters'[q] = filters[q]
        /\ \A q \in {"init", "canary", "forkserver"} : pc'[q] = pc[q]
        /\ \A q \in Content : filters'[q] = filters[q] /\ pc'[q] = pc[q]
    BY <1>1, <1>3, Names DEF Inv, Stacks
  <2> QED BY <2>1 DEF Inv, Stacks
<1>10. HelperStack'
  BY <1>1, <1>2, <1>3, <1>4, <1>5, Names DEF Inv, HelperStack, Stacks
<1>11. Verdicts'
  BY <1>1, <1>2, <1>3, <1>4, <1>5, Names DEF Inv, Verdicts, CanaryCalls
<1>12. Pinned'
  BY <1>1, <1>2, <1>3, <1>4, <1>5, Names DEF Inv, Pinned, Dead
<1>13. Bounded'
  BY <1>1, <1>2, <1>3, <1>4, <1>5, Names DEF Inv, Bounded, Dead, Alive
<1>14. ContentBounded'
  BY <1>1, <1>2, <1>3, <1>4, <1>5, Names, ContentSpared DEF Dead, Alive
<1>15. NobodyTraps'
  BY <1>1, <1>2, <1>3, <1>4, <1>5, Names DEF Inv, NobodyTraps
<1> QED BY <1>6, <1>7, <1>8, <1>9, <1>10, <1>11, <1>12, <1>13, <1>14, <1>15, HalvesAfter DEF Inv

LEMMA PlaceHelperKeeps ==
  ASSUME Inv, PlaceHelper
  PROVE  Inv'
<1>1. /\ pc["broker"] = "placing helper"
      /\ DOMAIN pc' = Process /\ pc'["broker"] = "running"
      /\ \A q \in Process : q # "broker" => pc'[q] = pc[q]
  BY Names, GotoIs DEF Inv, PlaceHelper
<1>2. /\ leaves' \subseteq {"forkserver", "helper"}
      /\ group' \in Groupings
      /\ \A q \in Process : q # "helper" => group'[q] = group[q]
      /\ failed' = failed \/ failed' = failed \cup {"helper"}
  BY Names, PlaceIs DEF Inv, PlaceHelper
<1>3. UNCHANGED <<instance, filters, scope, workers, pid1, control, kind, link>>
  BY DEF PlaceHelper
<1>4. host' = host /\ helper' = helper /\ HelperFilter' = HelperFilter
  BY <1>3, Fixed
<1>5. Places'
  BY <1>1, <1>2, <1>3, <1>4, Names, Halves DEF Inv, Places, Where, Dead, BrokerAt
<1>6. Data'
  BY <1>1, <1>2, <1>3, <1>4, Names, Halves DEF Inv, Data
<1>7. Births'
  <2>1. control' = control
    BY <1>3
  <2> QED BY <2>1, <1>1, <1>4, Names DEF Inv, Births
<1>8. Stacks'
  BY <1>1, <1>2, <1>3, <1>4, Names, StacksSpared DEF Dead
<1>9. HelperStack'
  BY <1>1, <1>2, <1>3, <1>4, Names DEF Inv, HelperStack
<1>10. Verdicts'
  BY <1>1, <1>2, <1>3, <1>4, Names DEF Inv, Verdicts, CanaryCalls
<1>11. Pinned'
  BY <1>1, <1>2, <1>3, <1>4, Names DEF Inv, Pinned, Dead
<1>12. Bounded'
  BY <1>1, <1>2, <1>3, <1>4, Names DEF Inv, Bounded, Dead, Alive
<1>13. ContentBounded'
  BY <1>1, <1>2, <1>3, <1>4, Names, ContentSpared DEF Dead, Alive
<1>14. NobodyTraps'
  BY <1>1, <1>2, <1>3, <1>4, Names DEF Inv, NobodyTraps
<1> QED BY <1>5, <1>6, <1>7, <1>8, <1>9, <1>10, <1>11, <1>12, <1>13, <1>14, HalvesAfter DEF Inv

LEMMA CloseAllKeeps ==
  ASSUME Inv, CloseAll
  PROVE  Inv'
<1>1. /\ pc["broker"] = "running"
      /\ DOMAIN pc' = Process /\ pc'["broker"] = "closing"
      /\ pc'["helper"] = "killed" \/ pc'["helper"] = pc["helper"]
      /\ pc["helper"] = "unborn" => pc'["helper"] = "unborn"
      /\ \A q \in Process : q \notin {"broker", "helper"} => pc'[q] = pc[q]
  BY Names DEF Inv, TypeOK, CloseAll, Alive
<1>2. link' \in Links
  BY DEF CloseAll, Links
<1>3. UNCHANGED <<instance, filters, scope, group, leaves, workers, pid1, control, kind, failed>>
  BY DEF CloseAll, confinement, cgroups
<1>4. host' = host /\ helper' = helper /\ HelperFilter' = HelperFilter
  BY <1>3, Fixed
<1>5. Places'
  BY <1>1, <1>2, <1>3, <1>4, Names, Halves DEF Inv, Places, Where, Dead, BrokerAt, HelperAt
<1>6. Data'
  BY <1>1, <1>2, <1>3, <1>4, Names, Halves DEF Inv, Data
<1>7. Births'
  BY <1>1, <1>2, <1>3, <1>4, Names DEF Inv, Births
<1>8. Stacks'
  BY <1>1, <1>2, <1>3, <1>4, Names, StacksSpared DEF Dead
<1>9. HelperStack'
  BY <1>1, <1>2, <1>3, <1>4, Names DEF Inv, HelperStack
<1>10. Verdicts'
  BY <1>1, <1>2, <1>3, <1>4, Names DEF Inv, Verdicts, CanaryCalls
<1>11. Pinned'
  BY <1>1, <1>2, <1>3, <1>4, Names DEF Inv, Pinned, Dead
<1>12. Bounded'
  BY <1>1, <1>2, <1>3, <1>4, Names DEF Inv, Bounded, Dead, Alive
<1>13. ContentBounded'
  BY <1>1, <1>2, <1>3, <1>4, Names, ContentSpared DEF Dead, Alive
<1>14. NobodyTraps'
  BY <1>1, <1>2, <1>3, <1>4, Names DEF Inv, NobodyTraps
<1> QED BY <1>5, <1>6, <1>7, <1>8, <1>9, <1>10, <1>11, <1>12, <1>13, <1>14, HalvesAfter DEF Inv

LEMMA ShutdownForkServerKeeps ==
  ASSUME Inv, ShutdownForkServer
  PROVE  Inv'
<1>1. /\ pc["broker"] = "closing"
      /\ DOMAIN pc' = Process /\ pc'["broker"] = "waiting"
      /\ \A q \in Process : q # "broker" => pc'[q] = pc[q]
  BY Names, GotoIs DEF Inv, ShutdownForkServer
<1>2. control' \in Requests
  BY AppendProperties DEF Inv, TypeOK, ShutdownForkServer, Requests
<1>3. UNCHANGED <<instance, filters, scope, group, leaves, workers, pid1, kind, link, failed>>
  BY DEF ShutdownForkServer, confinement, cgroups
<1>4. host' = host /\ helper' = helper /\ HelperFilter' = HelperFilter
  BY <1>3, Fixed
<1>5. Places'
  BY <1>1, <1>2, <1>3, <1>4, Names, Halves DEF Inv, Places, Where, Dead, BrokerAt
<1>6. Data'
  BY <1>1, <1>2, <1>3, <1>4, Names, Halves DEF Inv, Data
<1>7. Births'
  BY <1>1, <1>2, <1>3, <1>4, Names DEF Inv, Births
<1>8. Stacks'
  BY <1>1, <1>2, <1>3, <1>4, Names, StacksSpared DEF Dead
<1>9. HelperStack'
  BY <1>1, <1>2, <1>3, <1>4, Names DEF Inv, HelperStack
<1>10. Verdicts'
  BY <1>1, <1>2, <1>3, <1>4, Names DEF Inv, Verdicts, CanaryCalls
<1>11. Pinned'
  BY <1>1, <1>2, <1>3, <1>4, Names DEF Inv, Pinned, Dead
<1>12. Bounded'
  BY <1>1, <1>2, <1>3, <1>4, Names DEF Inv, Bounded, Dead, Alive
<1>13. ContentBounded'
  BY <1>1, <1>2, <1>3, <1>4, Names, ContentSpared DEF Dead, Alive
<1>14. NobodyTraps'
  BY <1>1, <1>2, <1>3, <1>4, Names DEF Inv, NobodyTraps
<1> QED BY <1>5, <1>6, <1>7, <1>8, <1>9, <1>10, <1>11, <1>12, <1>13, <1>14, HalvesAfter DEF Inv

LEMMA CleanUpKeeps ==
  ASSUME Inv, CleanUp
  PROVE  Inv'
<1>1. /\ pc["broker"] = "waiting"
      /\ DOMAIN pc' = Process /\ pc'["broker"] = "exited"
      /\ \A q \in Process : q # "broker" => pc'[q] = pc[q]
  BY Names, GotoIs DEF Inv, CleanUp
<1>2. leaves' \subseteq leaves /\ ~Alive("forkserver")
  BY DEF CleanUp
<1>3. UNCHANGED <<instance, filters, scope, group, workers, pid1, control, kind, link, failed>>
  BY DEF CleanUp, confinement, cgroups
<1>4. host' = host /\ helper' = helper /\ HelperFilter' = HelperFilter
  BY <1>3, Fixed
<1>5. Places'
  BY <1>1, <1>2, <1>3, <1>4, Names, Halves DEF Inv, Places, Where, Dead, BrokerAt
<1>6. Data'
  BY <1>1, <1>2, <1>3, <1>4, Names, Halves DEF Inv, Data
<1>7. Births'
  BY <1>1, <1>2, <1>3, <1>4, Names DEF Inv, Births
<1>8. Stacks'
  BY <1>1, <1>2, <1>3, <1>4, Names, StacksSpared DEF Dead
<1>9. HelperStack'
  BY <1>1, <1>2, <1>3, <1>4, Names DEF Inv, HelperStack
<1>10. Verdicts'
  BY <1>1, <1>2, <1>3, <1>4, Names DEF Inv, Verdicts, CanaryCalls
<1>11. Pinned'
  BY <1>1, <1>2, <1>3, <1>4, Names DEF Inv, Pinned, Dead
<1>12. Bounded'
  BY <1>1, <1>2, <1>3, <1>4, Names DEF Inv, Bounded, Dead, Alive
<1>13. ContentBounded'
  BY <1>1, <1>2, <1>3, <1>4, Names, ContentSpared DEF Dead, Alive
<1>14. NobodyTraps'
  BY <1>1, <1>2, <1>3, <1>4, Names DEF Inv, NobodyTraps
<1> QED BY <1>5, <1>6, <1>7, <1>8, <1>9, <1>10, <1>11, <1>12, <1>13, <1>14, HalvesAfter DEF Inv

LEMMA BrokerDiesKeeps ==
  ASSUME Inv, BrokerDies
  PROVE  Inv'
<1>1. /\ DOMAIN pc' = Process /\ pc'["broker"] = "killed"
      /\ \A q \in Process : q # "broker" => pc'[q] = pc[q]
  BY Names, GotoIs DEF Inv, BrokerDies
<1>2. link' \in Links
  BY DEF BrokerDies, Links
<1>3. UNCHANGED <<instance, filters, scope, group, leaves, workers, pid1, control, kind, failed>>
  BY DEF BrokerDies, confinement, cgroups
<1>4. host' = host /\ helper' = helper /\ HelperFilter' = HelperFilter
  BY <1>3, Fixed
<1>5. Places'
  BY <1>1, <1>2, <1>3, <1>4, Names, Halves DEF Inv, Places, Where, Dead, BrokerAt
<1>6. Data'
  BY <1>1, <1>2, <1>3, <1>4, Names, Halves DEF Inv, Data
<1>7. Births'
  BY <1>1, <1>2, <1>3, <1>4, Names DEF Inv, Births
<1>8. Stacks'
  BY <1>1, <1>2, <1>3, <1>4, Names, StacksSpared DEF Dead
<1>9. HelperStack'
  BY <1>1, <1>2, <1>3, <1>4, Names DEF Inv, HelperStack
<1>10. Verdicts'
  BY <1>1, <1>2, <1>3, <1>4, Names DEF Inv, Verdicts, CanaryCalls
<1>11. Pinned'
  BY <1>1, <1>2, <1>3, <1>4, Names DEF Inv, Pinned, Dead
<1>12. Bounded'
  BY <1>1, <1>2, <1>3, <1>4, Names DEF Inv, Bounded, Dead, Alive
<1>13. ContentBounded'
  BY <1>1, <1>2, <1>3, <1>4, Names, ContentSpared DEF Dead, Alive
<1>14. NobodyTraps'
  BY <1>1, <1>2, <1>3, <1>4, Names DEF Inv, NobodyTraps
<1> QED BY <1>5, <1>6, <1>7, <1>8, <1>9, <1>10, <1>11, <1>12, <1>13, <1>14, HalvesAfter DEF Inv

(* A step that only concerns the broker's ends of the links.               *)
LEMMA LinksKeep ==
  ASSUME Inv,
         UNCHANGED <<instance, pc, filters, scope, group, leaves, workers, pid1, kind, failed>>,
         link' \in Links,
         control' = control \/ (control' \in Requests /\ pc["broker"] = "running")
  PROVE  Inv'
<1>1. host' = host /\ helper' = helper /\ HelperFilter' = HelperFilter
  BY Fixed
<1>2. Places'
  BY <1>1, Names, Halves DEF Inv, Places, Where, Dead, BrokerAt
<1>3. Data'
  BY <1>1, Names, Halves DEF Inv, Data
<1>4. Births'
  BY <1>1, Names DEF Inv, Births
<1>5. Stacks'
  BY <1>1, Names, StacksSpared DEF Dead
<1>6. HelperStack'
  BY <1>1, Names DEF Inv, HelperStack
<1>7. Verdicts'
  BY <1>1, Names DEF Inv, Verdicts, CanaryCalls
<1>8. Pinned'
  BY <1>1, Names DEF Inv, Pinned, Dead
<1>9. Bounded'
  BY <1>1, Names DEF Inv, Bounded, Dead, Alive
<1>10. ContentBounded'
  BY <1>1, Names, ContentSpared DEF Dead, Alive
<1>11. NobodyTraps'
  BY <1>1, Names DEF Inv, NobodyTraps
<1> QED BY <1>2, <1>3, <1>4, <1>5, <1>6, <1>7, <1>8, <1>9, <1>10, <1>11, HalvesAfter DEF Inv

LEMMA SpawnKeeps ==
  ASSUME Inv, NEW s \in Content, Spawn(s)
  PROVE  Inv'
<1>1. link' \in Links
  BY DEF Inv, TypeOK, Spawn, Links
<1>2. control' = control \/ (control' \in Requests /\ pc["broker"] = "running")
  <2>1. control' = Append(control, s) \/ control' = Append(control, "torn")
    BY DEF Spawn
  <2>2. control \in Requests /\ pc["broker"] = "running"
    BY DEF Inv, TypeOK, Spawn, Requests
  <2>3. s \in Content \cup {"shutdown", "torn"} /\ "torn" \in Content \cup {"shutdown", "torn"}
    OBVIOUS
  <2> QED BY <2>1, <2>2, <2>3, AppendProperties DEF Requests
<1>3. UNCHANGED <<instance, pc, filters, scope, group, leaves, workers, pid1, kind, failed>>
  BY DEF Spawn, confinement, cgroups
<1> QED BY <1>1, <1>2, <1>3, LinksKeep

LEMMA HearEofKeeps ==
  ASSUME Inv, NEW s \in Content, HearEof(s)
  PROVE  Inv'
<1>1. link' \in Links
  BY DEF Inv, TypeOK, HearEof, Links
<1>2. control' = control \/ (control' \in Requests /\ pc["broker"] = "running")
  BY DEF Inv, TypeOK, HearEof, Requests
<1>3. UNCHANGED <<instance, pc, filters, scope, group, leaves, workers, pid1, kind, failed>>
  BY DEF HearEof, confinement, cgroups
<1> QED BY <1>1, <1>2, <1>3, LinksKeep

LEMMA LetGoKeeps ==
  ASSUME Inv, NEW s \in Content, LetGo(s)
  PROVE  Inv'
<1>1. link' \in Links
  BY DEF Inv, TypeOK, LetGo, Links
<1>2. control' = control \/ (control' \in Requests /\ pc["broker"] = "running")
  BY DEF Inv, TypeOK, LetGo, Requests
<1>3. UNCHANGED <<instance, pc, filters, scope, group, leaves, workers, pid1, kind, failed>>
  BY DEF LetGo, confinement, cgroups
<1> QED BY <1>1, <1>2, <1>3, LinksKeep

-----------------------------------------------------------------------------
(* A helper's steps keep it.                                               *)

LEMMA HelperScopesKeeps ==
  ASSUME Inv, HelperScopes
  PROVE  Inv'
<1>1. pc["helper"] = "started" /\ helper = "filesystem" /\ filters["helper"] \subseteq {"broker"}
  BY DEF Inv, HelperStack, HelperScopes
<1>2. AllPass(filters["helper"], Plain({"prctl"}))
  <2>1. filters["helper"] \in SUBSET ForkStack /\ "prctl" \in FORK_SERVER_EXTRA \ {"clone"}
    BY <1>1 DEF ForkStack, FORK_SERVER_EXTRA
  <2> QED BY <2>1, PlainOnesPass DEF AllPass, Plain
<1>3. /\ pc["helper"] = "started"
      /\ DOMAIN pc' = Process /\ pc'["helper"] = "scoped"
      /\ \A q \in Process : q # "helper" => pc'[q] = pc[q]
  BY <1>1, <1>2, Names, GotoIs DEF Inv, HelperScopes, Issue
<1>4. /\ scope' \in Scopings
      /\ failed' = failed \/ failed' = failed \cup {"own files"}
      /\ host.landlock => "own files" \in scope'["helper"] \cup failed'
      /\ \A q \in Process : q # "helper" => scope'[q] = scope[q]
  <2>1. "helper" \in Process /\ scope \in Scopings
    BY Names DEF Inv, TypeOK, Scopings
  <2>2. CASE scope' = [scope EXCEPT !["helper"] = @ \cup {"own files"}] /\ failed' = failed
    BY <2>1, <2>2 DEF Scopings
  <2>3. CASE scope' = scope /\ failed' = failed \cup {"own files"}
    BY <2>1, <2>3
  <2>4. CASE ~host.landlock /\ scope' = scope /\ failed' = failed
    BY <2>1, <2>4
  <2> QED BY <2>2, <2>3, <2>4 DEF HelperScopes
<1>5. UNCHANGED <<instance, filters, group, leaves, workers, pid1, control, kind, link>>
  BY DEF HelperScopes, confinement, cgroups
<1>6. host' = host /\ helper' = helper /\ HelperFilter' = HelperFilter
  BY <1>5, Fixed
<1>7. Places'
  BY <1>1, <1>2, <1>3, <1>4, <1>5, <1>6, Names, Halves DEF Inv, Places, Where, Dead, HelperAt
<1>8. Data'
  BY <1>1, <1>2, <1>3, <1>4, <1>5, <1>6, Names, Halves DEF Inv, Data
<1>9. Births'
  BY <1>1, <1>2, <1>3, <1>4, <1>5, <1>6, Names, BirthsSpared DEF Dead
<1>10. Stacks'
  BY <1>1, <1>2, <1>3, <1>4, <1>5, <1>6, Names, StacksSpared DEF Dead
<1>11. HelperStack'
  BY <1>1, <1>2, <1>3, <1>4, <1>5, <1>6, Names DEF Inv, HelperStack
<1>12. Verdicts'
  BY <1>1, <1>2, <1>3, <1>4, <1>5, <1>6, Names DEF Inv, Verdicts, CanaryCalls
<1>13. Pinned'
  BY <1>1, <1>2, <1>3, <1>4, <1>5, <1>6, Names DEF Inv, Pinned, Dead
<1>14. Bounded'
  BY <1>1, <1>2, <1>3, <1>4, <1>5, <1>6, Names DEF Inv, Bounded, Dead, Alive
<1>15. ContentBounded'
  BY <1>1, <1>2, <1>3, <1>4, <1>5, <1>6, Names, ContentSpared DEF Dead, Alive
<1>16. NobodyTraps'
  BY <1>1, <1>2, <1>3, <1>4, <1>5, <1>6, Names DEF Inv, NobodyTraps
<1> QED BY <1>7, <1>8, <1>9, <1>10, <1>11, <1>12, <1>13, <1>14, <1>15, <1>16, HalvesAfter DEF Inv

LEMMA HelperConfinesKeeps ==
  ASSUME Inv, HelperConfines
  PROVE  Inv'
<1>1. /\ pc["helper"] \in {"started", "scoped"} /\ (helper = "filesystem" => pc["helper"] = "scoped")
      /\ filters["helper"] \subseteq {"broker"} /\ HelperFilter \in FilterName
  <2>1. pc["helper"] \in {"started", "scoped"} /\ (helper = "filesystem" => pc["helper"] = "scoped")
    BY DEF HelperConfines
  <2>2. helper \in HelperRole \cup {"none"}
    BY Hosts DEF Inv, TypeOK
  <2>3. helper # "none" /\ filters["helper"] \subseteq {"broker"}
    BY <2>1 DEF Inv, Births, HelperStack
  <2>4. HelperFilter \in FilterName
    BY <2>2, <2>3, FilterNames DEF HelperFilter, HelperRole
  <2> QED BY <2>1, <2>3, <2>4
<1>2. AllPass(filters["helper"], {} \cup InstallCalls)
  <2>1. filters["helper"] \in SUBSET ForkStack
    BY <1>1 DEF ForkStack
  <2> QED BY <2>1, InstallPasses DEF AllPass
<1>3. /\ DOMAIN pc' = Process
      /\ \A q \in Process : q # "helper" => pc'[q] = pc[q] /\ filters'[q] = filters[q]
      /\ pc'["helper"] = "exited" \/ (pc'["helper"] = "serving" /\ HelperFilter \in filters'["helper"])
      /\ filters'["helper"] \subseteq filters["helper"] \cup {HelperFilter}
      /\ filters' \in Filterings
  <2>1. TypeOK /\ "helper" \in Process /\ Install("helper", HelperFilter, {}, "serving")
    BY Names DEF Inv, HelperConfines
  <2> QED BY <1>1, <1>2, <2>1, InstallIs
<1>4. UNCHANGED <<instance, scope, group, leaves, workers, pid1, control, kind, link, failed>>
  BY DEF HelperConfines, confinement, cgroups
<1>5. host' = host /\ helper' = helper /\ HelperFilter' = HelperFilter
  BY <1>4, Fixed
<1>6. Places'
  BY <1>1, <1>2, <1>3, <1>4, <1>5, Names, Halves DEF Inv, Places, Where, Dead, HelperAt
<1>7. Data'
  BY <1>1, <1>2, <1>3, <1>4, <1>5, Names, Halves DEF Inv, Data
<1>8. Births'
  BY <1>1, <1>2, <1>3, <1>4, <1>5, Names, BirthsSpared DEF Dead
<1>9. Stacks'
  BY <1>1, <1>2, <1>3, <1>4, <1>5, Names, StacksSpared DEF Dead
<1>10. HelperStack'
  BY <1>1, <1>2, <1>3, <1>4, <1>5, Names DEF Inv, HelperStack
<1>11. Verdicts'
  BY <1>1, <1>2, <1>3, <1>4, <1>5, Names DEF Inv, Verdicts, CanaryCalls
<1>12. Pinned'
  BY <1>1, <1>2, <1>3, <1>4, <1>5, Names DEF Inv, Pinned, Dead
<1>13. Bounded'
  BY <1>1, <1>2, <1>3, <1>4, <1>5, Names DEF Inv, Bounded, Dead, Alive
<1>14. ContentBounded'
  BY <1>1, <1>2, <1>3, <1>4, <1>5, Names, ContentSpared DEF Dead, Alive
<1>15. NobodyTraps'
  BY <1>1, <1>2, <1>3, <1>4, <1>5, Names DEF Inv, NobodyTraps
<1> QED BY <1>6, <1>7, <1>8, <1>9, <1>10, <1>11, <1>12, <1>13, <1>14, <1>15, HalvesAfter DEF Inv

LEMMA HelperEndsKeeps ==
  ASSUME Inv, HelperEnds
  PROVE  Inv'
<1>1. /\ pc["helper"] = "serving"
      /\ DOMAIN pc' = Process /\ pc'["helper"] = "exited"
      /\ \A q \in Process : q # "helper" => pc'[q] = pc[q]
  BY Names, GotoIs DEF Inv, HelperEnds
<1>2. UNCHANGED <<instance, filters, scope, group, leaves, workers, pid1, control, kind, link, failed>>
  BY DEF HelperEnds, confinement, cgroups
<1>3. host' = host /\ helper' = helper /\ HelperFilter' = HelperFilter
  BY <1>2, Fixed
<1>4. Places'
  BY <1>1, <1>2, <1>3, Names, Halves DEF Inv, Places, Where, Dead, HelperAt
<1>5. Data'
  BY <1>1, <1>2, <1>3, Names, Halves DEF Inv, Data
<1>6. Births'
  BY <1>1, <1>2, <1>3, Names, BirthsSpared DEF Dead
<1>7. Stacks'
  BY <1>1, <1>2, <1>3, Names, StacksSpared DEF Dead
<1>8. HelperStack'
  BY <1>1, <1>2, <1>3, Names DEF Inv, HelperStack
<1>9. Verdicts'
  BY <1>1, <1>2, <1>3, Names DEF Inv, Verdicts, CanaryCalls
<1>10. Pinned'
  BY <1>1, <1>2, <1>3, Names DEF Inv, Pinned, Dead
<1>11. Bounded'
  BY <1>1, <1>2, <1>3, Names DEF Inv, Bounded, Dead, Alive
<1>12. ContentBounded'
  BY <1>1, <1>2, <1>3, Names, ContentSpared DEF Dead, Alive
<1>13. NobodyTraps'
  BY <1>1, <1>2, <1>3, Names DEF Inv, NobodyTraps
<1> QED BY <1>4, <1>5, <1>6, <1>7, <1>8, <1>9, <1>10, <1>11, <1>12, <1>13, HalvesAfter DEF Inv

-----------------------------------------------------------------------------
(* The fork server's startup keeps it.                                     *)

LEMMA ForkServerPrefiltersKeeps ==
  ASSUME Inv, ForkServerPrefilters
  PROVE  Inv'
<1>1. pc["forkserver"] = "started" /\ filters["forkserver"] \in SUBSET ForkStack
  BY DEF Inv, Stacks, ForkServerPrefilters
<1>2. AllPass(filters["forkserver"], {} \cup InstallCalls)
  BY <1>1, InstallPasses DEF AllPass
<1>3. /\ DOMAIN pc' = Process
      /\ \A q \in Process : q # "forkserver" => pc'[q] = pc[q] /\ filters'[q] = filters[q]
      /\ pc'["forkserver"] = "exited" \/ (pc'["forkserver"] = "prefiltered" /\ "enosys" \in filters'["forkserver"])
      /\ filters["forkserver"] \subseteq filters'["forkserver"]
      /\ filters'["forkserver"] \subseteq filters["forkserver"] \cup {"enosys"}
      /\ filters' \in Filterings
  <2>1. TypeOK /\ "forkserver" \in Process /\ Install("forkserver", "enosys", {}, "prefiltered")
    BY Names DEF Inv, ForkServerPrefilters
  <2>2. "enosys" \in FilterName
    BY FilterNames
  <2> QED BY <1>2, <2>1, <2>2, InstallIs
<1>4. UNCHANGED <<instance, scope, group, leaves, workers, pid1, control, kind, link, failed>>
  BY DEF ForkServerPrefilters, confinement, cgroups
<1>5. host' = host /\ helper' = helper /\ HelperFilter' = HelperFilter
  BY <1>4, Fixed
<1>6. Places'
  BY <1>1, <1>2, <1>3, <1>4, <1>5, Names, Halves DEF Inv, Places, Where, Dead, ForkServerAt
<1>7. Data'
  BY <1>1, <1>2, <1>3, <1>4, <1>5, Names, Halves DEF Inv, Data
<1>8. Births'
  BY <1>1, <1>2, <1>3, <1>4, <1>5, Names DEF Inv, Births
<1>9. Stacks'
  <2>1. /\ \A q \in Process \ {"forkserver"} : pc'[q] = pc[q] /\ filters'[q] = filters[q]
        /\ pc'["forkserver"] \in {"exited", "prefiltered"}
    BY <1>3
  <2>2. filters'["forkserver"] \subseteq ForkStack
    BY <1>1, <1>3 DEF ForkStack
  <2>3. pc'["forkserver"] # "exited" => {"enosys", "enosys"} \subseteq filters'["forkserver"]
    BY <1>1, <1>3 DEF Inv, Stacks
  <2>4. {"broker", "init", "canary"} \cup Content \subseteq Process \ {"forkserver"}
    BY Names
  <2> QED BY <2>1, <2>2, <2>3, <2>4 DEF Inv, Stacks
<1>10. HelperStack'
  BY <1>1, <1>2, <1>3, <1>4, <1>5, Names DEF Inv, HelperStack
<1>11. Verdicts'
  BY <1>1, <1>2, <1>3, <1>4, <1>5, Names DEF Inv, Verdicts, CanaryCalls
<1>12. Pinned'
  BY <1>1, <1>2, <1>3, <1>4, <1>5, Names DEF Inv, Pinned, Dead
<1>13. Bounded'
  BY <1>1, <1>2, <1>3, <1>4, <1>5, Names DEF Inv, Bounded, Dead, Alive
<1>14. ContentBounded'
  BY <1>1, <1>2, <1>3, <1>4, <1>5, Names, ContentSpared DEF Dead, Alive
<1>15. NobodyTraps'
  BY <1>1, <1>2, <1>3, <1>4, <1>5, Names DEF Inv, NobodyTraps
<1> QED BY <1>6, <1>7, <1>8, <1>9, <1>10, <1>11, <1>12, <1>13, <1>14, <1>15, HalvesAfter DEF Inv

LEMMA ForkServerConfinesKeeps ==
  ASSUME Inv, ForkServerConfines
  PROVE  Inv'
<1>1. pc["forkserver"] = "prefiltered" /\ filters["forkserver"] \in SUBSET ForkStack
  BY DEF Inv, Stacks, ForkServerConfines
<1>2. AllPass(filters["forkserver"], {} \cup InstallCalls)
  BY <1>1, InstallPasses DEF AllPass
<1>3. /\ DOMAIN pc' = Process
      /\ \A q \in Process : q # "forkserver" => pc'[q] = pc[q] /\ filters'[q] = filters[q]
      /\ pc'["forkserver"] = "exited" \/ (pc'["forkserver"] = "confined" /\ "forkserver" \in filters'["forkserver"])
      /\ filters["forkserver"] \subseteq filters'["forkserver"]
      /\ filters'["forkserver"] \subseteq filters["forkserver"] \cup {"forkserver"}
      /\ filters' \in Filterings
  <2>1. TypeOK /\ "forkserver" \in Process /\ Install("forkserver", "forkserver", {}, "confined")
    BY Names DEF Inv, ForkServerConfines
  <2>2. "forkserver" \in FilterName
    BY FilterNames
  <2> QED BY <1>2, <2>1, <2>2, InstallIs
<1>4. UNCHANGED <<instance, scope, group, leaves, workers, pid1, control, kind, link, failed>>
  BY DEF ForkServerConfines, confinement, cgroups
<1>5. host' = host /\ helper' = helper /\ HelperFilter' = HelperFilter
  BY <1>4, Fixed
<1>6. Places'
  BY <1>1, <1>2, <1>3, <1>4, <1>5, Names, Halves DEF Inv, Places, Where, Dead, ForkServerAt
<1>7. Data'
  BY <1>1, <1>2, <1>3, <1>4, <1>5, Names, Halves DEF Inv, Data
<1>8. Births'
  BY <1>1, <1>2, <1>3, <1>4, <1>5, Names DEF Inv, Births
<1>9. Stacks'
  <2>1. /\ \A q \in Process \ {"forkserver"} : pc'[q] = pc[q] /\ filters'[q] = filters[q]
        /\ pc'["forkserver"] \in {"exited", "confined"}
    BY <1>3
  <2>2. filters'["forkserver"] \subseteq ForkStack
    BY <1>1, <1>3 DEF ForkStack
  <2>3. pc'["forkserver"] # "exited" => {"enosys", "forkserver"} \subseteq filters'["forkserver"]
    BY <1>1, <1>3 DEF Inv, Stacks
  <2>4. {"broker", "init", "canary"} \cup Content \subseteq Process \ {"forkserver"}
    BY Names
  <2> QED BY <2>1, <2>2, <2>3, <2>4 DEF Inv, Stacks
<1>10. HelperStack'
  BY <1>1, <1>2, <1>3, <1>4, <1>5, Names DEF Inv, HelperStack
<1>11. Verdicts'
  BY <1>1, <1>2, <1>3, <1>4, <1>5, Names DEF Inv, Verdicts, CanaryCalls
<1>12. Pinned'
  BY <1>1, <1>2, <1>3, <1>4, <1>5, Names DEF Inv, Pinned, Dead
<1>13. Bounded'
  BY <1>1, <1>2, <1>3, <1>4, <1>5, Names DEF Inv, Bounded, Dead, Alive
<1>14. ContentBounded'
  BY <1>1, <1>2, <1>3, <1>4, <1>5, Names, ContentSpared DEF Dead, Alive
<1>15. NobodyTraps'
  BY <1>1, <1>2, <1>3, <1>4, <1>5, Names DEF Inv, NobodyTraps
<1> QED BY <1>6, <1>7, <1>8, <1>9, <1>10, <1>11, <1>12, <1>13, <1>14, <1>15, HalvesAfter DEF Inv

-----------------------------------------------------------------------------
(* The fork server's end keeps it, and so does every fork.                 *)

LEMMA StopKeeps ==
  ASSUME Inv, NEW where \in Dead, where = "trapped" => host.libc \notin Known, Alive("forkserver"),
         ForkServerStops(where), control' \in Requests, control # <<>> \/ control' = control,
         UNCHANGED <<instance, filters, scope, group, leaves, workers, pid1, kind, link, failed>>
  PROVE  Inv'
<1>1. /\ DOMAIN pc' = Process /\ pc'["forkserver"] = where /\ pc["forkserver"] # "unborn"
      /\ pc'["init"] = pc["init"] \/ (pc["init"] = "armed" /\ pc'["init"] = "doomed")
      /\ \A q \in Process \ {"forkserver", "init"} : pc'[q] = pc[q]
  BY StopsIs DEF Inv, Alive
<1>2. host' = host /\ helper' = helper /\ HelperFilter' = HelperFilter
  BY <1>1, Fixed
<1>3. Places'
  BY <1>1, <1>2, Names, Halves DEF Inv, Places, Where, Dead, ForkServerAt, InitAt
<1>4. Data'
  BY <1>1, <1>2, Names, Halves DEF Inv, Data
<1>5. Births'
  BY <1>1, <1>2, Names DEF Inv, Births, Dead
<1>6. Stacks'
  BY <1>1, <1>2, Names, StacksSpared DEF Dead
<1>7. HelperStack'
  BY <1>1, <1>2, Names DEF Inv, HelperStack
<1>8. Verdicts'
  BY <1>1, <1>2, Names DEF Inv, Verdicts, CanaryCalls
<1>9. Pinned'
  BY <1>1, <1>2, Names DEF Inv, Pinned, Dead
<1>10. Bounded'
  BY <1>1, <1>2, Names DEF Inv, Bounded, Dead, Alive
<1>11. ContentBounded'
  BY <1>1, <1>2, Names, ContentSpared DEF Dead, Alive
<1>12. NobodyTraps'
  BY <1>1, <1>2, Names DEF Inv, NobodyTraps
<1> QED BY <1>3, <1>4, <1>5, <1>6, <1>7, <1>8, <1>9, <1>10, <1>11, <1>12, HalvesAfter DEF Inv

LEMMA ForkIs ==
  ASSUME Inv, NEW child \in Forked, Fork(child)
  PROVE  /\ filters' \in Filterings
         /\ scope' \in Scopings
         /\ group' \in Groupings
         /\ filters'[child] = filters["forkserver"] /\ group'[child] = group["forkserver"]
         /\ \A q \in Process : q # child =>
              filters'[q] = filters[q] /\ scope'[q] = scope[q] /\ group'[q] = group[q]
         /\ pid1' = (IF pid1 = "fresh" THEN child ELSE pid1) /\ pid1 # "gone"
<1>1. TypeOK /\ child \in Process /\ "forkserver" \in Process /\ Inherit(child, "forkserver")
  BY Names DEF Inv, Fork
<1>2. pid1' = (IF pid1 = "fresh" THEN child ELSE pid1) /\ pid1 # "gone"
  BY DEF Fork
<1> QED BY <1>1, <1>2, InheritIs

LEMMA PinFailsKeeps ==
  ASSUME Inv, pc["forkserver"] = "confined", Goto("forkserver", "pinned"), failed' = failed \cup {"placeholder"},
         UNCHANGED <<instance, filters, scope, group, leaves, workers, pid1, control, kind, link>>
  PROVE  Inv'
<1>1. /\ pc["forkserver"] = "confined"
      /\ DOMAIN pc' = Process /\ pc'["forkserver"] = "pinned"
      /\ \A q \in Process : q # "forkserver" => pc'[q] = pc[q]
  BY Names, GotoIs DEF Inv
<1>2. host' = host /\ helper' = helper /\ HelperFilter' = HelperFilter
  BY <1>1, Fixed
<1>3. Places'
  BY <1>1, <1>2, Names, Halves DEF Inv, Places, Where, Dead, ForkServerAt, InitAt
<1>4. Data'
  BY <1>1, <1>2, Names, Halves DEF Inv, Data
<1>5. Births'
  BY <1>1, <1>2, Names DEF Inv, Births
<1>6. Stacks'
  BY <1>1, <1>2, Names DEF Inv, Stacks, Births
<1>7. HelperStack'
  BY <1>1, <1>2, Names DEF Inv, HelperStack
<1>8. Verdicts'
  BY <1>1, <1>2, Names DEF Inv, Verdicts, CanaryCalls
<1>9. Pinned'
  BY <1>1, <1>2, Names DEF Inv, Pinned, Dead
<1>10. Bounded'
  BY <1>1, <1>2, Names DEF Inv, Bounded, Dead, Alive
<1>11. ContentBounded'
  BY <1>1, <1>2, Names, ContentSpared DEF Dead, Alive
<1>12. NobodyTraps'
  BY <1>1, <1>2, Names DEF Inv, NobodyTraps
<1> QED BY <1>3, <1>4, <1>5, <1>6, <1>7, <1>8, <1>9, <1>10, <1>11, <1>12, HalvesAfter DEF Inv

LEMMA PlaceholderKeeps ==
  ASSUME Inv, pc["forkserver"] = "confined", Fork("init"),
         pc' = [pc EXCEPT !["forkserver"] = "pinned", !["init"] = "forked"],
         UNCHANGED <<instance, leaves, workers, control, kind, link, failed>>
  PROVE  Inv'
<1>1. /\ pc["forkserver"] = "confined"
      /\ DOMAIN pc' = Process /\ pc'["forkserver"] = "pinned" /\ pc'["init"] = "forked"
      /\ \A q \in Process : q \notin {"forkserver", "init"} => pc'[q] = pc[q]
  BY Names DEF Inv, TypeOK
<1>2. /\ filters' \in Filterings
      /\ scope' \in Scopings
      /\ group' \in Groupings
      /\ filters'["init"] = filters["forkserver"] /\ group'["init"] = group["forkserver"]
      /\ \A q \in Process : q # "init" =>
           filters'[q] = filters[q] /\ scope'[q] = scope[q] /\ group'[q] = group[q]
      /\ pid1' = (IF pid1 = "fresh" THEN "init" ELSE pid1) /\ pid1 # "gone"
  BY ForkIs, Names
<1>3. UNCHANGED <<instance, leaves, workers, control, kind, link, failed>>
  OBVIOUS
<1>4. host' = host /\ helper' = helper /\ HelperFilter' = HelperFilter
  BY <1>3, Fixed
<1>5. Places'
  BY <1>1, <1>2, <1>3, <1>4, Names, Halves DEF Inv, Places, Where, Dead, ForkServerAt, InitAt
<1>6. Data'
  <2>1. pid1' \in Firsts
    BY <1>2, Names DEF Inv, TypeOK, Firsts
  <2> QED BY <2>1, <1>2, <1>3, Halves DEF Inv, Data
<1>7. Births'
  BY <1>1, <1>2, <1>3, <1>4, Names DEF Inv, Births
<1>8. Stacks'
  <2>1. /\ pc'["forkserver"] = "pinned" /\ filters'["init"] = filters["forkserver"]
        /\ \A q \in {"broker", "forkserver", "canary"} \cup Content : filters'[q] = filters[q]
        /\ \A q \in {"canary"} \cup Content : pc'[q] = pc[q]
    BY <1>1, <1>2, Names
  <2>2. pc["canary"] = "unborn" /\ \A s \in Content : pc[s] = "unborn"
    BY <1>1 DEF Inv, Births
  <2>3. filters["forkserver"] \subseteq ForkStack /\ {"enosys", "forkserver"} \subseteq filters["forkserver"]
    BY <1>1 DEF Inv, Stacks
  <2> QED BY <2>1, <2>2, <2>3 DEF Inv, Stacks
<1>9. HelperStack'
  BY <1>1, <1>2, <1>3, <1>4, Names DEF Inv, HelperStack
<1>10. Verdicts'
  BY <1>1, <1>2, <1>3, <1>4, Names DEF Inv, Verdicts, CanaryCalls
<1>11. Pinned'
  <2>1. pc'["init"] = "forked"
    BY <1>1, <1>2, Names
  <2> QED BY <2>1, <1>1, <1>2, <1>3, PinnedStays
<1>12. Bounded'
  <2>1. /\ scope'["broker"] = scope["broker"] /\ group'["forkserver"] = group["forkserver"]
        /\ pc'["broker"] = pc["broker"] /\ Alive("forkserver")
    BY <1>1, <1>2, Names DEF Alive, Dead
  <2> QED BY <2>1, <1>3, <1>4, BoundedStays
<1>13. ContentBounded'
  BY <1>1, <1>2, <1>3, <1>4, Names, ContentSpared DEF Dead, Alive
<1>14. NobodyTraps'
  BY <1>1, <1>2, <1>3, <1>4, Names DEF Inv, NobodyTraps
<1> QED BY <1>5, <1>6, <1>7, <1>8, <1>9, <1>10, <1>11, <1>12, <1>13, <1>14, HalvesAfter DEF Inv

LEMMA PinKeeps ==
  ASSUME Inv, Pin
  PROVE  Inv'
<1>1. /\ pc["forkserver"] = "confined" /\ Alive("forkserver")
      /\ UNCHANGED <<instance, leaves, workers, control, kind, link>>
  BY DEF Pin, Alive, Dead, cgroups
<1>2. CASE ForkTraps /\ ForkServerStops("trapped") /\ UNCHANGED <<confinement, pid1, failed>>
  <2>1. filters["forkserver"] \in SUBSET ForkStack
    BY DEF Inv, Stacks
  <2>2. host.libc \notin Known
    BY <1>2, <2>1, KnownLibcsFork DEF ForkTraps
  <2>3. "trapped" \in Dead /\ control \in Requests
    BY DEF Dead, Inv, TypeOK, Requests
  <2> QED BY <1>1, <1>2, <2>2, <2>3, StopKeeps DEF confinement
<1>3. CASE ForkFails /\ Goto("forkserver", "pinned") /\ failed' = failed \cup {"placeholder"}
  BY <1>1, <1>3, PinFailsKeeps DEF ForkFails, confinement
<1>4. CASE /\ Fork("init")
           /\ pc' = [pc EXCEPT !["forkserver"] = "pinned", !["init"] = "forked"]
           /\ UNCHANGED failed
  BY <1>1, <1>4, PlaceholderKeeps
<1> QED BY <1>2, <1>3, <1>4 DEF Pin

LEMMA CanaryForkKeeps ==
  ASSUME Inv, pc["forkserver"] = "pinned", Fork("canary"),
         pc' = [pc EXCEPT !["forkserver"] = "verifying", !["canary"] = "forked"],
         UNCHANGED <<instance, leaves, workers, control, kind, link, failed>>
  PROVE  Inv'
<1>1. /\ pc["forkserver"] = "pinned"
      /\ DOMAIN pc' = Process /\ pc'["forkserver"] = "verifying" /\ pc'["canary"] = "forked"
      /\ \A q \in Process : q \notin {"forkserver", "canary"} => pc'[q] = pc[q]
  BY Names DEF Inv, TypeOK
<1>2. /\ filters' \in Filterings
      /\ scope' \in Scopings
      /\ group' \in Groupings
      /\ filters'["canary"] = filters["forkserver"] /\ group'["canary"] = group["forkserver"]
      /\ \A q \in Process : q # "canary" =>
           filters'[q] = filters[q] /\ scope'[q] = scope[q] /\ group'[q] = group[q]
      /\ pid1' = (IF pid1 = "fresh" THEN "canary" ELSE pid1) /\ pid1 # "gone"
  BY ForkIs, Names
<1>3. UNCHANGED <<instance, leaves, workers, control, kind, link, failed>>
  OBVIOUS
<1>4. host' = host /\ helper' = helper /\ HelperFilter' = HelperFilter
  BY <1>3, Fixed
<1>5. Places'
  BY <1>1, <1>2, <1>3, <1>4, Names, Halves DEF Inv, Places, Where, Dead, ForkServerAt, InitAt
<1>6. Data'
  <2>1. pid1' \in Firsts
    BY <1>2, Names DEF Inv, TypeOK, Firsts
  <2> QED BY <2>1, <1>2, <1>3, Halves DEF Inv, Data
<1>7. Births'
  BY <1>1, <1>2, <1>3, <1>4, Names DEF Inv, Births
<1>8. Stacks'
  BY <1>1, <1>2, <1>3, <1>4, Names, ZenonT(30) DEF Inv, Stacks, Births
<1>9. HelperStack'
  BY <1>1, <1>2, <1>3, <1>4, Names DEF Inv, HelperStack
<1>10. Verdicts'
  BY <1>1, <1>2, <1>3, <1>4, Names DEF Inv, Verdicts, CanaryCalls
<1>11. Pinned'
  <2>1. pc'["init"] = pc["init"]
    BY <1>1, <1>2, Names
  <2> QED BY <2>1, <1>1, <1>2, <1>3, PinnedStays
<1>12. Bounded'
  <2>1. /\ scope'["broker"] = scope["broker"] /\ group'["forkserver"] = group["forkserver"]
        /\ pc'["broker"] = pc["broker"] /\ Alive("forkserver")
    BY <1>1, <1>2, Names DEF Alive, Dead
  <2> QED BY <2>1, <1>3, <1>4, BoundedStays
<1>13. ContentBounded'
  BY <1>1, <1>2, <1>3, <1>4, Names, ContentSpared DEF Dead, Alive
<1>14. NobodyTraps'
  BY <1>1, <1>2, <1>3, <1>4, Names DEF Inv, NobodyTraps
<1> QED BY <1>5, <1>6, <1>7, <1>8, <1>9, <1>10, <1>11, <1>12, <1>13, <1>14, HalvesAfter DEF Inv

LEMMA VerifyKeeps ==
  ASSUME Inv, Verify
  PROVE  Inv'
<1>1. /\ pc["forkserver"] = "pinned" /\ Alive("forkserver")
      /\ UNCHANGED <<instance, leaves, workers, control, kind, link, failed>>
  BY DEF Verify, Alive, Dead, cgroups
<1>2. CASE ForkFails /\ ForkServerStops("exited")
  <2>1. "exited" \in Dead /\ control \in Requests
    BY DEF Dead, Inv, TypeOK, Requests
  <2> QED BY <1>1, <1>2, <2>1, StopKeeps DEF ForkFails, confinement
<1>3. CASE /\ Fork("canary")
           /\ pc' = [pc EXCEPT !["forkserver"] = "verifying", !["canary"] = "forked"]
  BY <1>1, <1>3, CanaryForkKeeps
<1> QED BY <1>2, <1>3 DEF Verify

-----------------------------------------------------------------------------
(* The verdict, and the requests.                                          *)

LEMMA PassKeeps ==
  ASSUME Inv, pc["forkserver"] = "verifying", pc["canary"] = "exited",
         Goto("forkserver", "serving"),
         UNCHANGED <<instance, filters, scope, group, leaves, workers, pid1, control, kind, link, failed>>
  PROVE  Inv'
<1>1. /\ pc["forkserver"] = "verifying"
      /\ DOMAIN pc' = Process /\ pc'["forkserver"] = "serving"
      /\ \A q \in Process : q # "forkserver" => pc'[q] = pc[q]
  BY Names, GotoIs DEF Inv
<1>2. UNCHANGED <<instance, filters, scope, group, leaves, workers, pid1, control, kind, link, failed>>
  OBVIOUS
<1>3. host' = host /\ helper' = helper /\ HelperFilter' = HelperFilter
  BY <1>2, Fixed
<1>4. Places'
  BY <1>1, <1>2, <1>3, Names, Halves DEF Inv, Places, Where, Dead, ForkServerAt
<1>5. Data'
  BY <1>1, <1>2, <1>3, Names, Halves DEF Inv, Data
<1>6. Births'
  BY <1>1, <1>2, <1>3, Names DEF Inv, Births
<1>7. Stacks'
  BY <1>1, <1>2, <1>3, Names DEF Inv, Stacks
<1>8. HelperStack'
  BY <1>1, <1>2, <1>3, Names DEF Inv, HelperStack
<1>9. Verdicts'
  BY <1>1, <1>2, <1>3, Names DEF Inv, Verdicts, CanaryCalls
<1>10. Pinned'
  BY <1>1, <1>2, <1>3, Names DEF Inv, Pinned, Dead
<1>11. Bounded'
  <2>1. /\ scope'["broker"] = scope["broker"] /\ group'["forkserver"] = group["forkserver"]
        /\ pc'["broker"] = pc["broker"] /\ Alive("forkserver")
    BY <1>1, <1>2, Names DEF Alive, Dead
  <2> QED BY <2>1, <1>2, <1>3, BoundedStays
<1>12. ContentBounded'
  BY <1>1, <1>2, <1>3, Names, ContentSpared DEF Dead, Alive
<1>13. NobodyTraps'
  BY <1>1, <1>2, <1>3, Names DEF Inv, NobodyTraps
<1> QED BY <1>4, <1>5, <1>6, <1>7, <1>8, <1>9, <1>10, <1>11, <1>12, <1>13, HalvesAfter DEF Inv

LEMMA JudgeKeeps ==
  ASSUME Inv, Judge
  PROVE  Inv'
<1>1. /\ pc["forkserver"] = "verifying" /\ Alive("forkserver")
      /\ UNCHANGED <<instance, filters, scope, group, leaves, workers, pid1, control, kind, link, failed>>
  BY DEF Judge, Alive, Dead, confinement, cgroups
<1>2. CASE pc["canary"] = "exited"
  BY <1>1, <1>2, PassKeeps DEF Judge
<1>3. CASE pc["canary"] # "exited"
  <2>1. "exited" \in Dead /\ control \in Requests
    BY DEF Dead, Inv, TypeOK, Requests
  <2>2. ForkServerStops("exited")
    BY <1>3 DEF Judge
  <2> QED BY <1>1, <2>1, <2>2, StopKeeps
<1> QED BY <1>2, <1>3

LEMMA ForkServerHangsUpKeeps ==
  ASSUME Inv, ForkServerHangsUp
  PROVE  Inv'
<1>1. /\ Alive("forkserver") /\ ForkServerStops("exited")
      /\ UNCHANGED <<instance, filters, scope, group, leaves, workers, pid1, control, kind, link, failed>>
  BY DEF ForkServerHangsUp, Alive, Dead, confinement, cgroups
<1>2. "exited" \in Dead /\ control \in Requests
  BY DEF Dead, Inv, TypeOK, Requests
<1> QED BY <1>1, <1>2, StopKeeps

LEMMA ForkServerDiesKeeps ==
  ASSUME Inv, ForkServerDies
  PROVE  Inv'
<1>1. /\ Alive("forkserver") /\ ForkServerStops("killed")
      /\ UNCHANGED <<instance, filters, scope, group, leaves, workers, pid1, control, kind, link, failed>>
  BY DEF ForkServerDies, Alive, Dead, confinement, cgroups
<1>2. "killed" \in Dead /\ control \in Requests
  BY DEF Dead, Inv, TypeOK, Requests
<1> QED BY <1>1, <1>2, StopKeeps

LEMMA RefusalKeeps ==
  ASSUME Inv, NEW s \in Content, pc["forkserver"] = "serving", Goto(s, "exited"),
         control # <<>>, control' \in Requests,
         UNCHANGED <<instance, filters, scope, group, leaves, workers, pid1, kind, link, failed>>
  PROVE  Inv'
<1>1. /\ DOMAIN pc' = Process /\ pc'[s] = "exited"
      /\ \A q \in Process : q # s => pc'[q] = pc[q]
  BY Names, GotoIs DEF Inv
<1>2. UNCHANGED <<instance, filters, scope, group, leaves, workers, pid1, kind, link, failed>>
  OBVIOUS
<1>3. host' = host /\ helper' = helper /\ HelperFilter' = HelperFilter
  BY <1>2, Fixed
<1>4. Places'
  BY <1>1, <1>2, <1>3, Names, Halves DEF Inv, Places, Where, Dead, ContentAt
<1>5. Data'
  BY <1>1, <1>2, <1>3, Names, Halves DEF Inv, Data
<1>6. Births'
  BY <1>1, <1>2, <1>3, Names DEF Inv, Births
<1>7. Stacks'
  BY <1>1, <1>2, <1>3, Names, StacksSpared DEF Dead
<1>8. HelperStack'
  BY <1>1, <1>2, <1>3, Names DEF Inv, HelperStack
<1>9. Verdicts'
  BY <1>1, <1>2, <1>3, Names DEF Inv, Verdicts, CanaryCalls
<1>10. Pinned'
  BY <1>1, <1>2, <1>3, Names DEF Inv, Pinned, Dead
<1>11. Bounded'
  <2>1. /\ scope'["broker"] = scope["broker"] /\ group'["forkserver"] = group["forkserver"]
        /\ pc'["broker"] = pc["broker"] /\ Alive("forkserver")
    BY <1>1, <1>2, Names DEF Alive, Dead
  <2> QED BY <2>1, <1>2, <1>3, BoundedStays
<1>12. ContentBounded'
  BY <1>1, <1>2, <1>3, Names, ContentSpared DEF Dead, Alive
<1>13. NobodyTraps'
  BY <1>1, <1>2, <1>3, Names DEF Inv, NobodyTraps
<1> QED BY <1>4, <1>5, <1>6, <1>7, <1>8, <1>9, <1>10, <1>11, <1>12, <1>13, HalvesAfter DEF Inv

LEMMA BirthKeeps ==
  ASSUME Inv, NEW s \in Content, pc["forkserver"] = "serving", Fork(s), Goto(s, "forked"),
         control # <<>>, control' \in Requests,
         UNCHANGED <<instance, leaves, workers, kind, link, failed>>
  PROVE  Inv'
<1>1. /\ DOMAIN pc' = Process /\ pc'[s] = "forked"
      /\ \A q \in Process : q # s => pc'[q] = pc[q]
  BY Names, GotoIs DEF Inv
<1>2. /\ filters' \in Filterings
      /\ scope' \in Scopings
      /\ group' \in Groupings
      /\ filters'[s] = filters["forkserver"] /\ group'[s] = group["forkserver"]
      /\ \A q \in Process : q # s =>
           filters'[q] = filters[q] /\ scope'[q] = scope[q] /\ group'[q] = group[q]
      /\ pid1' = (IF pid1 = "fresh" THEN s ELSE pid1) /\ pid1 # "gone"
  BY ForkIs, Names
<1>3. UNCHANGED <<instance, leaves, workers, kind, link, failed>>
  OBVIOUS
<1>4. host' = host /\ helper' = helper /\ HelperFilter' = HelperFilter
  BY <1>3, Fixed
<1>5. Places'
  BY <1>1, <1>2, <1>3, <1>4, Names, Halves DEF Inv, Places, Where, Dead, ContentAt
<1>6. Data'
  <2>1. pid1' \in Firsts
    BY <1>2, Names DEF Inv, TypeOK, Firsts
  <2> QED BY <2>1, <1>2, <1>3, Halves DEF Inv, Data
<1>7. Births'
  BY <1>1, <1>2, <1>3, <1>4, Names DEF Inv, Births
<1>8. Stacks'
  <2>1. pc["canary"] = "exited" /\ filters["forkserver"] = filters["canary"]
    BY DEF Inv, Births, Stacks
  <2>2. /\ pc'[s] = "forked" /\ filters'[s] = filters["canary"] /\ s \notin Process \ Content
        /\ \A q \in Process \ Content : pc'[q] = pc[q] /\ filters'[q] = filters[q]
        /\ \A q \in Content : q # s => pc'[q] = pc[q] /\ filters'[q] = filters[q]
    BY <1>1, <1>2, <2>1, Names
  <2>3. {"broker", "forkserver", "init", "canary"} \subseteq Process \ Content
    BY Names
  <2> QED BY <2>1, <2>2, <2>3 DEF Inv, Stacks
<1>9. HelperStack'
  BY <1>1, <1>2, <1>3, <1>4, Names DEF Inv, HelperStack
<1>10. Verdicts'
  BY <1>1, <1>2, <1>3, <1>4, Names DEF Inv, Verdicts, CanaryCalls
<1>11. Pinned'
  <2>1. pc'["init"] = pc["init"]
    BY <1>1, <1>2, Names
  <2> QED BY <2>1, <1>1, <1>2, <1>3, PinnedStays
<1>12. Bounded'
  <2>1. /\ scope'["broker"] = scope["broker"] /\ group'["forkserver"] = group["forkserver"]
        /\ pc'["broker"] = pc["broker"] /\ Alive("forkserver")
    BY <1>1, <1>2, Names DEF Alive, Dead
  <2> QED BY <2>1, <1>3, <1>4, BoundedStays
<1>13. ContentBounded'
  BY <1>1, <1>2, <1>3, <1>4, Names DEF Inv, ContentBounded, Dead, Bounded, Alive
<1>14. NobodyTraps'
  BY <1>1, <1>2, <1>3, <1>4, Names DEF Inv, NobodyTraps
<1> QED BY <1>5, <1>6, <1>7, <1>8, <1>9, <1>10, <1>11, <1>12, <1>13, <1>14, HalvesAfter DEF Inv

LEMMA ServeKeeps ==
  ASSUME Inv, Serve
  PROVE  Inv'
<1>1. /\ pc["forkserver"] = "serving" /\ Alive("forkserver") /\ control # <<>>
      /\ UNCHANGED <<instance, leaves, workers, kind, link, failed>>
  BY DEF Serve, Alive, Dead, cgroups
<1>2. control' \in Requests
  BY <1>1, HeadTailProperties DEF Serve, Inv, TypeOK, Requests
<1>3. CASE ForkServerStops("exited") /\ UNCHANGED <<confinement, pid1>>
  <2>1. "exited" \in Dead
    BY DEF Dead
  <2> QED BY <1>1, <1>2, <1>3, <2>1, StopKeeps DEF confinement
<1>4. CASE Head(control) \in Content /\ ForkFails /\ Goto(Head(control), "exited")
  BY <1>1, <1>2, <1>4, RefusalKeeps DEF ForkFails, confinement
<1>5. CASE Head(control) \in Content /\ Fork(Head(control)) /\ Goto(Head(control), "forked")
  BY <1>1, <1>2, <1>5, BirthKeeps
<1> QED BY <1>3, <1>4, <1>5 DEF Serve

-----------------------------------------------------------------------------
(* The canary and the placeholder.                                         *)

(* A death among the forked processes.                                     *)
LEMMA DeathSpares ==
  ASSUME Inv, NEW p \in Forked, NEW where, Dies(p, where)
  PROVE  /\ DOMAIN pc' = Process /\ pc'[p] = where
         /\ \A q \in {"broker", "forkserver", "helper"} : pc'[q] = pc[q]
         /\ \A q \in Forked \ {p} :
              pc'[q] = pc[q] \/ (pc'[q] = "killed" /\ pc[q] \notin {"unborn"} \cup Dead)
         /\ pid1' = (IF pid1 = p THEN "gone" ELSE pid1)
<1>1. TypeOK /\ p \in Process /\ Forked \subseteq Process /\ p \notin {"broker", "forkserver", "helper"}
      /\ {"broker", "forkserver", "helper"} \subseteq Process \ Forked
  BY Names DEF Inv
<1>2. /\ DOMAIN pc' = Process /\ pc'[p] = where
      /\ \A q \in Process : q # p =>
           pc'[q] = pc[q] \/ (pc'[q] = "killed" /\ pid1 = p /\ q \in Forked /\ Alive(q))
      /\ pid1' = (IF pid1 = p THEN "gone" ELSE pid1)
  BY <1>1, DiesIs
<1> QED BY <1>1, <1>2 DEF Alive

LEMMA CanaryRunsKeeps ==
  ASSUME Inv, CanaryRuns
  PROVE  Inv'
<1>1. pc["canary"] = "forked" /\ filters["canary"] \in SUBSET ForkStack
  BY DEF Inv, Stacks, CanaryRuns
<1>2. AllPass(filters["canary"], CanaryCalls) \/ host.libc \notin Known
  BY <1>1, KnownChildrenPass, InstallPasses DEF AllPass, CanaryCalls
<1>3. /\ DOMAIN pc' = Process /\ pc'["canary"] \in {"exited", "trapped"}
      /\ \A q \in {"broker", "forkserver", "helper"} : pc'[q] = pc[q]
      /\ \A q \in {"init"} \cup Content :
           pc'[q] = pc[q] \/ (pc'[q] = "killed" /\ pc[q] \notin {"unborn"} \cup Dead)
      /\ pid1' = (IF pid1 = "canary" THEN "gone" ELSE pid1)
      /\ pc'["canary"] = "exited" <=> AllPass(filters["canary"], CanaryCalls)
  <2>1. "canary" \in Forked /\ {"init"} \cup Content \subseteq Forked \ {"canary"}
    BY Names
  <2>2. CASE AllPass(filters["canary"], CanaryCalls)
    <3>1. Dies("canary", "exited")
      BY <2>2 DEF CanaryRuns
    <3> QED BY <2>1, <2>2, <3>1, DeathSpares
  <2>3. CASE ~AllPass(filters["canary"], CanaryCalls)
    <3>1. Dies("canary", "trapped")
      BY <2>3 DEF CanaryRuns
    <3> QED BY <2>1, <2>3, <3>1, DeathSpares
  <2> QED BY <2>2, <2>3
<1>4. UNCHANGED <<instance, filters, scope, group, leaves, workers, control, kind, link, failed>>
  BY DEF CanaryRuns, confinement, cgroups
<1>5. host' = host /\ helper' = helper /\ HelperFilter' = HelperFilter
  BY <1>4, Fixed
<1>6. Places'
  BY <1>1, <1>2, <1>3, <1>4, <1>5, Names, Halves DEF Inv, Places, Where, Dead, ContentAt, InitAt
<1>7. Data'
  BY <1>1, <1>2, <1>3, <1>4, <1>5, Names, Halves DEF Inv, Data, Firsts
<1>8. Births'
  BY <1>1, <1>2, <1>3, <1>4, <1>5, Names, BirthsSpared DEF Dead
<1>9. Stacks'
  BY <1>1, <1>2, <1>3, <1>4, <1>5, Names, StacksSpared DEF Dead
<1>10. HelperStack'
  BY <1>1, <1>2, <1>3, <1>4, <1>5, Names DEF Inv, HelperStack
<1>11. Verdicts'
  BY <1>1, <1>2, <1>3, <1>4, <1>5, Names DEF Inv, Verdicts, CanaryCalls
<1>12. Pinned'
  BY <1>1, <1>2, <1>3, <1>4, <1>5, Names DEF Inv, Pinned, Dead
<1>13. Bounded'
  BY <1>1, <1>2, <1>3, <1>4, <1>5, Names DEF Inv, Bounded, Dead, Alive
<1>14. ContentBounded'
  BY <1>1, <1>2, <1>3, <1>4, <1>5, Names, ContentSpared DEF Dead, Alive
<1>15. NobodyTraps'
  BY <1>1, <1>2, <1>3, <1>4, <1>5, Names DEF Inv, NobodyTraps
<1> QED BY <1>6, <1>7, <1>8, <1>9, <1>10, <1>11, <1>12, <1>13, <1>14, <1>15, HalvesAfter DEF Inv

LEMMA PlaceholderTrapsKeeps ==
  ASSUME Inv, pc["init"] = "forked", Dies("init", "trapped"), host.libc \notin Known,
         ~AllPass(filters["init"], CanaryCalls),
         UNCHANGED <<instance, filters, scope, group, leaves, workers, control, kind, link, failed>>
  PROVE  Inv'
<1>1. /\ DOMAIN pc' = Process /\ pc'["init"] = "trapped"
      /\ \A q \in {"broker", "forkserver", "helper"} : pc'[q] = pc[q]
      /\ \A q \in {"canary"} \cup Content :
           pc'[q] = pc[q] \/ (pc'[q] = "killed" /\ pc[q] \notin {"unborn"} \cup Dead)
      /\ pid1' = (IF pid1 = "init" THEN "gone" ELSE pid1)
  <2>1. "init" \in Forked /\ {"canary"} \cup Content \subseteq Forked \ {"init"}
    BY Names
  <2> QED BY <2>1, DeathSpares
<1>2. UNCHANGED <<instance, filters, scope, group, leaves, workers, control, kind, link, failed>>
  OBVIOUS
<1>3. host' = host /\ helper' = helper /\ HelperFilter' = HelperFilter
  BY <1>2, Fixed
<1>4. Places'
  BY <1>1, <1>2, <1>3, Names, Halves DEF Inv, Places, Where, Dead, InitAt, ContentAt
<1>5. Data'
  <2>1. pid1' \in Firsts
    BY <1>1 DEF Inv, TypeOK, Firsts
  <2> QED BY <2>1, <1>2, <1>3, Halves DEF Inv, Data
<1>6. Births'
  BY <1>1, <1>2, <1>3, Names, BirthsSpared DEF Dead
<1>7. Stacks'
  BY <1>1, <1>2, <1>3, Names, StacksSpared DEF Dead
<1>8. HelperStack'
  BY <1>1, <1>2, <1>3, Names DEF Inv, HelperStack
<1>9. Verdicts'
  BY <1>1, <1>2, <1>3, Names DEF Inv, Verdicts, CanaryCalls
<1>10. Pinned'
  BY <1>1, <1>2, <1>3, Names DEF Inv, Pinned, Dead
<1>11. Bounded'
  BY <1>1, <1>2, <1>3, Names, BoundedUnmoved
<1>12. ContentBounded'
  BY <1>1, <1>2, <1>3, Names, ContentSpared DEF Dead, Alive
<1>13. NobodyTraps'
  BY <1>1, <1>2, <1>3, Names DEF Inv, NobodyTraps
<1> QED BY <1>4, <1>5, <1>6, <1>7, <1>8, <1>9, <1>10, <1>11, <1>12, <1>13, HalvesAfter DEF Inv

LEMMA PlaceholderStaysKeeps ==
  ASSUME Inv, pc["init"] \notin {"unborn", "trapped", "doomed"}, NEW where \in {"armed", "orphaned", "exited"},
         Goto("init", where),
         UNCHANGED <<instance, filters, scope, group, leaves, workers, pid1, control, kind, link, failed>>
  PROVE  Inv'
<1>1. /\ DOMAIN pc' = Process /\ pc'["init"] = where
      /\ \A q \in Process : q # "init" => pc'[q] = pc[q]
  BY Names, GotoIs DEF Inv
<1>2. UNCHANGED <<instance, filters, scope, group, leaves, workers, pid1, control, kind, link, failed>>
  OBVIOUS
<1>3. host' = host /\ helper' = helper /\ HelperFilter' = HelperFilter
  BY <1>2, Fixed
<1>4. Places'
  BY <1>1, <1>2, <1>3, Names, Halves DEF Inv, Places, Where, Dead, InitAt, ContentAt
<1>5. Data'
  BY <1>1, <1>2, <1>3, Names, Halves DEF Inv, Data, Firsts
<1>6. Births'
  BY <1>1, <1>2, <1>3, Names, BirthsSpared DEF Dead
<1>7. Stacks'
  BY <1>1, <1>2, <1>3, Names, StacksSpared DEF Dead
<1>8. HelperStack'
  BY <1>1, <1>2, <1>3, Names DEF Inv, HelperStack
<1>9. Verdicts'
  BY <1>1, <1>2, <1>3, Names DEF Inv, Verdicts, CanaryCalls
<1>10. Pinned'
  BY <1>1, <1>2, <1>3, Names DEF Inv, Pinned, Dead
<1>11. Bounded'
  BY <1>1, <1>2, <1>3, Names, BoundedUnmoved
<1>12. ContentBounded'
  BY <1>1, <1>2, <1>3, Names, ContentSpared DEF Dead, Alive
<1>13. NobodyTraps'
  BY <1>1, <1>2, <1>3, Names DEF Inv, NobodyTraps
<1> QED BY <1>4, <1>5, <1>6, <1>7, <1>8, <1>9, <1>10, <1>11, <1>12, <1>13, HalvesAfter DEF Inv

LEMMA InitArmsKeeps ==
  ASSUME Inv, InitArms
  PROVE  Inv'
<1> DEFINE first == Libcs[host.libc].child \cup Plain({"prctl", "getpid", "nanosleep"})
<1>1. /\ pc["init"] = "forked"
      /\ UNCHANGED <<instance, filters, scope, group, leaves, workers, control, kind, link, failed>>
  BY DEF InitArms, confinement, cgroups
<1>2. CASE AllPass(filters["init"], first)
  <2>1. PICK where \in {"armed", "orphaned"} : Goto("init", where) /\ UNCHANGED pid1
    BY <1>2 DEF InitArms
  <2> QED BY <1>1, <2>1, PlaceholderStaysKeeps
<1>3. CASE ~AllPass(filters["init"], first)
  <2>1. filters["init"] \in SUBSET ForkStack /\ filters["init"] \in SUBSET FilterName
    BY ForkStackIsNamed DEF Inv, Stacks
  <2>2. AllPass(filters["init"], Plain({"prctl", "getpid", "nanosleep"}))
    BY <2>1, PlainOnesPass, OrdinaryPass DEF AllPass, Plain
  <2>3. ~AllPass(filters["init"], Libcs[host.libc].child)
    BY <1>3, <2>2 DEF AllPass
  <2>4. ~AllPass(filters["init"], CanaryCalls)
    BY <2>3 DEF AllPass, CanaryCalls
  <2>5. host.libc \notin Known
    BY <2>1, <2>3, KnownChildrenPass DEF AllPass
  <2>6. Dies("init", "trapped")
    BY <1>3 DEF InitArms
  <2> QED BY <1>1, <2>4, <2>5, <2>6, PlaceholderTrapsKeeps
<1> QED BY <1>2, <1>3

LEMMA InitLeavesKeeps ==
  ASSUME Inv, InitLeaves
  PROVE  Inv'
<1>1. /\ pc["init"] \in {"armed", "orphaned"} /\ Goto("init", "exited")
      /\ UNCHANGED <<instance, filters, scope, group, leaves, workers, pid1, control, kind, link, failed>>
  BY DEF InitLeaves, confinement, cgroups
<1> QED BY <1>1, PlaceholderStaysKeeps

LEMMA InitDiesKeeps ==
  ASSUME Inv, InitDies
  PROVE  Inv'
<1>1. pc["forkserver"] \in Dead /\ pc["init"] = "doomed"
  BY DEF Inv, Pinned, InitDies
<1>2. /\ DOMAIN pc' = Process /\ pc'["init"] = "killed"
      /\ \A q \in {"broker", "forkserver", "helper"} : pc'[q] = pc[q]
      /\ \A q \in {"canary"} \cup Content :
           pc'[q] = pc[q] \/ (pc'[q] = "killed" /\ pc[q] \notin {"unborn"} \cup Dead)
      /\ pid1' = (IF pid1 = "init" THEN "gone" ELSE pid1)
  <2>1. "init" \in Forked /\ Dies("init", "killed") /\ {"canary"} \cup Content \subseteq Forked \ {"init"}
    BY Names DEF InitDies
  <2> QED BY <2>1, DeathSpares
<1>3. UNCHANGED <<instance, filters, scope, group, leaves, workers, control, kind, link, failed>>
  BY DEF InitDies, confinement, cgroups
<1>4. host' = host /\ helper' = helper /\ HelperFilter' = HelperFilter
  BY <1>3, Fixed
<1>5. Places'
  BY <1>1, <1>2, <1>3, <1>4, Names, Halves DEF Inv, Places, Where, Dead, InitAt, ContentAt
<1>6. Data'
  BY <1>1, <1>2, <1>3, <1>4, Names, Halves DEF Inv, Data, Firsts
<1>7. Births'
  BY <1>1, <1>2, <1>3, <1>4, Names, BirthsSpared DEF Dead
<1>8. Stacks'
  BY <1>1, <1>2, <1>3, <1>4, Names, StacksSpared DEF Dead
<1>9. HelperStack'
  BY <1>1, <1>2, <1>3, <1>4, Names DEF Inv, HelperStack
<1>10. Verdicts'
  BY <1>1, <1>2, <1>3, <1>4, Names DEF Inv, Verdicts, CanaryCalls
<1>11. Pinned'
  BY <1>1, <1>2, <1>3, <1>4, Names DEF Inv, Pinned, Dead
<1>12. Bounded'
  BY <1>1, <1>2, <1>3, <1>4, Names, BoundedUnmoved
<1>13. ContentBounded'
  BY <1>1, <1>2, <1>3, <1>4, Names, ContentSpared DEF Dead, Alive
<1>14. NobodyTraps'
  BY <1>1, <1>2, <1>3, <1>4, Names DEF Inv, NobodyTraps
<1> QED BY <1>5, <1>6, <1>7, <1>8, <1>9, <1>10, <1>11, <1>12, <1>13, <1>14, HalvesAfter DEF Inv

-----------------------------------------------------------------------------
(* The content processes.                                                  *)

LEMMA EnterKeeps ==
  ASSUME Inv, NEW s \in Content, Enter(s)
  PROVE  Inv'
<1>1. /\ pc[s] = "forked" /\ pc["canary"] = "exited" /\ filters[s] = filters["canary"]
      /\ "content" \in FilterName /\ s \in Process
  BY Names, FilterNames DEF Inv, Stacks, Enter
<1>2. AllPass(filters[s], Libcs[host.libc].child \cup Libcs[host.libc].dup \cup InstallCalls)
  BY <1>1 DEF Inv, Verdicts, CanaryCalls
<1>3. /\ DOMAIN pc' = Process
      /\ \A q \in Process : q # s => pc'[q] = pc[q] /\ filters'[q] = filters[q]
      /\ pc'[s] = "exited" \/ (pc'[s] = "serving" /\ "content" \in filters'[s])
      /\ filters'[s] \subseteq filters[s] \cup {"content"}
      /\ filters' \in Filterings
  <2>1. TypeOK /\ Install(s, "content", Libcs[host.libc].child \cup Libcs[host.libc].dup, "serving")
    BY DEF Inv, Enter
  <2> QED BY <1>1, <1>2, <2>1, InstallIs
<1>4. UNCHANGED <<instance, scope, group, leaves, workers, pid1, control, kind, link, failed>>
  BY DEF Enter, confinement, cgroups
<1>5. host' = host /\ helper' = helper /\ HelperFilter' = HelperFilter
  BY <1>4, Fixed
<1>6. Places'
  BY <1>1, <1>2, <1>3, <1>4, <1>5, Names, Halves DEF Inv, Places, Where, Dead, ContentAt, InitAt
<1>7. Data'
  BY <1>1, <1>2, <1>3, <1>4, <1>5, Names, Halves DEF Inv, Data, Firsts
<1>8. Births'
  BY <1>1, <1>2, <1>3, <1>4, <1>5, Names, BirthsSpared DEF Dead
<1>9. Stacks'
  BY <1>1, <1>2, <1>3, <1>4, <1>5, Names DEF Inv, Stacks
<1>10. HelperStack'
  BY <1>1, <1>2, <1>3, <1>4, <1>5, Names DEF Inv, HelperStack
<1>11. Verdicts'
  BY <1>1, <1>2, <1>3, <1>4, <1>5, Names DEF Inv, Verdicts, CanaryCalls
<1>12. Pinned'
  BY <1>1, <1>2, <1>3, <1>4, <1>5, Names DEF Inv, Pinned, Dead
<1>13. Bounded'
  BY <1>1, <1>2, <1>3, <1>4, <1>5, Names DEF Inv, Bounded, Dead, Alive
<1>14. ContentBounded'
  BY <1>1, <1>2, <1>3, <1>4, <1>5, Names, ContentSpared DEF Dead, Alive
<1>15. NobodyTraps'
  BY <1>1, <1>2, <1>3, <1>4, <1>5, Names DEF Inv, NobodyTraps
<1> QED BY <1>6, <1>7, <1>8, <1>9, <1>10, <1>11, <1>12, <1>13, <1>14, <1>15, HalvesAfter DEF Inv

LEMMA ContentDiesKeeps ==
  ASSUME Inv, NEW s \in Content, pc[s] \in {"serving", "wedged"}, NEW where \in {"exited", "killed"}, Dies(s, where),
         link' \in Links,
         UNCHANGED <<instance, filters, scope, group, leaves, workers, control, kind, failed>>
  PROVE  Inv'
<1>1. /\ DOMAIN pc' = Process /\ pc'[s] = where
      /\ \A q \in {"broker", "forkserver", "helper"} : pc'[q] = pc[q]
      /\ \A q \in {"init", "canary"} \cup (Content \ {s}) :
           pc'[q] = pc[q] \/ (pc'[q] = "killed" /\ pc[q] \notin {"unborn"} \cup Dead)
      /\ pid1' = (IF pid1 = s THEN "gone" ELSE pid1)
  <2>1. s \in Forked /\ {"init", "canary"} \cup (Content \ {s}) \subseteq Forked \ {s}
    BY Names
  <2> QED BY <2>1, DeathSpares
<1>2. UNCHANGED <<instance, filters, scope, group, leaves, workers, control, kind, failed>>
  OBVIOUS
<1>3. host' = host /\ helper' = helper /\ HelperFilter' = HelperFilter
  BY <1>2, Fixed
<1>4. Places'
  BY <1>1, <1>2, <1>3, Names, Halves DEF Inv, Places, Where, Dead, ContentAt, InitAt
<1>5. Data'
  <2>1. pid1' \in Firsts
    BY <1>1 DEF Inv, TypeOK, Firsts
  <2> QED BY <2>1, <1>2, <1>3, Halves DEF Inv, Data
<1>6. Births'
  BY <1>1, <1>2, <1>3, Names, BirthsSpared DEF Dead
<1>7. Stacks'
  BY <1>1, <1>2, <1>3, Names, StacksSpared DEF Dead
<1>8. HelperStack'
  BY <1>1, <1>2, <1>3, Names DEF Inv, HelperStack
<1>9. Verdicts'
  BY <1>1, <1>2, <1>3, Names DEF Inv, Verdicts, CanaryCalls
<1>10. Pinned'
  BY <1>1, <1>2, <1>3, Names DEF Inv, Pinned, Dead
<1>11. Bounded'
  BY <1>1, <1>2, <1>3, Names, BoundedUnmoved
<1>12. ContentBounded'
  BY <1>1, <1>2, <1>3, Names, ContentSpared DEF Dead, Alive
<1>13. NobodyTraps'
  BY <1>1, <1>2, <1>3, Names DEF Inv, NobodyTraps
<1> QED BY <1>4, <1>5, <1>6, <1>7, <1>8, <1>9, <1>10, <1>11, <1>12, <1>13, HalvesAfter DEF Inv

LEMMA WedgeKeeps ==
  ASSUME Inv, NEW s \in Content, pc[s] = "serving", Goto(s, "wedged"),
         UNCHANGED <<instance, filters, scope, group, leaves, workers, pid1, control, kind, link, failed>>
  PROVE  Inv'
<1>1. /\ DOMAIN pc' = Process /\ pc'[s] = "wedged"
      /\ \A q \in Process : q # s => pc'[q] = pc[q]
  BY Names, GotoIs DEF Inv
<1>2. UNCHANGED <<instance, filters, scope, group, leaves, workers, pid1, control, kind, link, failed>>
  OBVIOUS
<1>3. host' = host /\ helper' = helper /\ HelperFilter' = HelperFilter
  BY <1>2, Fixed
<1>4. Places'
  BY <1>1, <1>2, <1>3, Names, Halves DEF Inv, Places, Where, Dead, ContentAt, InitAt
<1>5. Data'
  BY <1>1, <1>2, <1>3, Names, Halves DEF Inv, Data, Firsts
<1>6. Births'
  BY <1>1, <1>2, <1>3, Names, BirthsSpared DEF Dead
<1>7. Stacks'
  BY <1>1, <1>2, <1>3, Names, StacksSpared DEF Dead
<1>8. HelperStack'
  BY <1>1, <1>2, <1>3, Names DEF Inv, HelperStack
<1>9. Verdicts'
  BY <1>1, <1>2, <1>3, Names DEF Inv, Verdicts, CanaryCalls
<1>10. Pinned'
  BY <1>1, <1>2, <1>3, Names DEF Inv, Pinned, Dead
<1>11. Bounded'
  BY <1>1, <1>2, <1>3, Names, BoundedUnmoved
<1>12. ContentBounded'
  BY <1>1, <1>2, <1>3, Names, ContentSpared DEF Dead, Alive
<1>13. NobodyTraps'
  BY <1>1, <1>2, <1>3, Names DEF Inv, NobodyTraps
<1> QED BY <1>4, <1>5, <1>6, <1>7, <1>8, <1>9, <1>10, <1>11, <1>12, <1>13, HalvesAfter DEF Inv

LEMMA SpeakKeeps ==
  ASSUME Inv, NEW s \in Content, Speak(s)
  PROVE  Inv'
<1>1. /\ pc[s] = "serving"
      /\ UNCHANGED <<instance, filters, scope, group, leaves, workers, control, kind, failed>>
  BY DEF Speak, confinement, cgroups
<1>2. \E where \in {"idle", "up"} : link' = [link EXCEPT ![s] = where]
  BY DEF Speak
<1>3. link' \in Links
  BY <1>2 DEF Inv, TypeOK, Links
<1>4. CASE Dies(s, "exited")
  BY <1>1, <1>3, <1>4, ContentDiesKeeps
<1>5. CASE UNCHANGED <<pc, pid1>>
  BY <1>1, <1>3, <1>5, LinksKeep
<1> QED BY <1>4, <1>5 DEF Speak

LEMMA LeaveKeeps ==
  ASSUME Inv, NEW s \in Content, Leave(s)
  PROVE  Inv'
<1>1. /\ pc[s] = "serving" /\ Dies(s, "exited")
      /\ UNCHANGED <<instance, filters, scope, group, leaves, workers, control, kind, link, failed>>
  BY DEF Leave, confinement, cgroups
<1>2. link' \in Links
  BY <1>1 DEF Inv, TypeOK, Links
<1> QED BY <1>1, <1>2, ContentDiesKeeps

LEMMA MisbehaveKeeps ==
  ASSUME Inv, NEW s \in Content, Misbehave(s)
  PROVE  Inv'
<1>1. UNCHANGED <<instance, filters, scope, group, leaves, workers, control, kind, link, failed>>
  BY DEF Misbehave, confinement, cgroups
<1>2. CASE pc[s] = "serving" /\ Goto(s, "wedged") /\ UNCHANGED pid1
  BY <1>1, <1>2, WedgeKeeps
<1>3. CASE pc[s] \in {"serving", "wedged"} /\ Dies(s, "killed")
  <2>1. link' \in Links
    BY <1>1 DEF Inv, TypeOK, Links
  <2> QED BY <1>1, <1>3, <2>1, ContentDiesKeeps
<1> QED BY <1>2, <1>3 DEF Misbehave

(* Of those that serve only a file or device service may find that its     *)
(* filter lacks a call, and only with a C library nobody has seen.         *)
LEMMA WhoseWorkTraps ==
  ASSUME Inv, NEW p \in Process, WorkTraps(p)
  PROVE  p = "helper" /\ host.libc \notin Known
<1>1. p \in Serving /\ ~AllPass(filters[p], Working(Role(p), host.libc))
  BY DEF WorkTraps
<1>2. p \notin Content
  <2> SUFFICES ASSUME p \in Content PROVE FALSE
    OBVIOUS
  <2>1. Role(p) \in {"renderer", "decoder"} /\ filters[p] \in SUBSET FilterName
    BY DEF Role, Inv, TypeOK
  <2> QED BY <1>1, <2>1, ContentWorks
<1>3. p # "forkserver"
  <2> SUFFICES ASSUME p = "forkserver" PROVE FALSE
    OBVIOUS
  <2>1. Role(p) = "forkserver" /\ filters[p] \in SUBSET ForkStack
    BY Names DEF Role, Inv, Stacks
  <2> QED BY <1>1, <2>1, ForkServerWorks
<1>4. p = "helper" /\ pc["helper"] = "serving" /\ Role(p) = helper
  BY <1>1, <1>2, <1>3 DEF Serving, Role
<1>5. helper \in HelperRole
  BY <1>4, Hosts DEF Inv, TypeOK, Births
<1>6. filters["helper"] \subseteq {"broker", HelperFilter} /\ filters["helper"] \in SUBSET FilterName
  BY Names DEF Inv, TypeOK, HelperStack
<1>7. helper # "vault"
  BY <1>1, <1>4, <1>6, VaultWorks
<1>8. HelperFilter = helper
  BY <1>7 DEF HelperFilter
<1>9. helper # "net"
  BY <1>1, <1>4, <1>6, <1>8, NetWorks
<1>10. host.libc \notin Known
  BY <1>1, <1>4, <1>5, <1>6, <1>7, <1>8, <1>9, FileWorks, DeviceWorks DEF HelperRole
<1> QED BY <1>4, <1>10

LEMMA WorkTrapsKeeps ==
  ASSUME Inv, NEW p \in Process, WorkTraps(p)
  PROVE  Inv'
<1>1. p = "helper" /\ host.libc \notin Known /\ pc["helper"] = "serving"
  BY WhoseWorkTraps, Names DEF WorkTraps, Serving
<1>2. /\ pc["helper"] = "serving"
      /\ DOMAIN pc' = Process /\ pc'["helper"] = "trapped"
      /\ \A q \in Process : q # "helper" => pc'[q] = pc[q]
  BY <1>1, Names, GotoIs DEF Inv, WorkTraps
<1>3. UNCHANGED <<instance, filters, scope, group, leaves, workers, pid1, control, kind, link, failed>>
  BY DEF WorkTraps, confinement, cgroups
<1>4. host' = host /\ helper' = helper /\ HelperFilter' = HelperFilter
  BY <1>3, Fixed
<1>5. Places'
  BY <1>1, <1>2, <1>3, <1>4, Names, Halves DEF Inv, Places, Where, Dead, HelperAt
<1>6. Data'
  BY <1>1, <1>2, <1>3, <1>4, Names, Halves DEF Inv, Data, Firsts
<1>7. Births'
  BY <1>1, <1>2, <1>3, <1>4, Names, BirthsSpared DEF Dead
<1>8. Stacks'
  BY <1>1, <1>2, <1>3, <1>4, Names, StacksSpared DEF Dead
<1>9. HelperStack'
  BY <1>1, <1>2, <1>3, <1>4, Names DEF Inv, HelperStack
<1>10. Verdicts'
  BY <1>1, <1>2, <1>3, <1>4, Names DEF Inv, Verdicts, CanaryCalls
<1>11. Pinned'
  BY <1>1, <1>2, <1>3, <1>4, Names DEF Inv, Pinned, Dead
<1>12. Bounded'
  BY <1>1, <1>2, <1>3, <1>4, Names, BoundedUnmoved
<1>13. ContentBounded'
  BY <1>1, <1>2, <1>3, <1>4, Names, ContentSpared DEF Dead, Alive
<1>14. NobodyTraps'
  BY <1>1, <1>2, <1>3, <1>4, Names DEF Inv, NobodyTraps
<1> QED BY <1>5, <1>6, <1>7, <1>8, <1>9, <1>10, <1>11, <1>12, <1>13, <1>14, HalvesAfter DEF Inv

-----------------------------------------------------------------------------
(* Every step keeps it.                                                    *)

LEMMA IdleKeeps ==
  ASSUME Inv, UNCHANGED vars
  PROVE  Inv'
<1>1. /\ UNCHANGED <<instance, pc, filters, scope, group, leaves, workers, pid1, kind, failed>>
      /\ control' = control /\ link' = link
  BY DEF vars, confinement, cgroups
<1>2. link' \in Links
  BY <1>1 DEF Inv, TypeOK, Links
<1> QED BY <1>1, <1>2, LinksKeep

LEMMA StartIs == Init => Inv
<1> SUFFICES ASSUME Init PROVE Inv
  OBVIOUS
<1>1. /\ \A p \in Process : p # "broker" => pc[p] = "unborn"
      /\ pc["broker"] = "boot" /\ DOMAIN pc = Process
      /\ \A p \in Process : filters[p] = {} /\ scope[p] = {}
      /\ control = <<>> /\ pid1 = "none" /\ failed = {}
  BY Names DEF Init
<1>2. Places
  BY <1>1, Names DEF Places, BrokerAt, ForkServerAt, HelperAt, Where, InitAt, ContentAt
<1>3. Data
  <2>1. kind \in [Content -> {"renderer", "decoder"}] /\ instance \in Instances
    BY DEF Init
  <2>2. <<>> \in Requests
    BY DEF Requests
  <2>3. /\ filters \in Filterings
        /\ scope \in Scopings
        /\ group \in Groupings
        /\ link \in Links
    BY DEF Init, Filterings, Scopings, Groupings, Links
  <2>4. /\ leaves \subseteq {"forkserver", "helper"} /\ workers \in BOOLEAN
        /\ pid1 \in Firsts
    BY DEF Init, Firsts
  <2> QED BY <1>1, <2>1, <2>2, <2>3, <2>4 DEF Data
<1>4. Births
  BY <1>1, Names DEF Births
<1>5. Stacks
  BY <1>1, Names DEF Stacks
<1>6. HelperStack
  BY <1>1, Names DEF HelperStack
<1>7. Verdicts /\ Pinned
  BY <1>1, Names DEF Verdicts, Pinned
<1>8. Bounded
  BY <1>1, Names DEF Bounded
<1>9. ContentBounded /\ NobodyTraps
  BY <1>1, Names DEF ContentBounded, NobodyTraps
<1> QED BY <1>2, <1>3, <1>4, <1>5, <1>6, <1>7, <1>8, <1>9, Halves DEF Inv

LEMMA StepsKeep ==
  ASSUME Inv, [Next]_vars
  PROVE  Inv'
<1>1. CASE Boot
  BY <1>1, PrepareCgroupKeeps, RestrictBrokerKeeps, DenyBrokerKeeps, SpawnForkServerKeeps,
      PlaceForkServerKeeps, SpawnHelperKeeps, PlaceHelperKeeps DEF Boot
<1>2. CASE Helper
  BY <1>2, HelperScopesKeeps, HelperConfinesKeeps, HelperEndsKeeps DEF Helper
<1>3. CASE ForkServer
  BY <1>3, ForkServerPrefiltersKeeps, ForkServerConfinesKeeps, PinKeeps, VerifyKeeps, JudgeKeeps,
      ServeKeeps, ForkServerHangsUpKeeps DEF ForkServer
<1>4. CASE Placeholder
  BY <1>4, InitArmsKeeps, InitLeavesKeeps, InitDiesKeeps DEF Placeholder
<1>5. CASE Teardown
  BY <1>5, ShutdownForkServerKeeps, CleanUpKeeps DEF Teardown
<1>6. CASE CanaryRuns \/ ForkServerDies \/ BrokerDies \/ CloseAll
  BY <1>6, CanaryRunsKeeps, ForkServerDiesKeeps, BrokerDiesKeeps, CloseAllKeeps
<1>7. ASSUME NEW s \in Content, Enter(s) \/ Speak(s) \/ Leave(s) \/ Misbehave(s)
      PROVE  Inv'
  BY <1>7, EnterKeeps, SpeakKeeps, LeaveKeeps, MisbehaveKeeps
<1>8. ASSUME NEW s \in Content, Spawn(s) \/ HearEof(s) \/ LetGo(s)
      PROVE  Inv'
  BY <1>8, SpawnKeeps, HearEofKeeps, LetGoKeeps
<1>9. ASSUME NEW p \in Process, WorkTraps(p)
      PROVE  Inv'
  BY <1>9, WorkTrapsKeeps
<1>10. CASE UNCHANGED vars
  BY <1>10, IdleKeeps
<1> QED BY <1>1, <1>2, <1>3, <1>4, <1>5, <1>6, <1>7, <1>8, <1>9, <1>10 DEF Next

LEMMA Invariance == Spec => []Inv
<1>1. Inv /\ [Next]_vars => Inv'
  BY StepsKeep
<1> QED BY <1>1, StartIs, PTL DEF Spec

-----------------------------------------------------------------------------
(* The Landlock domain of the broker.                                      *)

Living == {q \in Process : Alive(q)}

(* The broker is in its domain before anyone is born, and no domain is     *)
(* ever left.                                                              *)
Restricted == pc["broker"] \notin {"boot", "grouped"} \cup Dead
Domains ==
  host.landlock =>
    /\ Restricted => scope["broker"] # {}
    /\ \A q \in Living \ {"broker"} :
         scope["broker"] # {} /\ scope["broker"] \subseteq scope[q]

(* Nobody is born and no domain put on.                                    *)
LEMMA DomainsStay ==
  ASSUME Domains, instance' = instance, scope' = scope, Living' \subseteq Living,
         \/ pc'["broker"] = pc["broker"] \/ pc'["broker"] \in Dead \cup {"grouped"}
         \/ Restricted
  PROVE  Domains'
<1>1. host' = host
  BY Fixed
<1>2. Restricted' => Restricted
  BY DEF Restricted
<1> QED BY <1>1, <1>2 DEF Domains

LEMMA GotoSpares ==
  ASSUME TypeOK, NEW p \in Process, NEW where, Goto(p, where), Alive(p) \/ where \in Dead
  PROVE  Living' \subseteq Living /\ (p # "broker" => pc'["broker"] = pc["broker"])
<1>1. "broker" \in Process
  BY Names
<1> QED BY <1>1, GotoIs DEF Living, Alive

LEMMA InstallSpares ==
  ASSUME TypeOK, NEW p \in Process \ {"broker"}, Alive(p), NEW name, NEW calls, NEW where,
         Install(p, name, calls, where)
  PROVE  Living' \subseteq Living /\ pc'["broker"] = pc["broker"]
<1>1. PICK reached : Goto(p, reached)
  BY DEF Install, Issue
<1> QED BY <1>1, GotoSpares

LEMMA DiesSpares ==
  ASSUME TypeOK, NEW p \in Forked, NEW where \in Dead, Dies(p, where)
  PROVE  Living' \subseteq Living /\ pc'["broker"] = pc["broker"]
<1>1. p \in Process /\ "broker" \in Process /\ p # "broker" /\ "broker" \notin Forked
  BY Names
<1> QED BY <1>1, DiesIs DEF Living, Alive, Dead

LEMMA StopsSpare ==
  ASSUME TypeOK, NEW where \in Dead, ForkServerStops(where)
  PROVE  Living' \subseteq Living /\ pc'["broker"] = pc["broker"]
<1>1. "broker" \in Process /\ "broker" \notin {"forkserver", "init"}
  BY Names
<1>2. pc'["forkserver"] \in Dead /\ (Alive("init") \/ pc'["init"] = pc["init"])
  BY StopsIs DEF Alive, Dead
<1> QED BY <1>1, <1>2, StopsIs DEF Living, Alive

(* Whoever is born starts in the domain of its parent.                     *)
LEMMA DomainsInherited ==
  ASSUME Inv, Domains, NEW child \in Process \ {"broker"}, NEW parent \in Process \ {child},
         Inherit(child, parent), Alive(parent), parent = "broker" => Restricted,
         instance' = instance, Living' \subseteq Living \cup {child},
         Restricted' => Restricted
  PROVE  Domains'
<1>1. /\ scope'[child] = scope[parent]
      /\ \A q \in Process : q # child => scope'[q] = scope[q]
  BY InheritIs DEF Inv
<1>2. host' = host /\ "broker" \in Process
  BY Fixed, Names
<1>3. host.landlock => scope["broker"] # {} /\ scope["broker"] \subseteq scope[parent]
  BY DEF Domains, Living
<1> QED BY <1>1, <1>2, <1>3 DEF Domains, Living

LEMMA BootKeepsDomains ==
  ASSUME Inv, Domains, Boot
  PROVE  Domains'
<1>1. TypeOK /\ "broker" \in Process
  BY Names DEF Inv
<1>2. CASE PrepareCgroup
  <2>1. Goto("broker", "grouped") /\ Alive("broker") /\ UNCHANGED <<instance, scope>>
    BY <1>2 DEF PrepareCgroup, Alive, Dead
  <2>2. pc'["broker"] = "grouped" /\ Living' \subseteq Living
    BY <1>1, <2>1, GotoIs, GotoSpares
  <2> QED BY <2>1, <2>2, DomainsStay
<1>3. CASE RestrictBroker
  <2>1. /\ pc["broker"] = "grouped" /\ Goto("broker", "scoped") /\ UNCHANGED instance
        /\ scope'["broker"] = (IF ~host.landlock THEN {}
                               ELSE IF workers THEN {"temp and workers"} ELSE {"temp"})
    BY <1>1, <1>3 DEF RestrictBroker, TypeOK
  <2>2. pc["forkserver"] = "unborn" /\ pc["helper"] = "unborn"
    BY <2>1 DEF Inv, Births
  <2>3. \A q \in Process \ {"broker"} : pc[q] = "unborn"
    BY <2>2, Names DEF Inv, Births
  <2>4. \A q \in Process \ {"broker"} : pc'[q] = "unborn"
    BY <1>1, <2>1, <2>3, GotoIs
  <2>5. Living' \subseteq {"broker"}
    BY <2>4 DEF Living, Alive
  <2>6. host' = host
    BY <2>1, Fixed
  <2> QED BY <2>1, <2>5, <2>6 DEF Domains
<1>4. CASE DenyBroker
  <2>1. Goto("broker", "confined") /\ Alive("broker") /\ UNCHANGED <<instance, scope>>
        /\ Restricted
    BY <1>4 DEF DenyBroker, Alive, Dead, Restricted
  <2> QED BY <1>1, <2>1, GotoSpares, DomainsStay
<1>5. CASE SpawnForkServer
  <2>1. pc["broker"] = "confined" /\ Alive("broker") /\ Restricted /\ UNCHANGED instance
    BY <1>5 DEF SpawnForkServer, Alive, Dead, Restricted
  <2>2. CASE host.namespaces = "none"
    <3>1. Goto("broker", "exited") /\ UNCHANGED scope
      BY <1>5, <2>2 DEF SpawnForkServer, confinement
    <3> QED BY <1>1, <2>1, <3>1, GotoSpares, DomainsStay
  <2>3. CASE host.namespaces # "none"
    <3>1. /\ pc' = [pc EXCEPT !["broker"] = "placing", !["forkserver"] = "started"]
          /\ Inherit("forkserver", "broker")
      BY <1>5, <2>3 DEF SpawnForkServer
    <3>2. Living' \subseteq Living \cup {"forkserver"}
      BY <1>1, <2>1, <3>1, Names DEF Living, Alive, TypeOK
    <3>3. "forkserver" \in Process \ {"broker"} /\ "broker" \in Process \ {"forkserver"}
      BY Names
    <3> QED BY <2>1, <3>1, <3>2, <3>3, DomainsInherited
  <2> QED BY <2>2, <2>3
<1>6. CASE PlaceForkServer \/ PlaceHelper
  <2>1. /\ Alive("broker") /\ UNCHANGED <<instance, scope>> /\ Restricted
        /\ \E where : Goto("broker", where)
    BY <1>6 DEF PlaceForkServer, PlaceHelper, Alive, Dead, Restricted
  <2> QED BY <1>1, <2>1, GotoSpares, DomainsStay
<1>7. CASE SpawnHelper
  <2>1. /\ pc["broker"] = "spawning" /\ Alive("broker") /\ Restricted /\ UNCHANGED instance
        /\ pc' = [pc EXCEPT !["broker"] = "placing helper", !["helper"] = "started"]
        /\ Inherit("helper", "broker")
    BY <1>7 DEF SpawnHelper, Alive, Dead, Restricted
  <2>2. Living' \subseteq Living \cup {"helper"}
    BY <1>1, <2>1, Names DEF Living, Alive, TypeOK
  <2>3. "helper" \in Process \ {"broker"} /\ "broker" \in Process \ {"helper"}
    BY Names
  <2> QED BY <2>1, <2>2, <2>3, DomainsInherited
<1> QED BY <1>2, <1>3, <1>4, <1>5, <1>6, <1>7 DEF Boot

LEMMA HelperKeepsDomains ==
  ASSUME Inv, Domains, Helper
  PROVE  Domains'
<1>1. TypeOK /\ "helper" \in Process \ {"broker"} /\ "broker" \in Process
  BY Names DEF Inv
<1>2. CASE HelperScopes
  <2>1. /\ Alive("helper") /\ UNCHANGED instance
        /\ \E where : Goto("helper", where)
    BY <1>2 DEF HelperScopes, Issue, Alive, Dead
  <2>2. Living' \subseteq Living /\ pc'["broker"] = pc["broker"]
    BY <1>1, <2>1, GotoSpares
  <2>3. \/ scope' = [scope EXCEPT !["helper"] = @ \cup {"own files"}]
        \/ scope' = scope
    BY <1>2 DEF HelperScopes
  <2>4. scope'["broker"] = scope["broker"] /\ \A q \in Process : scope[q] \subseteq scope'[q]
    <3>1. CASE scope' = scope
      BY <3>1
    <3>2. CASE scope' = [scope EXCEPT !["helper"] = @ \cup {"own files"}]
      <4>1. DOMAIN scope = Process
        BY <1>1 DEF TypeOK
      <4>2. \A q \in Process \ {"helper"} : scope'[q] = scope[q]
        BY <3>2, <4>1
      <4>3. scope'["helper"] = scope["helper"] \cup {"own files"}
        BY <1>1, <3>2, <4>1
      <4>4. "broker" \in Process \ {"helper"}
        BY Names
      <4> QED BY <4>2, <4>3, <4>4
    <3> QED BY <2>3, <3>1, <3>2
  <2>5. host' = host /\ (Restricted' => Restricted)
    BY <2>1, <2>2, Fixed DEF Restricted
  <2>6. Living \subseteq Process
    BY DEF Living
  <2>7. ASSUME host.landlock
        PROVE  /\ Restricted' => scope'["broker"] # {}
               /\ \A q \in Living' \ {"broker"} :
                    scope'["broker"] # {} /\ scope'["broker"] \subseteq scope'[q]
    <3>1. /\ Restricted => scope["broker"] # {}
          /\ \A q \in Living \ {"broker"} :
               scope["broker"] # {} /\ scope["broker"] \subseteq scope[q]
      BY <2>7 DEF Domains
    <3> QED BY <2>2, <2>4, <2>5, <2>6, <3>1
  <2> QED BY <2>5, <2>7 DEF Domains
<1>3. CASE HelperConfines
  <2>1. /\ Alive("helper") /\ UNCHANGED <<instance, scope>>
        /\ Install("helper", HelperFilter, {}, "serving")
    BY <1>3 DEF HelperConfines, Alive, Dead
  <2> QED BY <1>1, <2>1, InstallSpares, DomainsStay
<1>4. CASE HelperEnds
  <2>1. /\ Alive("helper") /\ UNCHANGED <<instance, scope>> /\ Goto("helper", "exited")
    BY <1>4 DEF HelperEnds, Alive, Dead, confinement
  <2> QED BY <1>1, <2>1, GotoSpares, DomainsStay
<1> QED BY <1>2, <1>3, <1>4 DEF Helper

(* A child of fork(), born while the fork server goes on at `where`.       *)
LEMMA BirthKeepsDomains ==
  ASSUME Inv, Domains, NEW child \in Forked, Alive("forkserver"), Fork(child),
         instance' = instance, Living' \subseteq Living \cup {child},
         pc'["broker"] = pc["broker"]
  PROVE  Domains'
<1>1. child \in Process \ {"broker"} /\ "forkserver" \in Process \ {child}
  BY Names
<1>2. Inherit(child, "forkserver")
  BY DEF Fork
<1>3. Restricted' => Restricted
  BY DEF Restricted
<1> QED BY <1>1, <1>2, <1>3, DomainsInherited

LEMMA ForkServerKeepsDomains ==
  ASSUME Inv, Domains, ForkServer \/ ForkServerDies
  PROVE  Domains'
<1>1. /\ TypeOK /\ "forkserver" \in Process \ {"broker"} /\ "broker" \in Process
      /\ "init" \in Process \cap Forked /\ "canary" \in Process \cap Forked
  BY Names DEF Inv
<1>2. Alive("forkserver") /\ UNCHANGED instance
  BY DEF ForkServer, ForkServerPrefilters, ForkServerConfines, Pin, Verify, Judge, Serve,
         ForkServerHangsUp, ForkServerDies, Alive, Dead
<1>3. ASSUME NEW where, Goto("forkserver", where), UNCHANGED scope
      PROVE  Domains'
  BY <1>1, <1>2, <1>3, GotoSpares, DomainsStay
<1>4. ASSUME NEW where \in Dead, ForkServerStops(where), UNCHANGED scope
      PROVE  Domains'
  BY <1>1, <1>2, <1>4, StopsSpare, DomainsStay
<1>5. "exited" \in Dead /\ "trapped" \in Dead /\ "killed" \in Dead
  BY DEF Dead
<1>6. CASE ForkServerPrefilters \/ ForkServerConfines
  <2>1. UNCHANGED scope /\ \E where : Goto("forkserver", where)
    BY <1>6 DEF ForkServerPrefilters, ForkServerConfines, Install, Issue
  <2> QED BY <2>1, <1>3
<1>7. CASE Pin
  <2>1. CASE ForkServerStops("trapped") /\ UNCHANGED confinement
    BY <2>1, <1>4, <1>5 DEF confinement
  <2>2. CASE Goto("forkserver", "pinned") /\ UNCHANGED confinement
    BY <2>2, <1>3 DEF confinement
  <2>3. CASE /\ Fork("init")
             /\ pc' = [pc EXCEPT !["forkserver"] = "pinned", !["init"] = "forked"]
    <3>1. Living' \subseteq Living \cup {"init"} /\ pc'["broker"] = pc["broker"]
      BY <1>1, <1>2, <2>3, Names DEF Living, Alive, TypeOK
    <3> QED BY <1>1, <1>2, <2>3, <3>1, BirthKeepsDomains
  <2> QED BY <1>7, <2>1, <2>2, <2>3 DEF Pin, ForkFails
<1>8. CASE Verify
  <2>1. CASE ForkServerStops("exited") /\ UNCHANGED confinement
    BY <2>1, <1>4, <1>5 DEF confinement
  <2>2. CASE /\ Fork("canary")
             /\ pc' = [pc EXCEPT !["forkserver"] = "verifying", !["canary"] = "forked"]
    <3>1. Living' \subseteq Living \cup {"canary"} /\ pc'["broker"] = pc["broker"]
      BY <1>1, <1>2, <2>2, Names DEF Living, Alive, TypeOK
    <3> QED BY <1>1, <1>2, <2>2, <3>1, BirthKeepsDomains
  <2> QED BY <1>8, <2>1, <2>2 DEF Verify, ForkFails
<1>9. CASE Judge \/ ForkServerHangsUp \/ ForkServerDies
  <2>1. /\ UNCHANGED scope
        /\ Goto("forkserver", "serving") \/ \E where \in Dead : ForkServerStops(where)
    BY <1>5, <1>9 DEF Judge, ForkServerHangsUp, ForkServerDies, confinement
  <2> QED BY <2>1, <1>3, <1>4
<1>10. CASE Serve
  <2>1. CASE ForkServerStops("exited") /\ UNCHANGED confinement
    BY <2>1, <1>4, <1>5 DEF confinement
  <2>2. CASE /\ Head(control) \in Content
             /\ UNCHANGED confinement /\ Goto(Head(control), "exited")
    <3>1. Head(control) \in Process \ {"broker"} /\ UNCHANGED scope
      BY <2>2, Names DEF confinement
    <3> QED BY <1>1, <1>2, <1>5, <2>2, <3>1, GotoSpares, DomainsStay
  <2>3. CASE Head(control) \in Content /\ Fork(Head(control)) /\ Goto(Head(control), "forked")
    <3>1. Head(control) \in Process \ {"broker"} /\ Head(control) \in Forked
      BY <2>3, Names
    <3>2. Living' \subseteq Living \cup {Head(control)} /\ pc'["broker"] = pc["broker"]
      BY <1>1, <2>3, <3>1, GotoIs DEF Living, Alive
    <3> QED BY <1>2, <2>3, <3>1, <3>2, BirthKeepsDomains
  <2> QED BY <1>10, <2>1, <2>2, <2>3 DEF Serve, ForkFails
<1> QED BY <1>6, <1>7, <1>8, <1>9, <1>10 DEF ForkServer

LEMMA ForkedKeepDomains ==
  ASSUME Inv, Domains,
         \/ CanaryRuns \/ Placeholder
         \/ \E s \in Content : Enter(s) \/ Speak(s) \/ Leave(s) \/ Misbehave(s)
  PROVE  Domains'
<1>1. /\ TypeOK /\ Forked \subseteq Process \ {"broker"} /\ "broker" \in Process
      /\ "init" \in Forked /\ "canary" \in Forked /\ Content \subseteq Forked
  BY Names DEF Inv
<1>2. UNCHANGED <<instance, scope>>
  BY DEF CanaryRuns, Placeholder, InitArms, InitLeaves, InitDies, Enter, Speak, Leave, Misbehave,
         confinement
<1>3. "exited" \in Dead /\ "trapped" \in Dead /\ "killed" \in Dead
  BY DEF Dead
<1>4. ASSUME NEW p \in Forked, NEW where \in Dead, Dies(p, where)
      PROVE  Domains'
  BY <1>1, <1>2, <1>4, DiesSpares, DomainsStay
<1>5. ASSUME NEW p \in Forked, NEW where, Goto(p, where), Alive(p)
      PROVE  Domains'
  BY <1>1, <1>2, <1>5, GotoSpares, DomainsStay
<1>6. CASE CanaryRuns
  BY <1>1, <1>3, <1>4, <1>6 DEF CanaryRuns
<1>7. CASE Placeholder
  <2>1. Alive("init")
    BY <1>7 DEF Placeholder, InitArms, InitLeaves, InitDies, Alive, Dead
  <2>2. (\E where \in Dead : Dies("init", where)) \/ \E where : Goto("init", where)
    BY <1>3, <1>7 DEF Placeholder, InitArms, InitLeaves, InitDies
  <2> QED BY <1>1, <1>4, <1>5, <2>1, <2>2
<1>8. ASSUME NEW s \in Content, Enter(s)
      PROVE  Domains'
  <2>1. Alive(s) /\ \E where : Goto(s, where)
    BY <1>8 DEF Enter, Install, Issue, Alive, Dead
  <2> QED BY <1>1, <1>5, <2>1
<1>9. ASSUME NEW s \in Content, Speak(s) \/ Leave(s) \/ Misbehave(s)
      PROVE  Domains'
  <2>1. Alive(s)
    BY <1>9 DEF Speak, Leave, Misbehave, Alive, Dead
  <2>2. \/ pc' = pc \/ (\E where \in Dead : Dies(s, where)) \/ \E where : Goto(s, where)
    BY <1>3, <1>9 DEF Speak, Leave, Misbehave
  <2>3. CASE pc' = pc
    BY <1>2, <2>3, DomainsStay DEF Living, Alive
  <2> QED BY <1>1, <1>4, <1>5, <2>1, <2>2, <2>3
<1> QED BY <1>6, <1>7, <1>8, <1>9

LEMMA RunningKeepsDomains ==
  ASSUME Inv, Domains,
         \/ BrokerDies \/ CloseAll \/ Teardown
         \/ \E s \in Content : Spawn(s) \/ HearEof(s) \/ LetGo(s)
         \/ \E p \in Process : WorkTraps(p)
  PROVE  Domains'
<1>1. TypeOK /\ "broker" \in Process /\ "helper" \in Process
  BY Names DEF Inv
<1>2. UNCHANGED <<instance, scope>>
  BY DEF BrokerDies, CloseAll, Teardown, ShutdownForkServer, CleanUp, Spawn, HearEof, LetGo,
         WorkTraps, confinement
<1>3. "exited" \in Dead /\ "trapped" \in Dead /\ "killed" \in Dead
  BY DEF Dead
<1>4. CASE BrokerDies \/ Teardown
  <2>1. \/ Goto("broker", "killed") \/ Goto("broker", "exited")
        \/ Goto("broker", "waiting") /\ pc["broker"] = "closing"
    BY <1>4 DEF BrokerDies, Teardown, ShutdownForkServer, CleanUp
  <2>2. CASE Goto("broker", "killed") \/ Goto("broker", "exited")
    <3>1. pc'["broker"] \in Dead /\ Living' \subseteq Living
      BY <1>1, <1>3, <2>2, GotoIs, GotoSpares
    <3> QED BY <1>2, <3>1, DomainsStay
  <2>3. CASE Goto("broker", "waiting") /\ pc["broker"] = "closing"
    <3>1. Alive("broker") /\ Restricted
      BY <2>3 DEF Alive, Dead, Restricted
    <3> QED BY <1>1, <1>2, <2>3, <3>1, GotoSpares, DomainsStay
  <2> QED BY <2>1, <2>2, <2>3
<1>5. CASE CloseAll
  <2>1. /\ pc["broker"] = "running"
        /\ pc' = [pc EXCEPT !["broker"] = "closing",
                            !["helper"] = IF Alive("helper") THEN "killed" ELSE @]
    BY <1>5 DEF CloseAll
  <2>2. Living' \subseteq Living /\ Restricted
    BY <1>1, <2>1 DEF Living, Alive, Dead, Restricted, TypeOK
  <2> QED BY <1>2, <2>2, DomainsStay
<1>6. CASE \E s \in Content : Spawn(s) \/ HearEof(s) \/ LetGo(s)
  <2>1. pc' = pc
    BY <1>6 DEF Spawn, HearEof, LetGo
  <2> QED BY <1>2, <2>1, DomainsStay DEF Living, Alive
<1>7. ASSUME NEW p \in Process, WorkTraps(p)
      PROVE  Domains'
  <2>1. Goto(p, "trapped") /\ p # "broker"
    BY <1>7, Names DEF WorkTraps, Serving
  <2> QED BY <1>1, <1>2, <1>3, <2>1, GotoSpares, DomainsStay
<1> QED BY <1>4, <1>5, <1>6, <1>7

LEMMA DomainsHold == Spec => []Domains
<1>1. Init => Domains
  <2> SUFFICES ASSUME Init
               PROVE  Domains
    OBVIOUS
  <2>1. pc["broker"] = "boot" /\ \A q \in Process \ {"broker"} : pc[q] = "unborn"
    BY Names DEF Init
  <2> QED BY <2>1 DEF Domains, Living, Alive, Restricted
<1>2. Inv /\ Domains /\ [Next]_vars => Domains'
  <2> SUFFICES ASSUME Inv, Domains, [Next]_vars
               PROVE  Domains'
    OBVIOUS
  <2>1. CASE Next
    BY <2>1, BootKeepsDomains, HelperKeepsDomains, ForkServerKeepsDomains, ForkedKeepDomains,
       RunningKeepsDomains DEF Next
  <2>2. CASE UNCHANGED vars
    <3>1. UNCHANGED <<instance, pc, scope>>
      BY <2>2 DEF vars, confinement
    <3> QED BY <3>1, DomainsStay DEF Living, Alive
  <2> QED BY <2>1, <2>2
<1> QED BY <1>1, <1>2, Invariance, PTL DEF Spec

-----------------------------------------------------------------------------
(* What a filter withholds.                                                *)

LEMMA EscalationsAreCalls ==
  ASSUME NEW call \in Escalations
  PROVE  /\ call \in Calls
         /\ \/ call.nr \notin BASELINE /\ call # Call("tgkill", "SIGSYS")
            \/ call \in {Call("mmap", "exec"), Call("mprotect", "exec")}
            \/ call \in {Call("fcntl", cmd) : cmd \in {"SETFD_0", "SETFL", "DUPFD", "DUPFD_CLOEXEC"}}
<1>1. {Call("mmap", "exec"), Call("mprotect", "exec")} \subseteq Calls
  BY ConditionalCalls DEF Arguments
<1>2. {Call("fcntl", cmd) : cmd \in {"SETFD_0", "SETFL", "DUPFD", "DUPFD_CLOEXEC"}} \subseteq Calls
  <2>1. "fcntl" \in DOMAIN Arguments
        /\ {"SETFD_0", "SETFL", "DUPFD", "DUPFD_CLOEXEC"} \subseteq Arguments["fcntl"]
    BY DEF Arguments
  <2> QED BY <2>1, ConditionalCalls
<1> QED BY <1>1, <1>2 DEF Escalations

(* No filter without privileges grants one, except for what its role adds. *)
LEMMA ConditionsWithhold ==
  ASSUME NEW call \in Escalations
  PROVE  call \notin Conditions(FALSE, FALSE)
<1> SUFFICES ASSUME call \in Conditions(FALSE, FALSE)
             PROVE  FALSE
  OBVIOUS
<1>1. \/ call \in {Call("mmap", "data"), Call("mprotect", "data"), Call("tgkill", "SIGSYS")}
      \/ \E cmd \in {"ADD_SEALS", "GET_SEALS", "GETFD", "SETFD_CLOEXEC"} : call = Call("fcntl", cmd)
  BY DEF Conditions, FcntlAllowed
<1>2. call.nr \in BASELINE \/ call = Call("tgkill", "SIGSYS")
  BY <1>1 DEF BASELINE, Call
<1>3. \/ call = Call("mmap", "exec") \/ call = Call("mprotect", "exec")
      \/ \E cmd \in {"SETFD_0", "SETFL", "DUPFD", "DUPFD_CLOEXEC"} : call = Call("fcntl", cmd)
  BY <1>2, EscalationsAreCalls
<1> QED BY <1>1, <1>3 DEF Call

LEMMA BaselineWithholds ==
  ASSUME NEW call \in Escalations, NEW extra, call.nr \in (BASELINE \cup extra) \ Gated(FALSE)
  PROVE  call.nr \in extra
<1>1. call.nr \in BASELINE => call.nr \in Gated(FALSE)
  BY EscalationsAreCalls DEF Gated, Call
<1> QED BY <1>1

LEMMA PlainExtras ==
  ASSUME NEW call \in Calls, call.nr \in Extras \ {"clone", "clone3"}
  PROVE  call = Call(call.nr, "")
<1>1. call.nr \notin DOMAIN Arguments
  BY ConditionedNumbers DEF Extras, NET_EXTRA, FORK_SERVER_EXTRA, FS_EXTRA, DEVICE_EXTRA
<1> QED BY <1>1, ACallIsItsNumber

LEMMA ContentWithholds ==
  ASSUME NEW names \in SUBSET FilterName, "content" \in names, NEW call \in Escalations
  PROVE  Hears(names, call) # "allow"
<1>1. Answer(FilterNamed["content"], call) # "allow"
  <2>1. call.nr \notin BASELINE \ Gated(FALSE)
    BY BaselineWithholds, BaselineWithholds DEF Gated
  <2> QED BY <2>1, EscalationsAreCalls, ConditionsWithhold, ContentAnswers
<1> QED BY <1>1, EscalationsAreCalls, StackPasses

LEMMA Grants ==
  /\ Granted("net") = Plain(NET_EXTRA)
  /\ Granted("filesystem") = Plain(FS_EXTRA)
  /\ Granted("device") = Plain(DEVICE_EXTRA)
  /\ Granted("forkserver") = Plain(FORK_SERVER_EXTRA \ {"clone", "clone3"})
                             \cup {Call("clone", "fork"), Call("fcntl", "DUPFD_CLOEXEC")}
<1>1. Granted("net") = Plain({"socket", "socketpair", "connect", "getsockopt",
                              "setsockopt", "getsockname", "getpeername"})
  BY Zenon DEF Granted
<1>2. Granted("filesystem") = Plain({"open", "openat"})
  BY Zenon DEF Granted
<1>3. Granted("device") = Plain({"open", "openat", "ioctl"})
  BY Zenon DEF Granted
<1>4. Granted("forkserver") = Plain({"fork", "wait4", "prctl", "seccomp",
                                     "set_robust_list", "set_tid_address"})
                              \cup {Call("clone", "fork"), Call("fcntl", "DUPFD_CLOEXEC")}
  BY Zenon DEF Granted
<1>5. /\ {"open", "openat"} = FS_EXTRA /\ {"open", "openat", "ioctl"} = DEVICE_EXTRA
      /\ {"fork", "wait4", "prctl", "seccomp", "set_robust_list", "set_tid_address"}
           = FORK_SERVER_EXTRA \ {"clone", "clone3"}
  BY DEF FS_EXTRA, DEVICE_EXTRA, FORK_SERVER_EXTRA
<1> QED BY <1>1, <1>2, <1>3, <1>4, <1>5 DEF NET_EXTRA

LEMMA HelpersWithhold ==
  ASSUME NEW role \in {"net", "filesystem", "device"}, NEW names \in SUBSET FilterName,
         role \in names, NEW call \in Escalations \ Granted(role)
  PROVE  Hears(names, call) # "allow"
<1> DEFINE extra == IF role = "net" THEN NET_EXTRA
                    ELSE IF role = "filesystem" THEN FS_EXTRA ELSE DEVICE_EXTRA
<1>1. Granted(role) = Plain(extra) /\ extra \subseteq Extras \ {"clone", "clone3"}
  BY Grants DEF Extras, NET_EXTRA, FS_EXTRA, DEVICE_EXTRA
<1>2. call \in Calls
  BY EscalationsAreCalls
<1>3. call.nr \notin extra
  <2> SUFFICES ASSUME call.nr \in extra
               PROVE  FALSE
    OBVIOUS
  <2>1. call = Call(call.nr, "")
    BY <1>1, <1>2, PlainExtras
  <2>2. call \in Plain(extra)
    BY <2>1 DEF Plain
  <2> QED BY <1>1, <2>2
<1>4. call.nr \notin (BASELINE \cup extra) \ Gated(FALSE)
  BY <1>3, BaselineWithholds
<1>5. Answer(FilterNamed[role], call) =
        IF call.nr \in (BASELINE \cup extra) \ Gated(FALSE) \/ call \in Conditions(FALSE, FALSE)
          THEN "allow" ELSE "trap"
  BY <1>2, NetAnswers, FileAnswers, DeviceAnswers
<1>6. Answer(FilterNamed[role], call) # "allow"
  BY <1>4, <1>5, ConditionsWithhold
<1> QED BY <1>2, <1>6, StackPasses

(* The fork server's own filter lets clone3 through, whatever its flags:   *)
(* the one below it answers.                                               *)
LEMMA ForkServerWithholds ==
  ASSUME NEW names \in SUBSET FilterName, {"enosys", "forkserver"} \subseteq names,
         NEW call \in Escalations \ Granted("forkserver")
  PROVE  Hears(names, call) # "allow"
<1>1. call \in Calls /\ "enosys" \in FilterName /\ "forkserver" \in FilterName
  BY EscalationsAreCalls
<1>2. CASE call.nr = "clone3"
  <2>1. Answer(FilterNamed["enosys"], call) # "allow"
    BY <1>1, <1>2, EnosysAnswers
  <2> QED BY <1>1, <2>1, StackPasses
<1>3. CASE call.nr # "clone3"
  <2>1. call.nr \notin (BASELINE \cup FORK_SERVER_EXTRA) \ Gated(TRUE)
    <3> SUFFICES ASSUME call.nr \in (BASELINE \cup FORK_SERVER_EXTRA) \ Gated(TRUE)
                 PROVE  FALSE
      OBVIOUS
    <3>1. call.nr \in (BASELINE \cup FORK_SERVER_EXTRA) \ Gated(FALSE) /\ call.nr # "clone"
      BY DEF Gated
    <3>2. call.nr \in FORK_SERVER_EXTRA \ {"clone", "clone3"}
      BY <1>3, <3>1, BaselineWithholds
    <3>3. call = Call(call.nr, "")
      BY <1>1, <3>2, PlainExtras DEF Extras
    <3>4. call \in Plain(FORK_SERVER_EXTRA \ {"clone", "clone3"})
      BY <3>2, <3>3 DEF Plain
    <3> QED BY <3>4, Grants
  <2>2. call \notin Conditions(TRUE, TRUE)
    <3>1. Conditions(TRUE, TRUE) \subseteq
            Conditions(FALSE, FALSE) \cup {Call("fcntl", "DUPFD_CLOEXEC"), Call("clone", "fork")}
      BY DEF Conditions, FcntlAllowed
    <3> QED BY <3>1, ConditionsWithhold, Grants
  <2>3. Answer(FilterNamed["forkserver"], call) # "allow"
    BY <1>1, <2>1, <2>2, ForkServerAnswers
  <2> QED BY <1>1, <2>3, StackPasses
<1> QED BY <1>2, <1>3

-----------------------------------------------------------------------------
(* What the invariant comes to.                                            *)

LEMMA ServersAreConfined == Inv /\ Domains => Confined
<1> SUFFICES ASSUME Inv, Domains, NEW p \in {"forkserver", "helper"} \cup Content,
                    pc[p] \in {"serving", "wedged"}
             PROVE  /\ \A call \in Escalations \ Granted(Role(p)) : Hears(filters[p], call) # "allow"
                    /\ host.landlock =>
                         /\ scope["broker"] # {} /\ scope["broker"] \subseteq scope[p]
                         /\ Role(p) = "filesystem" /\ "own files" \notin failed =>
                              "own files" \in scope[p]
  BY DEF Confined
<1>5. host.landlock => scope["broker"] # {} /\ scope["broker"] \subseteq scope[p]
  <2>1. p \in Living \ {"broker"}
    BY Names DEF Living, Alive, Dead
  <2> QED BY <2>1 DEF Domains
<1>1. filters[p] \in SUBSET FilterName
  BY Names DEF Inv, TypeOK
<1>2. CASE p \in Content
  <2>1. "content" \in filters[p] /\ Role(p) # "filesystem"
    BY <1>2 DEF Inv, Stacks, TypeOK, Role
  <2> QED BY <1>1, <1>5, <2>1, ContentWithholds
<1>3. CASE p = "forkserver"
  <2>1. Role(p) = "forkserver" /\ pc["forkserver"] = "serving"
    BY <1>3, Names DEF Role, Inv, TypeOK, Where, Dead
  <2>2. {"enosys", "forkserver"} \subseteq filters[p]
    BY <1>3, <2>1 DEF Inv, Stacks
  <2> QED BY <1>1, <1>5, <2>1, <2>2, ForkServerWithholds
<1>4. CASE p = "helper"
  <2>1. Role(p) = helper /\ pc["helper"] = "serving"
    BY <1>4, Names DEF Role, Inv, TypeOK, Where, Dead
  <2>2. helper \in HelperRole /\ HelperFilter \in filters[p]
    BY <1>4, <2>1, Hosts DEF Inv, TypeOK, Births, HelperStack
  <2>3. Role(p) = "filesystem" /\ host.landlock /\ "own files" \notin failed =>
          "own files" \in scope[p]
    BY <1>4, <2>1 DEF Inv, HelperStack
  <2>4. CASE helper = "vault"
    BY <1>1, <1>5, <2>1, <2>2, <2>3, <2>4, ContentWithholds DEF HelperFilter
  <2>5. CASE helper # "vault"
    BY <1>1, <1>5, <2>1, <2>2, <2>3, <2>5, HelpersWithhold DEF HelperFilter, HelperRole
  <2> QED BY <2>4, <2>5
<1> QED BY <1>2, <1>3, <1>4

(* The canary lived, so the placeholder, under the same filters, did not   *)
(* trap; and while the fork server serves nobody else ends it.             *)
LEMMA PlaceholderHolds == Inv => NamespaceHeld
<1> SUFFICES ASSUME Inv, pc["forkserver"] = "serving", "placeholder" \notin failed
             PROVE  pid1 \in {"none", "init"}
  BY DEF NamespaceHeld
<1>1. pc["canary"] = "exited"
  BY DEF Inv, Births
<1>2. pc["init"] # "trapped"
  <2> SUFFICES ASSUME pc["init"] = "trapped"
               PROVE  FALSE
    OBVIOUS
  <2>1. filters["init"] = filters["canary"]
    BY <1>1 DEF Inv, Stacks
  <2> QED BY <1>1, <2>1 DEF Inv, Verdicts
<1>3. pid1 \notin {"fresh", "gone", "canary"} \cup Content
  BY <1>2 DEF Inv, Pinned, Dead
<1> QED BY <1>3, Names DEF Inv, TypeOK

(* Type correctness.                                                       *)
THEOREM ProcessesTypes == Spec => []TypeOK
<1>1. Inv => TypeOK
  BY DEF Inv
<1> QED BY <1>1, Invariance, PTL

(* With a C library the lists were written for nobody dies of its own      *)
(* filters, and with any other no renderer and no decoder does             *)
(* (linux.rs:147-223, 386-400, 899-906): what a child of fork() inherits,  *)
(* its canary was under.                                                   *)
THEOREM NobodyDiesOfItsFilters == Spec => []NobodyTraps
<1>1. Inv => NobodyTraps
  BY DEF Inv
<1> QED BY <1>1, Invariance, PTL

(* A process that serves can do nothing beyond its role, whatever it       *)
(* inherited (linux.rs:1-29).                                              *)
THEOREM ServersStayConfined == Spec => []Confined
BY ServersAreConfined, Invariance, DomainsHold, PTL

(* Where memory can be bounded every content process is born bounded       *)
(* (linux.rs:713-718).                                                     *)
THEOREM ContentStaysBounded == Spec => []ContentBounded
<1>1. Inv => ContentBounded
  BY DEF Inv
<1> QED BY <1>1, Invariance, PTL

(* The namespace stands as long as the fork server serves                  *)
(* (fork_server.rs:129-143).                                               *)
THEOREM NamespaceStands == Spec => []NamespaceHeld
BY PlaceholderHolds, Invariance, PTL
=============================================================================
