----------------------------- MODULE MachineGates ----------------------------
(***************************************************************************)
(* crates/bench-env: what a machine is read to be, which class that makes  *)
(* it, which gates it is asked and what it may produce.  A machine is      *)
(*   [os, arch, cpu, online, allowed, memory, under, governor, switch,     *)
(*    boosting]                                                            *)
(* where online is how many processors run, allowed the ones this process  *)
(* may use, under what it runs on, governor the clock setting its system   *)
(* shows of each processor, if any, which on Windows is one scheme for all,*)
(* switch the file the kernel shows boost in, and boosting whether the     *)
(* part really boosts.  What it does is [available, load, busy].  An       *)
(* Option, and a Setting, is a set of at most one reading.  Memory is      *)
(* counted in gibibytes and load in hundredths.                            *)
(***************************************************************************)
EXTENDS Integers

MemoryFloor == 2

\* The kernel's own account of boost: each of its two files says the opposite
\* of the other, and a machine that may not change it shows neither.
NoTurboFile(m) ==
  IF m.switch = "intel_pstate" THEN {IF m.boosting THEN "0" ELSE "1"} ELSE {}
BoostFile(m) ==
  IF m.switch = "cpufreq" THEN {IF m.boosting THEN "1" ELSE "0"} ELSE {}

\* turbo: only Linux has the files, and the one of intel_pstate comes first.
Turbo(m) ==
  IF m.os # "linux" THEN {}
  ELSE IF NoTurboFile(m) # {}
    THEN {IF digit = "1" THEN "off" ELSE "on" : digit \in NoTurboFile(m)}
    ELSE {IF digit = "1" THEN "on" ELSE "off" : digit \in BoostFile(m)}

\* hypervisor: WSL before any other guest, and nothing is guessed off Linux.
Hypervisor(m) == IF m.os = "linux" THEN m.under ELSE "unknown"

\* governor: the cpufreq governor of the first processor, whichever a run may
\* use, or the power scheme.
Governor(m) == IF m.os \in {"linux", "windows"} THEN m.governor[0] ELSE {}

\* affinity: Cpus_allowed_list, where there is a status file to list it.
Affinity(m) == IF m.os = "linux" THEN {m.allowed} ELSE {}

\* Facts::read
Facts(m) ==
  [os |-> m.os, arch |-> m.arch, cpu |-> m.cpu, cpus |-> m.online, memory |-> m.memory,
   hypervisor |-> Hypervisor(m), governor |-> Governor(m), turbo |-> Turbo(m),
   affinity |-> Affinity(m)]

\* Conditions::observe: Windows keeps no load average.
Observe(m, doing) == [doing EXCEPT !.load = IF m.os = "windows" THEN {} ELSE @]

\* classify: the processor is asked before what is under it.
Classify(facts) ==
  IF facts.os = "macos" /\ facts.arch = "aarch64" THEN "D"
  ELSE IF facts.cpu = "i9-13900K" THEN "B"
  ELSE IF facts.cpu = "EPYC" /\ facts.hypervisor # "none" THEN "A"
  ELSE IF facts.os = "linux" /\ facts.arch = "aarch64" THEN "C"
  ELSE "unknown"

\* Permit, weakest first.
Weaker(p, q) == <<p, q>> \in
  {<<"nothing", "ratios">>, <<"nothing", "durations">>, <<"ratios", "durations">>}

\* A slip in Ceiling: a setting that cannot be read is taken to be right.
Ceiling_TakesItOnTrust(facts) ==
  CASE Classify(facts) = "B" -> IF facts.hypervisor = "wsl" THEN "ratios" ELSE "durations"
    [] Classify(facts) = "C" -> "ratios"
    [] OTHER -> "nothing"

\* ceiling and workstation_ceiling: what cannot be read has not been checked.
Ceiling(facts) ==
  CASE Classify(facts) = "B" ->
         IF /\ facts.hypervisor # "wsl"
            /\ facts.governor # {} /\ facts.turbo # {} /\ facts.affinity # {}
           THEN "durations" ELSE "ratios"
    [] Classify(facts) = "C" -> "ratios"
    [] OTHER -> "nothing"

GateOf(name, passed) == [name |-> name, passed |-> passed]

MemoryHeadroom(facts, doing) ==
  LET quarter == facts.memory \div 4 IN
  GateOf("memory-headroom",
       doing.available >= IF quarter > MemoryFloor THEN quarter ELSE MemoryFloor)
BusyProcesses(doing) == GateOf("busy-processes", doing.busy = 0)
\* A fifth of a processor each.
LoadAverage(facts, doing) ==
  {GateOf("load-average", 5 * load <= 100 * facts.cpus) : load \in doing.load}

\* workstation_gates: one for each setting there is a reading of.
SteadyScheme(facts, governor) ==
  IF facts.os = "windows"
    THEN governor \in {"High performance", "Ultimate Performance"}
    ELSE governor = "performance"
\* What is compared are lists as they are written, "0-3" for four processors,
\* and a list of one is never written "0-0".
Pinned(facts, allowed) == allowed # {} /\ (facts.cpus = 1 \/ allowed # 0..(facts.cpus - 1))
WorkstationGates(facts) ==
  {GateOf(IF facts.os = "windows" THEN "power-scheme" ELSE "frequency-governor",
        SteadyScheme(facts, governor)) : governor \in facts.governor}
  \cup {GateOf("turbo", turbo = "off") : turbo \in facts.turbo}
  \cup {GateOf("core-pinning", Pinned(facts, allowed)) : allowed \in facts.affinity}

GateSet(facts, doing) ==
  {MemoryHeadroom(facts, doing), BusyProcesses(doing)}
  \cup LoadAverage(facts, doing)
  \cup IF Classify(facts) = "B" THEN WorkstationGates(facts) ELSE {}

\* Capture::of
CaptureOf(m, doing) ==
  [facts |-> Facts(m), ceiling |-> Ceiling(Facts(m)),
   gates |-> GateSet(Facts(m), Observe(m, doing))]

\* Capture::failed and Capture::permits: one failed gate leaves nothing.
GateFailed(capture) == \E gate \in capture.gates : ~gate.passed
Permits(capture) == IF GateFailed(capture) THEN "nothing" ELSE capture.ceiling

\* Capture::require: the gates first, then the ceiling.
Require(capture, asked) ==
  CASE GateFailed(capture) -> "gate"
    [] ~GateFailed(capture) /\ Weaker(capture.ceiling, asked) -> "ceiling"
    [] OTHER -> "ok"

\* hash: what the machine is, with the class, and nothing it was doing.
Hash(capture) == <<Classify(capture.facts), capture.facts>>

=============================================================================
