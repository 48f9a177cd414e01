----------------------------- MODULE ParsecRun -----------------------------
(***************************************************************************)
(* configs/run_parsec.py: a benchmark boots on one set of CPUs and runs    *)
(* its region of interest on another.  The script makes the system, then   *)
(* calls m5.simulate() three times; the guest ends each call with a cause  *)
(* of its own.  The code between two calls is one step.  The system is     *)
(* that of ClassicSystem.                                                  *)
(***************************************************************************)
EXTENDS Integers, Sequences, SequencesExt, FiniteSets

CONSTANTS
  MaxCpus,     \* systems of 1..MaxCpus CPUs
  CpuTypes,    \* values of the script's argument cpu
  MaxTicks     \* bound on the length of one call of m5.simulate()

ASSUME RunAssumption ==
  MaxCpus \in Nat \ {0} /\ CpuTypes \subseteq STRING /\ MaxTicks \in Nat

VARIABLES
  args, step, links, cpu, detailedCpu, memMode, queue, firmware,
              \* the system, as in ClassicSystem
  phase,      \* where the script is
  quantum,    \* whether root.sim_quantum is set
  tick,       \* m5.curTick()
  insts,      \* instructions run by each set of CPUs
  start,      \* start_tick and start_insts
  end,        \* end_tick and end_insts
  stats,      \* the periods counted since the statistics were reset
  dumps,      \* what the statistics covered when they were dumped
  spent       \* the length of each period

System == INSTANCE ClassicSystem WITH addr <- <<"memory", 0>>, route <- << >>

sysVars == <<args, step, links, cpu, detailedCpu, memMode, queue, firmware>>
runVars == <<quantum, tick, insts, start, end, stats, dumps, spent>>
vars == <<sysVars, phase, runVars>>

Arguments ==
  [script : {"MySystem"}, type : CpuTypes, cpus : 1..MaxCpus, no_kvm : {TRUE}]

\* The two sets of CPUs, and the periods: the phases in which the guest runs.
CpuSets == {"cpu", "detailedCpu"}
Periods == {"boot", "roi", "rest"}

Zero == [tick |-> 0, insts |-> 0]

Init ==
  /\ System!InitWith(Arguments)
  /\ phase = "start"
  /\ quantum = FALSE
  /\ tick = 0 /\ insts = [s \in CpuSets |-> 0]
  /\ start = Zero /\ end = Zero
  /\ stats = {} /\ dumps = << >>
  /\ spent = [p \in Periods |-> 0]

-----------------------------------------------------------------------------
(* Making the system.                                                      *)

CheckArguments ==
  /\ phase = "start"
  /\ phase' = IF args.type \in {"kvm", "timing"} THEN "construct" ELSE "fatal"
  /\ UNCHANGED <<sysVars, runVars>>

Construct ==
  /\ phase = "construct"
  /\ System!Build
  /\ phase' = IF step' = "built" THEN "prepare" ELSE phase
  /\ UNCHANGED runVars

\* Up to the first call of simulate(); totalInsts() sums over self.cpu only.
Now(t, i) == [tick |-> t, insts |-> i["cpu"]]

Prepare_NoQuantum ==
  /\ phase = "prepare"
  /\ phase' = "boot"
  /\ start' = Now(tick, insts) /\ end' = Now(tick, insts)
  /\ stats' = {}
  /\ UNCHANGED <<sysVars, quantum, tick, insts, dumps, spent>>
Prepare ==
  /\ phase = "prepare"
  /\ phase' = "boot"
  /\ quantum' = System!HostParallel
  /\ start' = Now(tick, insts) /\ end' = Now(tick, insts)
  /\ stats' = {}
  /\ UNCHANGED <<sysVars, tick, insts, dumps, spent>>

-----------------------------------------------------------------------------
(* m5.simulate() and m5.switchCpus() (gem5).                               *)

Running == IF cpu.out THEN "detailedCpu" ELSE "cpu"

\* The CPUs that are switched in run for a while, an instruction a tick.
Simulate(d) ==
  /\ tick' = tick + d
  /\ insts' = [insts EXCEPT ![Running] = @ + d]
  /\ spent' = [spent EXCEPT ![phase] = d]

ModeOf(model) ==
  CASE model = "AtomicSimpleCPU" -> "atomic"
    [] model = "X86KvmCPU" -> "atomic_noncaching"
    [] OTHER -> "timing"

CpuPorts == {"icache_port", "dcache_port", "itb_walker", "dtb_walker"}

\* The new CPUs take over the peers of the old ones.
Moved_CachesOnly(p) ==
  IF p[1] = "cpu" /\ p[3] \in {"icache_port", "dcache_port"}
  THEN <<"detailedCpu", p[2], p[3]>> ELSE p
Moved(p) ==
  IF p[1] = "cpu" /\ p[3] \in CpuPorts THEN <<"detailedCpu", p[2], p[3]>> ELSE p

\* switchCpus(self.cpu, self.detailedCpu)
SwitchCpus_SameMode ==
  /\ detailedCpu.out
  /\ cpu' = [model |-> cpu.model, out |-> TRUE]
  /\ detailedCpu' = [model |-> detailedCpu.model, out |-> FALSE]
  /\ links' = {<<Moved(l[1]), Moved(l[2])>> : l \in links}
  /\ UNCHANGED <<args, step, memMode, queue, firmware>>
SwitchCpus ==
  /\ detailedCpu.out
  /\ cpu' = [model |-> cpu.model, out |-> TRUE]
  /\ detailedCpu' = [model |-> detailedCpu.model, out |-> FALSE]
  /\ memMode' = ModeOf(detailedCpu.model)
  /\ links' = {<<Moved(l[1]), Moved(l[2])>> : l \in links}
  /\ UNCHANGED <<args, step, queue, firmware>>

-----------------------------------------------------------------------------
(* The three calls of simulate(), each with what follows it.               *)

WorkBegin_KeepsStart(d) ==
  /\ phase = "boot"
  /\ Simulate(d)
  /\ stats' = {}
  /\ IF args.type = "timing" THEN SwitchCpus ELSE UNCHANGED sysVars
  /\ phase' = "roi"
  /\ UNCHANGED <<quantum, start, end, dumps>>
WorkBegin_KeepsStatistics(d) ==
  /\ phase = "boot"
  /\ Simulate(d)
  /\ stats' = {"boot"}
  /\ start' = Now(tick', insts')
  /\ IF args.type = "timing" THEN SwitchCpus ELSE UNCHANGED sysVars
  /\ phase' = "roi"
  /\ UNCHANGED <<quantum, end, dumps>>
WorkBegin(d) ==
  /\ phase = "boot"
  /\ Simulate(d)
  /\ stats' = {}
  /\ start' = Now(tick', insts')
  /\ IF args.type = "timing" THEN SwitchCpus ELSE UNCHANGED sysVars
  /\ phase' = "roi"
  /\ UNCHANGED <<quantum, end, dumps>>

DumpAndReset(p) ==
  /\ dumps' = Append(dumps, stats \cup {p})
  /\ end' = Now(tick', insts')
  /\ stats' = {}

\* Any other cause: the guest stopped before its region.
BootFails(d) ==
  /\ phase = "boot"
  /\ Simulate(d)
  /\ DumpAndReset("boot")
  /\ phase' = "exited"
  /\ UNCHANGED <<sysVars, quantum, start>>

\* With the timing CPUs the script asks for system.timingCpu, which nobody has
\* made: AttributeError.
WorkEnd(d) ==
  /\ phase = "roi"
  /\ Simulate(d)
  /\ DumpAndReset("roi")
  /\ phase' = IF args.type = "timing" THEN "error" ELSE "rest"
  /\ UNCHANGED <<sysVars, quantum, start>>

\* Any other cause: the guest stopped inside its region.
RoiFails(d) ==
  /\ phase = "roi"
  /\ Simulate(d)
  /\ DumpAndReset("roi")
  /\ phase' = "exited"
  /\ UNCHANGED <<sysVars, quantum, start>>

\* The script given to the guest: it ends the last call of simulate() itself, after
\* the benchmark and a pause for its output.
BenchScript ==
  <<"cd parsec-benchmark", "source env.sh", "parsecmgmt", "sleep", "m5 exit">>

Rest(d) ==
  /\ phase = "rest"
  /\ "m5 exit" \in ToSet(BenchScript)
  /\ Simulate(d)
  /\ stats' = stats \cup {"rest"}
  /\ phase' = "done"
  /\ UNCHANGED <<sysVars, quantum, start, end, dumps>>

Over == phase \in {"done", "exited", "fatal", "error"}

Stop == Over /\ UNCHANGED vars

Step ==
  \/ CheckArguments \/ Construct \/ Prepare
  \/ \E d \in 1..MaxTicks :
       WorkBegin(d) \/ BootFails(d) \/ WorkEnd(d) \/ RoiFails(d) \/ Rest(d)

Next == Step \/ Stop

Spec == Init /\ [][Next]_vars /\ WF_vars(Step)

-----------------------------------------------------------------------------
(* Properties.                                                             *)

Times == [tick : Nat, insts : Nat]
Cpu ==
  [model : {"none", "AtomicSimpleCPU", "X86KvmCPU", "DerivO3CPU", "TimingSimpleCPU"},
   out : BOOLEAN]

TypeOK ==
  /\ args \in Arguments
  /\ phase \in {"start", "construct", "prepare", "boot", "roi", "rest", "done",
                "exited", "fatal", "error"}
  /\ cpu \in Cpu /\ detailedCpu \in Cpu
  /\ quantum \in BOOLEAN
  /\ tick \in Nat
  /\ insts \in [CpuSets -> Nat]
  /\ start \in Times /\ end \in Times
  /\ stats \subseteq Periods
  /\ dumps \in Seq(SUBSET Periods)
  /\ spent \in [Periods -> Nat]

Simulating == phase \in Periods

\* While the guest runs, exactly one of the two sets of CPUs is switched in, the
\* memory works in the mode of that set, and only a run with the timing CPUs ever
\* leaves the set it has booted on.
OneSetRuns ==
  Simulating =>
    LET running == IF cpu.out THEN detailedCpu ELSE cpu
    IN /\ cpu.out # detailedCpu.out
       /\ memMode = ModeOf(running.model)
       /\ cpu.out => args.type = "timing" /\ phase = "roi"

\* The L1 caches and the walkers' bus are at the ports of the set that runs, on each
\* of its CPUs, and the other set has none.
PortsFollow ==
  Simulating =>
    {l[1] : l \in {m \in links : m[1][1] \in {"cpu", "detailedCpu"}}}
      = {<<Running, i, p>> : i \in 0..args.cpus-1, p \in CpuPorts}

\* No simulation with several event queues without the quantum they need, no two
\* CPUs in one queue then, and none in the queue of the caches and devices.
QueuesApart ==
  Simulating /\ (\E i \in DOMAIN queue : queue[i] # 0) =>
    /\ quantum
    /\ \A i, j \in DOMAIN queue : queue[i] # 0 /\ (queue[i] = queue[j] => i = j)

\* Instructions reported of a region are those run in it, as long as the run stays
\* on the CPUs it has booted on.  (With the timing CPUs the count stands still:
\* totalInsts looks at self.cpu.)
InstructionsOfRegion ==
  phase \in {"rest", "done"} => end.insts - start.insts = spent["roi"]

\* The script implements the measurement: the time and the statistics it reports of
\* a region are those of the region and of nothing before or after it.
Stage ==
  CASE phase = "roi" -> "inside"
    [] phase \in {"rest", "done", "error"} \/ (phase = "exited" /\ spent["roi"] # 0) -> "after"
    [] phase = "exited" /\ spent["roi"] = 0 -> "aborted"
    [] OTHER -> "before"

Reported ==
  IF Stage = "after" THEN <<end.tick - start.tick, Last(dumps)>> ELSE << >>

Measurement ==
  INSTANCE RoiMeasurement
    WITH stage <- Stage, length <- spent["roi"], report <- Reported

Measures == Measurement!MSpec

\* "Simulate the remaning part of the benchmark": no run ends in an error of the
\* script instead.
RestIsReached == phase # "error"
=============================================================================
