-------------------------- MODULE ParsecRunProofs --------------------------
(***************************************************************************)
(* Theorems about ParsecRun, for any number of CPUs, any values of the     *)
(* argument cpu and any lengths of the calls of simulate().                *)
(***************************************************************************)
EXTENDS ParsecRun, TLAPS

-----------------------------------------------------------------------------
(* Types.                                                                  *)

LEMMA TypeInit == Init => TypeOK
  <1> SUFFICES ASSUME Init PROVE TypeOK
    OBVIOUS
  <1>1. args \in Arguments /\ cpu \in Cpu /\ detailedCpu \in Cpu
    BY DEF Init, System!InitWith, System!NoCpu, Cpu
  <1>2. insts \in [CpuSets -> Nat] /\ spent \in [Periods -> Nat]
    BY DEF Init
  <1>3. start \in Times /\ end \in Times
    BY DEF Init, Zero, Times
  <1>4. dumps \in Seq(SUBSET Periods)
    BY DEF Init
  <1> QED BY <1>1, <1>2, <1>3, <1>4 DEF Init, TypeOK

LEMMA BuildKeepsTypes ==
  ASSUME TypeOK, System!Build PROVE cpu' \in Cpu /\ detailedCpu' \in Cpu /\ args' = args
  <1>1. CASE System!CreateCPU
    <2>1. args' = args
      BY <1>1 DEF System!CreateCPU, System!Make
    <2>2. cpu' \in Cpu
      BY <1>1 DEF System!CreateCPU, Cpu
    <2>3. detailedCpu' \in Cpu
      BY <1>1 DEF System!CreateCPU, Cpu, System!DetailedModel
    <2> QED BY <2>1, <2>2, <2>3
  <1>2. CASE System!DbrcL1
    <2>1. args' = args /\ detailedCpu' = detailedCpu
      BY <1>2 DEF System!DbrcL1, System!Make
    <2>2. cpu' \in Cpu
      BY <1>2 DEF System!DbrcL1, Cpu
    <2> QED BY <2>1, <2>2 DEF TypeOK
  <1>3. CASE ~System!CreateCPU /\ ~System!DbrcL1
    BY <1>3 DEF System!Build, System!Make, TypeOK, System!CreateMembus, System!InitFS,
          System!CreateCacheHierarchy, System!SetupInterrupts,
          System!CreateMemoryControllers, System!SetEventQueues, System!DbrcL2,
          System!DbrcInterrupts, System!DbrcMemory
  <1> QED BY <1>1, <1>2, <1>3

LEMMA SimulateKeepsTypes ==
  ASSUME TypeOK, NEW d \in 1..MaxTicks, Simulate(d), Simulating
  PROVE  tick' \in Nat /\ insts' \in [CpuSets -> Nat] /\ spent' \in [Periods -> Nat]
  <1>1. d \in Nat
    BY RunAssumption
  <1>2. Running \in CpuSets
    BY DEF Running, CpuSets
  <1> QED BY <1>1, <1>2 DEF TypeOK, Simulate, Simulating

LEMMA NowIsATime ==
  ASSUME NEW t \in Nat, NEW i \in [CpuSets -> Nat] PROVE Now(t, i) \in Times
  BY DEF Now, Times, CpuSets

LEMMA SwitchKeepsTypes ==
  ASSUME TypeOK, SwitchCpus PROVE cpu' \in Cpu /\ detailedCpu' \in Cpu /\ args' = args
  BY DEF TypeOK, SwitchCpus, Cpu

LEMMA TypeNext == TypeOK /\ [Next]_vars => TypeOK'
  <1> SUFFICES ASSUME TypeOK, [Next]_vars PROVE TypeOK'
    OBVIOUS
  <1> USE DEF TypeOK
  <1>1. CASE CheckArguments
    BY <1>1 DEF CheckArguments, sysVars, runVars
  <1>2. CASE Construct
    BY <1>2, BuildKeepsTypes DEF Construct, runVars
  <1>3. CASE Prepare
    BY <1>3, NowIsATime DEF Prepare, System!HostParallel, sysVars
  <1>4. ASSUME NEW d \in 1..MaxTicks, WorkBegin(d) PROVE TypeOK'
    BY <1>4, SimulateKeepsTypes, SwitchKeepsTypes, NowIsATime
    DEF WorkBegin, Simulating, Periods, sysVars
  <1>5. ASSUME NEW d \in 1..MaxTicks, BootFails(d) \/ WorkEnd(d) \/ RoiFails(d)
        PROVE  TypeOK'
    <2>1. tick' \in Nat /\ insts' \in [CpuSets -> Nat] /\ spent' \in [Periods -> Nat]
      BY <1>5, SimulateKeepsTypes DEF BootFails, WorkEnd, RoiFails, Simulating, Periods
    <2>2. PICK p \in Periods : DumpAndReset(p)
      BY <1>5 DEF BootFails, WorkEnd, RoiFails, Periods
    <2>3. end' \in Times /\ stats' \subseteq Periods
      BY <2>1, <2>2, NowIsATime DEF DumpAndReset
    <2>4. stats \cup {p} \in SUBSET Periods
      OBVIOUS
    <2>5. dumps' \in Seq(SUBSET Periods)
      BY <2>2, <2>4 DEF DumpAndReset
    <2> QED BY <1>5, <2>1, <2>3, <2>5 DEF BootFails, WorkEnd, RoiFails, sysVars
  <1>6. ASSUME NEW d \in 1..MaxTicks, Rest(d) PROVE TypeOK'
    BY <1>6, SimulateKeepsTypes DEF Rest, Simulating, Periods, sysVars
  <1>7. CASE UNCHANGED vars
    BY <1>7 DEF vars, sysVars, runVars
  <1> QED BY <1>1, <1>2, <1>3, <1>4, <1>5, <1>6, <1>7 DEF Next, Step, Stop

\* Ticks, counts, dumps and CPUs keep to their types in every run.
THEOREM RunKeepsItsTypes == Spec => []TypeOK
  BY TypeInit, TypeNext, PTL DEF Spec

-----------------------------------------------------------------------------
(* Which CPUs there are, and which of them run.                            *)

AfterCpus ==
  {"createCacheHierarchy", "setupInterrupts", "createMemoryControllers", "eventq",
   "built"}

\* The CPUs as MySystem makes them for the script, and as switchCpus leaves them.
Made ==
  /\ cpu = [model |-> "AtomicSimpleCPU", out |-> FALSE]
  /\ detailedCpu.out
  /\ args.type = "timing" => detailedCpu.model = "TimingSimpleCPU"
  /\ memMode = "atomic"

Switched ==
  /\ args.type = "timing"
  /\ cpu.out /\ ~detailedCpu.out
  /\ detailedCpu.model = "TimingSimpleCPU"
  /\ memMode = "timing"

Arrangement ==
  /\ phase \notin {"start", "fatal"} => args.type \in {"kvm", "timing"}
  /\ phase \in {"start", "construct"} =>
       step \in {"membus", "initFS", "createCPU"} \/ (step \in AfterCpus /\ Made)
  /\ phase \in {"prepare", "boot"} => Made
  /\ phase = "roi" => IF args.type = "timing" THEN Switched ELSE Made
  /\ phase = "rest" => args.type # "timing" /\ Made

LEMMA ArrangementInit == Init => Arrangement
  BY DEF Init, Arrangement, System!InitWith, System!FullSystem, Arguments

LEMMA ArrangementConstruct ==
  ASSUME TypeOK, Arrangement, Construct PROVE Arrangement'
  <1> args' = args /\ args.no_kvm /\ args.type \in {"kvm", "timing"}
    BY BuildKeepsTypes DEF Construct, TypeOK, Arguments, Arrangement
  <1>1. CASE System!CreateCPU
    <2>1. step' = "createCacheHierarchy"
      BY <1>1 DEF System!CreateCPU, System!Make, System!DetailedModel
    <2>2. Made'
      BY <1>1 DEF System!CreateCPU, System!DetailedModel, Made
    <2>3. phase' = "construct"
      BY <2>1 DEF Construct
    <2> QED BY <2>1, <2>2, <2>3 DEF Arrangement, AfterCpus
  <1>2. CASE step \in {"membus", "initFS"} /\ System!Build
    <2>1. step' \in {"initFS", "createCPU"}
      BY <1>2 DEF System!Build, System!Make, System!CreateMembus, System!InitFS,
            System!CreateCPU,
            System!CreateCacheHierarchy, System!SetupInterrupts,
            System!CreateMemoryControllers, System!SetEventQueues, System!DbrcL1,
            System!DbrcL2, System!DbrcInterrupts, System!DbrcMemory
    <2>2. phase' = "construct"
      BY <2>1 DEF Construct
    <2> QED BY <2>1, <2>2 DEF Arrangement
  <1>3. CASE step \in AfterCpus /\ System!Build
    <2>1. step' \in AfterCpus /\ UNCHANGED <<cpu, detailedCpu, memMode>>
      BY <1>3 DEF AfterCpus, System!Build, System!Make, System!CreateMembus,
            System!InitFS, System!CreateCPU,
            System!CreateCacheHierarchy, System!SetupInterrupts,
            System!CreateMemoryControllers, System!SetEventQueues, System!DbrcL1,
            System!DbrcL2, System!DbrcInterrupts, System!DbrcMemory
    <2>2. Made'
      BY <1>3, <2>1 DEF Arrangement, Made, Construct, AfterCpus
    <2>3. phase' \in {"construct", "prepare"}
      BY DEF Construct
    <2> QED BY <2>1, <2>2, <2>3 DEF Arrangement
  <1>4. step = "createCPU" /\ System!Build => System!CreateCPU
    BY DEF System!Build, System!Make, System!CreateMembus, System!InitFS,
            System!CreateCacheHierarchy, System!SetupInterrupts,
            System!CreateMemoryControllers, System!SetEventQueues, System!DbrcL1,
            System!DbrcL2, System!DbrcInterrupts, System!DbrcMemory
  <1> QED BY <1>1, <1>2, <1>3, <1>4 DEF Construct, Arrangement

LEMMA ArrangementNext ==
  TypeOK /\ Arrangement /\ [Next]_vars => Arrangement'
  <1> SUFFICES ASSUME TypeOK, Arrangement, [Next]_vars PROVE Arrangement'
    OBVIOUS
  <1> USE DEF Arrangement, Made, Switched
  <1>1. CASE CheckArguments
    BY <1>1 DEF CheckArguments, sysVars
  <1>2. CASE Construct
    BY <1>2, ArrangementConstruct
  <1>3. CASE Prepare
    BY <1>3 DEF Prepare, sysVars
  <1>4. ASSUME NEW d \in 1..MaxTicks, WorkBegin(d) PROVE Arrangement'
    <2>1. CASE args.type = "timing"
      BY <1>4, <2>1 DEF WorkBegin, SwitchCpus, ModeOf
    <2>2. CASE args.type # "timing"
      BY <1>4, <2>2 DEF WorkBegin, sysVars
    <2> QED BY <2>1, <2>2
  <1>5. ASSUME NEW d \in 1..MaxTicks, BootFails(d) \/ WorkEnd(d) \/ RoiFails(d) \/ Rest(d)
        PROVE  Arrangement'
    BY <1>5 DEF BootFails, WorkEnd, RoiFails, Rest, sysVars
  <1>6. CASE UNCHANGED vars
    BY <1>6 DEF vars, sysVars
  <1> QED BY <1>1, <1>2, <1>3, <1>4, <1>5, <1>6 DEF Next, Step, Stop

LEMMA ArrangementSafe == TypeOK /\ Arrangement => OneSetRuns
  BY DEF TypeOK, Arrangement, Made, Switched, OneSetRuns, Simulating, Periods, ModeOf, Cpu

\* One set of CPUs runs at a time, in its own memory mode, and only a run with the
\* timing CPUs leaves the set it has booted on.
THEOREM OneSetOfCpusRuns == Spec => []OneSetRuns
  BY TypeInit, TypeNext, ArrangementInit, ArrangementNext, ArrangementSafe, PTL DEF Spec

-----------------------------------------------------------------------------
(* Event queues.                                                           *)

Queues ==
  /\ DOMAIN queue = 0..args.cpus-1
  /\ \/ \A i \in DOMAIN queue : queue[i] = 0
     \/ \A i \in DOMAIN queue : queue[i] = i + 1
  /\ phase \in {"start", "construct", "prepare"} \/ quantum \/ args.type # "kvm"
  /\ args.type = "kvm" \/ \A i \in DOMAIN queue : queue[i] = 0

LEMMA QueuesInit == Init => Queues
  BY DEF Init, Queues, System!InitWith, System!Cpus

LEMMA BuildQueues ==
  ASSUME TypeOK, Queues, System!Build
  PROVE  /\ DOMAIN queue' = 0..args.cpus-1
         /\ \/ \A i \in DOMAIN queue' : queue'[i] = 0
            \/ \A i \in DOMAIN queue' : queue'[i] = i + 1
         /\ args.type = "kvm" \/ \A i \in DOMAIN queue' : queue'[i] = 0
  <1>1. CASE System!SetEventQueues
    BY <1>1 DEF System!SetEventQueues, System!HostParallel, System!Cpus, Queues
  <1>2. CASE ~System!SetEventQueues
    <2>1. queue' = queue
      BY <1>2 DEF System!Build, System!CreateMembus, System!InitFS, System!CreateCPU,
          System!CreateCacheHierarchy, System!SetupInterrupts,
          System!CreateMemoryControllers, System!DbrcL1,
          System!DbrcL2, System!DbrcInterrupts, System!DbrcMemory
    <2> QED BY <2>1 DEF Queues
  <1> QED BY <1>1, <1>2

LEMMA QueuesNext == TypeOK /\ Queues /\ [Next]_vars => Queues'
  <1> SUFFICES ASSUME TypeOK, Queues, [Next]_vars PROVE Queues'
    OBVIOUS
  <1>1. CASE CheckArguments
    BY <1>1 DEF CheckArguments, sysVars, runVars, Queues
  <1>2. CASE Construct
    BY <1>2, BuildKeepsTypes, BuildQueues DEF Construct, runVars, Queues
  <1>3. CASE Prepare
    BY <1>3 DEF Prepare, sysVars, System!HostParallel, Queues
  <1>4. ASSUME NEW d \in 1..MaxTicks,
               WorkBegin(d) \/ BootFails(d) \/ WorkEnd(d) \/ RoiFails(d) \/ Rest(d)
        PROVE  Queues'
    <2>1. phase \notin {"start", "construct", "prepare"}
      BY <1>4 DEF WorkBegin, BootFails, WorkEnd, RoiFails, Rest
    <2>2. UNCHANGED <<args, queue, quantum>>
      BY <1>4 DEF WorkBegin, SwitchCpus, BootFails, WorkEnd, RoiFails, Rest, sysVars
    <2> QED BY <2>1, <2>2 DEF Queues
  <1>5. CASE UNCHANGED vars
    BY <1>5 DEF vars, sysVars, runVars, Queues
  <1> QED BY <1>1, <1>2, <1>3, <1>4, <1>5 DEF Next, Step, Stop

LEMMA QueuesSafe == TypeOK /\ Queues => QueuesApart
  <1> SUFFICES ASSUME TypeOK, Queues, Simulating,
                      NEW k \in DOMAIN queue, queue[k] # 0
               PROVE  /\ quantum
                      /\ \A i, j \in DOMAIN queue :
                           queue[i] # 0 /\ (queue[i] = queue[j] => i = j)
    BY DEF QueuesApart
  <1>1. quantum
    BY DEF Queues, Simulating, Periods
  <1>2. \A i \in DOMAIN queue : i \in Nat /\ queue[i] = i + 1
    BY DEF Queues
  <1>3. \A i, j \in DOMAIN queue : queue[i] # 0 /\ (queue[i] = queue[j] => i = j)
    BY <1>2
  <1> QED BY <1>1, <1>3

\* No run simulates with several event queues without the quantum they need, and no
\* two CPUs share a queue then.
THEOREM EventQueuesApart == Spec => []QueuesApart
  BY TypeInit, TypeNext, QueuesInit, QueuesNext, QueuesSafe, PTL DEF Spec

-----------------------------------------------------------------------------
(* The measurement.                                                        *)

Accounts ==
  /\ phase \in {"start", "construct", "prepare", "boot"} =>
       spent["roi"] = 0 /\ spent["rest"] = 0 /\ dumps = << >>
  /\ phase = "roi" =>
       /\ spent["roi"] = 0 /\ dumps = << >> /\ stats = {}
       /\ start = Now(tick, insts)
  /\ phase = "boot" => stats = {}
  /\ phase = "exited" /\ spent["roi"] # 0 => dumps # << >>

LEMMA AccountsInit == Init => Accounts
  BY DEF Init, Accounts, Periods

LEMMA SimulateSpends ==
  ASSUME TypeOK, NEW d \in 1..MaxTicks, Simulate(d), Simulating
  PROVE  \A p \in Periods : spent'[p] = IF p = phase THEN d ELSE spent[p]
  BY DEF TypeOK, Simulate, Simulating

LEMMA AppendIsNotEmpty ==
  ASSUME NEW S, NEW s \in Seq(S), NEW x
  PROVE  Append(s, x) # << >>
  <1>1. Len(Append(s, x)) = Len(s) + 1 /\ Len(s) \in Nat
    OBVIOUS
  <1>2. Len(<< >>) = 0
    OBVIOUS
  <1> QED BY <1>1, <1>2

LEMMA AccountsNext == TypeOK /\ Accounts /\ [Next]_vars => Accounts'
  <1> SUFFICES ASSUME TypeOK, Accounts, [Next]_vars PROVE Accounts'
    OBVIOUS
  <1> USE DEF Accounts
  <1>1. CASE CheckArguments
    BY <1>1 DEF CheckArguments, runVars
  <1>2. CASE Construct
    BY <1>2 DEF Construct, runVars
  <1>3. CASE Prepare
    BY <1>3 DEF Prepare
  <1>4. ASSUME NEW d \in 1..MaxTicks, WorkBegin(d) PROVE Accounts'
    BY <1>4, SimulateSpends DEF WorkBegin, Simulating, Periods
  <1>5. ASSUME NEW d \in 1..MaxTicks, BootFails(d) PROVE Accounts'
    BY <1>5, SimulateSpends DEF BootFails, Simulating, Periods
  <1>6. ASSUME NEW d \in 1..MaxTicks, RoiFails(d) PROVE Accounts'
    <2>1. dumps' # << >>
      <3>1. dumps \in Seq(SUBSET Periods)
        BY DEF TypeOK
      <3>2. dumps' = Append(dumps, stats \cup {"roi"})
        BY <1>6 DEF RoiFails, DumpAndReset
      <3> QED BY ONLY <3>1, <3>2, AppendIsNotEmpty
    <2> QED BY <1>6, <2>1 DEF RoiFails
  <1>7. ASSUME NEW d \in 1..MaxTicks, WorkEnd(d) \/ Rest(d) PROVE Accounts'
    BY <1>7 DEF WorkEnd, Rest
  <1>8. CASE UNCHANGED vars
    BY <1>8 DEF vars, runVars
  <1> QED BY <1>1, <1>2, <1>3, <1>4, <1>5, <1>6, <1>7, <1>8 DEF Next, Step, Stop

\* How the steps of the script map to those of the measurement.
LEMMA MeasurementInit == Init => Measurement!MInit
  BY DEF Init, Measurement!MInit, Stage, Reported, Periods

LEMMA BeforeTheRegion ==
  ASSUME Accounts, phase \in {"start", "construct", "prepare", "boot"},
         Accounts', phase' \in {"start", "construct", "prepare", "boot", "fatal"},
         spent' = spent
  PROVE  UNCHANGED Measurement!mvars
  BY DEF Measurement!mvars, Stage, Reported, Accounts

LEMMA RegionIsLeft ==
  ASSUME TypeOK, Accounts, NEW d \in 1..MaxTicks,
         phase = "roi", Simulate(d), DumpAndReset("roi"), UNCHANGED start,
         Stage' = "after"
  PROVE  Measurement!Leave
  <1>1. spent'["roi"] = d /\ d \in Nat
    BY SimulateSpends, RunAssumption DEF Simulating, Periods
  <1>2. end'.tick - start'.tick = d
    BY RunAssumption DEF DumpAndReset, Now, Simulate, Accounts, TypeOK
  <1>3. Last(dumps') = {"roi"}
    <2>1. dumps' = <<{"roi"}>>
      BY DEF DumpAndReset, Accounts
    <2> QED BY <2>1 DEF Last
  <1>4. Reported' = <<d, {"roi"}>>
    BY <1>2, <1>3 DEF Reported
  <1>5. Stage = "inside"
    BY DEF Stage
  <1> QED BY <1>1, <1>4, <1>5 DEF Measurement!Leave

LEMMA MeasurementNext ==
  ASSUME TypeOK, Accounts, Accounts', [Next]_vars
  PROVE  [Measurement!MNext]_(Measurement!mvars)
  <1>1. CASE CheckArguments
    <2>1. phase' \in {"construct", "fatal"} /\ phase = "start" /\ spent' = spent
      BY <1>1 DEF CheckArguments, runVars
    <2> QED BY <2>1, BeforeTheRegion
  <1>2. CASE Construct
    BY <1>2, BeforeTheRegion DEF Construct, runVars
  <1>3. CASE Prepare
    BY <1>3, BeforeTheRegion DEF Prepare
  <1>4. ASSUME NEW d \in 1..MaxTicks, WorkBegin(d) PROVE Measurement!Enter
    BY <1>4 DEF WorkBegin, Measurement!Enter, Stage, Reported, Accounts
  <1>5. ASSUME NEW d \in 1..MaxTicks, BootFails(d) PROVE Measurement!Abort
    <2>1. spent'["roi"] = 0 /\ spent["roi"] = 0
      BY <1>5, SimulateSpends DEF BootFails, Simulating, Periods, Accounts
    <2> QED BY <1>5, <2>1 DEF BootFails, Measurement!Abort, Stage, Reported
  <1>6. ASSUME NEW d \in 1..MaxTicks, WorkEnd(d) PROVE Measurement!Leave
    <2>1. Stage' = "after"
      BY <1>6 DEF WorkEnd, Stage
    <2> QED BY <1>6, <2>1, RegionIsLeft DEF WorkEnd
  <1>7. ASSUME NEW d \in 1..MaxTicks, RoiFails(d) PROVE Measurement!Leave
    <2>1. spent'["roi"] = d /\ d # 0
      BY <1>7, SimulateSpends DEF RoiFails, Simulating, Periods
    <2>2. Stage' = "after"
      BY <1>7, <2>1 DEF RoiFails, Stage
    <2> QED BY <1>7, <2>2, RegionIsLeft DEF RoiFails
  <1>8. ASSUME NEW d \in 1..MaxTicks, Rest(d) PROVE UNCHANGED Measurement!mvars
    <2>1. spent'["roi"] = spent["roi"]
      BY <1>8, SimulateSpends DEF Rest, Simulating, Periods
    <2> QED BY <1>8, <2>1 DEF Rest, Measurement!mvars, Stage, Reported
  <1>9. CASE UNCHANGED vars
    BY <1>9 DEF vars, runVars, Measurement!mvars, Stage, Reported
  <1> QED BY <1>1, <1>2, <1>3, <1>4, <1>5, <1>6, <1>7, <1>8, <1>9
      DEF Next, Step, Stop, Measurement!MNext

\* Whatever the CPUs and however long the guest runs, the time and the statistics
\* reported of the region are its own, and it is entered at most once.
THEOREM RegionIsMeasured == Spec => Measures
  BY TypeInit, TypeNext, AccountsInit, AccountsNext, MeasurementInit, MeasurementNext, PTL
  DEF Spec, Measures, Measurement!MSpec

-----------------------------------------------------------------------------
(* Instructions.                                                           *)

Counted ==
  /\ phase = "roi" => start.insts = insts["cpu"]
  /\ phase \in {"rest", "done"} => end.insts - start.insts = spent["roi"]

LEMMA CountedInit == Init => Counted
  BY DEF Init, Counted

LEMMA CountedNext ==
  TypeOK /\ Arrangement /\ Accounts /\ Counted /\ [Next]_vars => Counted'
  <1> SUFFICES ASSUME TypeOK, Arrangement, Accounts, Counted, [Next]_vars PROVE Counted'
    OBVIOUS
  <1>1. CASE CheckArguments
    BY <1>1 DEF CheckArguments, Counted
  <1>2. CASE Construct
    BY <1>2 DEF Construct, Counted
  <1>3. CASE Prepare
    BY <1>3 DEF Prepare, Counted
  <1>4. ASSUME NEW d \in 1..MaxTicks, WorkBegin(d) PROVE Counted'
    BY <1>4 DEF WorkBegin, Now, Counted
  <1>5. ASSUME NEW d \in 1..MaxTicks, BootFails(d) \/ RoiFails(d) PROVE Counted'
    BY <1>5 DEF BootFails, RoiFails, Counted
  <1>6. ASSUME NEW d \in 1..MaxTicks, WorkEnd(d) PROVE Counted'
    <2>1. CASE args.type = "timing"
      BY <1>6, <2>1 DEF WorkEnd, Counted
    <2>2. CASE args.type # "timing"
      <3>1. spent'["roi"] = d /\ d \in Nat
        BY <1>6, SimulateSpends, RunAssumption DEF WorkEnd, Simulating, Periods
      <3>2. Running = "cpu"
        BY <1>6, <2>2 DEF WorkEnd, Running, Arrangement, Made
      <3>3. insts'["cpu"] = insts["cpu"] + d /\ insts["cpu"] \in Nat
        BY <1>6, <3>2 DEF WorkEnd, Simulate, TypeOK, CpuSets
      <3>4. end'.insts = insts["cpu"] + d /\ start'.insts = insts["cpu"]
        BY <1>6, <3>3 DEF WorkEnd, DumpAndReset, Now, Counted
      <3> QED BY <1>6, <3>1, <3>3, <3>4 DEF WorkEnd, Counted
    <2> QED BY <2>1, <2>2
  <1>7. ASSUME NEW d \in 1..MaxTicks, Rest(d) PROVE Counted'
    <2>1. spent'["roi"] = spent["roi"]
      BY <1>7, SimulateSpends DEF Rest, Simulating, Periods
    <2> QED BY <1>7, <2>1 DEF Rest, Counted
  <1>8. CASE UNCHANGED vars
    BY <1>8 DEF vars, runVars, Counted
  <1> QED BY <1>1, <1>2, <1>3, <1>4, <1>5, <1>6, <1>7, <1>8 DEF Next, Step, Stop

\* The instructions reported of a region are those run in it, on any number of CPUs.
THEOREM InstructionsAreOfTheRegion == Spec => []InstructionsOfRegion
  <1>1. Counted => InstructionsOfRegion
    BY DEF Counted, InstructionsOfRegion
  <1> QED BY <1>1, TypeInit, TypeNext, ArrangementInit, ArrangementNext, AccountsInit,
          AccountsNext, CountedInit, CountedNext, PTL DEF Spec

-----------------------------------------------------------------------------
(* The links of the CPUs.                                                  *)

CpuSide(L) == {l[1] : l \in {m \in L : m[1][1] \in {"cpu", "detailedCpu"}}}

PortsOf(set) == {<<set, i, p>> : i \in 0..args.cpus-1, p \in CpuPorts}

OnCpu(p) == p[1] \in {"cpu", "detailedCpu"}

LEMMA InCpuSide ==
  ASSUME NEW L, NEW x
  PROVE  x \in CpuSide(L) <=> \E l \in L : OnCpu(l[1]) /\ x = l[1]
  BY Zenon DEF CpuSide, OnCpu

LEMMA CpuSideOfUnion ==
  ASSUME NEW A, NEW B PROVE CpuSide(A \cup B) = CpuSide(A) \cup CpuSide(B)
  <1>1. ASSUME NEW x PROVE x \in CpuSide(A \cup B) <=> x \in CpuSide(A) \cup CpuSide(B)
    <2>1. x \in CpuSide(A \cup B) <=> \E l \in A \cup B : OnCpu(l[1]) /\ x = l[1]
      BY InCpuSide, Zenon
    <2>2. x \in CpuSide(A) <=> \E l \in A : OnCpu(l[1]) /\ x = l[1]
      BY InCpuSide, Zenon
    <2>3. x \in CpuSide(B) <=> \E l \in B : OnCpu(l[1]) /\ x = l[1]
      BY InCpuSide, Zenon
    <2> QED BY <2>1, <2>2, <2>3, Zenon
  <1> QED BY <1>1, Zenon

LEMMA NoCpuSide ==
  ASSUME NEW L, \A l \in L : ~OnCpu(l[1]) PROVE CpuSide(L) = {}
  BY InCpuSide, Zenon

LEMMA CpuSideIs ==
  ASSUME NEW L, NEW S,
         \A l \in L : OnCpu(l[1]) => l[1] \in S,
         \A p \in S : \E l \in L : OnCpu(l[1]) /\ p = l[1]
  PROVE  CpuSide(L) = S
  <1>1. ASSUME NEW x PROVE x \in CpuSide(L) <=> x \in S
    <2>1. x \in CpuSide(L) <=> \E l \in L : OnCpu(l[1]) /\ x = l[1]
      BY ONLY InCpuSide, Zenon
    <2>2. CASE x \in S
      BY <2>1, <2>2, Zenon
    <2>3. CASE x \in CpuSide(L)
      <3>1. PICK l \in L : OnCpu(l[1]) /\ x = l[1]
        BY <2>1, <2>3, Zenon
      <3> QED BY <2>3, <3>1
    <2> QED BY <2>2, <2>3
  <1> QED BY <1>1, Zenon

CacheLinksOf(i) ==
  System!L1ICacheLinks(i) \cup System!L1DCacheLinks(i) \cup System!MMUCacheLinks(i)
    \cup System!L2CacheLinks(i)

LEMMA CacheLinksSide ==
  CpuSide(UNION {CacheLinksOf(i) : i \in System!Cpus}) = PortsOf("cpu")
  <1> DEFINE All == UNION {CacheLinksOf(i) : i \in System!Cpus}
  <1>1. ASSUME NEW l \in All, OnCpu(l[1]) PROVE l[1] \in PortsOf("cpu")
    <2>1. PICK i \in System!Cpus : l \in CacheLinksOf(i)
      BY <1>1, Zenon
    <2>2. PICK p \in CpuPorts : l[1] = <<"cpu", i, p>>
      <3>1. CASE l \in System!L1ICacheLinks(i) \cup System!L1DCacheLinks(i)
        BY <1>1, <3>1 DEF System!L1ICacheLinks, System!L1DCacheLinks, System!Port, OnCpu, CpuPorts
      <3>2. CASE l \in System!MMUCacheLinks(i)
        BY <1>1, <3>2 DEF System!MMUCacheLinks, System!Port, OnCpu, CpuPorts
      <3>3. CASE l \in System!L2CacheLinks(i)
        BY <1>1, <3>3 DEF System!L2CacheLinks, System!Port, OnCpu
      <3> QED BY <2>1, <3>1, <3>2, <3>3 DEF CacheLinksOf
    <2> QED BY <2>2 DEF PortsOf, System!Cpus
  <1>2. ASSUME NEW q \in PortsOf("cpu") PROVE \E l \in All : OnCpu(l[1]) /\ q = l[1]
    <2>1. PICK i \in System!Cpus, p \in CpuPorts : q = <<"cpu", i, p>>
      BY DEF PortsOf, System!Cpus
    <2>2. OnCpu(q)
      BY <2>1 DEF OnCpu
    <2>3. \E l \in CacheLinksOf(i) : l[1] = q
      <3>1. CASE p = "icache_port"
        <4>1. <<System!Port("cpu", i, "icache_port"), System!Port("icache", i, "cpu_side")>>
                \in CacheLinksOf(i)
          BY DEF CacheLinksOf, System!L1ICacheLinks
        <4> QED BY <4>1, <3>1, <2>1 DEF System!Port
      <3>2. CASE p = "dcache_port"
        <4>1. <<System!Port("cpu", i, "dcache_port"), System!Port("dcache", i, "cpu_side")>>
                \in CacheLinksOf(i)
          BY DEF CacheLinksOf, System!L1DCacheLinks
        <4> QED BY <4>1, <3>2, <2>1 DEF System!Port
      <3>3. CASE p \in {"itb_walker", "dtb_walker"}
        <4>1. <<System!Port("cpu", i, p), System!Port("mmubus", i, "cpu_side_ports")>>
                \in CacheLinksOf(i)
          BY <3>3 DEF CacheLinksOf, System!MMUCacheLinks
        <4> QED BY <4>1, <3>3, <2>1 DEF System!Port
      <3> QED BY <3>1, <3>2, <3>3 DEF CpuPorts
    <2>4. CacheLinksOf(i) \subseteq All
      BY Zenon
    <2> QED BY <2>2, <2>3, <2>4, Zenon
  <1> HIDE DEF All
  <1>3. CpuSide(All) = PortsOf("cpu")
    BY <1>1, <1>2, CpuSideIs, Zenon
  <1> QED BY <1>3 DEF All

\* The links the other methods make have no CPU at their first end.
LEMMA InterruptLinksSide ==
  \A i : \A l \in System!InterruptLinks(i) : ~OnCpu(l[1])
  BY DEF System!InterruptLinks, System!MembusOut, System!MembusIn, System!Port, OnCpu

LEMMA DeviceLinksSide ==
  \A l \in System!Bridges \cup System!AttachIO({}) \cup System!IocacheLinks : ~OnCpu(l[1])
  <1>1. ASSUME NEW l \in System!Bridges PROVE ~OnCpu(l[1])
    BY DEF System!Bridges, System!IobusOut, System!MembusOut, System!Port, OnCpu
  <1>2. ASSUME NEW l \in System!AttachIO({}) PROVE ~OnCpu(l[1])
    BY DEF System!AttachIO, System!IobusOut, System!IoApic, System!IdeDma, System!Port, OnCpu
  <1>3. ASSUME NEW l \in System!IocacheLinks PROVE ~OnCpu(l[1])
    BY DEF System!IocacheLinks, System!IobusOut, System!Port, OnCpu
  <1> QED BY <1>1, <1>2, <1>3, Zenon

LEMMA MovedSide ==
  ASSUME CpuSide(links) = PortsOf("cpu"), SwitchCpus
  PROVE  CpuSide(links') = PortsOf("detailedCpu")
  <1> DEFINE S == PortsOf("detailedCpu")
  <1> DEFINE Pair(l) == <<Moved(l[1]), Moved(l[2])>>
  <1>1. links' = {Pair(l) : l \in links}
    BY DEF SwitchCpus
  <1>2. ASSUME NEW l \in links, OnCpu(l[1])
        PROVE  \E i \in 0..args.cpus-1, p \in CpuPorts :
                 l[1] = <<"cpu", i, p>> /\ Moved(l[1]) = <<"detailedCpu", i, p>>
    <2>1. l[1] \in PortsOf("cpu")
      BY <1>2, InCpuSide, Zenon
    <2>2. PICK i \in 0..args.cpus-1, p \in CpuPorts : l[1] = <<"cpu", i, p>>
      BY <2>1 DEF PortsOf
    <2>3. Moved(l[1]) = <<"detailedCpu", i, p>>
      BY <2>2 DEF Moved
    <2> QED BY <2>2, <2>3
  <1>3. ASSUME NEW m \in links', OnCpu(m[1]) PROVE m[1] \in S
    <2>1. PICK l \in links : m = Pair(l)
      BY <1>1
    <2>2. m[1] = Moved(l[1])
      BY <2>1
    <2>3. OnCpu(l[1])
      BY <1>3, <2>2 DEF Moved, OnCpu
    <2> QED BY <1>2, <2>2, <2>3 DEF PortsOf
  <1>4. ASSUME NEW q \in S PROVE \E m \in links' : OnCpu(m[1]) /\ q = m[1]
    <2>1. PICK i \in 0..args.cpus-1, p \in CpuPorts : q = <<"detailedCpu", i, p>>
      BY DEF PortsOf
    <2>2. <<"cpu", i, p>> \in CpuSide(links)
      BY DEF PortsOf
    <2>3. PICK l \in links : <<"cpu", i, p>> = l[1]
      BY <2>2, InCpuSide, Zenon
    <2>4. Moved(l[1]) = q
      BY <2>1, <2>3 DEF Moved
    <2>5. Pair(l) \in links' /\ Pair(l)[1] = q
      BY <1>1, <2>4
    <2>6. OnCpu(q)
      BY <2>1 DEF OnCpu
    <2> QED BY <2>5, <2>6
  <1> HIDE DEF S, Pair
  <1>5. CpuSide(links') = S
    BY <1>3, <1>4, CpuSideIs, Zenon
  <1> QED BY <1>5 DEF S

BeforeLinks == {"membus", "initFS", "createCPU", "createCacheHierarchy"}
AfterLinks == {"setupInterrupts", "createMemoryControllers", "eventq", "built"}

\* Where the CPUs' links are, while the system is made and while it runs.
CpuLinks ==
  /\ phase \in {"start", "construct"} =>
       \/ step \in BeforeLinks /\ CpuSide(links) = {}
       \/ step \in AfterLinks /\ CpuSide(links) = PortsOf("cpu")
  /\ phase \in {"prepare", "boot", "rest"} => CpuSide(links) = PortsOf("cpu")
  /\ phase = "roi" => CpuSide(links) = PortsOf(Running)

LEMMA CpuLinksInit == Init => CpuLinks
  <1> SUFFICES ASSUME Init PROVE CpuLinks
    OBVIOUS
  <1>1. links = {} /\ step = "membus" /\ phase = "start"
    BY DEF Init, System!InitWith, System!FullSystem, Arguments
  <1>2. CpuSide(links) = {}
    BY <1>1, NoCpuSide
  <1> QED BY <1>1, <1>2 DEF CpuLinks, BeforeLinks

LEMMA BuildLinks ==
  ASSUME TypeOK, CpuLinks, Construct,
         args.type \in {"kvm", "timing"}
  PROVE  \/ step' \in BeforeLinks /\ CpuSide(links') = {}
         \/ step' \in AfterLinks /\ CpuSide(links') = PortsOf("cpu")
  <1> USE DEF BeforeLinks, AfterLinks
  <1>0. phase = "construct" /\ System!Build
    BY DEF Construct
  <1>1. ASSUME NEW new, \A l \in new : ~OnCpu(l[1]), links' = links \cup new
        PROVE  CpuSide(links') = CpuSide(links)
    BY <1>1, CpuSideOfUnion, NoCpuSide
  <1>2. CASE System!CreateMembus
    <2> DEFINE new ==
          {<<System!Port("membus", 0, "default"), System!Port("badaddr", 0, "pio")>>,
           <<System!Port("system", 0, "system_port"), System!MembusIn>>}
    <2>1. links' = links \cup new
      BY <1>2 DEF System!CreateMembus, System!Make
    <2>2. step = "membus" /\ step' = "initFS"
      BY <1>2 DEF System!CreateMembus, System!Make
    <2>3. \A l \in new : ~OnCpu(l[1])
      BY DEF System!Port, OnCpu
    <2> HIDE DEF new
    <2>4. CpuSide(links') = CpuSide(links)
      BY <1>1, <2>1, <2>3
    <2> QED BY <1>0, <2>2, <2>4 DEF CpuLinks
  <1>3. CASE System!InitFS
    <2>1. links' = links \cup (System!Bridges \cup System!AttachIO({}) \cup System!IocacheLinks)
      BY <1>3 DEF System!InitFS, System!Make
    <2>2. step = "initFS" /\ step' = "createCPU"
      BY <1>3 DEF System!InitFS, System!Make
    <2>3. CpuSide(links') = CpuSide(links)
      BY <1>1, <2>1, DeviceLinksSide
    <2> QED BY <1>0, <2>2, <2>3 DEF CpuLinks
  <1>4. CASE System!CreateCPU
    <2>1. step = "createCPU" /\ step' = "createCacheHierarchy" /\ links' = links
      BY <1>4 DEF System!CreateCPU, System!Make, System!DetailedModel
    <2> QED BY <1>0, <2>1 DEF CpuLinks
  <1>5. CASE System!CreateCacheHierarchy
    <2>1. links' = links \cup UNION {CacheLinksOf(i) : i \in System!Cpus}
      BY <1>5 DEF System!CreateCacheHierarchy, System!Make, CacheLinksOf
    <2>2. step = "createCacheHierarchy" /\ step' = "setupInterrupts"
      BY <1>5 DEF System!CreateCacheHierarchy, System!Make
    <2>3. CpuSide(links') = CpuSide(links) \cup PortsOf("cpu")
      BY <2>1, CpuSideOfUnion, CacheLinksSide
    <2> QED BY <1>0, <2>2, <2>3 DEF CpuLinks
  <1>6. CASE System!SetupInterrupts
    <2> DEFINE new == UNION {System!InterruptLinks(i) : i \in System!Cpus}
    <2>1. links' = links \cup new
      BY <1>6 DEF System!SetupInterrupts, System!Make
    <2>2. step = "setupInterrupts" /\ step' = "createMemoryControllers"
      BY <1>6 DEF System!SetupInterrupts, System!Make
    <2>3. \A l \in new : ~OnCpu(l[1])
      BY InterruptLinksSide, Zenon
    <2> HIDE DEF new
    <2>4. CpuSide(links') = CpuSide(links)
      BY <1>1, <2>1, <2>3
    <2> QED BY <1>0, <2>2, <2>4 DEF CpuLinks
  <1>7. CASE System!CreateMemoryControllers
    <2> DEFINE new == {<<System!MembusOut, System!Port("mem_cntrl", 0, "port")>>}
    <2>1. links' = links \cup new
      BY <1>7 DEF System!CreateMemoryControllers, System!Make
    <2>2. step = "createMemoryControllers" /\ step' = "eventq"
      BY <1>7 DEF System!CreateMemoryControllers, System!Make
    <2>3. \A l \in new : ~OnCpu(l[1])
      BY DEF System!MembusOut, System!Port, OnCpu
    <2> HIDE DEF new
    <2>4. CpuSide(links') = CpuSide(links)
      BY <1>1, <2>1, <2>3
    <2> QED BY <1>0, <2>2, <2>4 DEF CpuLinks
  <1>8. CASE System!SetEventQueues
    <2>1. step = "eventq" /\ step' = "built" /\ links' = links
      BY <1>8 DEF System!SetEventQueues, System!Make
    <2> QED BY <1>0, <2>1 DEF CpuLinks
  <1>9. ~(System!DbrcL1 \/ System!DbrcL2 \/ System!DbrcInterrupts \/ System!DbrcMemory)
    BY <1>0 DEF System!DbrcL1, System!DbrcL2, System!DbrcInterrupts, System!DbrcMemory,
         System!Make, CpuLinks
  <1> QED BY <1>0, <1>2, <1>3, <1>4, <1>5, <1>6, <1>7, <1>8, <1>9 DEF System!Build

LEMMA CpuLinksNext ==
  TypeOK /\ Arrangement /\ CpuLinks /\ [Next]_vars => CpuLinks'
  <1> SUFFICES ASSUME TypeOK, Arrangement, CpuLinks, [Next]_vars PROVE CpuLinks'
    OBVIOUS
  <1>0. ASSUME args' = args PROVE \A s : PortsOf(s)' = PortsOf(s)
    BY <1>0 DEF PortsOf
  <1>1. CASE CheckArguments
    BY <1>1 DEF CheckArguments, sysVars, CpuLinks, CpuSide, PortsOf
  <1>2. CASE Construct
    <2>1. args.type \in {"kvm", "timing"} /\ args' = args
      BY <1>2, BuildKeepsTypes DEF Construct, Arrangement
    <2>2. \/ step' \in BeforeLinks /\ CpuSide(links)' = {}
          \/ step' \in AfterLinks /\ CpuSide(links)' = PortsOf("cpu")'
      BY <1>2, <2>1, BuildLinks DEF CpuSide, PortsOf
    <2>3. phase' = "construct" \/ (phase' = "prepare" /\ step' = "built")
      BY <1>2 DEF Construct
    <2> QED BY <2>2, <2>3 DEF CpuLinks, BeforeLinks
  <1>3. CASE Prepare
    BY <1>3 DEF Prepare, sysVars, CpuLinks, CpuSide, PortsOf
  <1>4. ASSUME NEW d \in 1..MaxTicks, WorkBegin(d) PROVE CpuLinks'
    <2>1. CASE args.type = "timing"
      <3>1. SwitchCpus /\ phase' = "roi" /\ CpuSide(links) = PortsOf("cpu")
        BY <1>4, <2>1 DEF WorkBegin, CpuLinks
      <3>2. CpuSide(links') = PortsOf("detailedCpu")
        BY <3>1, MovedSide
      <3>3. args' = args /\ Running' = "detailedCpu"
        BY <3>1 DEF SwitchCpus, Running
      <3>4. CpuSide(links)' = PortsOf(Running)'
        BY <3>2, <3>3 DEF CpuSide, PortsOf
      <3> QED BY <3>1, <3>4 DEF CpuLinks
    <2>2. CASE args.type # "timing"
      <3>1. UNCHANGED <<args, links, cpu>> /\ phase = "boot" /\ phase' = "roi"
        BY <1>4, <2>2 DEF WorkBegin, sysVars
      <3>2. Running' = "cpu"
        BY <3>1 DEF Running, Arrangement, Made
      <3> QED BY <3>1, <3>2 DEF CpuLinks, CpuSide, PortsOf
    <2> QED BY <2>1, <2>2
  <1>5. ASSUME NEW d \in 1..MaxTicks, WorkEnd(d) PROVE CpuLinks'
    <2>1. UNCHANGED <<args, links, cpu>> /\ phase = "roi" /\ phase' \in {"error", "rest"}
      BY <1>5 DEF WorkEnd, sysVars
    <2>2. phase' = "rest" => Running = "cpu"
      BY <1>5 DEF WorkEnd, Running, Arrangement, Made
    <2> QED BY <2>1, <2>2 DEF CpuLinks, CpuSide, PortsOf
  <1>6. ASSUME NEW d \in 1..MaxTicks, BootFails(d) \/ RoiFails(d) \/ Rest(d) PROVE CpuLinks'
    BY <1>6 DEF BootFails, RoiFails, Rest, CpuLinks
  <1>7. CASE UNCHANGED vars
    BY <1>7 DEF vars, sysVars, CpuLinks, CpuSide, PortsOf, Running
  <1> QED BY <1>1, <1>2, <1>3, <1>4, <1>5, <1>6, <1>7 DEF Next, Step, Stop

LEMMA CpuLinksSafe == Arrangement /\ CpuLinks => PortsFollow
  <1> SUFFICES ASSUME Arrangement, CpuLinks, Simulating
               PROVE  CpuSide(links) = PortsOf(Running)
    BY DEF PortsFollow, CpuSide, PortsOf
  <1>1. CASE phase = "roi"
    BY <1>1 DEF CpuLinks
  <1>2. CASE phase \in {"boot", "rest"}
    BY <1>2 DEF CpuLinks, Arrangement, Made, Running
  <1> QED BY <1>1, <1>2 DEF Simulating, Periods

\* On any number of CPUs, the caches and the walkers' bus are at the ports of the set
\* that runs, and the other set has none.
THEOREM PortsFollowTheRunningSet == Spec => []PortsFollow
  BY TypeInit, TypeNext, ArrangementInit, ArrangementNext, CpuLinksInit, CpuLinksNext,
     CpuLinksSafe, PTL DEF Spec
=============================================================================
