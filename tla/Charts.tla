------------------------------- MODULE Charts -------------------------------
(***************************************************************************)
(* What msu makes of snapshots of /proc/stat, /proc/softirqs,               *)
(* /proc/net/softnet_stat, ps and the drop counters in sysfs: the series   *)
(* of -cpu-compare and -report (cmd/msu/cpu_compare.go, net_dev.go), the   *)
(* table of -command "cat /proc/stat" (proc_stat.go) and the averages per  *)
(* rate step of -report (report.go).                                       *)
(*                                                                         *)
(* The host below counts what it does; CPUs are taken offline and come     *)
(* back, qemu processes start, end and reuse PIDs, the interface comes and *)
(* goes, and the machine reboots, which resets every counter, while the    *)
(* capture goes on.  A snapshot takes all outputs at once: each series is  *)
(* made of the outputs of one command.                                     *)
(***************************************************************************)
EXTENDS Integers, SequencesExt

CONSTANTS
    CPUs,       \* possible CPUs, numbers from 0
    Modes,      \* what CPUs spend time on
    VMs,        \* PIDs that qemu processes get
    MaxSnaps,   \* bound: snapshots
    MaxEvents   \* bound: events on the host, failed readings among them
                \* (no two series are made of the same output, so the events
                \* of a behaviour are all of one scene)

Fields  == {"user", "idle", "iowait", "softirq", "guest"}  \* of procStatFields
Cmds    == {"stat", "softirqs", "softnet", "ps", "sysfs"}
Missing == "missing"  \* no sample: the file was not there to be collected
Nothing == <<>>       \* a sample without output
All     == -1         \* the line "cpu" of /proc/stat, the sum of all CPUs

Scenes == {"cpu", "net", "vm", "drops"}

ASSUME ChartsAssumption ==
    /\ Modes \subseteq Fields
    /\ IsFiniteSet(CPUs) /\ CPUs # {} /\ CPUs = 0 .. Cardinality(CPUs) - 1
    /\ MaxSnaps \in Nat /\ MaxEvents \in Nat

VARIABLES
    scene,   \* the events that happen
    clock,   \* the time, in the resolution of the capture
    ever,    \* history: what has happened since ever
    base,    \* ... and had when the counter was last reset
    online,  \* CPUs that are online
    running, \* qemu processes
    present, \* whether the interface is in the root namespace
    events,  \* events so far
    snaps,   \* the capture
    truth    \* history: ever, base and online at each snapshot

hostVars == <<ever, base, online, running, present>>
vars == <<scene, clock, hostVars, events, snaps, truth>>

NothingYet ==
    [cpu  |-> [c \in CPUs |-> [m \in Modes |-> 0]],
     rx   |-> [c \in CPUs |-> 0],
     burn |-> [v \in VMs |-> 0],
     drop |-> 0]

Init ==
    /\ scene \in Scenes
    /\ clock = 1
    /\ ever = NothingYet /\ base = NothingYet
    /\ online = CPUs /\ running \in (IF scene = "vm" THEN SUBSET VMs ELSE {{}}) /\ present = TRUE
    /\ events = 0
    /\ snaps = <<>> /\ truth = <<>>

-----------------------------------------------------------------------------
(* Fractions <<n, d>>, for the floating-point numbers.                      *)

Plus(a, b)  == <<a[1] * b[2] + b[1] * a[2], a[2] * b[2]>>
Equal(a, b) == a[1] * b[2] = b[1] * a[2]
SumOf(fractions) == FoldFunction(Plus, <<0, 1>>, fractions)

-----------------------------------------------------------------------------
(* The outputs, as the kernel writes them.                                 *)

\* Time in a virtual machine is counted as guest time and again as user time.
Jiffies(t, c, f) ==
    LET Of(m) == IF m \in Modes THEN t.cpu[c][m] ELSE 0
    IN  IF f = "user" THEN Of("user") + Of("guest") ELSE Of(f)

CPULine(c) == [f \in Fields |-> Jiffies(ever, c, f) - Jiffies(base, c, f)]

Received(c) == ever.rx[c] - base.rx[c]

\* /proc/stat: the sum of all CPUs, a line for each one online, and the
\* number of soft interrupts.
Stat ==
    [cpu |-> [c \in {All} \cup online |->
                 IF c = All THEN [f \in Fields |-> SumFunction([o \in CPUs |-> CPULine(o)[f]])]
                 ELSE CPULine(c)],
     softirq |-> SumFunction([c \in CPUs |-> Received(c)])]

\* /proc/softirqs (NET_RX) has a column for each possible CPU, softnet_stat a
\* row for each one online, and no row says whose it is.
Softirqs    == [c \in CPUs |-> Received(c)]
InRow(r)    == CHOOSE c \in online : Cardinality({d \in online : d <= c}) = r
Softnet     == [r \in 1 .. Cardinality(online) |-> Received(InRow(r))]

Ps == [v \in running |-> ever.burn[v] - base.burn[v]]

Output(cmd) ==
    CASE cmd = "stat"     -> <<Stat>>
      [] cmd = "softirqs" -> <<Softirqs>>
      [] cmd = "softnet"  -> <<Softnet>>
      [] cmd = "ps"       -> <<Ps>>
      [] cmd = "sysfs"    -> IF present THEN <<ever.drop - base.drop>> ELSE Missing

-----------------------------------------------------------------------------
(* Snapshots of a command, two in a row.                                   *)

\* The samples of a command; for sysfs, whose commands are those found in the
\* capture (discoverSysfsStatCommands), not every snapshot has one.
SamplesOf(cmd) == {k \in DOMAIN snaps : snaps[k].out[cmd] # Missing}

Pairs(cmd) ==
    {p \in SamplesOf(cmd) \X SamplesOf(cmd) :
        p[1] < p[2] /\ \A i \in SamplesOf(cmd) : i <= p[1] \/ p[2] <= i}

HasOutput(cmd, k)   == snaps[k].out[cmd] # Nothing
Get(cmd, k)         == snaps[k].out[cmd][1]
Elapsed(p)          == snaps[p[2]].time - snaps[p[1]].time
BothHaveOutput(cmd, p) == HasOutput(cmd, p[1]) /\ HasOutput(cmd, p[2])

\* Mutation of SafeDelta: the difference of unsigned numbers, of three bits.
SafeDelta_Wrap(curr, prev) == (curr - prev) % 8

\* A counter that is lower than before was reset: no difference.
SafeDelta(curr, prev) == IF curr >= prev THEN curr - prev ELSE 0

-----------------------------------------------------------------------------
(* /proc/stat.                                                             *)

\* parseCPUStats; a snapshot without output has no line.
CPULines(k) == IF HasOutput("stat", k) THEN Get("stat", k).cpu ELSE <<>>
InBoth(p)   == DOMAIN CPULines(p[1]) \cap DOMAIN CPULines(p[2])

Deltas(p, c)     == [f \in Fields |-> SafeDelta(CPULines(p[2])[c][f], CPULines(p[1])[c][f])]

\* Mutation of TotalDelta: softirq is not part of the total.
TotalDelta_NoSoftirq(p, c) == SumFunctionOnSet(Deltas(p, c), Fields \ {"softirq"})

TotalDelta(p, c) == SumFunction(Deltas(p, c))

Share(p, c, f)   == <<Deltas(p, c)[f], TotalDelta(p, c)>>

\* Mutation of Counted: an interval in which nothing was counted is not skipped.
Counted_Zero(p) == InBoth(p)

\* CPUs for which there are percentages.
Counted(p) == {c \in InBoth(p) : TotalDelta(p, c) > 0}

\* PrintCPUAndSoftIRQStats: a table of all fields, by CPU ...
Printed(p) ==
    {[at |-> p, cpu |-> c, field |-> f, share |-> Share(p, c, f)] :
        c \in IF Elapsed(p) > 0 THEN Counted(p) ELSE {}, f \in Fields}

\* ... and the soft interrupts, unless they went back.
PrintedSoftirqs(p) ==
    IF /\ Elapsed(p) > 0
       /\ BothHaveOutput("stat", p)
       /\ Get("stat", p[2]).softirq >= Get("stat", p[1]).softirq
    THEN {Get("stat", p[2]).softirq - Get("stat", p[1]).softirq}
    ELSE {}

\* computeCPUFieldPcts, processProcStatSnapshots: the two utilizations, the
\* fields but idle of all CPUs, and softirq of each.
StatPoints(p) ==
    LET Point(c, f, share) == [at |-> p, cpu |-> c, field |-> f, share |-> share]
        idle   == Deltas(p, All)["idle"]
        iowait == Deltas(p, All)["iowait"]
        total  == TotalDelta(p, All)
    IN  IF All \notin Counted(p) THEN {}
        ELSE {Point(All, "iowait=busy", <<total - idle, total>>),
              Point(All, "iowait=idle", <<total - idle - iowait, total>>)}
             \cup {Point(All, f, Share(p, All, f)) : f \in Fields \ {"idle"}}
             \cup {Point(c, "softirq", Share(p, c, "softirq")) : c \in Counted(p) \ {All}}

-----------------------------------------------------------------------------
(* Rates.                                                                  *)

\* Counts of a snapshot by position that did not go back.
Rises(prev, curr) == {i \in DOMAIN prev \cap DOMAIN curr : curr[i] >= prev[i]}

\* Mutation of SoftirqPoints: a counter that went back is charted, too.
SoftirqPoints_Back(p) ==
    IF Elapsed(p) > 0 /\ BothHaveOutput("softirqs", p)
    THEN {[cpu |-> c, delta |-> (Get("softirqs", p[2])[c] - Get("softirqs", p[1])[c]) % 8] : c \in CPUs}
    ELSE {}

\* processSoftirqSnapshots: the CPU is the number of the column.
SoftirqPoints(p) ==
    IF Elapsed(p) > 0 /\ BothHaveOutput("softirqs", p)
    THEN {[cpu |-> c, delta |-> Get("softirqs", p[2])[c] - Get("softirqs", p[1])[c]] :
             c \in Rises(Get("softirqs", p[1]), Get("softirqs", p[2]))}
    ELSE {}

\* processSoftnetStatSnapshots: the CPU is the number of the row.
SoftnetPoints(p) ==
    IF Elapsed(p) > 0 /\ BothHaveOutput("softnet", p)
    THEN {[cpu |-> r - 1, delta |-> Get("softnet", p[2])[r] - Get("softnet", p[1])[r]] :
             r \in Rises(Get("softnet", p[1]), Get("softnet", p[2]))}
    ELSE {}

\* Both chart a total over the CPUs, also when no CPU is in it.
TotalOf(points) == SumFunction([x \in points |-> x.delta])

\* Mutation of QemuPoints: less time than before is charted, too.
QemuPoints_Negative(p) ==
    IF Elapsed(p) > 0 /\ BothHaveOutput("ps", p)
    THEN {[vm |-> v, delta |-> Get("ps", p[2])[v] - Get("ps", p[1])[v]] :
             v \in DOMAIN Get("ps", p[1]) \cap DOMAIN Get("ps", p[2])}
    ELSE {}

\* processQemuThreadSnapshots: processes are the same if their PID is.
QemuPoints(p) ==
    IF Elapsed(p) > 0 /\ BothHaveOutput("ps", p)
    THEN {[vm |-> v, delta |-> Get("ps", p[2])[v] - Get("ps", p[1])[v]] :
             v \in Rises(Get("ps", p[1]), Get("ps", p[2]))}
    ELSE {}

\* parseSingleUint64: no number is zero.
SysfsValue(k) == IF HasOutput("sysfs", k) THEN Get("sysfs", k) ELSE 0

\* processSysfsStatSnapshots: a series without any drop is left out.
SysfsSeries ==
    LET points == {[at |-> p, delta |-> SafeDelta(SysfsValue(p[2]), SysfsValue(p[1]))] :
                      p \in {q \in Pairs("sysfs") : Elapsed(q) > 0}}
    IN  IF \E x \in points : x.delta > 0 THEN points ELSE {}

-----------------------------------------------------------------------------
(* Rate steps: averages over the intervals that end in a window.           *)

\* parseIperfTimeWindow: two seconds are skipped, and what comes after the
\* test's duration, if that is known.
StartupSkip == 2

StepWindow(start, end, duration) ==
    [from |-> start + StartupSkip,
     to   |-> IF duration > 0 /\ start + duration < end THEN start + duration ELSE end]

\* Mutation of InStep: the interval that starts in the window.
InStep_Start(cmd, w) == {p \in Pairs(cmd) : snaps[p[1]].time \in w.from .. w.to}

InStep(cmd, w) == {p \in Pairs(cmd) : snaps[p[2]].time \in w.from .. w.to}

\* computeRateStepCPU: every interval counts, also for a CPU that is not in it.
StepCPU(w) ==
    {[cpu |-> c, field |-> f,
      share |-> LET sum == SumOf([p \in {q \in InStep("stat", w) : c \in Counted(q)} |-> Share(p, c, f)])
                IN  <<sum[1], sum[2] * Cardinality(InStep("stat", w))>>] :
        c \in UNION {Counted(p) : p \in InStep("stat", w)}, f \in Fields}

\* computeRateStepSoftirq: the mean of the rates; none without an interval.
StepSoftirq(w) ==
    LET ps  == {p \in InStep("softirqs", w) : Elapsed(p) > 0 /\ BothHaveOutput("softirqs", p)}
        sum == SumOf([p \in ps |-> <<TotalOf(SoftirqPoints(p)), Elapsed(p)>>])
    IN  IF ps = {} THEN <<0, 1>> ELSE <<sum[1], sum[2] * Cardinality(ps)>>

-----------------------------------------------------------------------------
(* The host and the capture.                                               *)

\* What happens after the last snapshot is in none.
Event == events < MaxEvents /\ Len(snaps) < MaxSnaps /\ events' = events + 1

Does(e) ==
    /\ Event /\ ever' = e
    /\ UNCHANGED <<scene, clock, base, online, running, present, snaps, truth>>

Work(c, m) == c \in online /\ Does([ever EXCEPT !.cpu[c][m] = @ + 1])
Receive(c) == c \in online /\ Does([ever EXCEPT !.rx[c] = @ + 1])
Burn(v)    == v \in running /\ Does([ever EXCEPT !.burn[v] = @ + 1])
Drop       == present /\ Does([ever EXCEPT !.drop = @ + 1])

\* A CPU goes offline, but not the last one, or comes back.
Plug(c) ==
    /\ Event
    /\ online' = IF c \in online THEN online \ {c} ELSE online \cup {c}
    /\ online' # {}
    /\ UNCHANGED <<scene, clock, ever, base, running, present, snaps, truth>>

Launch(v) ==
    /\ Event /\ v \notin running
    /\ running' = running \cup {v}
    /\ base' = [base EXCEPT !.burn[v] = ever.burn[v]]
    /\ UNCHANGED <<scene, clock, ever, online, present, snaps, truth>>

Exit(v) ==
    /\ Event /\ v \in running
    /\ running' = running \ {v}
    /\ UNCHANGED <<scene, clock, ever, base, online, present, snaps, truth>>

\* The interface goes, or comes back, from another namespace or a new one.
Replug ==
    /\ Event
    /\ present' = ~present
    /\ \/ UNCHANGED base
       \/ present' /\ base' = [base EXCEPT !.drop = ever.drop]
    /\ UNCHANGED <<scene, clock, ever, online, running, snaps, truth>>

Reboot ==
    /\ Event
    /\ base' = ever
    /\ online' = CPUs /\ running' = {} /\ present' = TRUE
    /\ UNCHANGED <<scene, clock, ever, snaps, truth>>

\* A snapshot, in the same second as the last one or later.  A reading may
\* fail; an interface that has gone may have done so before its files were
\* listed (interfaceSources) or after.
Snapshot(dt, failed) ==
    /\ Len(snaps) < MaxSnaps
    /\ IF failed = {} THEN UNCHANGED events ELSE Event
    /\ clock' = clock + dt
    /\ snaps' = Append(snaps, [time |-> clock',
                               out |-> [cmd \in Cmds |-> IF cmd \in failed THEN Nothing ELSE Output(cmd)]])
    /\ truth' = Append(truth, [ever |-> ever, base |-> base, online |-> online])
    /\ UNCHANGED <<scene, hostVars>>

HostStep ==
    \/ scene = "cpu"   /\ \E c \in CPUs : Plug(c) \/ \E m \in Modes : Work(c, m)
    \/ scene = "net"   /\ \E c \in CPUs : Plug(c) \/ Receive(c)
    \/ scene = "vm"    /\ \E v \in VMs : Launch(v) \/ Exit(v) \/ Burn(v)
    \/ scene = "drops" /\ (Drop \/ Replug)
    \/ Reboot

\* The commands whose output is about the scene.
Read ==
    CASE scene = "cpu"   -> {"stat"}
      [] scene = "net"   -> {"stat", "softirqs", "softnet"}
      [] scene = "vm"    -> {"ps"}
      [] scene = "drops" -> {"sysfs"}

Next ==
    \/ HostStep
    \/ \E dt \in {0, StartupSkip}, failed \in {{}} \cup {{cmd} : cmd \in Read} : Snapshot(dt, failed)

Spec == Init /\ [][Next]_vars

-----------------------------------------------------------------------------
(* Properties.                                                             *)

\* Everything has its type, and every percentage is one.
TypeOK ==
    /\ scene \in Scenes /\ clock \in Nat \ {0} /\ events \in 0 .. MaxEvents
    /\ online \in (SUBSET CPUs) \ {{}} /\ running \in SUBSET VMs /\ present \in BOOLEAN
    /\ Len(truth) = Len(snaps)
    /\ \A p \in Pairs("stat") : \A x \in StatPoints(p) \cup Printed(p) :
           x.share[2] > 0 /\ x.share[1] \in 0 .. x.share[2]

\* What happened between two snapshots, and whether the counters of f were
\* reset meanwhile.
Between(p, F(_)) == F(truth[p[2]].ever) - F(truth[p[1]].ever)
NoReset(p, F(_)) == F(truth[p[1]].base) = F(truth[p[2]].base)

\* Time that CPUs have spent, each moment once.
Whose(c)     == IF c = All THEN CPUs ELSE {c}
Spent(t, c)  == SumFunction([o \in Whose(c) |-> SumFunction(t.cpu[o])])
SpentOn(t, c, f) == SumFunction([o \in Whose(c) |-> Jiffies(t, o, f)])

TrueShare(p, c, f) ==
    LET total   == Between(p, LAMBDA t : Spent(t, c))
        Time(g) == Between(p, LAMBDA t : SpentOn(t, c, g))
    IN  <<CASE f = "iowait=busy" -> total - Time("idle")
            [] f = "iowait=idle" -> total - Time("idle") - Time("iowait")
            [] OTHER -> Time(f), total>>

\* "Percentage of total CPU time for this CPU over the interval"
\* (proc_stat.go:147, and the charts): the time that was spent on the field,
\* of the time that was spent, whichever CPUs came or went; and all that was
\* spent is there.
PctsAreShares ==
    \A p \in Pairs("stat") :
        NoReset(p, LAMBDA t : t.cpu) =>
            /\ \A x \in StatPoints(p) \cup Printed(p) : Equal(x.share, TrueShare(p, x.cpu, x.field))
            /\ BothHaveOutput("stat", p) /\ TrueShare(p, All, "idle")[2] > 0 => StatPoints(p) # {}

\* A rate shown for a CPU is of what that CPU did, all of it unless the machine
\* rebooted, and the total is the sum of what they did, when CPUs come and go.
\* softnet_stat does not name its rows, so this is true of it as long as all
\* CPUs are online.
RatesAreOwn ==
    \A k \in DOMAIN snaps \ {1} :
        LET p    == <<k - 1, k>>
            rows == IF truth[k].online = CPUs /\ truth[k - 1].online = CPUs THEN SoftnetPoints(p) ELSE {}
            Rx(c) == Between(p, LAMBDA t : t.rx[c])
            all   == SumFunction([c \in CPUs |-> Rx(c)])
        IN  /\ \A x \in SoftirqPoints(p) \cup rows :
                   /\ x.delta <= Rx(x.cpu)
                   /\ NoReset(p, LAMBDA t : t.rx) => x.delta = Rx(x.cpu)
            /\ NoReset(p, LAMBDA t : t.rx) /\ SoftirqPoints(p) # {} =>
                   TotalOf(SoftirqPoints(p)) = all
            /\ \A n \in PrintedSoftirqs(p) : n <= all

\* The time charted for a virtual machine was spent by a process of its PID,
\* also when the PID was given to another one (processQemuThreadSnapshots).
QemuTimeIsReal ==
    \A p \in Pairs("ps") : \A x \in QemuPoints(p) :
        LET spent == Between(p, LAMBDA t : t.burn[x.vm])
        IN  /\ x.delta \in 0 .. spent
            /\ NoReset(p, LAMBDA t : t.burn[x.vm]) => x.delta = spent

\* Drops that are charted happened in the interval, and those between two
\* readings are charted, whatever became of the interface
\* (processSysfsStatSnapshots).  A reading that failed passes for zero, so
\* nothing is said of the interval after it.
DropsAreReal ==
    \A p \in {q \in Pairs("sysfs") : HasOutput("sysfs", q[1]) /\ Elapsed(q) > 0} :
        LET dropped == Between(p, LAMBDA t : t.drop)
        IN  /\ \A x \in SysfsSeries : x.at = p => x.delta <= dropped
            /\ HasOutput("sysfs", p[2]) /\ dropped > 0 /\ NoReset(p, LAMBDA t : t.drop)
                   => [at |-> p, delta |-> dropped] \in SysfsSeries

\* Windows of rate steps that start at a snapshot or two seconds off one.
Windows ==
    {StepWindow(start, end, duration) :
        start \in {snaps[k].time : k \in DOMAIN snaps}, end \in {clock, clock - StartupSkip}, duration \in {0, 4}}

\* An average over a rate step is the mean of the true shares, and of the true
\* rates, of the intervals that end in the step, for each CPU that was counted
\* in all of them (computeRateStepCPU, computeRateStepSoftirq).
StepAveragesAreMeans ==
    \A w \in Windows :
        LET ends(cmd) == {p \in Pairs(cmd) : snaps[p[2]].time >= w.from /\ snaps[p[2]].time <= w.to}
            good == {p \in ends("softirqs") : Elapsed(p) > 0 /\ BothHaveOutput("softirqs", p)}
            Mean(f)  == <<SumOf(f)[1], SumOf(f)[2] * Cardinality(DOMAIN f)>>
            AllRx(t) == SumFunction(t.rx)
        IN  /\ \A x \in StepCPU(w) :
                   (\A p \in ends("stat") : x.cpu \in Counted(p) /\ NoReset(p, LAMBDA t : t.cpu)) =>
                       Equal(x.share, Mean([p \in ends("stat") |-> TrueShare(p, x.cpu, x.field)]))
            /\ good # {} /\ (\A p \in good : NoReset(p, LAMBDA t : t.rx)) =>
                   Equal(StepSoftirq(w), Mean([p \in good |-> <<Between(p, AllRx), Elapsed(p)>>]))
=============================================================================
