------------------------------ MODULE Collector ------------------------------
(***************************************************************************)
(* The collection loop of msu-collect: main (cmd/msu-collect/main.go), Run *)
(* (msucollect/run.go) and Collector.Run (collector.go).  One goroutine    *)
(* collects the sources one after the other and flushes every N intervals; *)
(* two more carry a signal to the stop channel; the process may die at any *)
(* point and the machine may lose power.                                   *)
(*                                                                         *)
(* The Writer is the abstract log of SampleLog, which MsuStream shows the  *)
(* CBOR Writer to implement, and a ping monitor is its life cycle, whose   *)
(* Stop is the subject of PingMonitor.                                     *)
(***************************************************************************)
EXTENDS Integers, SequencesExt

CONSTANTS
    FlushEveryN,  \* Config.FlushEveryN, the -flush-interval flag
    Pings,        \* ping monitors
    VMs,          \* PIDs a qemu process may have
    Cgroups,      \* cgroups, by the files of their statistics
    Ifaces,       \* network interfaces, of any namespace
    MaxSeq,       \* bound: collection intervals
    MaxChanges    \* bound: processes, cgroups and interfaces that come or go, and
                  \* refreshes that do not see all of them

ASSUME CollectorAssumption ==
    /\ FlushEveryN \in Int
    /\ IsFiniteSet(Pings) /\ IsFiniteSet(VMs) /\ IsFiniteSet(Cgroups) /\ IsFiniteSet(Ifaces)
    /\ MaxSeq \in Nat \ {0} /\ MaxChanges \in Nat

\* Run gives FlushEveryN its default; NewCollector's own clamp to 1 is not
\* reached from it.
FlushInterval == IF FlushEveryN < 1 THEN 6 ELSE FlushEveryN

Fixed   == {"init", "A", "B"}
Things  == VMs \cup Cgroups \cup Ifaces
Sources == Fixed \cup Pings \cup Things

VARIABLES
    pc,        \* where Run is
    seq,       \* Run: the interval
    todo,      \* sources of the section that are not collected yet
    stop,      \* how far a signal got: signal, cancel, stop channel
    mon,       \* life cycle of each monitor
    live,      \* processes, cgroups and interfaces that exist
    changes,   \* how often that changed, or was not seen
    found,     \* Collector.interfaces, nsInterfaces, qemuPIDs, cgroupPaths
    log,       \* samples in the file
    buffered,  \* samples in the Writer's buffer
    durable,   \* samples of log that survive a power loss
    bad,       \* bufio's sticky write error
    warned,    \* history: some Flush returned an error
    missed,    \* history: B sections in a row that left a live one out, or had
               \* one that is gone
    overlooked \* history: refreshes since then that did not see it

logVars  == <<log, buffered, durable>>
loopVars == <<pc, seq, todo>>
hostVars == <<live, changes, found, missed, overlooked>>
vars == <<loopVars, stop, mon, hostVars, logVars, bad, warned>>

Log == INSTANCE SampleLog WITH Source <- Sources, Serial <- 0 .. MaxSeq, given <- <<>>

Init ==
    /\ pc = "start" /\ seq = 0 /\ todo = <<>>
    /\ stop = "open"
    /\ mon = [m \in Pings |-> "new"]
    /\ live \in {{}, Things}
    /\ changes = 0 /\ found = {}
    /\ missed = [x \in Things |-> 0] /\ overlooked = missed
    /\ Log!LogInit
    /\ bad = FALSE /\ warned = FALSE

Running == pc \notin {"exited", "failed", "dead"}

-----------------------------------------------------------------------------
(* The Writer, as the loop sees it.                                        *)

\* WriteSample: the error, sticky in bufio, is only logged by the callers.
WriteSample(x) ==
    \/ ~bad /\ Log!Accept(x) /\ UNCHANGED bad
    \/ ~bad /\ Log!Drop /\ bad' = TRUE
    \/ bad /\ UNCHANGED <<logVars, bad>>

FlushOK == ~bad /\ Log!Persist /\ UNCHANGED <<bad, warned>>

\* bufio's error, or fsync's: then the buffer did get to the file.
FlushError ==
    /\ warned' = TRUE
    /\ \/ ~bad /\ Log!Drop /\ bad' = TRUE
       \/ ~bad /\ Log!Commit /\ buffered' = <<>> /\ UNCHANGED bad
       \/ bad /\ UNCHANGED <<logVars, bad>>

-----------------------------------------------------------------------------
(* Collector.Run.                                                          *)

\* The monitors start before anything is written.
StartMonitors ==
    /\ pc = "start"
    /\ mon' = [m \in Pings |-> "running"]
    /\ pc' = "header"
    /\ UNCHANGED <<seq, todo, stop, hostVars, logVars, bad, warned>>

\* WriteHeader; an error ends Run.
WriteHeader ==
    /\ pc = "header"
    /\ \/ pc' = "init" /\ todo' = <<"init">> /\ UNCHANGED bad
       \/ pc' = "stopFailed" /\ bad' = TRUE /\ UNCHANGED todo
    /\ UNCHANGED <<seq, stop, mon, hostVars, logVars, warned>>

\* collectSource, or a monitor's Sample: one sample, whatever the source gave.
Collect ==
    /\ pc \in {"init", "A", "B"}
    /\ todo # <<>>
    /\ WriteSample([src |-> Head(todo), n |-> seq])
    /\ todo' = Tail(todo)
    /\ UNCHANGED <<pc, seq, stop, mon, hostVars, warned>>

\* The init samples are flushed at once; an error ends Run.
FlushInit ==
    /\ pc = "init" /\ todo = <<>>
    /\ \/ FlushOK /\ pc' = "next"
       \/ FlushError /\ pc' = "stopFailed"
    /\ UNCHANGED <<seq, todo, stop, mon, hostVars>>

\* Mutation of RefreshDynamicState: what is found the first time is used for good.
RefreshDynamicState_Once(unseen) == found' = IF seq = 0 THEN live \ unseen ELSE found

\* The interfaces in sysfs, or of a namespace if ls runs there; none if the
\* directory cannot be read or the command fails.
DiscoverInterfaces(unseen) == (live \cap Ifaces) \ unseen

\* The processes with the right name; none if /proc cannot be read, and not one
\* whose name cannot.
DiscoverQEMUPIDs(unseen) == (live \cap VMs) \ unseen

\* What a walk of the tree finds; it goes on after errors.
DiscoverCgroupPaths(unseen) == (live \cap Cgroups) \ unseen

\* No error is reported: what could not be seen is not there.
RefreshDynamicState(unseen) ==
    found' = DiscoverInterfaces(unseen) \cup DiscoverQEMUPIDs(unseen) \cup DiscoverCgroupPaths(unseen)

\* collectASection, every third interval, looks around first.
BeginA ==
    /\ pc = "next"
    /\ seq % 3 = 0
    /\ \E unseen \in SUBSET live :
          /\ unseen # {} => changes < MaxChanges
          /\ changes' = IF unseen = {} THEN changes ELSE changes + 1
          /\ RefreshDynamicState(unseen)
          /\ overlooked' = [x \in Things |-> overlooked[x] + IF x \in unseen THEN 1 ELSE 0]
    /\ todo' = <<"A">> \o SetToSeq(found' \cap Ifaces)
    /\ pc' = "A"
    /\ UNCHANGED <<seq, stop, mon, live, missed, logVars, bad, warned>>

\* The sources of a B section: the static ones, each cgroup, each qemu process,
\* each monitor.
BSources == <<"B">> \o SetToSeq(found \cap Cgroups) \o SetToSeq(found \cap VMs) \o SetToSeq(Pings)

\* What a B section, made from the list of the last A section, has wrong.
Wrong(x) == x \in (VMs \cup Cgroups) /\ (x \in live) # (x \in found)

\* Mutation of BeginB: the loop does not wait for the A section's last source.
BeginB_Early ==
    /\ \/ pc = "next" /\ seq % 3 # 0
       \/ pc = "A"
    /\ todo' = BSources
    /\ missed' = [x \in Things |-> IF Wrong(x) THEN missed[x] + 1 ELSE 0]
    /\ overlooked' = [x \in Things |-> IF Wrong(x) THEN overlooked[x] ELSE 0]
    /\ pc' = "B"
    /\ UNCHANGED <<seq, stop, mon, live, changes, found, logVars, bad, warned>>

\* collectBSection.
BeginB ==
    /\ \/ pc = "next" /\ seq % 3 # 0
       \/ pc = "A" /\ todo = <<>>
    /\ todo' = BSources
    /\ missed' = [x \in Things |-> IF Wrong(x) THEN missed[x] + 1 ELSE 0]
    /\ overlooked' = [x \in Things |-> IF Wrong(x) THEN overlooked[x] ELSE 0]
    /\ pc' = "B"
    /\ UNCHANGED <<seq, stop, mon, live, changes, found, logVars, bad, warned>>

\* Mutation of FlushDue: off by one.
FlushDue_Late == (seq + 1) % (FlushInterval + 1) = 0

FlushDue == (seq + 1) % FlushInterval = 0

\* After the B section: flush when it is due, whose error is only logged.
EndInterval ==
    /\ pc = "B" /\ todo = <<>>
    /\ IF FlushDue THEN FlushOK \/ FlushError ELSE UNCHANGED <<logVars, bad, warned>>
    /\ seq' = seq + 1
    /\ pc' = "wait"
    /\ UNCHANGED <<todo, stop, mon, hostVars>>

\* select: the interval elapses.  Once the loop waits, the first of the two
\* events wakes it; an interval does not elapse on the way into the select.
Elapsed ==
    /\ pc = "wait"
    /\ stop # "closed"
    /\ seq < MaxSeq
    /\ pc' = "next"
    /\ UNCHANGED <<seq, todo, stop, mon, hostVars, logVars, bad, warned>>

\* Mutation of StopSelected: Run ends without the deferred stops.
StopSelected_NoDefer ==
    /\ pc = "wait"
    /\ stop = "closed"
    /\ pc' = "close"
    /\ UNCHANGED <<seq, todo, stop, mon, hostVars, logVars, bad, warned>>

\* select: the stop channel is closed.
StopSelected ==
    /\ pc = "wait"
    /\ stop = "closed"
    /\ pc' = "stop"
    /\ UNCHANGED <<seq, todo, stop, mon, hostVars, logVars, bad, warned>>

\* The deferred stops, one monitor after the other; Stop closes the monitor's
\* channel and waits for its goroutines.
StopMonitor(m) ==
    /\ pc \in {"stop", "stopFailed"}
    /\ mon[m] = "running"
    /\ \A o \in Pings : mon[o] # "stopping"
    /\ mon' = [mon EXCEPT ![m] = "stopping"]
    /\ UNCHANGED <<loopVars, stop, hostVars, logVars, bad, warned>>

MonitorStops(m) ==
    /\ mon[m] = "stopping"
    /\ mon' = [mon EXCEPT ![m] = "stopped"]
    /\ UNCHANGED <<loopVars, stop, hostVars, logVars, bad, warned>>

\* Run returns to main: log.Fatal on an error, else on to Close.
RunReturns ==
    /\ \A m \in Pings : mon[m] = "stopped"
    /\ \/ pc = "stop" /\ pc' = "close"
       \/ pc = "stopFailed" /\ pc' = "failed"
    /\ UNCHANGED <<seq, todo, stop, mon, hostVars, logVars, bad, warned>>

-----------------------------------------------------------------------------
(* main.                                                                   *)

\* Mutation of Close: only the file is closed.
Close_NoFlush ==
    /\ pc = "close"
    /\ Log!Drop
    /\ pc' = "exited"
    /\ UNCHANGED <<seq, todo, stop, mon, hostVars, bad, warned>>

\* Close flushes; the program ends whatever it returns.
Close ==
    /\ pc = "close"
    /\ FlushOK \/ FlushError
    /\ pc' = "exited"
    /\ UNCHANGED <<seq, todo, stop, mon, hostVars>>

\* SIGINT or SIGTERM; a second one waits in the channel for good.
Signal ==
    /\ Running /\ stop = "open"
    /\ stop' = "signalled"
    /\ UNCHANGED <<loopVars, mon, hostVars, logVars, bad, warned>>

\* main's goroutine takes the signal and cancels the context.
Cancel ==
    /\ Running /\ stop = "signalled"
    /\ stop' = "cancelled"
    /\ UNCHANGED <<loopVars, mon, hostVars, logVars, bad, warned>>

\* Mutation of CloseStop: a send that is dropped when the loop is not waiting.
CloseStop_Send ==
    /\ Running /\ stop = "cancelled"
    /\ stop' = IF pc = "wait" THEN "closed" ELSE "missed"
    /\ UNCHANGED <<loopVars, mon, hostVars, logVars, bad, warned>>

\* Run's goroutine sees the context done and closes the stop channel.
CloseStop ==
    /\ Running /\ stop = "cancelled"
    /\ stop' = "closed"
    /\ UNCHANGED <<loopVars, mon, hostVars, logVars, bad, warned>>

-----------------------------------------------------------------------------
(* The host.                                                               *)

\* A qemu process starts or ends, a cgroup or an interface comes or goes.  Only
\* the start of a section looks, so it is enough that they do just before it.
Change(x) ==
    /\ pc = "next" \/ (pc = "A" /\ todo = <<>>)
    /\ changes < MaxChanges /\ changes' = changes + 1
    /\ live' = IF x \in live THEN live \ {x} ELSE live \cup {x}
    /\ missed' = [missed EXCEPT ![x] = 0] /\ overlooked' = [overlooked EXCEPT ![x] = 0]
    /\ UNCHANGED <<loopVars, stop, mon, found, logVars, bad, warned>>

\* The process is killed, or the machine stops.
Dies ==
    /\ Running
    /\ Log!Drop \/ Log!PowerLoss
    /\ pc' = "dead"
    /\ mon' = [m \in Pings |-> "stopped"]
    /\ UNCHANGED <<seq, todo, stop, hostVars, bad, warned>>

Ended == ~Running /\ UNCHANGED vars

MainStep ==
    \/ StartMonitors \/ WriteHeader \/ Collect \/ FlushInit \/ BeginA \/ BeginB
    \/ EndInterval \/ Elapsed \/ StopSelected \/ RunReturns \/ Close
    \/ \E m \in Pings : StopMonitor(m) \/ MonitorStops(m)

SignalStep == Cancel \/ CloseStop

HostStep == Signal \/ Dies \/ \E x \in Things : Change(x)

Next == MainStep \/ SignalStep \/ HostStep \/ Ended

Spec == Init /\ [][Next]_vars

\* The goroutines are scheduled.  For MainStep this includes that every source
\* command ends (runCmd has no timeout) and that a monitor's Stop returns
\* (StopTerminates of PingMonitor).
Fairness == WF_vars(MainStep) /\ WF_vars(SignalStep)

FairSpec == Spec /\ Fairness

-----------------------------------------------------------------------------
(* Properties.                                                             *)

\* Every variable has its type.
TypeOK ==
    /\ pc \in {"start", "header", "init", "next", "A", "B", "wait", "stop",
               "stopFailed", "close", "exited", "failed", "dead"}
    /\ seq \in 0 .. MaxSeq
    /\ todo \in Seq(Sources)
    /\ stop \in {"open", "signalled", "cancelled", "closed"}
    /\ mon \in [Pings -> {"new", "running", "stopping", "stopped"}]
    /\ {live, found} \subseteq SUBSET Things /\ changes \in 0 .. MaxChanges
    /\ missed \in [Things -> Nat] /\ overlooked \in [Things -> Nat]
    /\ {log[i] : i \in DOMAIN log} \cup {buffered[i] : i \in DOMAIN buffered}
            \subseteq [src : Sources, n : 0 .. MaxSeq]
    /\ durable \in 0 .. Len(log)
    /\ {bad, warned} \subseteq BOOLEAN

\* Sources that every interval t records.
Due(t) == {"B"} \cup Pings \cup (IF t % 3 = 0 THEN {"A"} ELSE {})

\* The file has no gap: a sample of an interval, or of its B section, is there
\* only after everything that is due before it, so that whoever differences
\* the counters of two B sections has the interval between them.  The writer's
\* error must not come and go for that.
NoGap ==
    \A i \in DOMAIN log :
        LET before == {log[j] : j \in 1 .. i - 1}
            t == log[i].n
        IN  /\ \A r \in 0 .. t - 1 : \A x \in Due(r) : [src |-> x, n |-> r] \in before
            /\ log[i].src # "init" => [src |-> "init", n |-> 0] \in before
            /\ log[i].src \notin {"init", "A"} /\ t % 3 = 0 => [src |-> "A", n |-> t] \in before

Safe(r) == \A x \in Due(r) : \E i \in 1 .. durable : log[i] = [src |-> x, n |-> r]

\* "On crash, at most that many intervals of data are lost": unless a Flush
\* returned an error, all but the last FlushInterval intervals are on disk.
CrashLosesAtMostN == ~warned => \A r \in 0 .. seq - FlushInterval : Safe(r)

\* A stop by signal loses nothing: when main has closed the writer without an
\* error, every interval that was begun is complete on disk, the last included.
CleanStopKeepsAll == pc = "exited" /\ ~warned => \A r \in 0 .. seq - 1 : Safe(r)

\* No monitor outlives Run, on its error returns too.
MonitorsStopped ==
    pc \in {"close", "exited", "failed"} => \A m \in Pings : mon[m] = "stopped"

\* A qemu process or a cgroup that lives long enough is sampled, and one that is
\* gone is not sampled for long, where another process may have got its PID: the
\* list made by an A section is used by three B sections, and by three more for
\* each refresh that did not see what was there.
ListsAreFresh == \A x \in Things : missed[x] <= 3 * (1 + overlooked[x])

\* After a signal the program ends, with the monitors stopped on the way.
StopTerminates == stop # "open" ~> ~Running
=============================================================================
