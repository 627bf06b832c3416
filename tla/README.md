# Verification of monitor-system-usage

`monitor-system-usage` records what a machine does over days: `msu-collect`
samples commands, `/proc` files and ICMP echo probes at every interval and
appends them to a CBOR file; `msu` reads such a file (or the text log of the
shell script it replaces) and reports on it. This directory holds TLA+ models
of its core, the TLC configurations that check them, and proofs for TLAPS.

## The system

| Component | Code | State | Operations | Talks to |
|---|---|---|---|---|
| Ping bookkeeping | `pkg/msucollect/ping.go` 57-193 | probes by sequence number, counters | `sent`, `reply`, `sweep`, `snapshot` | called by the monitor under its mutex |
| Ping monitor | `ping.go` 244-532 | mutex, socket, error texts, stop channel, wait group | goroutines `run` and `receive`; `Start`, `Sample`, `Stop` | the network; the collection loop |
| Collection loop | `pkg/msucollect/collector.go`, `run.go`, `cmd/msu-collect/main.go` | `seq`, discovered interfaces, cgroups and processes | sections init, A (every third interval) and B, flush every N intervals, stop on a signal | monitors, commands, the Writer |
| CBOR Writer | `pkg/msuformat/writer.go` | dictionary of sources, `nextID`, bufio's buffer and sticky error | `WriteHeader`, `WriteSample`, `Flush`, `Close` | the file, opened with `O_APPEND` |
| CBOR Reader | `pkg/msuformat/reader.go` | position, dictionary | `ReadHeader`, `Next` | the file, finished or growing |
| Sources and discovery | `sources.go`, `discover.go`, `exec.go` | none | lists of commands and files | `/proc`, `/sys`, commands |
| Parsers | `cmd/msu/main.go` | sections by ID, samples of one command | `parseCBORFile`, `parseTextFile` | the Reader |
| Queries | `cmd/msu/main.go` | none | `-command`, `-changing`, windows, the list of sections | the parsers |
| Ping report | `cmd/msu/ping.go` | series of counters | intervals, loss, restarts, episodes, errors, chart points | the Reader |
| Counter deltas | `proc_stat.go`, `net_dev.go` | none | the table of `/proc/stat`, packet rates, drops in sysfs | the parsers |
| CPU comparison, HTML report | `cpu_compare.go`, `report.go` | none | percentages and rates of two snapshots in a row, averages per rate step, pages | snapshots of both formats |
| Legacy collector | `scripts/` | none | shell loop writing the text log | `parseTextFile` |

Hard to test here, and what the properties aim at: the sender, the receiver and
the collector of a monitor share one mutex but read the clock outside it;
replies are lost, late, duplicated or not ours; sequence numbers and source IDs
wrap; a monitor stops while it is blocked in a read, or has no socket yet; the
process dies, or the machine loses power, between or inside two records, and
the next run appends to the same file; an error of the file is sticky; a signal
arrives at any point of the loop; interfaces, cgroups and processes come and go
between two sections; counters restart with the collector, an interface, a
process or the machine, and the analyzer differences them over runs, sections and
namespaces, while CPUs go offline and readings fail.
`PROJECT.json` lists each with its line.

What makes each component correct:

* bookkeeping: every request is counted exactly once; late and duplicate replies do not count twice;
* monitor: an answer to our request is never a stray, an error counted is an error told, `Stop` ends both goroutines;
* stream: the reader gets the samples of the file, in order, each under its own source; what was flushed stays;
* loop: no gap in the file, a crash loses a bounded number of intervals, a clean stop loses none and ends;
* ping report: a report says of a window what the monitor did in it, across restarts of the collector;
* parsers and queries: a text and a CBOR capture of the same run read the same; a section is listed with its own times;
* charts: a percentage is a share of the time that was spent; a rate is never made of counters that restarted or belong to someone else, and hides nothing; an average is the mean of what it is of.

## Modules

| Module | Models |
|---|---|
| `PingState` | the bookkeeping, as operators from state to state |
| `PingMonitor` | the monitor with the network around it; extends `PingState` |
| `SampleLog` | abstract: what a log of samples promises |
| `MsuStream` | Writer, file and Reader; implements `SampleLog` |
| `Collector` | the loop, `main` and signals; uses `SampleLog` as its Writer |
| `PingReport` | the samples of a target in a file of several runs, and the report on them |
| `Capture` | what the analyzer reads: both collectors writing the same run, and the host below |
| `Analysis` | the readers of both formats, the queries and the packet rates; extends `Capture` |
| `Charts` | snapshots of a host whose counters reset, and the series, tables and averages made of them |
| `PingStateProofs`, `PingProofs` | theorems about the first two |
| `StreamProofs` | theorems about `MsuStream`, and that it implements `SampleLog` |
| `CollectorProofs` | theorems about `Collector` |
| `PingReportProofs` | theorems about `PingReport` |
| `AnalysisProofs` | theorems about `Capture` and `Analysis` |
| `ChartsProofs` | theorems about `Charts` |
| `FoldLemmas` | lemmas about folds and sums, for the modules of theorems |

A definition whose name ends in `_` and a word (`AfterSent_WrapNotLost`) is a
mutation of the definition in front of the underscore: a plausible bug, kept to
show that the property it breaks depends on that code. No specification uses it.

### PingState and PingMonitor

A Go method that changes the `pingState` is an operator (`AfterSent`,
`AfterReply`, `AfterSweep`, `AfterSnapshot`) since one locked region calls
several of them. A region under the mutex is one action, except `send`: it holds
the mutex over `WriteTo`, after which the reply can arrive, so it is the two
actions `SendWrites` and `SendReturns` with the mutex held in between, and the
receiver can read and stamp (`ReadReply`) but not handle (`HandleReply`) a reply
meanwhile. `run`'s `open` is `OpenFails`, `RetryOpen`, `GiveUpOpen` and
`OpenSucceeds`; the wait group and the closing of the connection by `run`'s
deferred calls (`RunReturns`, `RunDone`) are explicit because `Stop` depends on
them. `net` holds how many replies each request can still bring: they arrive in
any order, at any later time, or never. RTTs are in the unit of the clock; the
cut to microseconds is left out.

`Tick` advances the clock by one. Two constants say how long things may take:
`MaxSweepGap`, the time between two sweeps while probes are kept (`send` and
`Sample` sweep, so it is about the shorter of the ping interval and the
collection interval), and `MaxLockWait`, the time a write or a wait for the
lock may take.

### SampleLog and MsuStream

A record is one element of a sequence; the head of a record that is cut at the
boundary of bufio's buffer, by a crash or by a power loss, is the element
`Torn`. `bufio.Writer` is modelled by what it can do with a record: keep it,
write the buffer out and cut the record or not, write it through, or fail part
of the way and return the error ever after. `WriteSample` of the code is the
action `WriteSourceDef` followed by the action `WriteSample` of the same tuple
(`cur`), so that a crash can fall between them; `OpenRun` stands for
`NewFileWriter` and `WriteHeader`, the header being smaller than the buffer.
The reader runs at any time, also on a file that grows.

`ImplementsLog` maps the file, the buffer and the reader's output to `SampleLog`
by leaving out everything but samples, and says that every step of the stream is
a step of the log: samples are accepted in order, a failure loses only what is
not durable, a reader gets the log without gaps and with the right sources.

Assumed of the outside: after a power loss a prefix of what was not synced is
left; a successful fsync covers all that was written before; a write does not
change what is in the file already. What follows a tear may by accident of
alignment decode as a well-formed record; the model has the two outcomes that
do not need such an accident, an error and the end of the file.

### Collector

`pc` follows `Collector.Run` and `main`. `todo` is the rest of the section being
collected: each `Collect` is one `collectSource` or one `Sample` of a monitor,
so a crash or a write error falls between any two of them. One source stands for
the fixed ones of each section, and one for all files of a cgroup, an interface
or a process. `BeginA` refreshes the lists of them (`found`): it collects the
interfaces itself, the next three B sections collect the processes and cgroups
that it found. `Change` lets one of them come or go; it can do so just before a
section begins, the only moment at which it makes a difference. The functions of
`discover.go` report no error: if `/proc`, a directory or `ls` in a namespace cannot
be read they return nothing, and they skip the entries that they cannot read, so a
refresh may overlook any of what is there (`unseen` in `BeginA`). `missed` counts
the B sections in a row whose lists were wrong about something, `overlooked` the
refreshes since then that did not see it.

`stop` is the way of a signal: `Signal`, `Cancel` (the goroutine in `main`),
`CloseStop` (the goroutine in `Run`); the loop looks at it only while it waits.
The Writer is `SampleLog`, which `MsuStream` implements, and
the monitors are their life cycle, whose hard part is `PingMonitor`. `FlushEveryN`
below 1 becomes 6 as in `Run`; the comment in `collector.go:17` ("0 = every
interval") is true of `NewCollector` alone. The README of `msu-collect` says
that a crash "loses at most one interval" (`cmd/msu-collect/README.md:7`); what
is true, and proved, is "at most that many intervals" of the flag, which is 6
unless it is set (`cmd/msu-collect/main.go:57`).

### PingReport

The report is a function of the samples, so its code is operators
(`IntervalOf`, `Kept`, `AddToEpisodes`, ...) and the state is the file: `Sample`
appends the counters that a monitor can show after some time (any split of the
requests into answered, lost and pending that `PingState` allows), or the error
of a socket that cannot be opened, `Restart` a header. What is made of the
intervals is there too: totals, extremes, episodes, the messages with their
counts, the intervals that are listed, and the points of the charts. `happened`
records what the monitor really did between two samples; the properties ask the
report for it, for every window between two samples. The
clock of the host is assumed not to be set back while a file is written: `Start`
and `InTimeRange` compare times of different runs. The fractions 2.5 and 0.8 are
products of integers here.

### Capture and Analysis

`Capture` writes the records of `msu-collect` (`recs`) and the lines of the shell
script (`lines`) from one sequence of steps, each source at one time, so that
the two files can be compared. Records are those a `Reader` returns (see
`MsuStream`); the header is left out. Four commands stand for the sources: `lscpu`
outside sections, `/proc/net/dev` in A sections and per namespace, `softnet_stat` in
both sections, and `/proc/stat` in B sections, of which `-command` makes an
exception; a command may fail, which prints nothing. The script stamps the end of an A section
with a time it read near its start (`now`). A line is a marker, the output of a command
or the beginning or end of a section; the empty line before each marker matters
only in that a failed command still has output in the text file, an empty line.
`Packet` and `Replug` move the counters of the host, just before `/proc/net/dev`
is read, where all that came before is seen first.

`Analysis` has the loops of `parseCBORFile`, `parseTextFile`,
`collectMSUSnapshots` and its CBOR twin as folds over records and lines, one
operator per case of the loop. `Asked` is what the user wants to see: one command
(`-command`) or those that match (`-changing`), in one type of section or both;
of what the parsers return, `Changing` and `Listing` make what is printed for a
window `-from`, `-to`, which `InWindow` applies to the samples as the loop in `main`
does, one at a time. `processNetDevSnapshots` is the set of points it charts,
with one packet counter for the eight of an interface and the division by the
time left out. The properties `Same...` compare the formats on a run
without other namespaces, since `-command` names a namespace in the text file only.

The formats differ in two ways that these properties state. A snapshot of the text
file has the time at which its section began and one of the CBOR file its own
(`cpu_compare.go:122`, 214), so the charts show the same changes at other times and, as
rates, over other intervals: `SameSnapshots` has the same outputs, each with a text time
that lies after the reading before and before its own. And the comment on
`parseCBORFile` promises "the same parseResult as parseTextFile" (`main.go:404`), but a
reading of `/proc/stat` without a value is a sample for `-command` in the CBOR file alone
(`main.go:488`, `WithOutput`); it has no output either, so it splits one row of the
printed table into two empty ones. `SameFollowed` compares all samples that have a
value, and asks that no other command has any without. In the model the value
patterns fit the output of `softnet_stat` and `/proc/stat`, as the default does; with a
`-field-pattern` that fits no line of `/proc/stat`, the CBOR file has a sample for every
reading and the text file none.

### Charts

The host counts what it does since ever (`ever`) and remembers what it had
counted when a counter was last reset (`base`); the outputs are the difference,
in the form the kernel or `ps` gives them: `/proc/stat` has the sum of all CPUs
and a line for each one online, `/proc/softirqs` a column for each possible CPU,
`softnet_stat` a row for each one online, without its name. `Plug`, `Launch`,
`Exit`, `Replug` and `Reboot` change who counts, and a reading may fail; a
snapshot may have the time of the one before it, since time stamps are compared
by the second in a text capture.

The analyzer's side is pure: `Printed` and `PrintedSoftirqs` (`proc_stat.go`),
`StatPoints`, `SoftirqPoints`, `SoftnetPoints` and `QemuPoints`
(`cpu_compare.go`), `SysfsSeries` (`net_dev.go`), `StepWindow`, `StepCPU` and
`StepSoftirq` (`report.go`), each a set of points made of two snapshots in a row.
Floating-point numbers are fractions here, and rates leave out the division by
the time. `truth` has what happened since ever at each snapshot, for the
properties to compare with.

No two series are made of the same output, so the events of a behaviour are all
about one of four scenes: the CPUs' time, the network's soft interrupts, the
virtual machines, and the drops of an interface.

The kernel counts the time of a virtual machine as guest time and again as user
time. `charts` has no guest time; `charts_guest` has, and shows what becomes of
the percentages.

## Runs

| Run | Checks | Result |
|---|---|---|
| `ping_safety` | counters, round-trip times and time stamps in every interleaving, sweeps dense | holds |
| `ping_stop` | `Stop` terminates and leaves nothing behind, and every error counted is told, with socket errors and foreign replies; nothing is counted twice whatever the sweeps do, dropping pending probes and numbers in use again included | holds |
| `ping_forgotten` | `LossAccounted` with sparse sweeps | violated: `sweep` deletes a pending probe uncounted |
| `stream_safe` | `MsuStream` implements `SampleLog`, flushed samples stay, where the reader may fail | holds |
| `stream_wrap` | the right source for every sample, with more sources than IDs | violated: the ID wraps |
| `stream_torn` | reading goes on across runs | violated at a torn record |
| `collector` | no gap, bounded loss, clean stop, freshness of the lists of interfaces, cgroups and processes as far as refreshes see them, termination | holds |
| `ping_report` | the report of every window, and the chart points, over the samples of two runs | holds |
| `analysis` | text and CBOR read the same, but for `/proc/stat` without a value, have the same outputs to chart and list the same changes, sections have their times, rates are real and complete, root namespace only | holds |
| `analysis_ns` | rates of the root namespace with another one in the capture | violated: snapshots of both are one series |
| `charts` | percentages, rates, the time of virtual machines, drops and averages against what the host did | holds |
| `charts_guest` | "percentage of total CPU time" with guest time | violated: guest time is in the total twice |

### Bounds

* `ping_safety`: two sequence numbers and three attempts, so the number wraps
  while the first probe is pending; `Copies = 2`, so a duplicate and a late reply
  to the same request exist; `Timeout = 1`, `Retention = 4`, clock to 5: a probe can
  be in time, late, lost, and forgotten. `MaxSweepGap = Retention - Timeout`, the
  largest for which `LossAccounted` is true. `MaxLockWait = 1` lets the clock
  advance once between a stamp and the lock. Errors of the socket are in `ping_stop`.
* `ping_stop`: two attempts, one read error, one foreign reply: every reason for
  which one of the goroutines is not at its select when `Stop` is called. One
  sequence number, so the second probe takes that of the first in whatever state
  it is; the clock runs to 5, past the `Retention` of 4, and sweeps may be 5
  apart, so a sweep may find a pending probe that it drops. A write or a wait for
  the lock takes no time (`MaxLockWait = 0`), which keeps the graph for liveness
  small; `ping_safety` lets it take some.
* `stream_safe`: three tuples and three IDs, one tuple with output that is not
  text, two runs, two samples, two records of buffer: a definition can be cut
  from its sample, a tear can be followed by a run, the dictionary of the first
  run differs from the second's.
* `collector`: N = 2 against the period 3 of A sections, up to interval 4: interval 0
  has an A section, 1 a flush, 2 neither and 3 both, so every combination occurs;
  two monitors are stopped in turn; a process, a cgroup and an interface, which
  are there at the start or not. Two events: one of them comes or goes, at any
  section, or a refresh does not see some of them. Two are enough for a list
  that is wrong longer than three sections because a refresh failed; the last
  refresh is that of interval 3, and `Freshness` is proved for any number.
* `ping_report`: three samples of two runs: a second run can follow one or two
  samples, start at once or after a pause, and have counters above or below those
  before it; with a request every 2, a sample after 19 is a gap for an interval of
  5, and long enough that `StarvedIsLate` speaks of it, which takes nine requests; one after
  9 is neither; two round-trip times make extremes that differ; episodes of one, two and three intervals; two messages, so that one can
  come back after the other.
* `analysis`: four intervals, so a second A section; a second run; two events: two
  commands that fail, or a packet and a failure, or two packets, or an interface
  that is replaced by one with fresh counters, which is one event (`Replug`), with
  a packet before or after it.
* `charts`: three snapshots, so a command can be missing, or fail, in the middle of
  a series, and a rate step can have two intervals; three events, enough to count
  something before and after a reset, or by two processes with the same PID; two
  CPUs, so that an average is not that of the CPU itself and rows of
  `softnet_stat` can move. `RatesAreOwn` is about rows only while all CPUs are
  online and `StepAveragesAreMeans` about CPUs counted in every interval of the
  step; what the code charts of the others is not theirs (see the hazards).

`ping_report`, `analysis`, `charts` and the two runs beside them (`analysis_ns`,
`charts_guest`) stop at the bound of their file, hence `CHECK_DEADLOCK FALSE`. All
other runs check for deadlock.

The runs expected to be violated use the smallest instance that has the case.

### Fairness

`PingMonitor!Fairness`: a goroutine that can run does; a mutex is not starved
(Go's `sync.Mutex` hands itself over to a waiter after 1 ms), hence SF for the
receiver's locked regions; a select picks at random among its ready cases, hence
SF for the case of the closed stop channel; opening a socket returns. Nothing is
assumed of the network or of the collector. `Collector!Fairness`: the goroutines
are scheduled; for the main one this includes that commands end (`exec.go` sets
no timeout, a command that hangs stops everything, the answer to a signal
included) and that the monitors' `Stop` returns, which is `StopTerminates` of
`PingMonitor`. Elapsed time does not win over the stop channel in the select:
a goroutine that waits is woken by the first event, and the interval is a second
or more.

## Proofs

Most theorems are an inductive invariant (`Init` establishes it, each action
keeps it, one lemma or step per action) and the property as its consequence.
Where the property is about a loop of the analyzer, a second part follows the
loop: what it has computed after each element is related to the elements so far.
The theorems hold for all values of the constants that the named assumptions of
the modules allow, and for files, captures and runs of any length.

`FoldLemmas` has what the second part needs. The library's induction theorems take
a predicate as a parameter, which the provers cannot instantiate; here the
induction is over a set of numbers (`NatSetInduction`), and a fold is by a function
`H` and not by an operator. `FoldByIndex` ties these to `FoldLeft` of the
community modules, `FoldSteps` and `FoldThrough` say how a fold grows with its
sequence, and `SumAdds`, `SumSwap`, `SumRenamed` that sums over finite sets can be
split, exchanged and renamed.

`PingStateProofs` states what each operator of `PingState` preserves, mostly
about `Count`, the number of sequence numbers in some state, since the counters
are compared with cardinalities. `PingProofs` has every safety property of the
monitor:

* `TypeCorrect`, `Quiet`: from `Inv`, which adds to the types what the program
  counters say about each other: who is in the wait group, when the connection
  is open, when `run` holds the lock. `wg` alone does not tell why it is zero;
  with `Inv`, zero means that both goroutines are gone.
* `NoDoubleCount`, `LateWithinLost`: from `BalanceInv`: `tx` minus what is
  accounted for never gets negative, and every late reply uses up a loss that is
  still open. Each of `AfterSent`, `AfterReply` and `AfterSweep` moves a probe
  from one set to another and a counter with it.
* `NoProbeForgotten`: assuming `MaxSweepGap + Timeout <= Retention` and
  `MaxLockWait <= Retention`, every request is accounted for exactly. It needs
  `TimeInv`: a pending probe was young enough at the last sweep, so it cannot
  reach the retention window before the next one marks it lost. The run
  `ping_forgotten` shows what happens without the first hypothesis.
* `LateIsLate`: from `TimeInv` too, which bounds the clock by the stamps in hand.
* `MeanIsWithin`: from `MeanInv`: the sum runs on while the extremes start again, so
  the sum of the last sample must be the sum now as long as the interval has
  no reply.
* `ErrorsAreReported`: from `ErrInv`: the interval has a text exactly when errors
  were counted since the last sample.
* `OwnRepliesAreKnown`: from `OwnInv`: a request that can still be answered is known
  (remembered under its stamp, about to be, or older than the retention
  window), and so is one whose reply the receiver has in its hands, whatever
  the sequence numbers do meanwhile.

`StreamProofs`:

* `StreamInvariant`, and from it `TypeCorrect`, `AckedStay` and
  `FailsOnlyWhereTorn`. The writer cuts records at the boundary of its buffer, so
  the file alone has no good invariant. `Stream` is the file, without the head of the
  record that is cut, and the buffer behind it: accepting a record
  appends to it, a flush moves the border between the two, a crash, a power loss or
  a failed write cuts it. `DictInv` says that every sample of the stream has an ID
  defined before it in its run, also after the IDs have wrapped; so a reader
  fails at a tear or at a sample that is not text, and nowhere else.
* `StreamIsLog`: the refinement of `SampleLog`, step by step. `LogInv` says that the
  IDs were given out one after the other, that each sample of the stream has the ID
  of its own tuple, and that a reader was given the samples before its
  position. The hypothesis `EnoughIds` (no more tuples than IDs) is the one
  that `stream_wrap` violates; without it the theorem is false.
* `SourcesAreRight`: under the same hypothesis, the property of `stream_wrap` holds.

`CollectorProofs` has every invariant that the run `collector` checks. `Log` is used with the definitions of `SampleLog`, so a step
of the writer is any that the abstract log allows.

* `NoMonitorLeft`, `Freshness`: from `LoopInv`, by the program counter alone. The
  lists are at most `seq % 3` sections old between two sections, since A sections
  come at multiples of three, and three older for each refresh that overlooked
  something; `ListsAreFresh` says nothing of `seq`, hence `FreshInv`. A thing that a
  refresh sees is right in the next B section, which sets both counts back.
* `TypeCorrect`: from `DataInv`; the lemmas about sequences that it rests on (what
  is left of a prefix, of a concatenation, of a set made a sequence) are at the
  head of that part of the module.
* `BoundedLoss`, `CleanStop`: from `LossInv`. `AcceptedInv`: while the writer has
  not failed, every interval before `seq` is in the file or the buffer, and what
  the current section still lacks is in `todo`. `FlushedInv`: unless a flush
  failed, everything before each multiple of the flush interval up to `seq` is
  durable. A multiple lies within any N intervals in a row, which gives the
  bound. `Kept` says of every step that it leaves durable samples where they are.
* `Gapless`: `NoGap` speaks of the file, but the loop appends to the buffer, which
  a failing writer cuts anywhere. `GapFree` of file and buffer together (`All`)
  is inductive: every step either cuts that sequence short (`Cut`: a write, a
  crash, a power loss), which leaves it free of gaps, or appends one sample, for
  which `OrderInv` and `AcceptedInv` say that all it needs is there.

`PingReportProofs` has every property of `ping_report`, for any number of samples,
runs, messages and any durations:

* `FileHolds`: the inductive invariant of the file. `CountInv`: the counters of a
  sample are those before it, or zero at the start of a run, and what happened since.
  `OrderInv`: times and runs grow together.
* `DowntimeIsNotCharged`, `OnScheduleIsNotStarved`, `PointsAreTrue`: from
  `IntervalsHold`, which says of each interval that it holds what happened in it. Proving
  `OnScheduleIsNotStarved` gave the bound in `StarvedIsLate`: below nine requests
  per sample, a monitor on schedule may be called starved for some ping
  interval, as one request may fall to the sample before and one to the next.
* `TotalsAreTrue`, `RTTsAreTrue`: the loop over the intervals is followed along the
  samples (`KeptPath`), and its sums, extremes and messages are compared with those of
  the samples in the window so far. `MeanStaysBetween` has the products.
* `EpisodesAreRight`: `Tells` relates the list of episodes, after any intervals, to
  their stretches with a loss (`Stretch`): one episode per stretch, with its
  figures, and the last one open exactly if the last interval has a loss. A clean
  interval changes no stretch, one with a loss makes the last longer
  (`StretchGrows`) or starts another (`StretchStarts`).

`ChartsProofs` has every invariant that `charts` checks, for any CPUs, processes
and number of snapshots:

* `Invariance`: `CountsInv` says that counters never exceed what happened,
  `HistoryInv` that what happened only grows from one snapshot to the next, and
  `CaptureInv` that a snapshot holds what the counters said then.
* `QemuTime`, `Drops`: a difference that is not negative is at most what happened,
  and is all of it when the base is the same.
* `TypeCorrect`, `Percentages`: what `/proc/stat` shows of a line and of the sum is
  what the CPUs did (`LineIs`, `TotalHolds`), so a percentage is a share, and is between
  0 and 100 also when counters were reset.
* `Rates`: with all CPUs online the row of `softnet_stat` that bears no name is that of
  the CPU it is charted under (`RowIs`), and the total, which sums over what is
  printed, is the sum over the CPUs (`AllReceived`, `SumRenamed`).
* `StepAverages`: the shares and rates of each interval are the true ones, so the
  folds over them are of equal functions.

`Percentages` and `StepAverages` assume that no time is guest time, which `charts`
assumes too: with guest time they are false, as `charts_guest` shows.

`AnalysisProofs` is about captures of a collector without `-n` (`RootOnly`), of any
length, with any interfaces, failures and restarts; `analysis_ns` shows that with
another namespace `TrafficIsCharted` is false.

* `CaptureHolds`: the inductive invariant of the capture: times grow along the file,
  and between two readings of an interface its counter has not moved by more than
  the packets that passed, wherever it was reset in between.
* `RatesAreOfPackets`, `TrafficIsCharted`: the snapshots are followed along the records
  (`SnapInv`): each is of a record, in order, so two snapshots in a row are two readings
  in a row.
* `SnapshotsAreSame`, `FollowedAreSame`: a reader of lines and a reader of records are
  followed together along the run. `Follower` and `Following` say how far the first may be
  behind: by the output it keeps until the next marker, and by that only inside a
  section, where it is in the section that is being written. `Following` is stated of
  all queries at once, also of `-changing`. The times of snapshots need that a command
  is collected once per section (`OnceInv`), so that what was read before is older
  than the section's begin (`InTime`). `Following` is about a reader of records
  without the exception for `/proc/stat` (`CBOROf`, by `ValueSample`); `ValuedOf` shows
  that the whole one (`FullOf`) differs from it by samples without a value only, as the
  number in `/proc/stat` is there whenever it was read (`StatInv`), and `SameOf` that it
  does not differ at all for what does not ask for `/proc/stat`.
* `SectionsAreSame`: from `SectionInv`, which relates the tables that the two readers make.
  No section begins twice in a run (`Begun`, by the order of the sections), so
  the text file lists it when its marker comes and the CBOR file with its first
  sample (`SameOrder`); the times of one that has ended stay (`Ended`), and those of
  the one that is open are between its marker and the clock (`Open`).
* `TimesAreListed`: from `RunInv`, by which the intervals of a run follow each other and
  have the sections that are due, so the records of one run with the number of a
  section have no other's between them; and `TabledInv`, by which a section begins
  and ends at its first and last record, and the list is in the order of the begins.
  A section of one record is listed up to the next begin: `AboutTimes` shows that no
  other section has a record before that, since it would have begun earlier, and a
  run that came back to it would have written the section of one record again, or
  the next one, out of the order of the list.
* `ChangesAreSame`: from `TimesInv`, by which no section begins between the two times
  of a sample, that of its section in the text file and its own in the CBOR file: all
  sections that the text file has so far began no later than the open one (`SoFar`),
  and the next will after all samples (`Aligned`). So a window that does not cut a
  section selects the same samples of both (`PairedWindows`), which have the same
  values by `Following`. That the listed commands are those with two values that
  differ, though only neighbours and the counted names are looked at, follows from
  what the fold of a window selects (`WindowSelects`), from `Neighbours`, and from
  `NamesCounted`: a name with a sample is counted as matching. Cutting a section is
  excluded because the claim is false there: the text file has one time for all
  samples of a section.

The assumptions are those named in the modules: at least one sequence number,
a positive timeout, at least one interval, finite sets, natural bounds; "no error"
is no error's text; a socket's round-trip times are positive; CPUs have the
numbers from zero, as the rows and columns of the files have no other name.

Only model-checked: liveness (`StopTerminates`, in two runs), which is out of
the provers' reach. Every other property of the passing runs is stated by a theorem.

## Plan

Models: several targets in one file in `PingReport`; the points that
`parseTimeSeriesJSON` keeps of several pages with the same time stamps; threads
of a process in `Collector`.

## Not modelled

* Packet bytes and checksums, socket options, the text of samples, the header's
  fields and its environment filter, `-dump`, tables, HTML: formatting or I/O.
* Floating-point statistics: standard deviations.
* The table of `-command`, whose columns are values as they were read, and init
  samples, which are printed as they are.
* Kernel threads of a process: they are those whose name contains the digits of
  its PID anywhere (`discover.go:161`), a heuristic about names that have no
  structure in the model.
* The files with CPU usage from a cloud API, which `-cpu-compare` charts beside
  those of a capture, and which file belongs to which system (by its name).
* The installer.
* The interface `lo`, which the packet rates skip (`net_dev.go:72`): the interfaces of
  the model are the others.
* A Writer on standard output, which is not synced and not closed
  (`writer.go:119`): the models have the one on a file.

Known and not a run: the comment on `Late` says that the reply came "after the
timeout" (`pkg/msucollect/ping.go:63`), but a reply that was stamped in time, and
waits for the lock while the probe is swept, is late as well. `LateOnlyAfterTimeout`
has the bound that is true: a late reply was stamped more than `Timeout` less
the longest wait for the lock after its request.
