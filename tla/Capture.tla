------------------------------ MODULE Capture ------------------------------
(***************************************************************************)
(* What the analyzer reads: a capture, as msu-collect records it (recs, the *)
(* samples that a msuformat.Reader returns) and as the legacy shell script *)
(* prints it (lines).  Both collect the same sources in the same order:    *)
(* once an "init" section, then in every interval a "B" section and in     *)
(* every third an "A" section before it (collector.go,                     *)
(* scripts/monitor_system_usage.sh).  Below them is the host, with packet  *)
(* counters per interface and network namespace.                           *)
(*                                                                         *)
(* msu-collect may be killed and started again with the same file; the     *)
(* script starts a new file, so lines are those of its first run.  Four    *)
(* commands stand for all: lscpu of the init section, /proc/net/dev of A   *)
(* sections, which is also read per namespace, /proc/net/softnet_stat of   *)
(* both A and B sections, and /proc/stat of B sections.                    *)
(***************************************************************************)
EXTENDS Integers, SequencesExt

CONSTANTS
    Namespaces,  \* the -n flag
    Ifaces,      \* interface names, in any namespace
    MaxSeq,      \* bound: intervals per run
    MaxRuns,     \* bound: runs that append to the file
    MaxEvents    \* bound: packets, changes of interfaces, failed commands

Root    == "root"
Absent  == -1    \* no interface of that name
Nothing == <<>>  \* the output of a command that failed
None    == "none"

ASSUME CaptureAssumption ==
    /\ Root \notin Namespaces
    /\ MaxSeq \in Nat /\ MaxRuns \in Nat /\ MaxEvents \in Nat

Commands == {"lscpu", "dev", "softnet", "stat"}
AllNS    == {Root} \cup Namespaces

VARIABLES
    clock,   \* time
    run,     \* number of the collector's run
    seq,     \* the interval
    section, \* the section being collected
    now,     \* the script's NOW
    next,    \* the section after it
    todo,    \* what is left of the section
    net,     \* packets counted, by namespace and interface
    passed,  \* history: packets seen since ever
    events,  \* events so far
    recs,    \* the CBOR file
    lines,   \* the text file
    truth    \* history: the value of passed at each record

hostVars    == <<net, passed, events>>
captureVars == <<clock, run, seq, section, now, next, todo, hostVars, recs, lines, truth>>

-----------------------------------------------------------------------------
(* Sources of a section (sources.go).                                      *)

Source(cmd, ns) == [cmd |-> cmd, ns |-> ns]

PerNamespace ==
    FlattenSeq([i \in 1 .. Cardinality(Namespaces) |->
                   LET ns == SetToSeq(Namespaces)[i]
                   IN  <<Source("dev", ns), Source("softnet", ns)>>])

Sources(sec) ==
    CASE sec = "init" -> <<Source("lscpu", Root)>>
      [] sec = "A"    -> <<Source("dev", Root), Source("softnet", Root)>> \o PerNamespace
      [] sec = "B"    -> <<Source("stat", Root), Source("softnet", Root)>>

\* /proc/net/dev lists the interfaces of the namespace, the others count for
\* the whole host, always more.
Output(src) == <<IF src.cmd = "dev" THEN net[src.ns] ELSE clock>>

-----------------------------------------------------------------------------
(* The text file, by line.  The markers name the namespace of a command.   *)

Begin(sec)  == [kind |-> "begin", sec |-> sec, id |-> seq, time |-> clock]
\* The end of an A section is stamped with a time taken after its first
\* command, that of a B section with the time at its end.
End(sec)    == [kind |-> "end", sec |-> sec, id |-> seq,
                time |-> IF sec = "A" THEN now ELSE clock]
Marker(src) == [kind |-> "marker", src |-> src]
Out(v)      == [kind |-> "out", value |-> v]

Printed(s) == lines' = IF run = 1 THEN lines \o s ELSE lines

CaptureInit ==
    /\ clock = 1 /\ run = 1 /\ seq = 0 /\ now = 1
    /\ section = "init" /\ todo = Sources("init") /\ next = "A"
    /\ net \in [AllNS -> [Ifaces -> {Absent, 0}]]
    /\ passed = [n \in AllNS |-> [i \in Ifaces |-> 0]]
    /\ events = 0
    /\ recs = <<>> /\ lines = <<>> /\ truth = <<>>

\* One source: a record, and the marker with what the command prints.  A
\* command that fails prints nothing.
Collect ==
    /\ section # None /\ todo # <<>>
    /\ \E v \in {Output(Head(todo)), Nothing} :
          /\ v = Nothing => events < MaxEvents
          /\ events' = IF v = Nothing THEN events + 1 ELSE events
          /\ recs' = Append(recs, [seq |-> seq, sec |-> section, cmd |-> Head(todo).cmd,
                                   ns |-> Head(todo).ns, time |-> clock, out |-> v])
          /\ Printed(<<Marker(Head(todo))>> \o (IF v = Nothing THEN <<>> ELSE <<Out(v)>>))
    /\ truth' = Append(truth, passed)
    /\ todo' = Tail(todo)
    /\ clock' = clock + 1
    /\ UNCHANGED <<run, seq, section, now, next, net, passed>>

\* The start of a section.  The marker has its time; the script reads the
\* clock again once ps, not among the sources here, has run.
BeginSection ==
    /\ section = None /\ seq < MaxSeq
    /\ section' = next
    /\ todo' = Sources(next)
    /\ Printed(<<Begin(next)>>)
    /\ clock' = clock + 1
    /\ now' = clock'
    /\ UNCHANGED <<run, seq, next, hostVars, recs, truth>>

\* The end of a section, unmarked if it is the init section.
EndSection ==
    /\ section # None /\ todo = <<>>
    /\ section' = None
    /\ seq' = IF section = "B" THEN seq + 1 ELSE seq
    /\ next' = CASE section = "init" -> "A"
                 [] section = "A"    -> "B"
                 [] section = "B"    -> IF seq' % 3 = 0 THEN "A" ELSE "B"
    /\ Printed(IF section = "init" THEN <<>> ELSE <<End(section)>>)
    /\ clock' = clock + 1
    /\ UNCHANGED <<run, todo, now, hostVars, recs, truth>>

\* The collector is killed and started again.
Restart ==
    /\ run < MaxRuns
    /\ run' = run + 1
    /\ seq' = 0 /\ section' = "init" /\ todo' = Sources("init") /\ next' = "A"
    /\ clock' = clock + 1
    /\ UNCHANGED <<now, hostVars, recs, lines, truth>>

-----------------------------------------------------------------------------
(* The host.                                                               *)

Packet(n, i) ==
    /\ net[n][i] # Absent
    /\ net' = [net EXCEPT ![n][i] = @ + 1]
    /\ passed' = [passed EXCEPT ![n][i] = @ + 1]

\* An interface goes, or comes with fresh counters, or both.
Replug(n, i) ==
    /\ \E v \in {Absent, 0} \ {net[n][i]} : net' = [net EXCEPT ![n][i] = v]
    /\ UNCHANGED passed

\* The host acts just before /proc/net/dev is read, where all that it did since
\* the last reading is seen first.
HostStep ==
    /\ events < MaxEvents
    /\ section # None /\ todo # <<>> /\ Head(todo).cmd = "dev"
    /\ events' = events + 1
    /\ \E n \in AllNS, i \in Ifaces : Packet(n, i) \/ Replug(n, i)
    /\ UNCHANGED <<clock, run, seq, section, now, next, todo, recs, lines, truth>>

CaptureNext == Collect \/ BeginSection \/ EndSection \/ Restart \/ HostStep
=============================================================================
