----------------------------- MODULE PingMonitor -----------------------------
(***************************************************************************)
(* One PingMonitor (src/pkg/msucollect/ping.go): the goroutine run, which  *)
(* opens the socket and then sends a probe at every tick; the goroutine    *)
(* receive; the collector, which calls Start, Sample and Stop; and the     *)
(* network, which may lose, delay or duplicate replies and may bring       *)
(* replies that were never ours.                                           *)
(*                                                                         *)
(* The mutex is explicit because send holds it from before the write until *)
(* the probe is registered, while the receiver takes its time stamp before *)
(* it asks for the lock.  Time is a counter that advances between steps.   *)
(***************************************************************************)
EXTENDS PingState

CONSTANTS
    Copies,       \* replies that one request can still bring
    MaxClock,     \* bound: last value of the clock
    MaxAttempts,  \* bound: probes sent or tried
    MaxReadErr,   \* bound: socket read errors counted
    MaxForeign,   \* bound: replies with our identifier that are not ours
    MaxSweepGap,  \* longest time between two sweeps while probes are kept
    MaxLockWait   \* longest time the lock is held over a write, or waited for

ASSUME BoundsAssumption ==
    /\ {Copies, MaxClock, MaxAttempts, MaxReadErr, MaxForeign} \subseteq Nat
    /\ {MaxSweepGap, MaxLockWait} \subseteq Nat

VARIABLES
    clock,
    st,       \* m.st
    mu,       \* holder of m.mu between steps: "free" or "run"
    sock,     \* m.sock and its connection: "none", "open", "closed"
    openErr,  \* m.openErr is not empty
    ivalErr,  \* m.ivalErr is not empty
    stop,     \* m.stop is closed
    wg,       \* counter of m.wg
    run,      \* goroutine run: program counter, next seq, probe being sent
    rcv,      \* goroutine receive: program counter and the reply in hand
    coll,     \* the collector goroutine, as far as it concerns this monitor
    net,      \* net[s]: replies to probes numbered s that may still arrive
    foreign,  \* replies that were never ours, so far
    wrote,    \* history: when the last probe numbered s was written
    sweptAt,  \* history: when the last sweep ran
    sample    \* history: the last sample, and what it covered

vars == <<clock, st, mu, sock, openErr, ivalErr, stop, wg, run, rcv, coll,
          net, foreign, wrote, sweptAt, sample>>

RunPCs  == {"off", "opening", "retrying", "loop", "sending", "exiting", "done"}
RcvPCs  == {"off", "reading", "stamped", "failed", "done"}
CollPCs == {"new", "running", "waiting", "stopped"}

Idle == [pc |-> "off", seq |-> 0, fromTarget |-> FALSE, own |-> FALSE, at |-> 0]

Init ==
    /\ clock = 0
    /\ st = NewState
    /\ mu = "free"
    /\ sock = "none"
    /\ openErr = FALSE
    /\ ivalErr = FALSE
    /\ stop = FALSE
    /\ wg = 0
    /\ run = [pc |-> "off", seq |-> 0, at |-> 0, ok |-> FALSE]
    /\ rcv = Idle
    /\ coll = "new"
    /\ net = [s \in Seqs |-> 0]
    /\ foreign = 0
    /\ wrote = [s \in Seqs |-> 0]
    /\ sweptAt = 0
    /\ sample = [err |-> FALSE, errs |-> 0, rttSum |-> 0]

-----------------------------------------------------------------------------
(* The collector: Start, Sample at any time, Stop.                         *)

Start ==
    /\ coll = "new"
    /\ coll' = "running"
    /\ wg' = wg + 1
    /\ run' = [run EXCEPT !.pc = "opening"]
    /\ UNCHANGED <<clock, st, mu, sock, openErr, ivalErr, stop, rcv, net,
                   foreign, wrote, sweptAt, sample>>

\* Mutation of Sample: the interval's error is cleared before it is read.
Sample_ClearFirst ==
    /\ coll = "running"
    /\ mu = "free"
    /\ sample' = [err    |-> sock = "none" /\ openErr,
                  errs   |-> st.txErr + st.rxErr,
                  rttSum |-> st.rttSum]
    /\ st' = AfterSnapshot(st, clock)
    /\ sweptAt' = clock
    /\ ivalErr' = FALSE
    /\ UNCHANGED <<clock, mu, sock, openErr, stop, wg, run, rcv, coll, net,
                   foreign, wrote>>


Sample ==
    /\ coll = "running"
    /\ mu = "free"
    /\ LET swept == AfterSweep(st, clock) IN
         sample' = [err    |-> IF sock = "none" THEN openErr ELSE ivalErr,
                    errs   |-> swept.txErr + swept.rxErr,
                    rttSum |-> swept.rttSum]
    /\ st' = AfterSnapshot(st, clock)
    /\ sweptAt' = clock
    /\ ivalErr' = FALSE
    /\ UNCHANGED <<clock, mu, sock, openErr, stop, wg, run, rcv, coll, net,
                   foreign, wrote>>

\* Stop closes the channel (once) and waits for the goroutines.
StopBegins ==
    /\ coll = "running"
    /\ coll' = "waiting"
    /\ stop' = TRUE
    /\ UNCHANGED <<clock, st, mu, sock, openErr, ivalErr, wg, run, rcv, net,
                   foreign, wrote, sweptAt, sample>>

StopReturns ==
    /\ coll = "waiting"
    /\ wg = 0
    /\ coll' = "stopped"
    /\ UNCHANGED <<clock, st, mu, sock, openErr, ivalErr, stop, wg, run, rcv,
                   net, foreign, wrote, sweptAt, sample>>

-----------------------------------------------------------------------------
(* The goroutine run.                                                      *)

OpenFails ==
    /\ run.pc = "opening"
    /\ mu = "free"
    /\ openErr' = TRUE
    /\ run' = [run EXCEPT !.pc = "retrying"]
    /\ UNCHANGED <<clock, st, mu, sock, ivalErr, stop, wg, rcv, coll, net,
                   foreign, wrote, sweptAt, sample>>

RetryOpen ==
    /\ run.pc = "retrying"
    /\ run' = [run EXCEPT !.pc = "opening"]
    /\ UNCHANGED <<clock, st, mu, sock, openErr, ivalErr, stop, wg, rcv, coll,
                   net, foreign, wrote, sweptAt, sample>>

GiveUpOpen ==
    /\ run.pc = "retrying"
    /\ stop
    /\ run' = [run EXCEPT !.pc = "done"]
    /\ wg' = wg - 1
    /\ UNCHANGED <<clock, st, mu, sock, openErr, ivalErr, stop, rcv, coll,
                   net, foreign, wrote, sweptAt, sample>>

\* Mutation of OpenSucceeds: no wg.Add(1) for the receiver.
OpenSucceeds_NoAdd ==
    /\ run.pc = "opening"
    /\ mu = "free"
    /\ sock' = "open"
    /\ openErr' = FALSE
    /\ run' = [run EXCEPT !.pc = "loop"]
    /\ rcv' = [rcv EXCEPT !.pc = "reading"]
    /\ UNCHANGED <<clock, st, mu, ivalErr, stop, wg, coll, net, foreign, wrote,
                   sweptAt, sample>>


OpenSucceeds ==
    /\ run.pc = "opening"
    /\ mu = "free"
    /\ sock' = "open"
    /\ openErr' = FALSE
    /\ wg' = wg + 1
    /\ run' = [run EXCEPT !.pc = "loop"]
    /\ rcv' = [rcv EXCEPT !.pc = "reading"]
    /\ UNCHANGED <<clock, st, mu, ivalErr, stop, coll, net, foreign, wrote, sweptAt,
                   sample>>

\* Mutation of SendWrites: the lock is taken only after the write.
SendWrites_Unlocked(ok) ==
    /\ run.pc = "loop"
    /\ st.tx + st.txErr < MaxAttempts
    /\ run' = [run EXCEPT !.pc = "sending", !.at = clock, !.ok = ok]
    /\ net' = IF ok THEN [net EXCEPT ![run.seq] = Copies] ELSE net
    /\ wrote' = IF ok THEN [wrote EXCEPT ![run.seq] = clock] ELSE wrote
    /\ UNCHANGED <<clock, st, mu, sock, openErr, ivalErr, stop, wg, rcv, coll,
                   foreign, sweptAt, sample>>

\* send, first half: lock, read the clock, WriteTo.  From here on the reply
\* can arrive.
SendWrites(ok) ==
    /\ run.pc = "loop"
    /\ mu = "free"
    /\ st.tx + st.txErr < MaxAttempts
    /\ mu' = "run"
    /\ run' = [run EXCEPT !.pc = "sending", !.at = clock, !.ok = ok]
    /\ net' = IF ok THEN [net EXCEPT ![run.seq] = Copies] ELSE net
    /\ wrote' = IF ok THEN [wrote EXCEPT ![run.seq] = clock] ELSE wrote
    /\ UNCHANGED <<clock, st, sock, openErr, ivalErr, stop, wg, rcv, coll,
                   foreign, sweptAt, sample>>

AfterWrite ==
    IF run.ok THEN AfterSent(st, run.seq, run.at)
              ELSE AfterTXErr(st)

\* Mutation of SendReturns: the sequence number does not wrap.
SendReturns_NoWrap ==
    /\ run.pc = "sending"
    /\ st' = AfterSweep(AfterWrite, clock)
    /\ sweptAt' = clock
    /\ ivalErr' = (ivalErr \/ ~run.ok)
    /\ mu' = "free"
    /\ run' = [pc |-> "loop", seq |-> run.seq + 1, at |-> 0, ok |-> FALSE]
    /\ UNCHANGED <<clock, sock, openErr, stop, wg, rcv, coll, net, foreign,
                   wrote, sample>>

\* send, second half: register the probe or count the error, sweep, unlock;
\* then seq++ in the loop.
SendReturns ==
    /\ run.pc = "sending"
    /\ st' = AfterSweep(AfterWrite, clock)
    /\ sweptAt' = clock
    /\ ivalErr' = (ivalErr \/ ~run.ok)
    /\ mu' = "free"
    /\ run' = [pc |-> "loop", seq |-> (run.seq + 1) % SeqMod, at |-> 0, ok |-> FALSE]
    /\ UNCHANGED <<clock, sock, openErr, stop, wg, rcv, coll, net, foreign, wrote,
                   sample>>

\* Mutation of RunReturns: the connection is not closed on return.
RunReturns_NoClose ==
    /\ run.pc = "loop"
    /\ stop
    /\ run' = [run EXCEPT !.pc = "exiting"]
    /\ UNCHANGED <<clock, st, mu, sock, openErr, ivalErr, stop, wg, rcv, coll,
                   net, foreign, wrote, sweptAt, sample>>

\* The loop sees the closed channel and returns; the deferred calls close
\* the connection and then leave the wait group.
RunReturns ==
    /\ run.pc = "loop"
    /\ stop
    /\ sock' = "closed"
    /\ run' = [run EXCEPT !.pc = "exiting"]
    /\ UNCHANGED <<clock, st, mu, openErr, ivalErr, stop, wg, rcv, coll, net,
                   foreign, wrote, sweptAt, sample>>

RunDone ==
    /\ run.pc = "exiting"
    /\ run' = [run EXCEPT !.pc = "done"]
    /\ wg' = wg - 1
    /\ UNCHANGED <<clock, st, mu, sock, openErr, ivalErr, stop, rcv, coll,
                   net, foreign, wrote, sweptAt, sample>>

-----------------------------------------------------------------------------
(* The goroutine receive.                                                  *)

Stamp(seq, fromTarget, own) ==
    rcv' = [pc |-> "stamped", seq |-> seq, fromTarget |-> fromTarget,
            own |-> own, at |-> clock]

\* ReadFrom returns a reply to one of our probes; it is stamped at once.
ReadReply(s) ==
    /\ rcv.pc = "reading"
    /\ sock = "open"
    /\ net[s] > 0
    /\ net' = [net EXCEPT ![s] = @ - 1]
    /\ Stamp(s, TRUE, TRUE)
    /\ UNCHANGED <<clock, st, mu, sock, openErr, ivalErr, stop, wg, run, coll,
                   foreign, wrote, sweptAt, sample>>

\* ReadFrom returns a reply with our identifier that answers none of our
\* probes: from another host, or to another process with that identifier.
ReadForeign(s, fromTarget) ==
    /\ rcv.pc = "reading"
    /\ sock = "open"
    /\ foreign < MaxForeign
    /\ foreign' = foreign + 1
    /\ Stamp(s, fromTarget, FALSE)
    /\ UNCHANGED <<clock, st, mu, sock, openErr, ivalErr, stop, wg, run, coll,
                   net, wrote, sweptAt, sample>>

HandleReply ==
    /\ rcv.pc = "stamped"
    /\ mu = "free"
    /\ st' = IF rcv.fromTarget THEN AfterReply(st, rcv.seq, rcv.at)
                               ELSE AfterStray(st)
    /\ rcv' = [Idle EXCEPT !.pc = "reading"]
    /\ UNCHANGED <<clock, mu, sock, openErr, ivalErr, stop, wg, run, coll,
                   net, foreign, wrote, sweptAt, sample>>

\* ReadFrom fails on the open socket and stop is not closed: the error is
\* going to be counted.
ReadFails ==
    /\ rcv.pc = "reading"
    /\ sock = "open"
    /\ ~stop
    /\ st.rxErr < MaxReadErr
    /\ rcv' = [rcv EXCEPT !.pc = "failed"]
    /\ UNCHANGED <<clock, st, mu, sock, openErr, ivalErr, stop, wg, run, coll,
                   net, foreign, wrote, sweptAt, sample>>

\* ... and is, under the lock, with its text.
CountReadError ==
    /\ rcv.pc = "failed"
    /\ mu = "free"
    /\ st' = AfterRXErr(st)
    /\ ivalErr' = TRUE
    /\ rcv' = [rcv EXCEPT !.pc = "reading"]
    /\ UNCHANGED <<clock, mu, sock, openErr, stop, wg, run, coll, net,
                   foreign, wrote, sweptAt, sample>>

\* ReadFrom fails on the open socket and stop is already closed.
ReadFailsStopped ==
    /\ rcv.pc = "reading"
    /\ sock = "open"
    /\ stop
    /\ rcv' = [rcv EXCEPT !.pc = "done"]
    /\ wg' = wg - 1
    /\ UNCHANGED <<clock, st, mu, sock, openErr, ivalErr, stop, run, coll,
                   net, foreign, wrote, sweptAt, sample>>

\* ReadFrom fails because run closed the connection.
ReadClosed ==
    /\ rcv.pc = "reading"
    /\ sock = "closed"
    /\ rcv' = [rcv EXCEPT !.pc = "done"]
    /\ wg' = wg - 1
    /\ UNCHANGED <<clock, st, mu, sock, openErr, ivalErr, stop, run, coll,
                   net, foreign, wrote, sweptAt, sample>>

-----------------------------------------------------------------------------
(* Time passes.  The ticker and the collector's interval bound the time    *)
(* between sweeps while there are probes to sweep; a write that does not   *)
(* block and the scheduler bound the time the lock is held over it and the *)
(* time a stamped reply waits for it.                                      *)

Tick ==
    /\ clock < MaxClock
    /\ Retained(st) # {} => clock - sweptAt < MaxSweepGap
    /\ run.pc = "sending" => clock - run.at < MaxLockWait
    /\ rcv.pc = "stamped" => clock - rcv.at < MaxLockWait
    /\ clock' = clock + 1
    /\ UNCHANGED <<st, mu, sock, openErr, ivalErr, stop, wg, run, rcv, coll,
                   net, foreign, wrote, sweptAt, sample>>

\* After Stop has returned nothing of the monitor runs any more.
Stopped == coll = "stopped" /\ UNCHANGED vars

RunStep ==
    \/ OpenFails \/ RetryOpen \/ GiveUpOpen \/ OpenSucceeds
    \/ \E ok \in BOOLEAN : SendWrites(ok)
    \/ SendReturns \/ RunReturns \/ RunDone

ReceiveStep ==
    \/ \E s \in Seqs : ReadReply(s)
    \/ \E s \in Seqs, fromTarget \in BOOLEAN : ReadForeign(s, fromTarget)
    \/ HandleReply \/ ReadFails \/ CountReadError
    \/ ReadFailsStopped \/ ReadClosed

CollectorStep == Start \/ Sample \/ StopBegins \/ StopReturns

Next == RunStep \/ ReceiveStep \/ CollectorStep \/ Tick \/ Stopped

Spec == Init /\ [][Next]_vars

(***************************************************************************)
(* Fairness.  A runnable goroutine runs, and a sync.Mutex is not starved.  *)
(* The select in run picks at random among its ready cases, so a closed    *)
(* stop is not passed over forever (SF).  Nothing promises that a packet   *)
(* arrives, that a read fails, that an open succeeds, or that the          *)
(* collector ever calls Stop.                                              *)
(***************************************************************************)
Fairness ==
    /\ SF_vars(RunReturns) /\ SF_vars(GiveUpOpen)
    /\ WF_vars(OpenSucceeds \/ OpenFails)
    /\ WF_vars(SendReturns) /\ WF_vars(RunDone)
    /\ SF_vars(HandleReply) /\ SF_vars(CountReadError)
    /\ WF_vars(ReadClosed)
    /\ WF_vars(StopReturns)

FairSpec == Spec /\ Fairness

-----------------------------------------------------------------------------
(* Properties.                                                             *)

\* Every variable has its type; the numeric ones stay within their bounds.
TypeOK ==
    /\ clock \in Nat /\ sweptAt \in Nat /\ foreign \in Nat /\ wg \in 0 .. 2
    /\ st \in States
    /\ mu \in {"free", "run"}
    /\ sock \in {"none", "open", "closed"}
    /\ {openErr, ivalErr, stop} \subseteq BOOLEAN
    /\ run \in [pc : RunPCs, seq : Seqs, at : Nat, ok : BOOLEAN]
    /\ rcv \in [pc : RcvPCs, seq : Seqs, fromTarget : BOOLEAN, own : BOOLEAN,
                at : Nat]
    /\ coll \in CollPCs
    /\ net \in [Seqs -> Nat] /\ wrote \in [Seqs -> Nat]
    /\ sample \in [err : BOOLEAN, errs : Nat, rttSum : Nat]

\* Every request handed to the kernel is accounted for exactly once: answered
\* in time, lost, or still pending ("probes with no reply within Timeout" are
\* Lost).  It needs a sweep at least every Retention - Timeout, since sweep
\* deletes what it finds older than Retention without counting it.
LossAccounted ==
    st.tx = st.rx + st.lost + Cardinality(InState(st, "pending"))

\* Whatever the sweeps do, no request is counted twice.
NeverOvercounted ==
    st.rx + st.lost + Cardinality(InState(st, "pending")) <= st.tx

\* Late replies are "already counted in Lost", and a probe marked lost leaves
\* room for the one late reply it may still get.
LateCoveredByLost ==
    st.late + Cardinality(InState(st, "lost")) <= st.lost

\* The mean RTT between two samples, which msu computes from rtt_sum and rx,
\* lies between the minimum and the maximum the second sample reports.
IntervalMeanWithinMinMax ==
    /\ st.ivalRX * st.rttMin <= st.rttSum - sample.rttSum
    /\ st.rttSum - sample.rttSum <= st.ivalRX * st.rttMax

\* A sample whose error counters grew since the previous one carries an error
\* text, and once the socket is open only such a sample does.
ErrorsReported ==
    [][/\ sample'.errs > sample.errs => sample'.err
       /\ sample'.err /\ sock # "none" => sample'.errs > sample.errs]_sample

\* "The lock is held across the write so a reply cannot be processed before
\* its probe is registered": a reply to one of our own requests is a stray
\* only if that request is older than the retention window.
OwnReplyNeverStray ==
    [][st'.stray > st.stray /\ rcv.own
         => clock - wrote[rcv.seq] > Retention]_st

\* A reply is Late only if it was received more than Timeout after the send,
\* give or take the time it waited for the lock after its time stamp.
LateOnlyAfterTimeout ==
    [][st'.late > st.late
         => rcv.at - st.sentAt[rcv.seq] + MaxLockWait > Timeout]_st

\* When Stop has returned both goroutines are gone and the socket is closed.
QuietAfterStop ==
    coll = "stopped" =>
        /\ run.pc = "done"
        /\ rcv.pc \in {"off", "done"}
        /\ sock # "open"

\* Stop returns, whatever the monitor was doing: waiting to reopen the
\* socket, sending, waiting for the lock, or blocked in a read.
StopTerminates == coll = "waiting" ~> coll = "stopped"
=============================================================================
