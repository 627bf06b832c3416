------------------------------ MODULE PingState ------------------------------
(***************************************************************************)
(* The socket-free bookkeeping of one ping monitor (pingState in           *)
(* src/pkg/msucollect/ping.go): how every sent probe and every received    *)
(* reply is classified, and the cumulative counters that result.           *)
(*                                                                         *)
(* The Go methods mutate a struct under the monitor's mutex and one locked *)
(* region calls several of them, so they are operators from state to       *)
(* state here: After<Method>(st, ...) is the struct after the call.        *)
(***************************************************************************)
EXTENDS Integers, FiniteSets

CONSTANTS
    SeqMod,       \* number of ICMP sequence numbers (2^16 in the program)
    Timeout,      \* how long a probe waits before it counts as lost
    MinRetention  \* pingMinRetention

ASSUME SeqModAssumption == SeqMod \in Nat \ {0}
ASSUME WindowAssumption == Timeout \in Nat \ {0} /\ MinRetention \in Nat

Seqs == 0 .. SeqMod - 1

\* newPingState: how long a probe is remembered after it was sent.
Retention == IF 4 * Timeout < MinRetention THEN MinRetention ELSE 4 * Timeout

\* "none" stands for a sequence number with no entry in the probes map.
ProbeStates == {"none", "pending", "answered", "lost"}

(***************************************************************************)
(* The struct, with PingCounters embedded.  RTTs are integers in the       *)
(* clock's unit; RTTLast and RTTSumSqUS, which are only reported, are left  *)
(* out.                                                                    *)
(***************************************************************************)
States ==
    [probe : [Seqs -> ProbeStates], sentAt : [Seqs -> Nat],
     tx : Nat, txErr : Nat, rx : Nat, rxErr : Nat, lost : Nat, late : Nat,
     dup : Nat, stray : Nat,
     rttSum : Nat, rttMin : Nat, rttMax : Nat, ivalRX : Nat]

NewState ==
    [probe |-> [s \in Seqs |-> "none"], sentAt |-> [s \in Seqs |-> 0],
     tx |-> 0, txErr |-> 0, rx |-> 0, rxErr |-> 0, lost |-> 0, late |-> 0,
     dup |-> 0, stray |-> 0,
     rttSum |-> 0, rttMin |-> 0, rttMax |-> 0, ivalRX |-> 0]

InState(st, p) == {s \in Seqs : st.probe[s] = p}
Retained(st)   == {s \in Seqs : st.probe[s] # "none"}

\* Mutation of AfterSent: the wrapped pending probe is forgotten, not lost.
AfterSent_WrapNotLost(st, seq, now) ==
    [st EXCEPT !.probe[seq] = "pending", !.sentAt[seq] = now, !.tx = @ + 1]

(* The probe seq was handed to the kernel at time now.  A pending probe    *)
(* under the same number can never be matched again and is lost.           *)
AfterSent(st, seq, now) ==
    [st EXCEPT !.lost = IF st.probe[seq] = "pending" THEN @ + 1 ELSE @,
               !.probe[seq] = "pending",
               !.sentAt[seq] = now,
               !.tx = @ + 1]

\* The age of a probe at time now, 0 when the clock reads before its send.
RTT(st, seq, now) ==
    IF now < st.sentAt[seq] THEN 0 ELSE now - st.sentAt[seq]

\* Mutation of AfterReplyInTime: a zero minimum taken for "no reply yet".
AfterReplyInTime_ZeroMin(st, seq, rtt) ==
    [st EXCEPT !.probe[seq] = "answered",
               !.rx = @ + 1,
               !.rttSum = @ + rtt,
               !.rttMin = IF @ = 0 \/ rtt < @ THEN rtt ELSE @,
               !.rttMax = IF rtt > @ THEN rtt ELSE @,
               !.ivalRX = @ + 1]

AfterReplyInTime(st, seq, rtt) ==
    [st EXCEPT !.probe[seq] = "answered",
               !.rx = @ + 1,
               !.rttSum = @ + rtt,
               !.rttMin = IF st.ivalRX = 0 \/ rtt < @ THEN rtt ELSE @,
               !.rttMax = IF rtt > @ THEN rtt ELSE @,
               !.ivalRX = @ + 1]

\* Mutation of AfterReplyOverdue: left for the next sweep to count as lost.
AfterReplyOverdue_LateOnly(st, seq) ==
    [st EXCEPT !.probe[seq] = "answered", !.late = @ + 1]

AfterReplyOverdue(st, seq) ==
    [st EXCEPT !.probe[seq] = "answered", !.lost = @ + 1, !.late = @ + 1]

AfterReplyToLost(st, seq) ==
    [st EXCEPT !.probe[seq] = "answered", !.late = @ + 1]

AfterStray(st) == [st EXCEPT !.stray = @ + 1]
AfterDup(st)   == [st EXCEPT !.dup = @ + 1]

\* The monitor counts its socket errors in the same struct.
AfterTXErr(st) == [st EXCEPT !.txErr = @ + 1]
AfterRXErr(st) == [st EXCEPT !.rxErr = @ + 1]

\* Mutation of AfterReply: every reply to a probe no longer pending is late.
AfterReply_DupIsLate(st, seq, now) ==
    CASE st.probe[seq] = "none"     -> AfterStray(st)
      [] st.probe[seq] = "pending"  ->
            IF RTT(st, seq, now) > Timeout
            THEN AfterReplyOverdue(st, seq)
            ELSE AfterReplyInTime(st, seq, RTT(st, seq, now))
      [] st.probe[seq] \in {"answered", "lost"} -> AfterReplyToLost(st, seq)

\* An echo reply for seq that was received at time now.
AfterReply(st, seq, now) ==
    CASE st.probe[seq] = "none"     -> AfterStray(st)
      [] st.probe[seq] = "pending"  ->
            IF RTT(st, seq, now) > Timeout
            THEN AfterReplyOverdue(st, seq)
            ELSE AfterReplyInTime(st, seq, RTT(st, seq, now))
      [] st.probe[seq] = "answered" -> AfterDup(st)
      [] st.probe[seq] = "lost"     -> AfterReplyToLost(st, seq)

(* sweep(now) deletes the probes older than the retention window, whatever *)
(* their state, and marks the other pending ones older than the timeout.   *)
Forgotten(st, now) == {s \in Retained(st) : now - st.sentAt[s] > Retention}

Expired(st, now) ==
    {s \in InState(st, "pending") \ Forgotten(st, now) :
        now - st.sentAt[s] > Timeout}

\* Mutation of AfterSweep: what is deleted counts as lost, in whatever state.
AfterSweep_LoseForgotten(st, now) ==
    [st EXCEPT !.probe = [s \in Seqs |->
                    IF s \in Forgotten(st, now) THEN "none"
                    ELSE IF s \in Expired(st, now) THEN "lost"
                    ELSE st.probe[s]],
               !.sentAt = [s \in Seqs |->
                    IF s \in Forgotten(st, now) THEN 0 ELSE st.sentAt[s]],
               !.lost = @ + Cardinality(Expired(st, now) \cup Forgotten(st, now))]

AfterSweep(st, now) ==
    [st EXCEPT !.probe = [s \in Seqs |->
                    IF s \in Forgotten(st, now) THEN "none"
                    ELSE IF s \in Expired(st, now) THEN "lost"
                    ELSE st.probe[s]],
               !.sentAt = [s \in Seqs |->
                    IF s \in Forgotten(st, now) THEN 0 ELSE st.sentAt[s]],
               !.lost = @ + Cardinality(Expired(st, now))]

\* snapshot(now) sweeps and starts a new RTT interval; the counters it
\* returns are those of AfterSweep(st, now).
AfterSnapshot(st, now) ==
    [AfterSweep(st, now) EXCEPT !.rttMin = 0, !.rttMax = 0, !.ivalRX = 0]
=============================================================================
