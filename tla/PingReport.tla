----------------------------- MODULE PingReport -----------------------------
(***************************************************************************)
(* The ping report of msu (cmd/msu/ping.go): the samples that a monitor    *)
(* left in the file, one target of several runs of the collector, turned   *)
(* into intervals, and the intervals of a time window into a report.       *)
(*                                                                         *)
(* The reader is pure: samples |-> report.  What moves is the file, which  *)
(* gets a sample of cumulative counters per collection interval and a      *)
(* header per run.  The counters are any that PingState can show: every    *)
(* request is answered, lost or pending.  "happened" remembers what the    *)
(* monitor did between two samples, which the report has to find again.    *)
(*                                                                         *)
(* late, dup, stray, tx_err, rx_err and rtt_sumsq_us are treated like      *)
(* lost, and are left out with the standard deviation.                     *)
(***************************************************************************)
EXTENDS Integers, SequencesExt

CONSTANTS
    Interval,      \* Header.IntervalNS, the collection interval
    PingInterval,  \* interval_us, the time between two requests
    Durations,     \* time between two samples
    RTTs,          \* round-trip times
    OpenErrs,      \* why the socket could not be opened
    MaxRuns,       \* bound: runs in the file
    MaxSamples     \* bound: samples of the target

ASSUME ReportAssumption ==
    /\ PingInterval \in Nat \ {0}
    /\ "no error" \notin OpenErrs
    /\ Interval \in Nat /\ Durations \subseteq Nat
    /\ RTTs \subseteq Nat \ {0}

VARIABLES
    clock,     \* the time of day; 0 is time.Time's zero value
    runs,      \* pf.Runs: start times
    cnt,       \* the counters of the monitor
    samples,   \* pf.Samples[target]
    happened   \* history: what the monitor did before each sample

vars == <<clock, runs, cnt, samples, happened>>

Zero == [mode |-> "none", tx |-> 0, rx |-> 0, lost |-> 0, pending |-> 0,
         rttSum |-> 0, rttMin |-> 0, rttMax |-> 0]

Init ==
    /\ clock = 1
    /\ runs = <<1>>
    /\ cnt = Zero
    /\ samples = <<>> /\ happened = <<>>

\* Sum of field f of the records of s.
SumOf(s, f) == FoldLeft(LAMBDA n, x : n + x[f], 0, s)

-----------------------------------------------------------------------------
(* pingIntervals.                                                          *)

NoError == "no error"

SafeU64Delta(curr, prev) == IF curr >= prev THEN curr - prev ELSE 0

\* Counters that went backwards.  The file has a header per run, so the
\* comparison of runs finds every restart first.
PingCountersRestarted(prev, cur) ==
    cur.tx < prev.tx \/ cur.lost < prev.lost \/ cur.rx < prev.rx

NewRun(i) ==
    \/ i = 1
    \/ samples[i - 1].run # samples[i].run
    \/ PingCountersRestarted(samples[i - 1].c, samples[i].c)

\* Mutation of Start: at the sample before it, of whatever run.
Start_Prev(i, newRun) ==
    IF i > 1 THEN samples[i - 1].time ELSE runs[samples[i].run]

\* Where the interval of sample i starts: at the sample before it, or at the
\* start of the run.
Start(i, newRun) ==
    LET run == runs[samples[i].run]
        now == samples[i].time
    IN  IF ~newRun THEN samples[i - 1].time
        ELSE IF run < now THEN run ELSE now

\* pingGapFactor is 2.5.
TooLong(dur) == Interval > 0 /\ 2 * dur > 5 * Interval

\* Mutation of TooFew: no tolerance.
TooFew_Exact(sent, dur) == sent * PingInterval < dur

\* pingStarvedFraction is 0.8.
TooFew(sent, dur) == 10 * sent * PingInterval < 8 * dur

\* The counters of sample i are compared with those before it, or with zero
\* if a run starts.
IntervalOf(i) ==
    LET c      == samples[i].c
        newRun == NewRun(i)
        prev   == IF newRun THEN Zero ELSE samples[i - 1].c
        start  == Start(i, newRun)
        dur    == samples[i].time - start
        Delta(f) == SafeU64Delta(c[f], prev[f])
    IN  [start   |-> start,
         end     |-> samples[i].time,
         tx      |-> Delta("tx"),
         rx      |-> Delta("rx"),
         lost    |-> Delta("lost"),
         pending |-> c.pending,
         rttSum  |-> Delta("rttSum"),
         rttMin  |-> c.rttMin,
         rttMax  |-> c.rttMax,
         err     |-> samples[i].err,
         newRun  |-> newRun,
         gap     |-> ~newRun /\ dur > 0 /\ TooLong(dur),
         starved |-> ~newRun /\ dur > 0 /\ c.mode # "none" /\ TooFew(Delta("tx"), dur)]

PingIntervals == [i \in DOMAIN samples |-> IntervalOf(i)]

\* Mutation of LossPct: nothing sent, nothing lost.
LossPct_NothingSent(iv) ==
    IF iv.lost = 0 \/ iv.tx = 0 THEN <<0, 1>>
    ELSE IF iv.lost > iv.tx THEN <<100, 1>> ELSE <<100 * iv.lost, iv.tx>>

\* Fractions <<n, d>>.  A loss may be of a request of the interval before, so
\* there can be more losses than requests: all is lost then.
LossPct(iv) ==
    IF iv.lost = 0 THEN <<0, 1>>
    ELSE IF iv.tx = 0 \/ iv.lost > iv.tx THEN <<100, 1>> ELSE <<100 * iv.lost, iv.tx>>

RTTAvg(iv) == IF iv.rx = 0 THEN <<0, 1>> ELSE <<iv.rttSum, iv.rx>>

\* pingChartSeries: three points per interval, at its end.
PingChartSeries ==
    {[time |-> iv.end, loss |-> LossPct(iv), avg |-> RTTAvg(iv), max |-> iv.rttMax] : iv \in ToSet(PingIntervals)}

-----------------------------------------------------------------------------
(* buildPingReport.                                                        *)

\* A window is open on a side whose time is zero.
InTimeRange(t, from, to) ==
    /\ from # 0 => t >= from
    /\ to # 0 => t <= to

\* Mutation of Kept: samples outside the window are dropped before the
\* intervals are built, so the first one left starts from zero.
Kept_FilterFirst(from, to) ==
    LET s == SelectSeq(PingIntervals, LAMBDA iv : InTimeRange(iv.end, from, to))
        skipped == Len(SelectSeq(samples, LAMBDA x : from # 0 /\ x.time < from))
        c == samples[skipped + 1].c
    IN  IF s = <<>> THEN s
        ELSE [s EXCEPT ![1].tx = c.tx, ![1].rx = c.rx, ![1].lost = c.lost]

\* The loop over the intervals passes over those that end outside the window.
Kept(from, to) ==
    FoldLeft(LAMBDA kept, iv : IF InTimeRange(iv.end, from, to) THEN Append(kept, iv) ELSE kept,
             <<>>, PingIntervals)

\* Mutation of MinRTT: zero is taken for a round-trip time.
MinRTT_Zero(kept) ==
    FoldLeft(LAMBDA m, iv : IF m = 0 \/ iv.rttMin < m THEN iv.rttMin ELSE m, 0, kept)

\* The minimum skips intervals without a reply, whose minimum is zero.
MinRTT(kept) ==
    FoldLeft(LAMBDA m, iv : IF iv.rx > 0 /\ iv.rttMin > 0 /\ (m = 0 \/ iv.rttMin < m)
                            THEN iv.rttMin ELSE m, 0, kept)

MaxRTT(kept) == FoldLeft(LAMBDA m, iv : IF iv.rttMax > m THEN iv.rttMax ELSE m, 0, kept)

LongestOf(kept) ==
    FoldLeft(LAMBDA m, iv : IF iv.end - iv.start > m THEN iv.end - iv.start ELSE m, 0, kept)

\* An episode goes on while every interval has a loss; a clean one ends it.
NewEpisode(iv) ==
    [start |-> iv.start, end |-> iv.end, intervals |-> 1, tx |-> iv.tx, lost |-> iv.lost,
     rttMax |-> iv.rttMax]

Extended(ep, iv) ==
    [ep EXCEPT !.end = iv.end, !.intervals = @ + 1, !.tx = @ + iv.tx, !.lost = @ + iv.lost,
               !.rttMax = IF iv.rttMax > @ THEN iv.rttMax ELSE @]

\* Mutation of AddToEpisodes: a clean interval does not end the episode.
AddToEpisodes_NoEnd(a, iv) ==
    IF iv.lost = 0 THEN a
    ELSE IF a.open THEN [a EXCEPT !.list[Len(a.list)] = Extended(@, iv)]
    ELSE [list |-> Append(a.list, NewEpisode(iv)), open |-> TRUE]

AddToEpisodes(a, iv) ==
    IF iv.lost = 0 THEN [a EXCEPT !.open = FALSE]
    ELSE IF a.open THEN [a EXCEPT !.list[Len(a.list)] = Extended(@, iv)]
    ELSE [list |-> Append(a.list, NewEpisode(iv)), open |-> TRUE]

Episodes(kept) == FoldLeft(AddToEpisodes, [list |-> <<>>, open |-> FALSE], kept).list

\* Each message once, with its number of intervals and the first of them.
Errors(kept) ==
    FoldLeft(LAMBDA list, iv :
                 IF iv.err = NoError THEN list
                 ELSE IF \E e \in ToSet(list) : e.msg = iv.err
                 THEN [k \in DOMAIN list |-> [list[k] EXCEPT !.count = IF list[k].msg = iv.err THEN @ + 1 ELSE @]]
                 ELSE Append(list, [msg |-> iv.err, count |-> 1, first |-> iv.end]),
             <<>>, kept)

\* The intervals printed for a target, all of them with -ping-intervals.
Listed(kept, all) ==
    FoldLeft(LAMBDA list, iv : IF all \/ iv.lost > 0 THEN Append(list, iv) ELSE list, <<>>, kept)

CountOf(kept, P(_)) == Len(SelectSeq(kept, P))

BuildPingReport(from, to) ==
    LET kept == Kept(from, to)
    IN  [intervals |-> kept,
         tx        |-> SumOf(kept, "tx"),
         rx        |-> SumOf(kept, "rx"),
         lost      |-> SumOf(kept, "lost"),
         rttSum    |-> SumOf(kept, "rttSum"),
         rttMin    |-> MinRTT(kept),
         rttMax    |-> MaxRTT(kept),
         longest   |-> LongestOf(kept),
         gaps      |-> CountOf(kept, LAMBDA iv : iv.gap),
         starved   |-> CountOf(kept, LAMBDA iv : iv.starved),
         errors    |-> Errors(kept),
         lossy     |-> CountOf(kept, LAMBDA iv : iv.lost > 0),
         episodes  |-> Episodes(kept)]

-----------------------------------------------------------------------------
(* The file.                                                               *)

\* The collector starts again with the same output path, at once or later.
Restart(down) ==
    /\ Len(runs) < MaxRuns
    /\ clock' = clock + down
    /\ runs' = Append(runs, clock')
    /\ cnt' = Zero
    /\ UNCHANGED <<samples, happened>>

\* Numbers of requests in a time dt: none, or the least that a monitor on
\* schedule sends: it may have sent one just before and one just after.
Least(dt)    == IF dt \div PingInterval > 0 THEN dt \div PingInterval - 1 ELSE 0
Sendings(dt) == {0, Least(dt)}

\* The counters after an interval; see PingState for what they count.
Advanced(opened, sent, expired, left, rtt) ==
    LET answered == sent + cnt.pending - expired - left
    IN  [mode    |-> IF opened THEN "raw" ELSE cnt.mode,
         tx      |-> cnt.tx + sent,
         rx      |-> cnt.rx + answered,
         lost    |-> cnt.lost + expired,
         pending |-> left,
         rttSum  |-> cnt.rttSum + answered * rtt,
         rttMin  |-> IF answered > 0 THEN rtt ELSE 0,
         rttMax  |-> IF answered > 0 THEN rtt ELSE 0]

\* One sample: dt later, with what the monitor did since the last one.
\* Without a socket it does nothing but report the error.
Sample(dt, sent, expired, left, rtt, opened, err) ==
    LET isOpen == opened \/ cnt.mode # "none"
    IN  /\ Len(samples) < MaxSamples
        /\ opened => cnt.mode = "none"
        /\ ~isOpen => sent = 0
        /\ (err = NoError) = isOpen
        /\ expired + left <= sent + cnt.pending
        /\ clock' = clock + dt
        /\ cnt' = Advanced(opened, sent, expired, left, rtt)
        /\ samples' = Append(samples, [time |-> clock', run |-> Len(runs), err |-> err, c |-> cnt'])
        /\ happened' = Append(happened,
              [sent |-> sent, answered |-> cnt'.rx - cnt.rx, expired |-> expired, rtt |-> rtt,
               onSchedule |-> isOpen /\ ~opened /\ sent = Least(dt)])
        /\ UNCHANGED runs

Next ==
    \/ \E down \in {0, Interval} : Restart(down)
    \/ \E dt \in Durations, rtt \in RTTs, opened \in BOOLEAN, expired, left \in 0 .. 1 :
          \E sent \in Sendings(dt), err \in OpenErrs \cup {NoError} :
              Sample(dt, sent, expired, left, rtt, opened, err)

Spec == Init /\ [][Next]_vars

-----------------------------------------------------------------------------
(* Properties.                                                             *)

\* The windows worth asking for: between any two samples, or open.
Times   == {0} \cup {samples[i].time : i \in DOMAIN samples}
Windows == {w \in Times \X Times : w[2] # 0 => w[1] <= w[2]}
Within(from, to) == {i \in DOMAIN samples : InTimeRange(samples[i].time, from, to)}
HappenedSum(f, S) == MapThenSumSet(LAMBDA i : happened[i][f], S)

\* The totals of a report are what the monitor did in the window: nothing is
\* counted twice, lost between two runs, or charged to a window for what came
\* before it, although the samples only hold totals that restart with the
\* collector (pingIntervals, buildPingReport).
TotalsAreTruth ==
    \A w \in Windows :
        LET r == BuildPingReport(w[1], w[2])
            S == Within(w[1], w[2])
        IN  /\ r.tx = HappenedSum("sent", S)
            /\ r.rx = HappenedSum("answered", S)
            /\ r.lost = HappenedSum("expired", S)
            /\ Len(r.errors) = Cardinality({samples[i].err : i \in S} \ {NoError})
            /\ \A e \in ToSet(r.errors) :
                   LET told == {i \in S : samples[i].err = e.msg}
                   IN  e.count = Cardinality(told) /\ \E i \in told : \A j \in told : i <= j /\ samples[i].time = e.first

\* The round-trip times of a report are those of the replies in the window:
\* intervals without a reply, whose extremes are zero, do not count, and the
\* mean, whose sum runs on while the extremes start again with every sample,
\* lies between the extremes (ping.go:449).
RTTsAreTruth ==
    \A w \in Windows :
        LET r == BuildPingReport(w[1], w[2])
            replied == {happened[i].rtt : i \in {j \in Within(w[1], w[2]) : happened[j].answered > 0}}
        IN  /\ r.rttMin = IF replied = {} THEN 0 ELSE CHOOSE x \in replied : \A y \in replied : x <= y
            /\ r.rttMax = IF replied = {} THEN 0 ELSE CHOOSE x \in replied : \A y \in replied : x >= y
            /\ r.rttMin * r.rx <= r.rttSum /\ r.rttSum <= r.rttMax * r.rx

\* Episodes are the longest stretches of intervals that all have a loss, each
\* with the totals of its stretch, and the intervals listed are those of the
\* episodes (pingEpisode, buildPingReport).
EpisodesAreStretches ==
    \A w \in Windows :
        LET ivs == Kept(w[1], w[2])
            eps == Episodes(ivs)
            Lossy(i) == i \in DOMAIN ivs /\ ivs[i].lost > 0
            stretches == {p \in (DOMAIN ivs) \X (DOMAIN ivs) :
                             /\ p[1] <= p[2] /\ \A k \in p[1] .. p[2] : Lossy(k)
                             /\ ~Lossy(p[1] - 1) /\ ~Lossy(p[2] + 1)}
        IN  /\ Len(eps) = Cardinality(stretches)
            /\ Len(Listed(ivs, FALSE)) = SumOf(eps, "intervals")
            /\ \A s \in stretches : \E e \in ToSet(eps) :
                   LET part == SubSeq(ivs, s[1], s[2])
                   IN  /\ e.start = ivs[s[1]].start /\ e.end = ivs[s[2]].end
                       /\ e.intervals = Len(part)
                       /\ e.tx = SumOf(part, "tx") /\ e.lost = SumOf(part, "lost")
                       /\ e.rttMax = MaxRTT(part)

\* A point of the charts shows what the monitor did since the sample before,
\* also after a restart: a loss wherever a request expired, all of it if none
\* was sent, and the round-trip times of its replies alone (pingChartSeries).
PointsAreTruth ==
    \A i \in DOMAIN samples :
        LET h     == happened[i]
            share == IF h.expired > h.sent THEN <<100, 1>>
                     ELSE IF h.expired = 0 THEN <<0, 1>> ELSE <<100 * h.expired, h.sent>>
            rtt   == IF h.answered > 0 THEN h.rtt ELSE 0
        IN  \E p \in PingChartSeries :
                /\ p.time = samples[i].time /\ p.loss = share
                /\ p.max = rtt /\ p.avg[1] = rtt * p.avg[2] /\ p.avg[2] > 0

\* Intervals do not overlap, and the time the collector was down belongs to
\* none: it makes no gap and does not lengthen the longest interval.
DowntimeNotCharged ==
    \A i \in DOMAIN samples :
        /\ runs[samples[i].run] <= PingIntervals[i].start
        /\ i > 1 => PingIntervals[i - 1].end <= PingIntervals[i].start

\* A monitor that kept its schedule is not called starved because of the phase
\* of its requests to the samples, as long as there are nine ping intervals or
\* more between two samples (pingStarvedFraction).
StarvedIsLate ==
    \A i \in DOMAIN samples :
        /\ PingIntervals[i].starved
        /\ samples[i].time - samples[i - 1].time >= 9 * PingInterval
        => ~happened[i].onSchedule
=============================================================================
