--------------------------- MODULE PingReportProofs ---------------------------
(***************************************************************************)
(* What the ping report says is what the monitor did, for every window and *)
(* for files of any length.  The argument is in two parts: an invariant of *)
(* the file relates each sample to the one before it, and from it every    *)
(* interval is shown to hold what happened in it; then the folds of        *)
(* buildPingReport over the intervals are compared with what happened in   *)
(* the window.                                                             *)
(***************************************************************************)
EXTENDS PingReport, FoldLemmas

-----------------------------------------------------------------------------
(* The file.                                                               *)

Errs     == OpenErrs \cup {NoError}
Counters == [mode : {"none", "raw"}, tx : Nat, rx : Nat, lost : Nat, pending : Nat,
             rttSum : Nat, rttMin : Nat, rttMax : Nat]
SampleRecs == [time : Nat, run : Nat, err : Errs, c : Counters]
HappenedRecs == [sent : Nat, answered : Nat, expired : Nat, rtt : Nat \ {0}, onSchedule : BOOLEAN]

TypeInv ==
    /\ clock \in Nat /\ runs \in Seq(Nat) /\ runs # <<>>
    /\ cnt \in Counters
    /\ samples \in Seq(SampleRecs) /\ happened \in Seq(HappenedRecs)
    /\ Len(happened) = Len(samples)

\* The sample i is the first of its run.
First(i) == i = 1 \/ samples[i - 1].run # samples[i].run
Base(i)  == IF First(i) THEN Zero ELSE samples[i - 1].c

\* Times and run numbers grow along the file.
OrderInv ==
    \A i \in 1 .. Len(samples) :
        /\ samples[i].run \in 1 .. Len(runs)
        /\ runs[samples[i].run] <= samples[i].time
        /\ i > 1 => /\ samples[i - 1].time <= samples[i].time
                    /\ First(i) => samples[i - 1].time <= runs[samples[i].run]

\* What is in memory: the last sample's counters, or none in a fresh run.
MemoryInv ==
    LET n == Len(samples) IN
    /\ runs[Len(runs)] <= clock
    /\ n > 0 =>
        \/ samples[n].run = Len(runs) /\ cnt = samples[n].c /\ clock = samples[n].time
        \/ samples[n].run # Len(runs) /\ cnt = Zero /\ samples[n].time <= runs[Len(runs)]
    /\ n = 0 => cnt = Zero

\* A sample adds to the one before it what happened in between.
Adds(base, c, h) ==
    /\ c.tx = base.tx + h.sent /\ c.rx = base.rx + h.answered /\ c.lost = base.lost + h.expired
    /\ c.rttSum = base.rttSum + h.answered * h.rtt
    /\ c.rttMin = IF h.answered > 0 THEN h.rtt ELSE 0
    /\ c.rttMax = IF h.answered > 0 THEN h.rtt ELSE 0

CountInv ==
    \A i \in 1 .. Len(samples) :
        /\ Adds(Base(i), samples[i].c, happened[i])
        /\ ~ First(i) /\ happened[i].onSchedule => happened[i].sent = Least(samples[i].time - samples[i - 1].time)

FileInv == TypeInv /\ OrderInv /\ MemoryInv /\ CountInv

LEMMA InitFile == Init => FileInv
  <1> SUFFICES ASSUME Init PROVE FileInv
    OBVIOUS
  <1>1. /\ clock = 1 /\ runs \in Seq(Nat) /\ runs # <<>> /\ Len(runs) = 1 /\ runs[1] = 1 /\ cnt = Zero
        /\ samples \in Seq(SampleRecs) /\ happened \in Seq(HappenedRecs) /\ Len(samples) = 0 /\ Len(happened) = 0
    BY DEF Init
  <1>2. Zero \in Counters
    BY DEF Zero, Counters
  <1> QED BY <1>1, <1>2 DEF FileInv, TypeInv, OrderInv, MemoryInv, CountInv

LEMMA Parameters ==
  /\ PingInterval \in Nat /\ PingInterval > 0
  /\ Interval \in Nat /\ Durations \subseteq Nat
  /\ \A rtt \in RTTs : rtt \in Nat /\ rtt > 0
  <1>1. PingInterval \in Nat /\ PingInterval # 0 /\ Interval \in Nat /\ Durations \subseteq Nat
    BY ReportAssumption
  <1>2. ASSUME NEW rtt \in RTTs PROVE rtt \in Nat /\ rtt # 0
    BY ReportAssumption
  <1> QED BY <1>1, <1>2

LEMMA LeastIsNat == ASSUME NEW dt \in Nat PROVE Least(dt) \in Nat
  <1>1. dt \div PingInterval \in Nat
    BY Parameters
  <1> QED BY <1>1 DEF Least

LEMMA RestartFile ==
  ASSUME FileInv, NEW down \in Nat, Restart(down)
  PROVE  FileInv'
  <1> DEFINE m == Len(runs)
             n == Len(samples)
  <1>1. /\ clock \in Nat /\ clock' = clock + down /\ clock' \in Nat /\ cnt' = Zero /\ Zero \in Counters
        /\ runs \in Seq(Nat) /\ runs' = Append(runs, clock') /\ samples' = samples /\ happened' = happened
    BY DEF Restart, FileInv, TypeInv, Zero, Counters
  <1>2. /\ m \in Nat /\ n \in Nat /\ m > 0 /\ Len(runs') = m + 1 /\ runs' \in Seq(Nat) /\ runs' # <<>>
        /\ \A r \in 1 .. m : runs'[r] = runs[r]
        /\ runs'[m + 1] = clock'
    BY <1>1 DEF FileInv, TypeInv
  <1>3. TypeInv'
    BY <1>1, <1>2 DEF FileInv, TypeInv
  <1>4. OrderInv'
    <2> SUFFICES ASSUME NEW i \in 1 .. n
                 PROVE  /\ samples[i].run \in 1 .. m + 1
                        /\ runs'[samples[i].run] <= samples[i].time
                        /\ i > 1 => /\ samples[i - 1].time <= samples[i].time
                                    /\ First(i) => samples[i - 1].time <= runs'[samples[i].run]
      BY <1>1, <1>2 DEF OrderInv, First
    <2>1. samples[i].run \in 1 .. m
      BY DEF FileInv, OrderInv
    <2>2. runs'[samples[i].run] = runs[samples[i].run] /\ samples[i].run \in 1 .. m + 1
      BY <1>2, <2>1
    <2> QED BY <2>2 DEF FileInv, OrderInv
  <1>5. MemoryInv'
    <2>1. runs[m] <= clock /\ runs[m] \in Nat
      BY <1>1, <1>2 DEF FileInv, MemoryInv
    <2>2. ASSUME n > 0
          PROVE  samples[n].run # m + 1 /\ samples[n].time <= clock'
      <3>1. n \in 1 .. n /\ samples[n] \in SampleRecs
        BY <1>2, <2>2 DEF FileInv, TypeInv
      <3>2. samples[n].run \in 1 .. m /\ samples[n].time \in Nat
        BY <3>1 DEF FileInv, OrderInv, SampleRecs
      <3>3. samples[n].time <= clock
        BY <1>1, <2>1, <2>2, <3>2 DEF FileInv, MemoryInv
      <3> QED BY <1>1, <1>2, <3>2, <3>3
    <2> QED BY <1>1, <1>2, <2>1, <2>2 DEF FileInv, MemoryInv
  <1>6. CountInv'
    BY <1>1 DEF FileInv, CountInv, Base, First
  <1> QED BY <1>3, <1>4, <1>5, <1>6 DEF FileInv

\* What Sample appends: the record x of the sample, and h of what happened.
LEMMA SampleAdds ==
  ASSUME FileInv, NEW dt \in Nat, NEW sent \in Nat, NEW expired \in Nat, NEW left \in Nat, NEW rtt \in RTTs,
         NEW opened \in BOOLEAN, NEW err \in Errs, Sample(dt, sent, expired, left, rtt, opened, err)
  PROVE  \E x \in SampleRecs, h \in HappenedRecs :
            /\ clock' = clock + dt /\ runs' = runs
            /\ samples' = Append(samples, x) /\ happened' = Append(happened, h)
            /\ cnt' = x.c /\ x.time = clock' /\ x.run = Len(runs)
            /\ Adds(cnt, x.c, h)
            /\ h.onSchedule => cnt.mode # "none" /\ h.sent = Least(dt)
  <1> DEFINE answered == sent + cnt.pending - expired - left
             isOpen == opened \/ cnt.mode # "none"
             c == Advanced(opened, sent, expired, left, rtt)
             x == [time |-> clock', run |-> Len(runs), err |-> err, c |-> cnt']
             h == [sent |-> sent, answered |-> cnt'.rx - cnt.rx, expired |-> expired, rtt |-> rtt,
                   onSchedule |-> isOpen /\ ~opened /\ sent = Least(dt)]
  <1>1. /\ cnt \in Counters /\ clock \in Nat /\ runs \in Seq(Nat) /\ Len(runs) \in Nat
        /\ rtt \in Nat /\ rtt > 0
    BY Parameters DEF FileInv, TypeInv
  <1>2. /\ clock' = clock + dt /\ cnt' = c /\ samples' = Append(samples, x) /\ happened' = Append(happened, h)
        /\ runs' = runs /\ expired + left <= sent + cnt.pending
    BY DEF Sample
  <1>3. answered \in Nat /\ cnt.rx \in Nat /\ cnt.tx \in Nat /\ cnt.lost \in Nat /\ cnt.rttSum \in Nat
    BY <1>1, <1>2 DEF Counters
  <1>4. answered * rtt \in Nat
    <2> HIDE DEF answered
    <2> QED BY <1>1, <1>3
  <1>5. /\ c.tx = cnt.tx + sent /\ c.rx = cnt.rx + answered /\ c.lost = cnt.lost + expired
        /\ c.rttSum = cnt.rttSum + answered * rtt
        /\ c.rttMin = IF answered > 0 THEN rtt ELSE 0
        /\ c.rttMax = IF answered > 0 THEN rtt ELSE 0
    BY DEF Advanced
  <1>6. c \in Counters
    <2>1. c = [mode |-> IF opened THEN "raw" ELSE cnt.mode, tx |-> cnt.tx + sent, rx |-> cnt.rx + answered,
               lost |-> cnt.lost + expired, pending |-> left, rttSum |-> cnt.rttSum + answered * rtt,
               rttMin |-> IF answered > 0 THEN rtt ELSE 0, rttMax |-> IF answered > 0 THEN rtt ELSE 0]
      BY DEF Advanced
    <2>2. (IF opened THEN "raw" ELSE cnt.mode) \in {"none", "raw"}
      BY <1>1 DEF Counters
    <2>3. (IF answered > 0 THEN rtt ELSE 0) \in Nat
      BY <1>1
    <2>4. cnt.tx + sent \in Nat /\ cnt.rx + answered \in Nat /\ cnt.lost + expired \in Nat /\ cnt.rttSum + answered * rtt \in Nat
      <3> HIDE DEF answered
      <3> QED BY <1>3, <1>4
    <2> HIDE DEF answered, c
    <2> QED BY <2>1, <2>2, <2>3, <2>4 DEF Counters
  <1>7. cnt'.rx - cnt.rx = answered
    <2> HIDE DEF answered, c
    <2> QED BY <1>2, <1>3, <1>5
  <1>8. x \in SampleRecs
    <2> HIDE DEF answered, c
    <2> QED BY <1>1, <1>2, <1>6 DEF SampleRecs
  <1>9. h \in HappenedRecs
    <2>0. rtt \in Nat \ {0}
      BY <1>1
    <2>1. (isOpen /\ ~opened /\ sent = Least(dt)) \in BOOLEAN
      OBVIOUS
    <2> HIDE DEF answered, isOpen
    <2> QED BY <1>1, <1>3, <1>7, <2>0, <2>1 DEF HappenedRecs
  <1>10. Adds(cnt, x.c, h)
    <2>1. x.c = c /\ h.sent = sent /\ h.answered = answered /\ h.expired = expired /\ h.rtt = rtt
      BY <1>2, <1>7
    <2> HIDE DEF answered, c, x, h
    <2> QED BY <1>5, <2>1 DEF Adds
  <1>11. h.onSchedule => cnt.mode # "none" /\ h.sent = Least(dt)
    BY Zenon
  <1>12. cnt' = x.c /\ x.time = clock' /\ x.run = Len(runs)
    OBVIOUS
  <1> HIDE DEF answered, c, x, h
  <1> QED BY <1>2, <1>8, <1>9, <1>10, <1>11, <1>12

LEMMA SampleFile ==
  ASSUME FileInv, NEW dt \in Nat, NEW x \in SampleRecs, NEW h \in HappenedRecs,
         clock' = clock + dt, runs' = runs, samples' = Append(samples, x), happened' = Append(happened, h),
         cnt' = x.c, x.time = clock', x.run = Len(runs),
         Adds(cnt, x.c, h), h.onSchedule => cnt.mode # "none" /\ h.sent = Least(dt)
  PROVE  FileInv'
  <1> DEFINE m == Len(runs)
             n == Len(samples)
  <1>1. /\ clock \in Nat /\ runs \in Seq(Nat) /\ m \in Nat /\ m > 0 /\ n \in Nat /\ runs[m] \in Nat
        /\ samples \in Seq(SampleRecs) /\ happened \in Seq(HappenedRecs) /\ Len(happened) = n
    BY DEF FileInv, TypeInv
  <1>2. /\ samples' \in Seq(SampleRecs) /\ Len(samples') = n + 1 /\ samples'[n + 1] = x
        /\ \A i \in 1 .. n : samples'[i] = samples[i] /\ samples[i] \in SampleRecs
    BY <1>1, AppendProperties, ElementOfSeq
  <1>3. /\ happened' \in Seq(HappenedRecs) /\ Len(happened') = n + 1 /\ happened'[n + 1] = h
        /\ \A i \in 1 .. n : happened'[i] = happened[i]
    BY <1>1, AppendProperties
  <1>4. x.c \in Counters /\ clock' \in Nat
    BY <1>1 DEF SampleRecs
  <1>5. TypeInv'
    BY <1>1, <1>2, <1>3, <1>4 DEF FileInv, TypeInv
  <1>6. \A i \in 1 .. n : First(i)' = First(i) /\ (i > 1 => samples'[i - 1] = samples[i - 1])
    <2> SUFFICES ASSUME NEW i \in 1 .. n
                 PROVE  First(i)' = First(i) /\ (i > 1 => samples'[i - 1] = samples[i - 1])
      OBVIOUS
    <2>1. i > 1 => i - 1 \in 1 .. n
      BY <1>1
    <2>2. i \in Nat /\ (i = 1 \/ i > 1)
      BY <1>1
    <2> QED BY <1>2, <2>1, <2>2 DEF First
  <1>7. \* the sample before the new one, if there is one
        ASSUME n > 0
        PROVE  /\ samples'[n] = samples[n] /\ n \in 1 .. n
               /\ samples[n].time \in Nat /\ samples[n].time <= clock
               /\ samples[n].run # m => cnt = Zero /\ samples[n].time <= runs[m]
               /\ samples[n].run = m => cnt = samples[n].c /\ clock = samples[n].time
    <2>1. n \in 1 .. n /\ samples[n] \in SampleRecs /\ runs[m] <= clock
      BY <1>1, <1>2, <1>7 DEF FileInv, MemoryInv
    <2>2. samples[n].time \in Nat
      BY <2>1 DEF SampleRecs
    <2> QED BY <1>1, <1>2, <1>7, <2>1, <2>2 DEF FileInv, MemoryInv
  <1>8. OrderInv'
    <2> SUFFICES ASSUME NEW i \in 1 .. n + 1
                 PROVE  /\ samples'[i].run \in 1 .. m
                        /\ runs[samples'[i].run] <= samples'[i].time
                        /\ i > 1 => /\ samples'[i - 1].time <= samples'[i].time
                                    /\ First(i)' => samples'[i - 1].time <= runs[samples'[i].run]
      BY <1>2 DEF OrderInv
    <2>1. CASE i \in 1 .. n
      BY <1>2, <1>6, <2>1 DEF FileInv, OrderInv
    <2>2. CASE i = n + 1
      <3>1. samples'[i].run = m /\ samples'[i].time = clock + dt /\ runs[m] <= clock
        BY <1>2, <2>2 DEF FileInv, MemoryInv
      <3>2. ASSUME i > 1
            PROVE  samples'[i - 1].time <= samples'[i].time /\ (First(i)' => samples'[i - 1].time <= runs[samples'[i].run])
        <4>1. n > 0 /\ i - 1 = n /\ i # 1
          BY <1>1, <2>2, <3>2
        <4>2. samples'[i - 1] = samples[n]
          BY <1>7, <4>1
        <4>3. samples[n].time <= clock + dt
          BY <1>1, <1>7, <4>1
        <4>4. First(i)' => samples[n].run # m
          BY <3>1, <4>1, <4>2 DEF First
        <4> QED BY <1>7, <3>1, <4>1, <4>2, <4>3, <4>4
      <3> QED BY <1>1, <3>1, <3>2
    <2> QED BY <1>1, <2>1, <2>2
  <1>9. MemoryInv'
    BY <1>1, <1>2 DEF FileInv, MemoryInv
  <1>10. CountInv'
    <2> SUFFICES ASSUME NEW i \in 1 .. n + 1
                 PROVE  /\ Adds(Base(i)', samples'[i].c, happened'[i])
                        /\ ~ First(i)' /\ happened'[i].onSchedule
                              => happened'[i].sent = Least(samples'[i].time - samples'[i - 1].time)
      BY <1>2 DEF CountInv, Least
    <2>1. CASE i \in 1 .. n
      <3>1. Base(i)' = Base(i)
        <4>1. First(i) \/ i > 1
          BY <1>1, <2>1 DEF First
        <4> QED BY <1>6, <2>1, <4>1 DEF Base, First
      <3>2. ~ First(i) => i > 1
        BY <2>1 DEF First
      <3> QED BY <1>2, <1>3, <1>6, <2>1, <3>1, <3>2 DEF FileInv, CountInv
    <2>2. CASE i = n + 1
      <3>1. samples'[i] = x /\ happened'[i] = h /\ i - 1 = n /\ (i = 1 <=> n = 0)
        BY <1>1, <1>2, <1>3, <2>2
      <3>2. First(i)' <=> n = 0 \/ samples[n].run # m
        BY <1>1, <1>7, <3>1 DEF First
      <3>3. Base(i)' = cnt
        <4>1. CASE First(i)'
          BY <1>1, <1>7, <3>2, <4>1 DEF Base, FileInv, MemoryInv
        <4>2. CASE ~ First(i)'
          BY <1>1, <1>7, <3>1, <3>2, <4>2 DEF Base
        <4> QED BY <4>1, <4>2
      <3>4. ~ First(i)' => samples'[i].time - samples'[i - 1].time = dt
        BY <1>1, <1>7, <3>1, <3>2
      <3>5. Adds(Base(i)', samples'[i].c, happened'[i])
        BY <3>1, <3>3 DEF Adds
      <3>6. ASSUME ~ First(i)', happened'[i].onSchedule
            PROVE  happened'[i].sent = Least(samples'[i].time - samples'[i - 1].time)
        <4>1. h.onSchedule
          BY <3>1, <3>6, Zenon
        <4>2. samples'[i].time - samples'[i - 1].time = dt /\ h.sent = Least(dt)
          BY <3>4, <3>6, <4>1
        <4> QED BY <3>1, <4>2 DEF Least
      <3> QED BY <3>5, <3>6, Zenon
    <2>3. i \in 1 .. n \/ i = n + 1
      BY <1>1
    <2> QED BY <2>1, <2>2, <2>3, Zenon
  <1> QED BY <1>5, <1>8, <1>9, <1>10 DEF FileInv

\* The samples of a file go with what the monitor did between them: counters add
\* up, times grow, and a monitor on schedule sends what is due.
THEOREM FileHolds == Spec => []FileInv
  <1>1. Init => FileInv
    BY InitFile
  <1>2. FileInv /\ [Next]_vars => FileInv'
    <2> SUFFICES ASSUME FileInv, [Next]_vars PROVE FileInv'
      OBVIOUS
    <2>1. ASSUME NEW down \in {0, Interval}, Restart(down)
          PROVE  FileInv'
      <3>1. down \in Nat
        BY Parameters
      <3> QED BY <2>1, <3>1, RestartFile
    <2>2. ASSUME NEW dt \in Durations, NEW rtt \in RTTs, NEW opened \in BOOLEAN, NEW expired \in 0 .. 1, NEW left \in 0 .. 1,
                 NEW sent \in Sendings(dt), NEW err \in OpenErrs \cup {NoError},
                 Sample(dt, sent, expired, left, rtt, opened, err)
          PROVE  FileInv'
      <3>1. dt \in Nat /\ expired \in Nat /\ left \in Nat /\ err \in Errs
        BY Parameters DEF Errs
      <3>2. sent \in Nat
        BY <3>1, LeastIsNat DEF Sendings
      <3>3. PICK x \in SampleRecs, h \in HappenedRecs :
            /\ clock' = clock + dt /\ runs' = runs
            /\ samples' = Append(samples, x) /\ happened' = Append(happened, h)
            /\ cnt' = x.c /\ x.time = clock' /\ x.run = Len(runs)
            /\ Adds(cnt, x.c, h)
            /\ h.onSchedule => cnt.mode # "none" /\ h.sent = Least(dt)
        BY <2>2, <3>1, <3>2, SampleAdds
      <3> QED BY <3>1, <3>3, SampleFile
    <2>3. CASE UNCHANGED vars
      BY <2>3 DEF vars, FileInv, TypeInv, OrderInv, MemoryInv, CountInv, First, Base
    <2> QED BY <2>1, <2>2, <2>3 DEF Next
  <1> QED BY <1>1, <1>2, PTL DEF Spec

-----------------------------------------------------------------------------
(* The intervals.                                                          *)

LEMMA SampleTypes ==
  ASSUME FileInv, NEW i \in 1 .. Len(samples)
  PROVE  /\ Len(samples) \in Nat /\ DOMAIN samples = 1 .. Len(samples)
         /\ samples[i] \in SampleRecs /\ samples[i].time \in Nat /\ samples[i].c \in Counters /\ samples[i].err \in Errs
         /\ samples[i].run \in 1 .. Len(runs) /\ runs[samples[i].run] \in Nat
         /\ happened[i] \in HappenedRecs
         /\ ~ First(i) => i > 1 /\ i - 1 \in 1 .. Len(samples)
         /\ i > 1 => i - 1 \in 1 .. Len(samples) /\ samples[i - 1] \in SampleRecs /\ samples[i - 1].time \in Nat
                     /\ samples[i - 1].c \in Counters
         /\ Base(i) \in Counters
  <1>1. /\ samples \in Seq(SampleRecs) /\ happened \in Seq(HappenedRecs) /\ Len(happened) = Len(samples) /\ runs \in Seq(Nat)
    BY DEF FileInv, TypeInv
  <1>2. Len(samples) \in Nat /\ samples[i] \in SampleRecs /\ happened[i] \in HappenedRecs /\ DOMAIN samples = 1 .. Len(samples)
    BY <1>1
  <1>3. samples[i].run \in 1 .. Len(runs)
    BY DEF FileInv, OrderInv
  <1>4. i > 1 => i - 1 \in 1 .. Len(samples) /\ samples[i - 1] \in SampleRecs
    BY <1>1
  <1>5. ~ First(i) => i > 1
    BY <1>1 DEF First
  <1>6. Base(i) \in Counters
    BY <1>4, <1>5 DEF Base, SampleRecs, Zero, Counters
  <1> QED BY <1>1, <1>2, <1>3, <1>4, <1>5, <1>6 DEF SampleRecs

LEMMA RestartsFound ==
  ASSUME FileInv, NEW i \in 1 .. Len(samples)
  PROVE  NewRun(i) <=> First(i)
  <1>1. CASE First(i)
    BY <1>1 DEF NewRun, First
  <1>2. CASE ~ First(i)
    <2>1. /\ i > 1 /\ samples[i - 1].run = samples[i].run /\ Base(i) = samples[i - 1].c
      BY <1>2 DEF First, Base, FileInv, TypeInv
    <2>2. Adds(samples[i - 1].c, samples[i].c, happened[i])
      BY <2>1 DEF FileInv, CountInv
    <2>3. /\ happened[i].sent \in Nat /\ happened[i].answered \in Nat /\ happened[i].expired \in Nat
          /\ samples[i - 1].c.tx \in Nat /\ samples[i - 1].c.rx \in Nat /\ samples[i - 1].c.lost \in Nat
      BY <2>1, SampleTypes DEF HappenedRecs, Counters
    <2>4. ~ PingCountersRestarted(samples[i - 1].c, samples[i].c)
      <3>1. /\ samples[i].c.tx = samples[i - 1].c.tx + happened[i].sent
            /\ samples[i].c.rx = samples[i - 1].c.rx + happened[i].answered
            /\ samples[i].c.lost = samples[i - 1].c.lost + happened[i].expired
        BY <2>2 DEF Adds
      <3> QED BY <2>3, <3>1 DEF PingCountersRestarted
    <2> QED BY <1>2, <2>1, <2>4 DEF NewRun, First
  <1> QED BY <1>1, <1>2

LEMMA DeltaOf == ASSUME NEW a \in Nat, NEW b \in Nat PROVE SafeU64Delta(a + b, a) = b
  BY DEF SafeU64Delta

\* Every interval holds what happened since the sample before it.
Holds(iv, i) ==
    /\ iv.end = samples[i].time
    /\ iv.start = IF First(i) THEN runs[samples[i].run] ELSE samples[i - 1].time
    /\ iv.tx = happened[i].sent /\ iv.rx = happened[i].answered /\ iv.lost = happened[i].expired
    /\ iv.rttSum = happened[i].answered * happened[i].rtt
    /\ iv.rttMin = IF happened[i].answered > 0 THEN happened[i].rtt ELSE 0
    /\ iv.rttMax = IF happened[i].answered > 0 THEN happened[i].rtt ELSE 0
    /\ iv.err = samples[i].err
    /\ iv.starved => ~ First(i) /\ TooFew(happened[i].sent, samples[i].time - samples[i - 1].time)

LEMMA IntervalsHold ==
  ASSUME FileInv
  PROVE  /\ DOMAIN PingIntervals = 1 .. Len(samples)
         /\ \A i \in 1 .. Len(samples) : Holds(PingIntervals[i], i)
  <1>1. DOMAIN PingIntervals = DOMAIN samples /\ DOMAIN samples = 1 .. Len(samples)
    BY DEF PingIntervals, FileInv, TypeInv
  <1>2. ASSUME NEW i \in 1 .. Len(samples)
        PROVE  Holds(IntervalOf(i), i)
    <2> DEFINE iv == IntervalOf(i)
               c == samples[i].c
               h == happened[i]
               base == Base(i)
    <2>1. NewRun(i) <=> First(i)
      BY RestartsFound
    <2>2. base = IF NewRun(i) THEN Zero ELSE samples[i - 1].c
      BY <2>1 DEF Base
    <2>3. /\ base.tx \in Nat /\ base.rx \in Nat /\ base.lost \in Nat /\ base.rttSum \in Nat
          /\ h.sent \in Nat /\ h.answered \in Nat /\ h.expired \in Nat /\ h.answered * h.rtt \in Nat
      <3>1. base \in Counters /\ h \in HappenedRecs
        BY SampleTypes
      <3> HIDE DEF base, h
      <3>2. h.answered \in Nat /\ h.rtt \in Nat
        BY <3>1 DEF HappenedRecs
      <3> QED BY <3>1, <3>2 DEF Counters, HappenedRecs
    <2>4. Adds(base, c, h)
      BY DEF FileInv, CountInv
    <2>5. /\ SafeU64Delta(c.tx, base.tx) = h.sent /\ SafeU64Delta(c.rx, base.rx) = h.answered
          /\ SafeU64Delta(c.lost, base.lost) = h.expired /\ SafeU64Delta(c.rttSum, base.rttSum) = h.answered * h.rtt
      <3> HIDE DEF base, h, c
      <3>1. /\ c.tx = base.tx + h.sent /\ c.rx = base.rx + h.answered /\ c.lost = base.lost + h.expired
            /\ c.rttSum = base.rttSum + h.answered * h.rtt
        BY <2>4 DEF Adds
      <3> DEFINE product == h.answered * h.rtt
      <3>2. product \in Nat /\ c.rttSum = base.rttSum + product
        BY <2>3, <3>1
      <3> HIDE DEF product
      <3>3. SafeU64Delta(c.rttSum, base.rttSum) = product
        BY <2>3, <3>2, DeltaOf
      <3>4. /\ base.tx \in Nat /\ base.rx \in Nat /\ base.lost \in Nat
            /\ h.sent \in Nat /\ h.answered \in Nat /\ h.expired \in Nat
        BY <2>3
      <3>5. SafeU64Delta(base.tx + h.sent, base.tx) = h.sent
        BY <3>4, DeltaOf
      <3>6. SafeU64Delta(base.rx + h.answered, base.rx) = h.answered
        BY <3>4, DeltaOf
      <3>7. SafeU64Delta(base.lost + h.expired, base.lost) = h.expired
        BY <3>4, DeltaOf
      <3> QED BY <3>1, <3>3, <3>5, <3>6, <3>7 DEF product
    <2>6. /\ iv.tx = SafeU64Delta(c.tx, base.tx) /\ iv.rx = SafeU64Delta(c.rx, base.rx)
          /\ iv.lost = SafeU64Delta(c.lost, base.lost) /\ iv.rttSum = SafeU64Delta(c.rttSum, base.rttSum)
          /\ iv.rttMin = c.rttMin /\ iv.rttMax = c.rttMax /\ iv.err = samples[i].err /\ iv.end = samples[i].time
          /\ iv.start = Start(i, NewRun(i))
      BY <2>2 DEF IntervalOf
    <2>7. Start(i, NewRun(i)) = IF First(i) THEN runs[samples[i].run] ELSE samples[i - 1].time
      <3>1. runs[samples[i].run] <= samples[i].time /\ runs[samples[i].run] \in Nat /\ samples[i].time \in Nat
        BY SampleTypes DEF FileInv, OrderInv
      <3> QED BY <2>1, <3>1 DEF Start
    <2>8. iv.starved => ~ First(i) /\ TooFew(h.sent, samples[i].time - samples[i - 1].time)
      <3>1. iv.starved = (~ NewRun(i) /\ samples[i].time - iv.start > 0 /\ c.mode # "none"
                            /\ TooFew(iv.tx, samples[i].time - iv.start))
        BY DEF IntervalOf
      <3>2. iv.starved => ~ NewRun(i) /\ TooFew(iv.tx, samples[i].time - iv.start)
        BY <3>1, Zenon
      <3>3. iv.tx = h.sent /\ (~ First(i) => iv.start = samples[i - 1].time)
        BY <2>5, <2>6, <2>7
      <3>4. ASSUME iv.starved
            PROVE  ~ First(i) /\ TooFew(h.sent, samples[i].time - samples[i - 1].time)
        <4> HIDE DEF iv, h
        <4>1. ~ First(i) /\ TooFew(iv.tx, samples[i].time - iv.start)
          BY <2>1, <3>2, <3>4
        <4> QED BY <3>3, <4>1
      <3> QED BY <3>4
    <2> HIDE DEF iv, base
    <2> QED BY <2>4, <2>5, <2>6, <2>7, <2>8 DEF Holds, Adds, iv
  <1> QED BY <1>1, <1>2 DEF PingIntervals

(* Intervals do not overlap, and the time between two runs is in none.     *)
THEOREM DowntimeIsNotCharged == Spec => []DowntimeNotCharged
  <1>1. FileInv => DowntimeNotCharged
    <2> SUFFICES ASSUME FileInv, NEW i \in 1 .. Len(samples)
                 PROVE  /\ runs[samples[i].run] <= PingIntervals[i].start
                        /\ i > 1 => PingIntervals[i - 1].end <= PingIntervals[i].start
      BY DEF DowntimeNotCharged, FileInv, TypeInv
    <2>1. /\ runs[samples[i].run] \in Nat
          /\ ~ First(i) => i > 1
          /\ i > 1 => i - 1 \in 1 .. Len(samples) /\ samples[i - 1].time \in Nat
      BY SampleTypes
    <2>2. PingIntervals[i].start = IF First(i) THEN runs[samples[i].run] ELSE samples[i - 1].time
      BY IntervalsHold DEF Holds
    <2>3. i > 1 => PingIntervals[i - 1].end = samples[i - 1].time
      BY <2>1, IntervalsHold DEF Holds
    <2>4. CASE First(i)
      BY <2>1, <2>2, <2>3, <2>4 DEF FileInv, OrderInv
    <2>5. CASE ~ First(i)
      <3>1. samples[i - 1].run = samples[i].run /\ i > 1
        BY <2>1, <2>5 DEF First
      <3>2. runs[samples[i - 1].run] <= samples[i - 1].time
        BY <2>1, <3>1 DEF FileInv, OrderInv
      <3> QED BY <2>1, <2>2, <2>3, <2>5, <3>1, <3>2
    <2> QED BY <2>4, <2>5
  <1> QED BY <1>1, FileHolds, PTL

\* The least number of requests in nine ping intervals or more is enough.
LEMMA LeastIsEnough ==
  ASSUME NEW dt \in Nat, dt >= 9 * PingInterval
  PROVE  ~ TooFew(Least(dt), dt)
  <1> DEFINE q == dt \div PingInterval
             r == dt % PingInterval
             w == PingInterval * q
  <1>1. PingInterval \in Nat /\ PingInterval > 0
    BY Parameters
  <1>2. q \in Nat /\ r \in Nat /\ r < PingInterval /\ dt = w + r
    BY <1>1
  <1>3. Least(dt) = IF q > 0 THEN q - 1 ELSE 0
    BY DEF Least
  <1> HIDE DEF q, r
  <1>4. q >= 9
    <2> SUFFICES ASSUME q <= 8 PROVE FALSE
      BY <1>2
    <2>1. PingInterval * q <= PingInterval * 8
      BY <1>1, <1>2
    <2> QED BY <1>1, <1>2, <2>1
  <1>5. w >= 9 * PingInterval /\ w \in Nat
    BY <1>1, <1>2, <1>4
  <1>6. 10 * (q - 1) * PingInterval = 10 * w - 10 * PingInterval
    BY <1>1, <1>2
  <1> HIDE DEF w
  <1>7. Least(dt) = q - 1
    BY <1>2, <1>3, <1>4
  <1>8. ~ (10 * w - 10 * PingInterval < 8 * dt)
    BY <1>1, <1>2, <1>5
  <1> QED BY <1>6, <1>7, <1>8 DEF TooFew

(* A monitor that kept its schedule is not called starved.                 *)
THEOREM OnScheduleIsNotStarved == Spec => []StarvedIsLate
  <1>1. FileInv => StarvedIsLate
    <2> SUFFICES ASSUME FileInv, NEW i \in 1 .. Len(samples), PingIntervals[i].starved, happened[i].onSchedule,
                        samples[i].time - samples[i - 1].time >= 9 * PingInterval
                 PROVE  FALSE
      BY DEF StarvedIsLate, FileInv, TypeInv
    <2> DEFINE dt == samples[i].time - samples[i - 1].time
    <2>1. ~ First(i) /\ TooFew(happened[i].sent, dt)
      BY IntervalsHold DEF Holds
    <2>2. dt \in Nat
      BY <2>1, SampleTypes DEF FileInv, OrderInv
    <2>3. happened[i].sent = Least(dt)
      BY <2>1 DEF FileInv, CountInv
    <2> HIDE DEF dt
    <2>4. ~ TooFew(Least(dt), dt)
      BY <2>2, LeastIsEnough DEF dt
    <2> QED BY <2>1, <2>3, <2>4
  <1> QED BY <1>1, FileHolds, PTL

(* A point of the charts shows what happened since the sample before.      *)
THEOREM PointsAreTrue == Spec => []PointsAreTruth
  <1>1. FileInv => PointsAreTruth
    <2> SUFFICES ASSUME FileInv, NEW i \in 1 .. Len(samples)
                 PROVE  LET h     == happened[i]
                            share == IF h.expired > h.sent THEN <<100, 1>>
                                     ELSE IF h.expired = 0 THEN <<0, 1>> ELSE <<100 * h.expired, h.sent>>
                            rtt   == IF h.answered > 0 THEN h.rtt ELSE 0
                        IN  \E p \in PingChartSeries :
                                /\ p.time = samples[i].time /\ p.loss = share
                                /\ p.max = rtt /\ p.avg[1] = rtt * p.avg[2] /\ p.avg[2] > 0
      BY DEF PointsAreTruth, FileInv, TypeInv
    <2> DEFINE h == happened[i]
               iv == PingIntervals[i]
               p == [time |-> iv.end, loss |-> LossPct(iv), avg |-> RTTAvg(iv), max |-> iv.rttMax]
    <2>1. Holds(iv, i) /\ i \in DOMAIN PingIntervals
      BY IntervalsHold
    <2>2. h.sent \in Nat /\ h.answered \in Nat /\ h.expired \in Nat /\ h.rtt \in Nat
      BY SampleTypes DEF HappenedRecs
    <2>3. p \in PingChartSeries
      BY <2>1 DEF PingChartSeries, ToSet
    <2> HIDE DEF h, iv
    <2>4. iv.lost = h.expired /\ iv.tx = h.sent /\ iv.rx = h.answered /\ iv.rttSum = h.answered * h.rtt
          /\ iv.rttMax = (IF h.answered > 0 THEN h.rtt ELSE 0) /\ iv.end = samples[i].time
      BY <2>1 DEF Holds, h
    <2>5. LossPct(iv) = IF h.expired > h.sent THEN <<100, 1>>
                        ELSE IF h.expired = 0 THEN <<0, 1>> ELSE <<100 * h.expired, h.sent>>
      BY <2>2, <2>4 DEF LossPct
    <2>6. CASE h.answered = 0
      <3>1. RTTAvg(iv) = <<0, 1>>
        BY <2>4, <2>6 DEF RTTAvg
      <3>2. p.avg[1] = 0 * p.avg[2] /\ p.avg[2] > 0
        BY <3>1
      <3> QED BY <2>3, <2>4, <2>5, <2>6, <3>2 DEF h
    <2>7. CASE h.answered # 0
      <3>1. RTTAvg(iv) = <<h.answered * h.rtt, h.answered>>
        BY <2>4, <2>7 DEF RTTAvg
      <3>2. p.avg[1] = h.rtt * p.avg[2] /\ p.avg[2] > 0
        BY <2>2, <2>7, <3>1
      <3>3. h.answered > 0
        BY <2>2, <2>7
      <3> QED BY <2>3, <2>4, <2>5, <3>2, <3>3 DEF h
    <2> QED BY <2>6, <2>7
  <1> QED BY <1>1, FileHolds, PTL

-----------------------------------------------------------------------------
(* The folds of buildPingReport, over any of the intervals.                *)

IVs == {PingIntervals[i] : i \in 1 .. Len(samples)}

LEMMA IntervalTypes ==
  ASSUME FileInv
  PROVE  /\ PingIntervals \in Seq(IVs) /\ Len(PingIntervals) = Len(samples) /\ Len(samples) \in Nat
         /\ \A iv \in IVs : /\ iv.tx \in Nat /\ iv.rx \in Nat /\ iv.lost \in Nat /\ iv.rttSum \in Nat
                            /\ iv.rttMin \in Nat /\ iv.rttMax \in Nat /\ iv.end \in Nat /\ iv.err \in Errs
  <1>1. /\ Len(samples) \in Nat /\ DOMAIN PingIntervals = 1 .. Len(samples)
        /\ PingIntervals = [i \in 1 .. Len(samples) |-> PingIntervals[i]]
    BY DEF PingIntervals, FileInv, TypeInv
  <1>2. PingIntervals \in [1 .. Len(samples) -> IVs]
    BY <1>1 DEF IVs
  <1>3. PingIntervals \in Seq(IVs) /\ Len(PingIntervals) = Len(samples)
    BY <1>1, <1>2
  <1>4. ASSUME NEW i \in 1 .. Len(samples), NEW iv, iv = PingIntervals[i]
        PROVE  /\ iv.tx \in Nat /\ iv.rx \in Nat /\ iv.lost \in Nat /\ iv.rttSum \in Nat
               /\ iv.rttMin \in Nat /\ iv.rttMax \in Nat /\ iv.end \in Nat /\ iv.err \in Errs
    <2>1. Holds(iv, i)
      BY <1>4, IntervalsHold
    <2>2. /\ happened[i].sent \in Nat /\ happened[i].answered \in Nat /\ happened[i].expired \in Nat
          /\ happened[i].rtt \in Nat /\ samples[i].time \in Nat /\ samples[i].err \in Errs
      BY SampleTypes DEF HappenedRecs
    <2>3. happened[i].answered * happened[i].rtt \in Nat
      BY <2>2
    <2> QED BY <2>1, <2>2, <2>3 DEF Holds
  <1> QED BY <1>1, <1>3, <1>4 DEF IVs

\* The sum of a field grows by that of the next record.
LEMMA SumOfRecs ==
  ASSUME NEW E, NEW f, \A e \in E : e[f] \in Nat
  PROVE  /\ SumOf(<<>>, f) = 0
         /\ \A q \in Seq(E) : SumOf(q, f) \in Nat
         /\ \A q \in Seq(E), x \in E : SumOf(Append(q, x), f) = SumOf(q, f) + x[f]
  <1> DEFINE H == [p \in E \X Nat |-> p[2] + p[1][f]]
  <1>1. Foldable(E, Nat, 0, H)
    BY DEF Foldable
  <1>2. \A x \in E, v \in Nat : H[<<x, v>>] = v + x[f]
    OBVIOUS
  <1> HIDE DEF H
  <1>3. ASSUME NEW q \in Seq(E)
        PROVE  SumOf(q, f) = Fold(H, 0, q)
    <2> DEFINE Body(g) == [s \in SUBSET DOMAIN q |-> IF s = {} THEN 0 ELSE g[s \ {Max(s)}] + q[Max(s)][f]]
               iter == CHOOSE g : g = Body(g)
    <2>1. SumOf(q, f) = iter[DOMAIN q]
      BY DEF SumOf, FoldLeft, MapThenFoldSet
    <2>2. \E g : g = Body(g)
      <3>1. PICK g : FoldsByIndex(g, q, E, Nat, 0, H)
        BY <1>1, FoldByIndex
      <3>2. g = [s \in SUBSET DOMAIN q |-> g[s]] /\ g[{}] = 0
        BY <3>1 DEF FoldsByIndex
      <3>3. \A s \in SUBSET DOMAIN q : s # {} => g[s] = g[s \ {Max(s)}] + q[Max(s)][f]
        BY <1>2, <3>1 DEF FoldsByIndex
      <3> QED BY <3>2, <3>3
    <2>3. iter = Body(iter)
      BY <2>2
    <2>4. iter[{}] = 0
      BY <2>3
    <2>5. ASSUME NEW s \in SUBSET DOMAIN q, s # {}
          PROVE  q[Max(s)] \in E /\ iter[s] = iter[s \ {Max(s)}] + q[Max(s)][f]
      <3>1. Max(s) \in DOMAIN q
        BY <2>5, MaxOfFinite, LenProperties
      <3>2. q[Max(s)] \in E
        BY <3>1
      <3> QED BY <2>3, <2>5, <3>2
    <2> HIDE DEF iter
    <2>6. ByIndex(iter, q, 0, Nat, H)
      BY <1>2, <2>4, <2>5 DEF ByIndex
    <2> QED BY <1>1, <2>1, <2>6, FoldByIndex
  <1>4. <<>> \in Seq(E)
    BY EmptySeq
  <1>5. SumOf(<<>>, f) = 0
    <2>1. PICK e \in Seq(E) : e = <<>>
      BY <1>4
    <2>2. Fold(H, 0, <<>>) = 0
      BY <1>1, FoldSteps
    <2>3. SumOf(e, f) = Fold(H, 0, e)
      BY <1>3
    <2> QED BY <2>1, <2>2, <2>3
  <1>6. \A q \in Seq(E) : SumOf(q, f) \in Nat
    BY <1>1, <1>3, FoldSteps
  <1>7. ASSUME NEW q \in Seq(E), NEW x \in E
        PROVE  SumOf(Append(q, x), f) = SumOf(q, f) + x[f]
    <2> DEFINE a == Append(q, x)
    <2>1. a \in Seq(E)
      BY AppendProperties
    <2>2. Fold(H, 0, a) = H[<<x, Fold(H, 0, q)>>]
      BY <1>1, FoldSteps
    <2> HIDE DEF a
    <2>3. SumOf(a, f) = Fold(H, 0, a) /\ SumOf(q, f) = Fold(H, 0, q)
      BY <1>3, <2>1
    <2> QED BY <1>2, <1>6, <2>2, <2>3 DEF a
  <1> QED BY <1>5, <1>6, <1>7

\* The intervals kept among the first i, for every i.
KeptPath(t, from, to) ==
    /\ t \in [0 .. Len(samples) -> Seq(IVs)]
    /\ t[0] = <<>> /\ t[Len(samples)] = Kept(from, to)
    /\ \A i \in 1 .. Len(samples) :
          t[i] = IF i \in Within(from, to) THEN Append(t[i - 1], PingIntervals[i]) ELSE t[i - 1]

LEMMA KeptPathExists ==
  ASSUME FileInv, NEW from, NEW to
  PROVE  \E t : KeptPath(t, from, to)
  <1> DEFINE q == PingIntervals
             V == Seq(IVs)
             H == [p \in IVs \X V |-> IF InTimeRange(p[1].end, from, to) THEN Append(p[2], p[1]) ELSE p[2]]
  <1>1. q \in Seq(IVs) /\ Len(q) = Len(samples) /\ Len(q) \in Nat /\ \A i \in 1 .. Len(q) : q[i] \in IVs
    BY IntervalTypes DEF IVs
  <1>2. Foldable(IVs, V, <<>>, H)
    <2>1. \A x \in IVs, v \in V : Append(v, x) \in V
      BY AppendProperties
    <2>2. <<>> \in V
      BY EmptySeq
    <2> HIDE DEF V
    <2> QED BY <2>1, <2>2 DEF Foldable
  <1>3. \A x \in IVs, v \in V : H[<<x, v>>] = IF InTimeRange(x.end, from, to) THEN Append(v, x) ELSE v
    OBVIOUS
  <1> HIDE DEF H, V, q
  <1>4. Kept(from, to) = Fold(H, <<>>, q)
    <2> DEFINE Body(g) == [s \in SUBSET DOMAIN q |->
                              IF s = {} THEN <<>>
                              ELSE IF InTimeRange(q[Max(s)].end, from, to)
                              THEN Append(g[s \ {Max(s)}], q[Max(s)]) ELSE g[s \ {Max(s)}]]
               iter == CHOOSE g : g = Body(g)
    <2>1. Kept(from, to) = iter[DOMAIN q]
      BY DEF Kept, FoldLeft, MapThenFoldSet, q
    <2>2. \E g : g = Body(g)
      <3>1. PICK g : FoldsByIndex(g, q, IVs, V, <<>>, H)
        BY <1>1, <1>2, FoldByIndex
      <3>2. g = [s \in SUBSET DOMAIN q |-> g[s]] /\ g[{}] = <<>>
        BY <3>1 DEF FoldsByIndex
      <3>3. \A s \in SUBSET DOMAIN q : s # {} =>
               g[s] = IF InTimeRange(q[Max(s)].end, from, to)
                      THEN Append(g[s \ {Max(s)}], q[Max(s)]) ELSE g[s \ {Max(s)}]
        BY <1>3, <3>1 DEF FoldsByIndex
      <3> QED BY <3>2, <3>3
    <2>3. iter = Body(iter)
      BY <2>2
    <2>4. iter[{}] = <<>>
      BY <2>3
    <2>5. ASSUME NEW s \in SUBSET DOMAIN q, s # {}
          PROVE  /\ q[Max(s)] \in IVs
                 /\ iter[s] = IF InTimeRange(q[Max(s)].end, from, to)
                              THEN Append(iter[s \ {Max(s)}], q[Max(s)]) ELSE iter[s \ {Max(s)}]
      <3>1. Max(s) \in DOMAIN q
        BY <1>1, <2>5, MaxOfFinite, LenProperties
      <3>2. q[Max(s)] \in IVs
        BY <1>1, <3>1
      <3> QED BY <2>3, <2>5, <3>2
    <2> HIDE DEF iter
    <2>6. ByIndex(iter, q, <<>>, V, H)
      BY <1>3, <2>4, <2>5 DEF ByIndex
    <2> QED BY <1>1, <1>2, <2>1, <2>6, FoldByIndex
  <1>5. PICK t \in [0 .. Len(q) -> V] : Through(t, q, <<>>, H) /\ Fold(H, <<>>, q) = t[Len(q)]
    BY <1>1, <1>2, FoldThrough
  <1>6. ASSUME NEW i \in 1 .. Len(q)
        PROVE  t[i] = IF i \in Within(from, to) THEN Append(t[i - 1], q[i]) ELSE t[i - 1]
    <2>1. t[i] = H[<<q[i], t[i - 1]>>] /\ t[i - 1] \in V /\ q[i] \in IVs
      <3>1. i - 1 \in 0 .. Len(q)
        BY <1>1
      <3> QED BY <1>1, <1>5, <3>1 DEF Through
    <2>2. InTimeRange(q[i].end, from, to) <=> i \in Within(from, to)
      <3>1. q[i].end = samples[i].time /\ i \in DOMAIN samples
        BY <1>1, IntervalsHold, SampleTypes DEF Holds, q
      <3> QED BY <3>1 DEF Within
    <2> QED BY <1>3, <2>1, <2>2
  <1>7. KeptPath(t, from, to)
    <2>1. t[0] = <<>>
      BY <1>5 DEF Through
    <2> QED BY <1>1, <1>4, <1>5, <1>6, <2>1 DEF KeptPath, q, V
  <1> QED BY <1>7

\* The sum of a field over the kept intervals is the sum over the window.
LEMMA KeptSum ==
  ASSUME FileInv, NEW from, NEW to, NEW f, \A iv \in IVs : iv[f] \in Nat,
         NEW w, w = [i \in 1 .. Len(samples) |-> PingIntervals[i][f]],
         NEW g, Sums(g, 1 .. Len(samples), w)
  PROVE  SumOf(Kept(from, to), f) = g[Within(from, to)]
  <1> DEFINE n == Len(samples)
             S == Within(from, to)
  <1>1. PICK t : KeptPath(t, from, to)
    BY KeptPathExists
  <1>2. n \in Nat /\ S \subseteq 1 .. n
    BY DEF FileInv, TypeInv, Within
  <1>3. /\ SumOf(<<>>, f) = 0
        /\ \A q \in Seq(IVs) : SumOf(q, f) \in Nat
        /\ \A q \in Seq(IVs), x \in IVs : SumOf(Append(q, x), f) = SumOf(q, f) + x[f]
    BY SumOfRecs
  <1> DEFINE T == {i \in Nat : i <= n => SumOf(t[i], f) = g[S \cap (1 .. i)]}
  <1>4. 0 \in T
    <2>1. S \cap (1 .. 0) = {}
      OBVIOUS
    <2> QED BY <1>1, <1>3, <2>1 DEF KeptPath, Sums
  <1>5. ASSUME NEW i \in T PROVE i + 1 \in T
    <2>1. i \in Nat /\ (i <= n => SumOf(t[i], f) = g[S \cap (1 .. i)])
      OBVIOUS
    <2>2. ASSUME i + 1 <= n PROVE SumOf(t[i + 1], f) = g[S \cap (1 .. (i + 1))]
      <3>1. PICK j \in 1 .. n : j = i + 1 /\ j - 1 = i
        BY <1>2, <2>1, <2>2
      <3>2. t[j] = IF j \in S THEN Append(t[i], PingIntervals[j]) ELSE t[i]
        BY <1>1, <3>1 DEF KeptPath
      <3>3. t[i] \in Seq(IVs) /\ PingIntervals[j] \in IVs /\ SumOf(t[i], f) = g[S \cap (1 .. i)]
        BY <1>1, <2>1, <3>1 DEF KeptPath, IVs
      <3>4. CASE j \in S
        <4>0. 1 .. j = (1 .. i) \cup {j} /\ j \notin 1 .. i
          BY <2>1, <3>1
        <4> DEFINE a == S \cap (1 .. j)
        <4>1. a \in SUBSET (1 .. n) /\ j \in a /\ a \ {j} = S \cap (1 .. i) /\ a \ {j} \in SUBSET (1 .. n)
          BY <1>2, <3>4, <4>0
        <4> HIDE DEF a
        <4>2. g[a] = w[j] + g[a \ {j}] /\ g[a \ {j}] \in Int
          BY <4>1 DEF Sums
        <4>3. w[j] = PingIntervals[j][f] /\ w[j] \in Nat
          BY <3>3
        <4>4. SumOf(t[j], f) = SumOf(t[i], f) + PingIntervals[j][f]
          BY <1>3, <3>2, <3>3, <3>4
        <4>5. SumOf(t[j], f) = g[a]
          <5>1. g[a \ {j}] = SumOf(t[i], f)
            BY <3>3, <4>1
          <5> DEFINE x == w[j]
                     rest == g[a \ {j}]
          <5>2. x \in Int /\ rest \in Int /\ g[a] = x + rest /\ SumOf(t[j], f) = rest + x
            BY <4>2, <4>3, <4>4, <5>1
          <5> HIDE DEF x, rest
          <5> QED BY <5>2
        <4> QED BY <3>1, <4>5 DEF a
      <3>5. CASE j \notin S
        <4>1. S \cap (1 .. j) = S \cap (1 .. i)
          BY <2>1, <3>1, <3>5
        <4> QED BY <3>1, <3>2, <3>3, <3>5, <4>1
      <3> QED BY <3>4, <3>5
    <2> QED BY <2>1, <2>2
  <1>6. T = Nat
    <2>1. T \in SUBSET Nat
      OBVIOUS
    <2> HIDE DEF T
    <2> QED BY <1>4, <1>5, <2>1, NatSetInduction
  <1>7. n \in T
    BY <1>2, <1>6
  <1>8. SumOf(t[n], f) = g[S \cap (1 .. n)] /\ S \cap (1 .. n) = S
    BY <1>2, <1>7
  <1> QED BY <1>1, <1>8 DEF KeptPath

\* g sums field f of what happened.
SumsWhatHappened(f, w, g) ==
    /\ w \in [1 .. Len(samples) -> Int]
    /\ \A i \in 1 .. Len(samples) : w[i] = happened[i][f]
    /\ Sums(g, 1 .. Len(samples), w)

\* The sum of what happened is a sum in the sense of FoldLemmas.
LEMMA HappenedSums ==
  ASSUME FileInv, NEW f, NEW w, NEW g, SumsWhatHappened(f, w, g), NEW S \in SUBSET (1 .. Len(samples))
  PROVE  HappenedSum(f, S) = g[S]
  <1> USE DEF SumsWhatHappened
  <1> DEFINE Body(h) == [s \in SUBSET S |-> IF s = {} THEN 0
                           ELSE happened[CHOOSE x \in s : TRUE][f] + h[s \ {CHOOSE x \in s : TRUE}]]
             iter == CHOOSE h : h = Body(h)
  <1>1. HappenedSum(f, S) = iter[S]
    BY DEF HappenedSum, MapThenSumSet, MapThenFoldSet
  <1>2. ASSUME NEW h PROVE Body(h) = SumBody(h, S, w)
    <2>1. \A s \in SUBSET S : s # {} => w[CHOOSE x \in s : TRUE] = happened[CHOOSE x \in s : TRUE][f]
      OBVIOUS
    <2> QED BY <2>1 DEF SumBody
  <1>3. IsFiniteSet(1 .. Len(samples))
    BY FS_Interval DEF FileInv, TypeInv
  <1>4. /\ \E h : h = SumBody(h, S, w)
        /\ \A h : h = SumBody(h, S, w) => h[S] = g[S]
    <2>1. SumIs(g[S], S, w)
      BY <1>3, SumMaster
    <2> QED BY <2>1 DEF SumIs
  <1>5. \E h : h = Body(h)
    BY <1>2, <1>4
  <1>6. iter = Body(iter)
    BY <1>5
  <1> HIDE DEF iter, Body
  <1>7. iter = SumBody(iter, S, w)
    BY <1>2, <1>6
  <1> QED BY <1>1, <1>4, <1>7

\* The steps of the folds that look for the extremes.
LowerRTT(m, iv)  == IF iv.rx > 0 /\ iv.rttMin > 0 /\ (m = 0 \/ iv.rttMin < m) THEN iv.rttMin ELSE m
HigherRTT(m, iv) == IF iv.rttMax > m THEN iv.rttMax ELSE m

LEMMA MinRTTSteps ==
  ASSUME FileInv
  PROVE  /\ MinRTT(<<>>) = 0
         /\ \A q \in Seq(IVs) : MinRTT(q) \in Nat
         /\ \A q \in Seq(IVs), x \in IVs : MinRTT(Append(q, x)) = LowerRTT(MinRTT(q), x)
  <1> DEFINE H == [p \in IVs \X Nat |-> LowerRTT(p[2], p[1])]
  <1>1. Foldable(IVs, Nat, 0, H)
    BY IntervalTypes DEF Foldable, LowerRTT
  <1>2. \A x \in IVs, v \in Nat : H[<<x, v>>] = LowerRTT(v, x)
    OBVIOUS
  <1> HIDE DEF H
  <1>3. ASSUME NEW q \in Seq(IVs)
        PROVE  MinRTT(q) = Fold(H, 0, q)
    <2> DEFINE Body(g) == [s \in SUBSET DOMAIN q |-> IF s = {} THEN 0 ELSE LowerRTT(g[s \ {Max(s)}], q[Max(s)])]
               iter == CHOOSE g : g = Body(g)
    <2>1. MinRTT(q) = iter[DOMAIN q]
      BY DEF MinRTT, LowerRTT, FoldLeft, MapThenFoldSet
    <2>2. \E g : g = Body(g)
      <3>1. PICK g : FoldsByIndex(g, q, IVs, Nat, 0, H)
        BY <1>1, FoldByIndex
      <3>2. g = [s \in SUBSET DOMAIN q |-> g[s]] /\ g[{}] = 0
        BY <3>1 DEF FoldsByIndex
      <3>3. \A s \in SUBSET DOMAIN q : s # {} => g[s] = LowerRTT(g[s \ {Max(s)}], q[Max(s)])
        BY <1>2, <3>1 DEF FoldsByIndex
      <3> QED BY <3>2, <3>3
    <2>3. iter = Body(iter)
      BY <2>2
    <2>4. iter[{}] = 0
      BY <2>3
    <2>5. ASSUME NEW s \in SUBSET DOMAIN q, s # {}
          PROVE  q[Max(s)] \in IVs /\ iter[s] = LowerRTT(iter[s \ {Max(s)}], q[Max(s)])
      <3>1. Max(s) \in DOMAIN q
        BY <2>5, MaxOfFinite, LenProperties
      <3>2. q[Max(s)] \in IVs
        BY <3>1
      <3> QED BY <2>3, <2>5, <3>2
    <2> HIDE DEF iter
    <2>6. ByIndex(iter, q, 0, Nat, H)
      BY <1>2, <2>4, <2>5 DEF ByIndex
    <2> QED BY <1>1, <2>1, <2>6, FoldByIndex
  <1>4. <<>> \in Seq(IVs)
    BY EmptySeq
  <1>5. MinRTT(<<>>) = 0
    <2>1. PICK e \in Seq(IVs) : e = <<>>
      BY <1>4
    <2>2. Fold(H, 0, <<>>) = 0
      BY <1>1, FoldSteps
    <2>3. MinRTT(e) = Fold(H, 0, e)
      BY <1>3
    <2> QED BY <2>1, <2>2, <2>3
  <1>6. \A q \in Seq(IVs) : MinRTT(q) \in Nat
    BY <1>1, <1>3, FoldSteps
  <1>7. ASSUME NEW q \in Seq(IVs), NEW x \in IVs
        PROVE  MinRTT(Append(q, x)) = LowerRTT(MinRTT(q), x)
    <2> DEFINE a == Append(q, x)
    <2>1. a \in Seq(IVs)
      BY AppendProperties
    <2>2. Fold(H, 0, a) = H[<<x, Fold(H, 0, q)>>]
      BY <1>1, FoldSteps
    <2> HIDE DEF a
    <2>3. MinRTT(a) = Fold(H, 0, a) /\ MinRTT(q) = Fold(H, 0, q)
      BY <1>3, <2>1
    <2> QED BY <1>2, <1>6, <2>2, <2>3 DEF a
  <1> QED BY <1>5, <1>6, <1>7

LEMMA MaxRTTSteps ==
  ASSUME FileInv
  PROVE  /\ MaxRTT(<<>>) = 0
         /\ \A q \in Seq(IVs) : MaxRTT(q) \in Nat
         /\ \A q \in Seq(IVs), x \in IVs : MaxRTT(Append(q, x)) = HigherRTT(MaxRTT(q), x)
  <1> DEFINE H == [p \in IVs \X Nat |-> HigherRTT(p[2], p[1])]
  <1>1. Foldable(IVs, Nat, 0, H)
    BY IntervalTypes DEF Foldable, HigherRTT
  <1>2. \A x \in IVs, v \in Nat : H[<<x, v>>] = HigherRTT(v, x)
    OBVIOUS
  <1> HIDE DEF H
  <1>3. ASSUME NEW q \in Seq(IVs)
        PROVE  MaxRTT(q) = Fold(H, 0, q)
    <2> DEFINE Body(g) == [s \in SUBSET DOMAIN q |-> IF s = {} THEN 0 ELSE HigherRTT(g[s \ {Max(s)}], q[Max(s)])]
               iter == CHOOSE g : g = Body(g)
    <2>1. MaxRTT(q) = iter[DOMAIN q]
      BY DEF MaxRTT, HigherRTT, FoldLeft, MapThenFoldSet
    <2>2. \E g : g = Body(g)
      <3>1. PICK g : FoldsByIndex(g, q, IVs, Nat, 0, H)
        BY <1>1, FoldByIndex
      <3>2. g = [s \in SUBSET DOMAIN q |-> g[s]] /\ g[{}] = 0
        BY <3>1 DEF FoldsByIndex
      <3>3. \A s \in SUBSET DOMAIN q : s # {} => g[s] = HigherRTT(g[s \ {Max(s)}], q[Max(s)])
        BY <1>2, <3>1 DEF FoldsByIndex
      <3> QED BY <3>2, <3>3
    <2>3. iter = Body(iter)
      BY <2>2
    <2>4. iter[{}] = 0
      BY <2>3
    <2>5. ASSUME NEW s \in SUBSET DOMAIN q, s # {}
          PROVE  q[Max(s)] \in IVs /\ iter[s] = HigherRTT(iter[s \ {Max(s)}], q[Max(s)])
      <3>1. Max(s) \in DOMAIN q
        BY <2>5, MaxOfFinite, LenProperties
      <3>2. q[Max(s)] \in IVs
        BY <3>1
      <3> QED BY <2>3, <2>5, <3>2
    <2> HIDE DEF iter
    <2>6. ByIndex(iter, q, 0, Nat, H)
      BY <1>2, <2>4, <2>5 DEF ByIndex
    <2> QED BY <1>1, <2>1, <2>6, FoldByIndex
  <1>4. <<>> \in Seq(IVs)
    BY EmptySeq
  <1>5. MaxRTT(<<>>) = 0
    <2>1. PICK e \in Seq(IVs) : e = <<>>
      BY <1>4
    <2>2. Fold(H, 0, <<>>) = 0
      BY <1>1, FoldSteps
    <2>3. MaxRTT(e) = Fold(H, 0, e)
      BY <1>3
    <2> QED BY <2>1, <2>2, <2>3
  <1>6. \A q \in Seq(IVs) : MaxRTT(q) \in Nat
    BY <1>1, <1>3, FoldSteps
  <1>7. ASSUME NEW q \in Seq(IVs), NEW x \in IVs
        PROVE  MaxRTT(Append(q, x)) = HigherRTT(MaxRTT(q), x)
    <2> DEFINE a == Append(q, x)
    <2>1. a \in Seq(IVs)
      BY AppendProperties
    <2>2. Fold(H, 0, a) = H[<<x, Fold(H, 0, q)>>]
      BY <1>1, FoldSteps
    <2> HIDE DEF a
    <2>3. MaxRTT(a) = Fold(H, 0, a) /\ MaxRTT(q) = Fold(H, 0, q)
      BY <1>3, <2>1
    <2> QED BY <1>2, <1>6, <2>2, <2>3 DEF a
  <1> QED BY <1>5, <1>6, <1>7

\* The step of the fold that lists the errors.
AddError(list, iv) ==
    IF iv.err = NoError THEN list
    ELSE IF \E e \in ToSet(list) : e.msg = iv.err
    THEN [k \in DOMAIN list |-> [list[k] EXCEPT !.count = IF list[k].msg = iv.err THEN @ + 1 ELSE @]]
    ELSE Append(list, [msg |-> iv.err, count |-> 1, first |-> iv.end])

ErrRecs == [msg : OpenErrs, count : Nat, first : Nat]

\* new is list with one more error, an old one or a new one.
ErrorAdded(list, iv, err, new) ==
    /\ err \in OpenErrs /\ new \in Seq(ErrRecs)
    /\ (\E k \in 1 .. Len(list) : list[k].msg = err) =>
          /\ Len(new) = Len(list)
          /\ \A k \in 1 .. Len(list) :
                /\ new[k].msg = list[k].msg /\ new[k].first = list[k].first
                /\ new[k].count = IF list[k].msg = err THEN list[k].count + 1 ELSE list[k].count
    /\ (\A k \in 1 .. Len(list) : list[k].msg # err) =>
          new = Append(list, [msg |-> err, count |-> 1, first |-> iv.end])

LEMMA AddErrorIs ==
  ASSUME FileInv, NEW list \in Seq(ErrRecs), NEW iv \in IVs, iv.err # NoError
  PROVE  ErrorAdded(list, iv, iv.err, AddError(list, iv))
  <1> SUFFICES ASSUME NEW err, err = iv.err, NEW new, new = AddError(list, iv)
               PROVE  ErrorAdded(list, iv, err, new)
    OBVIOUS
  <1> USE DEF ErrorAdded
  <1>1. err \in OpenErrs /\ iv.end \in Nat
    BY IntervalTypes DEF Errs
  <1>2. DOMAIN list = 1 .. Len(list) /\ Len(list) \in Nat /\ \A k \in 1 .. Len(list) : list[k] \in ErrRecs
    OBVIOUS
  <1>3. ToSet(list) = {list[k] : k \in 1 .. Len(list)}
    BY <1>2 DEF ToSet
  <1>4. CASE \E k \in 1 .. Len(list) : list[k].msg = err
    <2> DEFINE Counted(k) == [list[k] EXCEPT !.count = IF list[k].msg = err THEN @ + 1 ELSE @]
    <2>1. new = [k \in 1 .. Len(list) |-> Counted(k)]
      BY <1>2, <1>3, <1>4 DEF AddError
    <2>2. \A k \in 1 .. Len(list) :
             /\ Counted(k).msg = list[k].msg /\ Counted(k).first = list[k].first
             /\ Counted(k).count = IF list[k].msg = err THEN list[k].count + 1 ELSE list[k].count
             /\ Counted(k) \in ErrRecs
      BY <1>2 DEF ErrRecs
    <2> HIDE DEF Counted
    <2>3. new \in Seq(ErrRecs) /\ Len(new) = Len(list)
      BY <1>2, <2>1, <2>2
    <2> QED BY <1>1, <1>4, <2>1, <2>2, <2>3
  <1>5. CASE \A k \in 1 .. Len(list) : list[k].msg # err
    <2>1. new = Append(list, [msg |-> err, count |-> 1, first |-> iv.end])
      BY <1>3, <1>5 DEF AddError
    <2>2. [msg |-> err, count |-> 1, first |-> iv.end] \in ErrRecs
      BY <1>1 DEF ErrRecs
    <2>3. new \in Seq(ErrRecs)
      BY <2>1, <2>2, AppendProperties
    <2> QED BY <1>1, <1>5, <2>1, <2>3
  <1> QED BY <1>4, <1>5

LEMMA ErrorsSteps ==
  ASSUME FileInv
  PROVE  /\ Errors(<<>>) = <<>>
         /\ \A q \in Seq(IVs) : Errors(q) \in Seq(ErrRecs)
         /\ \A q \in Seq(IVs), x \in IVs : Errors(Append(q, x)) = AddError(Errors(q), x)
  <1> DEFINE H == [p \in IVs \X Seq(ErrRecs) |-> AddError(p[2], p[1])]
  <1>1. Foldable(IVs, Seq(ErrRecs), <<>>, H)
    <2>1. <<>> \in Seq(ErrRecs)
      BY EmptySeq
    <2>2. ASSUME NEW x \in IVs, NEW v \in Seq(ErrRecs) PROVE AddError(v, x) \in Seq(ErrRecs)
      <3>1. CASE x.err = NoError
        BY <3>1 DEF AddError
      <3>2. CASE x.err # NoError
        BY <3>2, AddErrorIs DEF ErrorAdded
      <3> QED BY <3>1, <3>2
    <2>3. H \in [IVs \X Seq(ErrRecs) -> Seq(ErrRecs)]
      BY <2>2
    <2> HIDE DEF H
    <2> QED BY <2>1, <2>3 DEF Foldable
  <1>2. \A x \in IVs, v \in Seq(ErrRecs) : H[<<x, v>>] = AddError(v, x)
    OBVIOUS
  <1> HIDE DEF H
  <1>3. ASSUME NEW q \in Seq(IVs)
        PROVE  Errors(q) = Fold(H, <<>>, q)
    <2> DEFINE Body(g) == [s \in SUBSET DOMAIN q |-> IF s = {} THEN <<>> ELSE AddError(g[s \ {Max(s)}], q[Max(s)])]
               iter == CHOOSE g : g = Body(g)
    <2>1. Errors(q) = iter[DOMAIN q]
      BY DEF Errors, AddError, FoldLeft, MapThenFoldSet
    <2>2. \E g : g = Body(g)
      <3>1. PICK g : FoldsByIndex(g, q, IVs, Seq(ErrRecs), <<>>, H)
        BY <1>1, FoldByIndex
      <3>2. g = [s \in SUBSET DOMAIN q |-> g[s]] /\ g[{}] = <<>>
        BY <3>1 DEF FoldsByIndex
      <3>3. \A s \in SUBSET DOMAIN q : s # {} => g[s] = AddError(g[s \ {Max(s)}], q[Max(s)])
        BY <1>2, <3>1 DEF FoldsByIndex
      <3> QED BY <3>2, <3>3
    <2>3. iter = Body(iter)
      BY <2>2
    <2>4. iter[{}] = <<>>
      BY <2>3
    <2>5. ASSUME NEW s \in SUBSET DOMAIN q, s # {}
          PROVE  q[Max(s)] \in IVs /\ iter[s] = AddError(iter[s \ {Max(s)}], q[Max(s)])
      <3>1. Max(s) \in DOMAIN q
        BY <2>5, MaxOfFinite, LenProperties
      <3>2. q[Max(s)] \in IVs
        BY <3>1
      <3> QED BY <2>3, <2>5, <3>2
    <2> HIDE DEF iter
    <2>6. ByIndex(iter, q, <<>>, Seq(ErrRecs), H)
      BY <1>2, <2>4, <2>5 DEF ByIndex
    <2> QED BY <1>1, <2>1, <2>6, FoldByIndex
  <1>4. <<>> \in Seq(IVs)
    BY EmptySeq
  <1>5. Errors(<<>>) = <<>>
    <2>1. PICK e \in Seq(IVs) : e = <<>>
      BY <1>4
    <2>2. Fold(H, <<>>, <<>>) = <<>>
      BY <1>1, FoldSteps
    <2>3. Errors(e) = Fold(H, <<>>, e)
      BY <1>3
    <2> QED BY <2>1, <2>2, <2>3
  <1>6. \A q \in Seq(IVs) : Errors(q) \in Seq(ErrRecs)
    BY <1>1, <1>3, FoldSteps
  <1>7. ASSUME NEW q \in Seq(IVs), NEW x \in IVs
        PROVE  Errors(Append(q, x)) = AddError(Errors(q), x)
    <2> DEFINE a == Append(q, x)
    <2>1. a \in Seq(IVs)
      BY AppendProperties
    <2>2. Fold(H, <<>>, a) = H[<<x, Fold(H, <<>>, q)>>]
      BY <1>1, FoldSteps
    <2> HIDE DEF a
    <2>3. Errors(a) = Fold(H, <<>>, a) /\ Errors(q) = Fold(H, <<>>, q)
      BY <1>3, <2>1
    <2> QED BY <1>2, <1>6, <2>2, <2>3 DEF a
  <1> QED BY <1>5, <1>6, <1>7

-----------------------------------------------------------------------------
(* The totals and the errors of a window.                                  *)

LEMMA KeptTotals ==
  ASSUME FileInv, NEW from, NEW to, NEW f, NEW hf, \A iv \in IVs : iv[f] \in Nat,
         \A i \in 1 .. Len(samples) : PingIntervals[i][f] = happened[i][hf]
  PROVE  SumOf(Kept(from, to), f) = HappenedSum(hf, Within(from, to))
  <1> DEFINE n == Len(samples)
             w == [i \in 1 .. n |-> PingIntervals[i][f]]
  <1>1. IsFiniteSet(1 .. n)
    BY FS_Interval DEF FileInv, TypeInv
  <1>2. w \in [1 .. n -> Int] /\ \A i \in 1 .. n : w[i] = happened[i][hf]
    <2>1. \A i \in 1 .. n : PingIntervals[i][f] \in Int
      BY DEF IVs
    <2> QED BY <2>1
  <1>3. Within(from, to) \in SUBSET (1 .. n)
    BY DEF Within, FileInv, TypeInv
  <1>4. PICK g : Sums(g, 1 .. n, w)
    <2> HIDE DEF w
    <2> QED BY <1>1, <1>2, SumExists
  <1>5. SumOf(Kept(from, to), f) = g[Within(from, to)]
    BY <1>4, KeptSum
  <1>6. HappenedSum(hf, Within(from, to)) = g[Within(from, to)]
    <2> DEFINE S == Within(from, to)
    <2>1. S \in SUBSET (1 .. n)
      BY <1>3
    <2>2. SumsWhatHappened(hf, w, g)
      BY <1>2, <1>4, Zenon DEF SumsWhatHappened
    <2> HIDE DEF w, S
    <2>3. HappenedSum(hf, S) = g[S]
      BY <2>1, <2>2, HappenedSums
    <2> QED BY <2>3 DEF S
  <1> QED BY <1>5, <1>6

\* The samples of S whose error is msg.
Told(S, msg) == {i \in S : samples[i].err = msg}

\* The list tells the errors of the samples of S, each once.
ErrorsTell(list, S) ==
    /\ list \in Seq(ErrRecs)
    /\ \A j, k \in 1 .. Len(list) : list[j].msg = list[k].msg => j = k
    /\ \A i \in S : samples[i].err # NoError => \E k \in 1 .. Len(list) : list[k].msg = samples[i].err
    /\ \A k \in 1 .. Len(list) :
          /\ list[k].count = Cardinality(Told(S, list[k].msg))
          /\ \E i \in Told(S, list[k].msg) :
                (\A j \in Told(S, list[k].msg) : i <= j) /\ samples[i].time = list[k].first

LEMMA NextErrorTold ==
  ASSUME FileInv, NEW j \in 1 .. Len(samples), NEW S \in SUBSET (1 .. (j - 1)), NEW list, ErrorsTell(list, S),
         NEW iv, iv = PingIntervals[j], NEW err, err = samples[j].err,
         NEW new, new = AddError(list, iv), NEW R, R = S \cup {j}
  PROVE  ErrorsTell(new, R)
  <1>1. /\ iv.err = err /\ iv.end = samples[j].time /\ iv \in IVs /\ iv.end \in Nat
    BY IntervalsHold, IntervalTypes DEF Holds, IVs
  <1>2. j \in Nat /\ j \notin S /\ IsFiniteSet(S) /\ \A i \in S : i \in Nat /\ i < j
    <2>1. j \in Nat
      BY DEF FileInv, TypeInv
    <2>2. IsFiniteSet(1 .. (j - 1))
      BY <2>1, FS_Interval
    <2>3. \A i \in S : i \in Nat /\ i < j
      BY <2>1
    <2>4. IsFiniteSet(S)
      BY <2>2, FS_Subset
    <2> QED BY <2>1, <2>3, <2>4
  <1>3. \A msg : Told(R, msg) = IF msg = err THEN Told(S, msg) \cup {j} ELSE Told(S, msg)
    BY <1>2 DEF Told
  <1>4. \A msg : IsFiniteSet(Told(S, msg)) /\ j \notin Told(S, msg) /\ Cardinality(Told(S, msg)) \in Nat
    <2>1. \A msg : Told(S, msg) \subseteq S
      BY DEF Told
    <2> QED BY <1>2, <2>1, FS_Subset, FS_CardinalityType
  <1>5. Cardinality(Told(R, err)) = Cardinality(Told(S, err)) + 1
    <2> DEFINE U == Told(S, err)
    <2>1. IsFiniteSet(U) /\ j \notin U /\ Told(R, err) = U \cup {j}
      BY <1>3, <1>4
    <2> HIDE DEF U
    <2>2. Cardinality(U \cup {j}) = Cardinality(U) + 1
      BY <2>1, FS_AddElement
    <2> QED BY <2>1, <2>2 DEF U
  <1>6. list \in Seq(ErrRecs) /\ \A k \in 1 .. Len(list) : list[k] \in ErrRecs
    BY DEF ErrorsTell
  <1>10. ASSUME err # NoError PROVE ErrorAdded(list, iv, err, new)
    BY <1>1, <1>6, <1>10, AddErrorIs
  <1>7. CASE err = NoError
    <2>1. new = list
      BY <1>1, <1>7 DEF AddError
    <2>2. \A k \in 1 .. Len(list) : list[k].msg # err
      BY <1>6, <1>7, ReportAssumption DEF ErrRecs, NoError
    <2>3. \A k \in 1 .. Len(list) : Told(R, list[k].msg) = Told(S, list[k].msg)
      BY <1>3, <2>2
    <2>4. \A i \in R : samples[i].err # NoError => i \in S
      BY <1>7
    <2> QED BY <2>1, <2>3, <2>4 DEF ErrorsTell
  <1>8. CASE err # NoError /\ \E k \in 1 .. Len(list) : list[k].msg = err
    <2>1. Len(new) = Len(list) /\ new \in Seq(ErrRecs)
      BY <1>8, <1>10 DEF ErrorAdded
    <2>2. \A k \in 1 .. Len(list) :
             /\ new[k].msg = list[k].msg /\ new[k].first = list[k].first
             /\ new[k].count = IF list[k].msg = err THEN list[k].count + 1 ELSE list[k].count
      BY <1>8, <1>10 DEF ErrorAdded
    <2>3. \A i, k \in 1 .. Len(new) : new[i].msg = new[k].msg => i = k
      BY <2>1, <2>2 DEF ErrorsTell
    <2>4. \A i \in R : samples[i].err # NoError => \E k \in 1 .. Len(new) : new[k].msg = samples[i].err
      <3>1. ASSUME NEW i \in R, samples[i].err # NoError
            PROVE  \E k \in 1 .. Len(list) : list[k].msg = samples[i].err
        <4>1. CASE i \in S
          BY <3>1, <4>1 DEF ErrorsTell
        <4>2. CASE i = j
          BY <1>8, <4>2
        <4> QED BY <4>1, <4>2
      <3> QED BY <2>1, <2>2, <3>1
    <2>5. ASSUME NEW k \in 1 .. Len(new)
          PROVE  /\ new[k].count = Cardinality(Told(R, new[k].msg))
                 /\ \E i \in Told(R, new[k].msg) :
                       (\A x \in Told(R, new[k].msg) : i <= x) /\ samples[i].time = new[k].first
      <3> DEFINE msg == list[k].msg
      <3>1. k \in 1 .. Len(list) /\ new[k].msg = msg /\ new[k].first = list[k].first
        BY <2>1, <2>2
      <3>2. list[k].count = Cardinality(Told(S, msg))
        BY <3>1 DEF ErrorsTell
      <3>3. PICK i \in Told(S, msg) : (\A x \in Told(S, msg) : i <= x) /\ samples[i].time = list[k].first
        BY <3>1 DEF ErrorsTell
      <3>4. i \in S /\ i <= j
        BY <1>2 DEF Told
      <3>5. i \in Told(R, msg) /\ \A x \in Told(R, msg) : i <= x
        BY <1>3, <3>3, <3>4
      <3>6. new[k].count = Cardinality(Told(R, msg))
        BY <1>3, <1>5, <2>2, <3>1, <3>2
      <3> HIDE DEF msg
      <3> QED BY <3>1, <3>3, <3>5, <3>6
    <2> QED BY <2>1, <2>3, <2>4, <2>5 DEF ErrorsTell
  <1>9. CASE err # NoError /\ \A k \in 1 .. Len(list) : list[k].msg # err
    <2> DEFINE x == [msg |-> err, count |-> 1, first |-> samples[j].time]
               m == Len(list)
    <2>1. new = Append(list, x) /\ new \in Seq(ErrRecs)
      BY <1>1, <1>9, <1>10 DEF ErrorAdded
    <2>2. m \in Nat /\ Len(new) = m + 1 /\ new[m + 1] = x /\ \A k \in 1 .. m : new[k] = list[k]
      BY <1>6, <2>1
    <2> HIDE DEF m
    <2>3. \A i, k \in 1 .. Len(new) : new[i].msg = new[k].msg => i = k
      <3> SUFFICES ASSUME NEW i \in 1 .. m + 1, NEW k \in 1 .. m + 1, new[i].msg = new[k].msg PROVE i = k
        BY <2>2
      <3>1. new[m + 1].msg = err
        BY <2>2
      <3>2. \A k_1 \in 1 .. m : new[k_1].msg = list[k_1].msg /\ list[k_1].msg # err
        BY <1>9, <2>2 DEF m
      <3>3. (i \in 1 .. m \/ i = m + 1) /\ (k \in 1 .. m \/ k = m + 1)
        BY <2>2
      <3> QED BY <3>1, <3>2, <3>3 DEF ErrorsTell, m
    <2>4. \A i \in R : samples[i].err # NoError => \E k \in 1 .. Len(new) : new[k].msg = samples[i].err
      <3>1. ASSUME NEW i \in R, samples[i].err # NoError
            PROVE  \E k \in 1 .. m + 1 : new[k].msg = samples[i].err
        <4>1. CASE i \in S
          <5>1. PICK k \in 1 .. m : list[k].msg = samples[i].err
            BY <3>1, <4>1 DEF ErrorsTell, m
          <5> QED BY <2>2, <5>1
        <4>2. CASE i = j
          BY <2>2, <4>2
        <4> QED BY <4>1, <4>2
      <3> QED BY <2>2, <3>1
    <2>5. ASSUME NEW k \in 1 .. Len(new)
          PROVE  /\ new[k].count = Cardinality(Told(R, new[k].msg))
                 /\ \E i \in Told(R, new[k].msg) :
                       (\A y \in Told(R, new[k].msg) : i <= y) /\ samples[i].time = new[k].first
      <3>1. CASE k \in 1 .. m
        <4> DEFINE msg == list[k].msg
        <4>1. new[k] = list[k] /\ Told(R, msg) = Told(S, msg)
          BY <1>3, <1>9, <2>2, <3>1 DEF m
        <4>2. /\ list[k].count = Cardinality(Told(S, msg))
              /\ \E i \in Told(S, msg) : (\A y \in Told(S, msg) : i <= y) /\ samples[i].time = list[k].first
          BY <3>1 DEF ErrorsTell, m
        <4> QED BY <4>1, <4>2
      <3>2. CASE k = m + 1
        <4>1. new[k].msg = err /\ new[k].count = 1 /\ new[k].first = samples[j].time
          BY <2>2, <3>2
        <4>2. Told(S, err) = {}
          <5> SUFFICES ASSUME NEW i \in S, samples[i].err = err PROVE FALSE
            BY DEF Told
          <5> QED BY <1>9 DEF ErrorsTell
        <4>3. Told(R, err) = {j}
          BY <1>3, <4>2
        <4>4. Cardinality(Told(R, err)) = 1
          BY <4>3, FS_Singleton
        <4>5. \E i \in Told(R, err) : (\A y \in Told(R, err) : i <= y) /\ samples[i].time = new[k].first
          <5>1. j \in Told(R, err) /\ \A y \in Told(R, err) : y = j
            BY <4>3
          <5>2. j <= j /\ samples[j].time = new[k].first
            BY <1>2, <4>1
          <5> QED BY <5>1, <5>2
        <4> QED BY <4>1, <4>4, <4>5
      <3>3. k \in 1 .. m \/ k = m + 1
        BY <2>2
      <3> QED BY <3>1, <3>2, <3>3
    <2> QED BY <2>1, <2>3, <2>4, <2>5 DEF ErrorsTell
  <1> QED BY <1>7, <1>8, <1>9

LEMMA KeptErrors ==
  ASSUME FileInv, NEW from, NEW to
  PROVE  ErrorsTell(Errors(Kept(from, to)), Within(from, to))
  <1> DEFINE n == Len(samples)
             S == Within(from, to)
  <1>1. PICK t : KeptPath(t, from, to)
    BY KeptPathExists
  <1>2. n \in Nat /\ S \subseteq 1 .. n
    BY DEF FileInv, TypeInv, Within
  <1>3. /\ Errors(<<>>) = <<>>
        /\ \A q \in Seq(IVs), x \in IVs : Errors(Append(q, x)) = AddError(Errors(q), x)
    BY ErrorsSteps
  <1> DEFINE T == {i \in Nat : i <= n => ErrorsTell(Errors(t[i]), S \cap (1 .. i))}
  <1>4. 0 \in T
    <2>1. S \cap (1 .. 0) = {}
      OBVIOUS
    <2>2. PICK e \in Seq(ErrRecs) : e = <<>> /\ Len(e) = 0
      BY EmptySeq
    <2>3. ErrorsTell(e, {})
      BY <2>2 DEF ErrorsTell
    <2>4. Errors(t[0]) = e
      BY <1>1, <1>3, <2>2 DEF KeptPath
    <2> QED BY <2>1, <2>3, <2>4
  <1>5. ASSUME NEW i \in T PROVE i + 1 \in T
    <2>1. i \in Nat /\ (i <= n => ErrorsTell(Errors(t[i]), S \cap (1 .. i)))
      OBVIOUS
    <2>2. ASSUME i + 1 <= n PROVE ErrorsTell(Errors(t[i + 1]), S \cap (1 .. (i + 1)))
      <3>1. PICK j \in 1 .. n : j = i + 1 /\ j - 1 = i
        BY <1>2, <2>1, <2>2
      <3>2. t[j] = IF j \in S THEN Append(t[i], PingIntervals[j]) ELSE t[i]
        BY <1>1, <3>1 DEF KeptPath
      <3>3. t[i] \in Seq(IVs) /\ PingIntervals[j] \in IVs /\ ErrorsTell(Errors(t[i]), S \cap (1 .. i))
        BY <1>1, <2>1, <3>1 DEF KeptPath, IVs
      <3>4. CASE j \in S
        <4>1. S \cap (1 .. j) = (S \cap (1 .. i)) \cup {j}
          <5>1. 1 .. j = (1 .. i) \cup {j}
            BY <2>1, <3>1
          <5> QED BY <3>4, <5>1
        <4>2. Errors(t[j]) = AddError(Errors(t[i]), PingIntervals[j])
          BY <1>3, <3>2, <3>3, <3>4
        <4>3. S \cap (1 .. i) \in SUBSET (1 .. (j - 1))
          BY <3>1
        <4>4. ErrorsTell(AddError(Errors(t[i]), PingIntervals[j]), (S \cap (1 .. i)) \cup {j})
          BY <3>3, <4>3, NextErrorTold
        <4> QED BY <3>1, <4>1, <4>2, <4>4
      <3>5. CASE j \notin S
        <4>1. S \cap (1 .. j) = S \cap (1 .. i)
          BY <2>1, <3>1, <3>5
        <4> QED BY <3>1, <3>2, <3>3, <3>5, <4>1
      <3> QED BY <3>4, <3>5
    <2> QED BY <2>1, <2>2
  <1>6. T = Nat
    <2>1. T \in SUBSET Nat
      OBVIOUS
    <2> HIDE DEF T
    <2> QED BY <1>4, <1>5, <2>1, NatSetInduction
  <1>7. n \in T
    BY <1>2, <1>6
  <1>8. ErrorsTell(Errors(t[n]), S \cap (1 .. n)) /\ S \cap (1 .. n) = S
    BY <1>2, <1>7
  <1> QED BY <1>1, <1>8 DEF KeptPath

\* TotalsAreTruth of one window.
TotalsOf(from, to) ==
    LET r == BuildPingReport(from, to)
        S == Within(from, to)
    IN  /\ r.tx = HappenedSum("sent", S)
        /\ r.rx = HappenedSum("answered", S)
        /\ r.lost = HappenedSum("expired", S)
        /\ Len(r.errors) = Cardinality({samples[i].err : i \in S} \ {NoError})
        /\ \A e \in ToSet(r.errors) :
               LET told == {i \in S : samples[i].err = e.msg}
               IN  e.count = Cardinality(told) /\ \E i \in told : \A j \in told : i <= j /\ samples[i].time = e.first

\* A list that tells the errors of S has as many entries as S has messages.
LEMMA ErrorsCounted ==
  ASSUME NEW S, NEW list, ErrorsTell(list, S)
  PROVE  Len(list) = Cardinality({samples[i].err : i \in S} \ {NoError})
  <1> DEFINE M == {samples[i].err : i \in S} \ {NoError}
             D == 1 .. Len(list)
             b == [k \in D |-> list[k].msg]
  <1>1. Len(list) \in Nat /\ \A k \in D : list[k] \in ErrRecs
    BY DEF ErrorsTell
  <1>2. ASSUME NEW k \in D PROVE list[k].msg \in M
    <2>1. list[k].msg \in OpenErrs /\ list[k].msg # NoError
      BY <1>1, ReportAssumption DEF ErrRecs, NoError
    <2>2. PICK i \in Told(S, list[k].msg) : samples[i].time = list[k].first
      BY DEF ErrorsTell
    <2> QED BY <2>1, <2>2 DEF Told
  <1>3. ASSUME NEW m \in M PROVE \E k \in D : list[k].msg = m
    BY DEF ErrorsTell
  <1>4. \A j, k \in D : list[j].msg = list[k].msg => j = k
    BY DEF ErrorsTell
  <1>5. b \in Bijection(D, M)
    <2>1. b \in [D -> M]
      BY <1>2
    <2>2. \A j, k \in D : b[j] = b[k] => j = k
      BY <1>4
    <2>3. \A m \in M : \E k \in D : b[k] = m
      BY <1>3
    <2> HIDE DEF b, D, M
    <2> QED BY <2>1, <2>2, <2>3 DEF Bijection, Injection, Surjection, IsInjective
  <1>6. IsFiniteSet(D) /\ Cardinality(D) = Len(list)
    <2>1. Cardinality(1 .. Len(list)) = IF 1 > Len(list) THEN 0 ELSE Len(list) - 1 + 1
      BY <1>1, FS_Interval
    <2>2. IsFiniteSet(D)
      BY <1>1, FS_Interval
    <2> QED BY <1>1, <2>1, <2>2
  <1>7. Cardinality(D) = Cardinality(M)
    <2> HIDE DEF b, D, M
    <2>1. \E f : f \in Bijection(D, M)
      BY <1>5
    <2> QED BY <1>6, <2>1, FS_Bijection DEF ExistsBijection
  <1> QED BY <1>6, <1>7

LEMMA TotalsHold ==
  ASSUME FileInv, NEW from, NEW to
  PROVE  TotalsOf(from, to)
  <1> DEFINE r == BuildPingReport(from, to)
             kept == Kept(from, to)
             S == Within(from, to)
  <1>1. /\ r.tx = SumOf(kept, "tx") /\ r.rx = SumOf(kept, "rx") /\ r.lost = SumOf(kept, "lost")
        /\ r.errors = Errors(kept)
    BY DEF BuildPingReport
  <1>2. /\ \A iv \in IVs : iv.tx \in Nat /\ iv.rx \in Nat /\ iv.lost \in Nat
        /\ \A i \in 1 .. Len(samples) : /\ PingIntervals[i].tx = happened[i].sent
                                        /\ PingIntervals[i].rx = happened[i].answered
                                        /\ PingIntervals[i].lost = happened[i].expired
    BY IntervalTypes, IntervalsHold DEF Holds
  <1> HIDE DEF r, kept, S
  <1>3. SumOf(kept, "tx") = HappenedSum("sent", S)
    BY <1>2, KeptTotals DEF kept, S
  <1>4. SumOf(kept, "rx") = HappenedSum("answered", S)
    BY <1>2, KeptTotals DEF kept, S
  <1>5. SumOf(kept, "lost") = HappenedSum("expired", S)
    BY <1>2, KeptTotals DEF kept, S
  <1>6. ErrorsTell(r.errors, S)
    BY <1>1, KeptErrors DEF kept, S
  <1> DEFINE errors == r.errors
  <1> HIDE DEF errors
  <1>7. Len(errors) = Cardinality({samples[i].err : i \in S} \ {NoError})
    BY <1>6, ErrorsCounted DEF errors
  <1>8. ASSUME NEW e \in ToSet(errors)
        PROVE  LET told == {i \in S : samples[i].err = e.msg}
               IN  e.count = Cardinality(told) /\ \E i \in told : \A j \in told : i <= j /\ samples[i].time = e.first
    <2>1. errors \in Seq(ErrRecs)
      BY <1>6 DEF ErrorsTell, errors
    <2>2. PICK k \in 1 .. Len(errors) : e = errors[k]
      BY <2>1 DEF ToSet
    <2>3. /\ e.count = Cardinality(Told(S, e.msg))
          /\ \E i \in Told(S, e.msg) : (\A j \in Told(S, e.msg) : i <= j) /\ samples[i].time = e.first
      BY <1>6, <2>2 DEF ErrorsTell, errors
    <2> QED BY <2>3 DEF Told
  <1> QED BY <1>1, <1>3, <1>4, <1>5, <1>7, <1>8 DEF TotalsOf, r, S, errors

\* The totals of a report are what the monitor did in its window
\* (buildPingReport, pingIntervals), however many samples and restarts of the
\* collector the file holds.
THEOREM TotalsAreTrue == Spec => []TotalsAreTruth
  <1>1. ASSUME FileInv PROVE TotalsAreTruth
    <2>1. ASSUME NEW w \in Windows PROVE TotalsOf(w[1], w[2])
      BY <1>1, TotalsHold
    <2> QED BY <2>1, Zenon DEF TotalsAreTruth, TotalsOf
  <1> QED BY <1>1, FileHolds, PTL

-----------------------------------------------------------------------------
(* The round-trip times of a window.                                       *)

LEMMA TimesGrows ==
  ASSUME NEW a \in Nat, NEW b \in Nat, NEW c \in Nat, a <= b
  PROVE  a * c <= b * c
  <1>1. PICK d \in Nat : b = a + d
    <2>1. b - a \in Nat /\ b = a + (b - a)
      OBVIOUS
    <2> QED BY <2>1
  <1>2. b * c = a * c + d * c
    BY <1>1
  <1>3. a * c \in Nat /\ d * c \in Nat
    OBVIOUS
  <1> QED BY <1>2, <1>3

\* The mean of n times whose sum is given lies between lo and hi.
MeanBetween(lo, hi, n, sum) == lo * n <= sum /\ sum <= hi * n

\* The same with a more of them.
LEMMA MeanStaysBetween ==
  ASSUME NEW lo \in Nat, NEW hi \in Nat, NEW n \in Nat, NEW sum \in Nat, NEW a \in Nat, NEW rtt \in Nat,
         NEW low \in Nat, NEW high \in Nat, low <= rtt, rtt <= high,
         n # 0 => low <= lo /\ hi <= high,
         MeanBetween(lo, hi, n, sum)
  PROVE  MeanBetween(low, high, n + a, sum + a * rtt)
  <1> USE DEF MeanBetween
  <1>1. low * n <= sum /\ sum <= high * n
    <2>1. CASE n = 0
      BY <2>1
    <2>2. CASE n # 0
      <3>1. low * n <= lo * n /\ hi * n <= high * n
        BY <2>2, TimesGrows
      <3>2. low * n \in Nat /\ lo * n \in Nat /\ hi * n \in Nat /\ high * n \in Nat
        OBVIOUS
      <3> QED BY <3>1, <3>2
    <2> QED BY <2>1, <2>2
  <1>2. low * a <= rtt * a /\ rtt * a <= high * a
    BY TimesGrows
  <1>3. low * (n + a) = low * n + low * a /\ high * (n + a) = high * n + high * a /\ rtt * a = a * rtt
    OBVIOUS
  <1>4. low * n \in Nat /\ low * a \in Nat /\ high * n \in Nat /\ high * a \in Nat /\ a * rtt \in Nat
    OBVIOUS
  <1> QED BY <1>1, <1>2, <1>3, <1>4

\* The round-trip times of the replies of the samples of S.
Replied(S) == {happened[i].rtt : i \in {j \in S : happened[j].answered > 0}}

\* lo and hi are the extremes of the replies of S, of which there are n.
RTTsFound(lo, hi, n, sum, S) ==
    /\ lo \in Nat /\ hi \in Nat /\ n \in Nat /\ sum \in Nat
    /\ Replied(S) = {} => lo = 0 /\ hi = 0 /\ n = 0
    /\ Replied(S) # {} => lo \in Replied(S) /\ hi \in Replied(S)
    /\ \A x \in Replied(S) : lo <= x /\ x <= hi
    /\ lo * n <= sum /\ sum <= hi * n

LEMMA NextRTTs ==
  ASSUME FileInv, NEW j \in 1 .. Len(samples), NEW S \in SUBSET (1 .. Len(samples)),
         NEW iv, iv = PingIntervals[j], NEW lo, NEW hi, NEW n, NEW sum, RTTsFound(lo, hi, n, sum, S)
  PROVE  RTTsFound(LowerRTT(lo, iv), HigherRTT(hi, iv), n + iv.rx, sum + iv.rttSum, S \cup {j})
  <1> SUFFICES ASSUME NEW low, low = LowerRTT(lo, iv), NEW high, high = HigherRTT(hi, iv),
                      NEW R, R = S \cup {j}, NEW m, m = n + iv.rx, NEW more, more = sum + iv.rttSum
               PROVE  RTTsFound(low, high, m, more, R)
    OBVIOUS
  <1> DEFINE a == happened[j].answered
             rtt == happened[j].rtt
  <1>1. a \in Nat /\ rtt \in Nat /\ rtt > 0 /\ \A i \in 1 .. Len(samples) : happened[i].rtt \in Nat /\ happened[i].rtt > 0
    <2>1. \A i \in 1 .. Len(samples) : happened[i] \in HappenedRecs
      BY DEF FileInv, TypeInv
    <2> QED BY <2>1 DEF HappenedRecs
  <1>2. /\ iv.rx = a /\ iv.rttSum = a * rtt
        /\ iv.rttMin = (IF a > 0 THEN rtt ELSE 0) /\ iv.rttMax = (IF a > 0 THEN rtt ELSE 0)
    BY IntervalsHold DEF Holds
  <1>3. Replied(R) = Replied(S) \cup (IF a > 0 THEN {rtt} ELSE {})
    BY DEF Replied
  <1>4. /\ lo \in Nat /\ hi \in Nat /\ n \in Nat /\ sum \in Nat
        /\ Replied(S) = {} => lo = 0 /\ hi = 0 /\ n = 0
        /\ Replied(S) # {} => lo \in Replied(S) /\ hi \in Replied(S)
        /\ \A x \in Replied(S) : lo <= x /\ x <= hi
        /\ lo * n <= sum /\ sum <= hi * n
    BY DEF RTTsFound
  <1>5. \A x \in Replied(S) : x \in Nat /\ x > 0
    BY <1>1 DEF Replied
  <1> HIDE DEF a, rtt
  <1>6. CASE a = 0
    <2>1. a * rtt = 0
      BY <1>1, <1>6
    <2>2. low = lo /\ high = hi /\ m = n /\ more = sum
      BY <1>1, <1>2, <1>4, <1>6, <2>1 DEF LowerRTT, HigherRTT
    <2>3. Replied(R) = Replied(S)
      BY <1>3, <1>6
    <2> QED BY <2>2, <2>3 DEF RTTsFound
  <1>7. CASE a > 0
    <2>1. /\ low = IF lo = 0 \/ rtt < lo THEN rtt ELSE lo
          /\ high = IF rtt > hi THEN rtt ELSE hi
          /\ m = n + a /\ more = sum + a * rtt
      BY <1>1, <1>2, <1>4, <1>7 DEF LowerRTT, HigherRTT
    <2>2. Replied(R) = Replied(S) \cup {rtt}
      BY <1>3, <1>7
    <2>3. low \in Nat /\ high \in Nat /\ low <= rtt /\ rtt <= high /\ hi <= high /\ (lo # 0 => low <= lo)
      BY <1>1, <1>4, <2>1
    <2>4. Replied(S) # {} => lo # 0
      BY <1>4, <1>5
    <2>5. n # 0 => low <= lo /\ hi <= high
      BY <1>4, <2>3, <2>4
    <2>6. low \in Replied(R) /\ high \in Replied(R)
      <3>1. low \in Replied(S) \cup {rtt}
        BY <1>4, <2>1, <2>4
      <3>2. high \in Replied(S) \cup {rtt}
        BY <1>1, <1>4, <2>1
      <3> QED BY <2>2, <3>1, <3>2
    <2>7. ASSUME NEW x \in Replied(R) PROVE low <= x /\ x <= high
      <3>1. CASE x = rtt
        BY <2>3, <3>1
      <3>2. CASE x \in Replied(S)
        <4>1. x \in Nat /\ lo <= x /\ x <= hi /\ low <= lo
          BY <1>4, <1>5, <2>3, <2>4, <3>2
        <4> QED BY <1>4, <2>3, <4>1
      <3> QED BY <2>2, <3>1, <3>2
    <2>8. low * m <= more /\ more <= high * m
      <3>1. MeanBetween(lo, hi, n, sum)
        BY <1>4 DEF MeanBetween
      <3>2. MeanBetween(low, high, n + a, sum + a * rtt)
        BY <1>1, <1>4, <2>3, <2>5, <3>1, MeanStaysBetween
      <3> QED BY <2>1, <3>2 DEF MeanBetween
    <2>9. m \in Nat /\ more \in Nat
      <3>1. a * rtt \in Nat
        BY <1>1
      <3> QED BY <1>1, <1>4, <2>1, <3>1
    <2> QED BY <2>2, <2>3, <2>6, <2>7, <2>8, <2>9 DEF RTTsFound
  <1> QED BY <1>1, <1>6, <1>7

LEMMA KeptRTTs ==
  ASSUME FileInv, NEW from, NEW to
  PROVE  RTTsFound(MinRTT(Kept(from, to)), MaxRTT(Kept(from, to)),
                   SumOf(Kept(from, to), "rx"), SumOf(Kept(from, to), "rttSum"), Within(from, to))
  <1> DEFINE n == Len(samples)
             S == Within(from, to)
             Found(q, D) == RTTsFound(MinRTT(q), MaxRTT(q), SumOf(q, "rx"), SumOf(q, "rttSum"), D)
  <1>1. PICK t : KeptPath(t, from, to)
    BY KeptPathExists
  <1>2. n \in Nat /\ S \subseteq 1 .. n
    BY DEF FileInv, TypeInv, Within
  <1>3. \A iv \in IVs : iv["rx"] \in Nat /\ iv["rttSum"] \in Nat
    BY IntervalTypes
  <1>4. /\ SumOf(<<>>, "rx") = 0
        /\ \A q \in Seq(IVs), x \in IVs : SumOf(Append(q, x), "rx") = SumOf(q, "rx") + x["rx"]
    BY <1>3, SumOfRecs
  <1>5. /\ SumOf(<<>>, "rttSum") = 0
        /\ \A q \in Seq(IVs), x \in IVs : SumOf(Append(q, x), "rttSum") = SumOf(q, "rttSum") + x["rttSum"]
    BY <1>3, SumOfRecs
  <1>6. Found(<<>>, {})
    <2>1. MinRTT(<<>>) = 0 /\ MaxRTT(<<>>) = 0
      BY MinRTTSteps, MaxRTTSteps
    <2>2. Replied({}) = {}
      BY DEF Replied
    <2> QED BY <1>4, <1>5, <2>1, <2>2 DEF RTTsFound
  <1>7. ASSUME NEW q \in Seq(IVs), NEW D \in SUBSET (1 .. n), Found(q, D),
               NEW j \in 1 .. n, NEW iv \in IVs, iv = PingIntervals[j]
        PROVE  Found(Append(q, iv), D \cup {j})
    <2>1. MinRTT(Append(q, iv)) = LowerRTT(MinRTT(q), iv)
      BY MinRTTSteps
    <2>2. MaxRTT(Append(q, iv)) = HigherRTT(MaxRTT(q), iv)
      BY MaxRTTSteps
    <2>3. SumOf(Append(q, iv), "rx") = SumOf(q, "rx") + iv.rx
      BY <1>4
    <2>4. SumOf(Append(q, iv), "rttSum") = SumOf(q, "rttSum") + iv.rttSum
      BY <1>5
    <2>5. RTTsFound(LowerRTT(MinRTT(q), iv), HigherRTT(MaxRTT(q), iv), SumOf(q, "rx") + iv.rx,
                    SumOf(q, "rttSum") + iv.rttSum, D \cup {j})
      BY <1>7, NextRTTs
    <2> QED BY <2>1, <2>2, <2>3, <2>4, <2>5
  <1> HIDE DEF Found
  <1> DEFINE T == {i \in Nat : i <= n => Found(t[i], S \cap (1 .. i))}
  <1>8. 0 \in T
    <2>1. S \cap (1 .. 0) = {}
      OBVIOUS
    <2> QED BY <1>1, <1>6, <2>1 DEF KeptPath
  <1>9. ASSUME NEW i \in T PROVE i + 1 \in T
    <2>1. i \in Nat /\ (i <= n => Found(t[i], S \cap (1 .. i)))
      OBVIOUS
    <2>2. ASSUME i + 1 <= n PROVE Found(t[i + 1], S \cap (1 .. (i + 1)))
      <3>1. PICK j \in 1 .. n : j = i + 1 /\ j - 1 = i
        BY <1>2, <2>1, <2>2
      <3>2. t[j] = IF j \in S THEN Append(t[i], PingIntervals[j]) ELSE t[i]
        BY <1>1, <3>1 DEF KeptPath
      <3>3. t[i] \in Seq(IVs) /\ PingIntervals[j] \in IVs /\ Found(t[i], S \cap (1 .. i))
        BY <1>1, <2>1, <3>1 DEF KeptPath, IVs
      <3>4. CASE j \in S
        <4>1. S \cap (1 .. j) = (S \cap (1 .. i)) \cup {j}
          <5>1. 1 .. j = (1 .. i) \cup {j}
            BY <2>1, <3>1
          <5> QED BY <3>4, <5>1
        <4>2. S \cap (1 .. i) \in SUBSET (1 .. n)
          BY <1>2
        <4>3. Found(Append(t[i], PingIntervals[j]), (S \cap (1 .. i)) \cup {j})
          BY <1>7, <3>3, <4>2
        <4> QED BY <3>1, <3>2, <3>4, <4>1, <4>3
      <3>5. CASE j \notin S
        <4>1. S \cap (1 .. j) = S \cap (1 .. i)
          BY <2>1, <3>1, <3>5
        <4> QED BY <3>1, <3>2, <3>3, <3>5, <4>1
      <3> QED BY <3>4, <3>5
    <2> QED BY <2>1, <2>2
  <1>10. T = Nat
    <2>1. T \in SUBSET Nat
      OBVIOUS
    <2> HIDE DEF T
    <2> QED BY <1>8, <1>9, <2>1, NatSetInduction
  <1>11. n \in T
    BY <1>2, <1>10
  <1>12. Found(t[n], S \cap (1 .. n)) /\ S \cap (1 .. n) = S
    BY <1>2, <1>11
  <1> QED BY <1>1, <1>12 DEF KeptPath, Found

\* RTTsAreTruth of one window.
RTTsOf(from, to) ==
    LET r == BuildPingReport(from, to)
        replied == {happened[i].rtt : i \in {j \in Within(from, to) : happened[j].answered > 0}}
    IN  /\ r.rttMin = IF replied = {} THEN 0 ELSE CHOOSE x \in replied : \A y \in replied : x <= y
        /\ r.rttMax = IF replied = {} THEN 0 ELSE CHOOSE x \in replied : \A y \in replied : x >= y
        /\ r.rttMin * r.rx <= r.rttSum /\ r.rttSum <= r.rttMax * r.rx

LEMMA RTTsHold ==
  ASSUME FileInv, NEW from, NEW to
  PROVE  RTTsOf(from, to)
  <1> DEFINE r == BuildPingReport(from, to)
             replied == Replied(Within(from, to))
  <1>1. RTTsFound(r.rttMin, r.rttMax, r.rx, r.rttSum, Within(from, to))
    BY KeptRTTs DEF BuildPingReport
  <1>2. \A x \in replied : x \in Nat
    <2>1. \A i \in 1 .. Len(samples) : happened[i] \in HappenedRecs
      BY DEF FileInv, TypeInv
    <2>2. Within(from, to) \subseteq 1 .. Len(samples)
      BY DEF Within, FileInv, TypeInv
    <2> QED BY <2>1, <2>2 DEF Replied, HappenedRecs
  <1> DEFINE lo == r.rttMin
             hi == r.rttMax
  <1>3. /\ lo \in Nat /\ hi \in Nat
        /\ replied = {} => lo = 0 /\ hi = 0
        /\ replied # {} => lo \in replied /\ hi \in replied
        /\ \A x \in replied : lo <= x /\ x <= hi
    BY <1>1 DEF RTTsFound
  <1>4. lo * r.rx <= r.rttSum /\ r.rttSum <= hi * r.rx
    BY <1>1 DEF RTTsFound
  <1> HIDE DEF lo, hi, replied
  <1>5. ASSUME replied # {}
        PROVE  /\ lo = CHOOSE x \in replied : \A y \in replied : x <= y
               /\ hi = CHOOSE x \in replied : \A y \in replied : x >= y
    <2>1. \A x \in replied : (\A y \in replied : x <= y) => x = lo
      BY <1>2, <1>3, <1>5
    <2>2. \A x \in replied : (\A y \in replied : x >= y) => x = hi
      BY <1>2, <1>3, <1>5
    <2>3. lo \in replied /\ \A y \in replied : lo <= y
      BY <1>3, <1>5
    <2>4. hi \in replied /\ \A y \in replied : hi >= y
      BY <1>2, <1>3, <1>5
    <2> QED BY <2>1, <2>2, <2>3, <2>4
  <1> QED BY <1>3, <1>4, <1>5 DEF RTTsOf, lo, hi, replied, Replied

\* The extremes of a report are those of the replies of its window, and the
\* mean lies between them (buildPingReport), however many samples and restarts
\* the file holds.
THEOREM RTTsAreTrue == Spec => []RTTsAreTruth
  <1>1. ASSUME FileInv PROVE RTTsAreTruth
    <2>1. ASSUME NEW w \in Windows PROVE RTTsOf(w[1], w[2])
      BY <1>1, RTTsHold
    <2> QED BY <2>1, Zenon DEF RTTsAreTruth, RTTsOf
  <1> QED BY <1>1, FileHolds, PTL

-----------------------------------------------------------------------------
(* The episodes of a window.  The loop of buildPingReport is followed along *)
(* the intervals: Tells relates its list to the stretches of intervals with *)
(* a loss, for any intervals, and the next interval keeps it so.            *)

\* Episodes of the intervals in IVs, and the loop's two variables.
EpRecs == [start : {iv.start : iv \in IVs}, end : {iv.end : iv \in IVs}, intervals : Nat, tx : Nat, lost : Nat, rttMax : Nat]
Loops  == {a \in [list : Seq(EpRecs), open : BOOLEAN] : a.open => a.list # <<>>}
Loop0  == [list |-> <<>>, open |-> FALSE]
Loop(q) == FoldLeft(AddToEpisodes, Loop0, q)

LEMMA EpisodeRecs ==
  ASSUME FileInv, NEW iv \in IVs
  PROVE  /\ NewEpisode(iv) \in EpRecs
         /\ \A e \in EpRecs :
               /\ Extended(e, iv) \in EpRecs
               /\ Extended(e, iv).start = e.start /\ Extended(e, iv).end = iv.end
               /\ Extended(e, iv).intervals = e.intervals + 1
               /\ Extended(e, iv).tx = e.tx + iv.tx /\ Extended(e, iv).lost = e.lost + iv.lost
               /\ Extended(e, iv).rttMax = HigherRTT(e.rttMax, iv)
  <1>1. iv.tx \in Nat /\ iv.lost \in Nat /\ iv.rttMax \in Nat
    BY IntervalTypes
  <1>2. NewEpisode(iv) \in EpRecs
    BY <1>1 DEF NewEpisode, EpRecs
  <1>3. ASSUME NEW e \in EpRecs
        PROVE  /\ Extended(e, iv) \in EpRecs
               /\ Extended(e, iv).start = e.start /\ Extended(e, iv).end = iv.end
               /\ Extended(e, iv).intervals = e.intervals + 1
               /\ Extended(e, iv).tx = e.tx + iv.tx /\ Extended(e, iv).lost = e.lost + iv.lost
               /\ Extended(e, iv).rttMax = HigherRTT(e.rttMax, iv)
    <2> DEFINE a == [e EXCEPT !.end = iv.end]
               b == [a EXCEPT !.intervals = e.intervals + 1]
               c == [b EXCEPT !.tx = e.tx + iv.tx]
               d == [c EXCEPT !.lost = e.lost + iv.lost]
               x == [d EXCEPT !.rttMax = IF iv.rttMax > e.rttMax THEN iv.rttMax ELSE e.rttMax]
    <2> HIDE DEF a, b, c, d, x
    <2>1. a \in EpRecs
      BY DEF a, EpRecs
    <2>2. b \in EpRecs
      BY <2>1 DEF b, EpRecs
    <2>3. c \in EpRecs
      BY <1>1, <2>2 DEF c, EpRecs
    <2>4. d \in EpRecs
      BY <1>1, <2>3 DEF d, EpRecs
    <2>5. x \in EpRecs
      BY <1>1, <2>4 DEF x, EpRecs
    <2>6. Extended(e, iv) = x
      BY DEF Extended, a, b, c, d, x
    <2>7. /\ Extended(e, iv).start = e.start /\ Extended(e, iv).end = iv.end
          /\ Extended(e, iv).intervals = e.intervals + 1
          /\ Extended(e, iv).tx = e.tx + iv.tx /\ Extended(e, iv).lost = e.lost + iv.lost
          /\ Extended(e, iv).rttMax = HigherRTT(e.rttMax, iv)
      BY DEF Extended, EpRecs, HigherRTT
    <2> QED BY <2>5, <2>6, <2>7
  <1> QED BY <1>2, <1>3

LEMMA LoopSteps ==
  ASSUME FileInv, NEW a \in Loops, NEW iv \in IVs
  PROVE  /\ AddToEpisodes(a, iv) \in Loops
         /\ iv.lost = 0 => AddToEpisodes(a, iv).list = a.list /\ ~ AddToEpisodes(a, iv).open
         /\ iv.lost # 0 /\ a.open =>
               /\ AddToEpisodes(a, iv).list = [a.list EXCEPT ![Len(a.list)] = Extended(a.list[Len(a.list)], iv)]
               /\ AddToEpisodes(a, iv).open
         /\ iv.lost # 0 /\ ~ a.open =>
               AddToEpisodes(a, iv).list = Append(a.list, NewEpisode(iv)) /\ AddToEpisodes(a, iv).open
  <1> DEFINE l == a.list
             n == Len(l)
  <1>1. l \in Seq(EpRecs) /\ a.open \in BOOLEAN /\ a = [list |-> l, open |-> a.open] /\ (a.open => l # <<>>)
    BY DEF Loops
  <1>2. CASE iv.lost = 0
    <2>1. AddToEpisodes(a, iv) = [list |-> l, open |-> FALSE]
      BY <1>1, <1>2 DEF AddToEpisodes
    <2> QED BY <1>1, <1>2, <2>1 DEF Loops
  <1>3. CASE iv.lost # 0 /\ a.open
    <2> DEFINE e == Extended(l[n], iv)
               m == [l EXCEPT ![n] = e]
    <2>1. n \in 1 .. Len(l) /\ l[n] \in EpRecs
      BY <1>1, <1>3, EmptySeq, LenProperties
    <2>2. e \in EpRecs
      BY <2>1, EpisodeRecs
    <2>3. m \in Seq(EpRecs) /\ Len(m) = Len(l)
      BY <1>1, <2>1, <2>2, ExceptSeq
    <2>4. AddToEpisodes(a, iv) = [list |-> m, open |-> TRUE]
      BY <1>1, <1>3 DEF AddToEpisodes
    <2>5. m # <<>>
      BY <2>1, <2>3, EmptySeq
    <2> HIDE DEF m, e
    <2>6. AddToEpisodes(a, iv) \in Loops
      BY <2>3, <2>4, <2>5 DEF Loops
    <2> QED BY <1>3, <2>4, <2>6 DEF m, e
  <1>4. CASE iv.lost # 0 /\ ~ a.open
    <2> DEFINE m == Append(l, NewEpisode(iv))
    <2>1. m \in Seq(EpRecs) /\ m # <<>>
      BY <1>1, EpisodeRecs, AppendProperties
    <2>2. AddToEpisodes(a, iv) = [list |-> m, open |-> TRUE]
      BY <1>1, <1>4 DEF AddToEpisodes
    <2> HIDE DEF m
    <2>3. AddToEpisodes(a, iv) \in Loops
      BY <2>1, <2>2 DEF Loops
    <2> QED BY <1>4, <2>2, <2>3 DEF m
  <1> QED BY <1>1, <1>2, <1>3, <1>4

LEMMA EpisodesSteps ==
  ASSUME FileInv
  PROVE  /\ Loop(<<>>) = Loop0
         /\ \A q \in Seq(IVs) : Loop(q) \in Loops
         /\ \A q \in Seq(IVs), x \in IVs : Loop(Append(q, x)) = AddToEpisodes(Loop(q), x)
  <1> DEFINE H == [p \in IVs \X Loops |-> AddToEpisodes(p[2], p[1])]
  <1>1. Foldable(IVs, Loops, Loop0, H)
    <2>1. Loop0 \in Loops
      BY EmptySeq DEF Loop0, Loops
    <2>2. H \in [IVs \X Loops -> Loops]
      BY LoopSteps
    <2> HIDE DEF H
    <2> QED BY <2>1, <2>2 DEF Foldable
  <1>2. \A x \in IVs, v \in Loops : H[<<x, v>>] = AddToEpisodes(v, x)
    OBVIOUS
  <1> HIDE DEF H
  <1>3. ASSUME NEW q \in Seq(IVs)
        PROVE  Loop(q) = Fold(H, Loop0, q)
    <2> DEFINE Body(g) == [s \in SUBSET DOMAIN q |-> IF s = {} THEN Loop0 ELSE AddToEpisodes(g[s \ {Max(s)}], q[Max(s)])]
               iter == CHOOSE g : g = Body(g)
    <2>1. Loop(q) = iter[DOMAIN q]
      BY DEF Loop, FoldLeft, MapThenFoldSet
    <2>2. \E g : g = Body(g)
      <3>1. PICK g : FoldsByIndex(g, q, IVs, Loops, Loop0, H)
        BY <1>1, FoldByIndex
      <3>2. g = [s \in SUBSET DOMAIN q |-> g[s]] /\ g[{}] = Loop0
        BY <3>1 DEF FoldsByIndex
      <3>3. \A s \in SUBSET DOMAIN q : s # {} => g[s] = AddToEpisodes(g[s \ {Max(s)}], q[Max(s)])
        BY <1>2, <3>1 DEF FoldsByIndex
      <3> QED BY <3>2, <3>3
    <2>3. iter = Body(iter)
      BY <2>2
    <2>4. iter[{}] = Loop0
      BY <2>3
    <2>5. ASSUME NEW s \in SUBSET DOMAIN q, s # {}
          PROVE  q[Max(s)] \in IVs /\ iter[s] = AddToEpisodes(iter[s \ {Max(s)}], q[Max(s)])
      <3>1. Max(s) \in DOMAIN q
        BY <2>5, MaxOfFinite, LenProperties
      <3>2. q[Max(s)] \in IVs
        BY <3>1
      <3> QED BY <2>3, <2>5, <3>2
    <2> HIDE DEF iter
    <2>6. ByIndex(iter, q, Loop0, Loops, H)
      BY <1>2, <2>4, <2>5 DEF ByIndex
    <2> QED BY <1>1, <2>1, <2>6, FoldByIndex
  <1>4. <<>> \in Seq(IVs)
    BY EmptySeq
  <1>5. Loop(<<>>) = Loop0
    <2>1. PICK e \in Seq(IVs) : e = <<>>
      BY <1>4
    <2>2. Fold(H, Loop0, <<>>) = Loop0
      BY <1>1, FoldSteps
    <2>3. Loop(e) = Fold(H, Loop0, e)
      BY <1>3
    <2> QED BY <2>1, <2>2, <2>3
  <1>6. \A q \in Seq(IVs) : Loop(q) \in Loops
    BY <1>1, <1>3, FoldSteps
  <1>7. ASSUME NEW q \in Seq(IVs), NEW x \in IVs
        PROVE  Loop(Append(q, x)) = AddToEpisodes(Loop(q), x)
    <2> DEFINE a == Append(q, x)
    <2>1. a \in Seq(IVs)
      BY AppendProperties
    <2>2. Fold(H, Loop0, a) = H[<<x, Fold(H, Loop0, q)>>]
      BY <1>1, FoldSteps
    <2> HIDE DEF a
    <2>3. Loop(a) = Fold(H, Loop0, a) /\ Loop(q) = Fold(H, Loop0, q)
      BY <1>3, <2>1
    <2> QED BY <1>2, <1>6, <2>2, <2>3 DEF a
  <1> QED BY <1>5, <1>6, <1>7

\* The intervals listed, those with a loss.
Lists == Seq(IVs)
LossyOf(q) == Listed(q, FALSE)
AddListed(list, iv) == IF FALSE \/ iv.lost > 0 THEN Append(list, iv) ELSE list

LEMMA ListedSteps ==
  ASSUME FileInv
  PROVE  /\ LossyOf(<<>>) = <<>>
         /\ \A q \in Seq(IVs) : LossyOf(q) \in Lists
         /\ \A q \in Seq(IVs), x \in IVs : LossyOf(Append(q, x)) = AddListed(LossyOf(q), x)
  <1> DEFINE H == [p \in IVs \X Lists |-> AddListed(p[2], p[1])]
  <1>1. Foldable(IVs, Lists, <<>>, H)
    <2>1. <<>> \in Lists
      BY EmptySeq DEF Lists
    <2>2. H \in [IVs \X Lists -> Lists]
      BY AppendProperties DEF Lists, AddListed
    <2> HIDE DEF H
    <2> QED BY <2>1, <2>2 DEF Foldable
  <1>2. \A x \in IVs, v \in Lists : H[<<x, v>>] = AddListed(v, x)
    OBVIOUS
  <1> HIDE DEF H
  <1>3. ASSUME NEW q \in Seq(IVs)
        PROVE  LossyOf(q) = Fold(H, <<>>, q)
    <2> DEFINE Body(g) == [s \in SUBSET DOMAIN q |-> IF s = {} THEN <<>> ELSE AddListed(g[s \ {Max(s)}], q[Max(s)])]
               iter == CHOOSE g : g = Body(g)
    <2>1. LossyOf(q) = iter[DOMAIN q]
      BY DEF LossyOf, Listed, FoldLeft, MapThenFoldSet, AddListed
    <2>2. \E g : g = Body(g)
      <3>1. PICK g : FoldsByIndex(g, q, IVs, Lists, <<>>, H)
        BY <1>1, FoldByIndex
      <3>2. g = [s \in SUBSET DOMAIN q |-> g[s]] /\ g[{}] = <<>>
        BY <3>1 DEF FoldsByIndex
      <3>3. \A s \in SUBSET DOMAIN q : s # {} => g[s] = AddListed(g[s \ {Max(s)}], q[Max(s)])
        BY <1>2, <3>1 DEF FoldsByIndex
      <3> QED BY <3>2, <3>3
    <2>3. iter = Body(iter)
      BY <2>2
    <2>4. iter[{}] = <<>>
      BY <2>3
    <2>5. ASSUME NEW s \in SUBSET DOMAIN q, s # {}
          PROVE  q[Max(s)] \in IVs /\ iter[s] = AddListed(iter[s \ {Max(s)}], q[Max(s)])
      <3>1. Max(s) \in DOMAIN q
        BY <2>5, MaxOfFinite, LenProperties
      <3>2. q[Max(s)] \in IVs
        BY <3>1
      <3> QED BY <2>3, <2>5, <3>2
    <2> HIDE DEF iter
    <2>6. ByIndex(iter, q, <<>>, Lists, H)
      BY <1>2, <2>4, <2>5 DEF ByIndex
    <2> QED BY <1>1, <2>1, <2>6, FoldByIndex
  <1>4. <<>> \in Seq(IVs)
    BY EmptySeq
  <1>5. LossyOf(<<>>) = <<>>
    <2>1. PICK e \in Seq(IVs) : e = <<>>
      BY <1>4
    <2>2. Fold(H, <<>>, <<>>) = <<>>
      BY <1>1, FoldSteps
    <2>3. LossyOf(e) = Fold(H, <<>>, e)
      BY <1>3
    <2> QED BY <2>1, <2>2, <2>3
  <1>6. \A q \in Seq(IVs) : LossyOf(q) \in Lists
    BY <1>1, <1>3, FoldSteps
  <1>7. ASSUME NEW q \in Seq(IVs), NEW x \in IVs
        PROVE  LossyOf(Append(q, x)) = AddListed(LossyOf(q), x)
    <2> DEFINE a == Append(q, x)
    <2>1. a \in Seq(IVs)
      BY AppendProperties
    <2>2. Fold(H, <<>>, a) = H[<<x, Fold(H, <<>>, q)>>]
      BY <1>1, FoldSteps
    <2> HIDE DEF a
    <2>3. LossyOf(a) = Fold(H, <<>>, a) /\ LossyOf(q) = Fold(H, <<>>, q)
      BY <1>3, <2>1
    <2> QED BY <1>2, <1>6, <2>2, <2>3 DEF a
  <1> QED BY <1>5, <1>6, <1>7

\* The sum over m is that over l, with e instead of the last.
SumMoves(m, l, e, f) == SumOf(m, f) = (SumOf(l, f) - l[Len(l)][f]) + e[f]

LEMMA SumChanged ==
  ASSUME NEW E, NEW f, \A e \in E : e[f] \in Nat, NEW l \in Seq(E), l # <<>>, NEW e \in E,
         NEW m, m = [l EXCEPT ![Len(l)] = e]
  PROVE  SumMoves(m, l, e, f)
  <1> DEFINE n == Len(l)
  <1>1. n \in 1 .. Len(l)
    BY EmptySeq, LenProperties
  <1>2. m \in Seq(E) /\ Len(m) = n /\ \A j \in 1 .. n : m[j] = IF j = n THEN e ELSE l[j]
    BY <1>1, ExceptSeq
  <1>3. PICK front \in Seq(E), last \in E : l = Append(front, last)
    BY SequenceEmptyOrAppend
  <1>4. /\ n = Len(front) + 1 /\ Len(front) \in Nat /\ l[n] = last
        /\ \A j \in 1 .. Len(front) : l[j] = front[j]
    BY <1>3, AppendProperties, LenProperties
  <1>5. /\ Append(front, e) \in Seq(E) /\ Len(Append(front, e)) = n
        /\ \A j \in 1 .. n : Append(front, e)[j] = IF j = n THEN e ELSE front[j]
    BY <1>4, AppendProperties
  <1> HIDE DEF n
  <1>6. m = Append(front, e)
    <2>1. \A j \in 1 .. Len(m) : m[j] = Append(front, e)[j]
      BY <1>2, <1>4, <1>5
    <2> QED BY <1>2, <1>5, <2>1, SeqEqual
  <1>7. SumOf(m, f) = SumOf(front, f) + e[f] /\ SumOf(l, f) = SumOf(front, f) + last[f] /\ SumOf(front, f) \in Nat
    <2>1. SumOf(Append(front, e), f) = SumOf(front, f) + e[f]
      BY <1>3, SumOfRecs
    <2>2. SumOf(Append(front, last), f) = SumOf(front, f) + last[f]
      BY <1>3, SumOfRecs
    <2>3. SumOf(front, f) \in Nat
      BY <1>3, SumOfRecs
    <2> QED BY <1>3, <1>6, <2>1, <2>2, <2>3
  <1>8. SumOf(m, f) = (SumOf(l, f) - last[f]) + e[f]
    BY <1>7
  <1> QED BY <1>4, <1>8 DEF n, SumMoves

LossyAt(q, i) == i \in 1 .. Len(q) /\ q[i].lost # 0

Stretch(q, p) ==
    /\ p \in (1 .. Len(q)) \X (1 .. Len(q)) /\ p[1] <= p[2]
    /\ \A k \in p[1] .. p[2] : LossyAt(q, k)
    /\ ~ LossyAt(q, p[1] - 1) /\ ~ LossyAt(q, p[2] + 1)

\* An episode is that of stretch p.
Describes(e, q, p) ==
    /\ e.start = q[p[1]].start /\ e.end = q[p[2]].end /\ e.intervals = p[2] - p[1] + 1
    /\ e.tx = SumOf(SubSeq(q, p[1], p[2]), "tx") /\ e.lost = SumOf(SubSeq(q, p[1], p[2]), "lost")
    /\ e.rttMax = MaxRTT(SubSeq(q, p[1], p[2]))

\* What the loop has after the intervals q: s are the stretches, in the order
\* of their episodes.
Tells(a, q, s) ==
    /\ s \in Seq(Nat \X Nat) /\ Len(s) = Len(a.list)
    /\ \A k \in 1 .. Len(s) : Stretch(q, s[k]) /\ Describes(a.list[k], q, s[k])
    /\ \A j, k \in 1 .. Len(s) : s[j] = s[k] => j = k
    /\ \A p : Stretch(q, p) => \E k \in 1 .. Len(s) : s[k] = p
    /\ a.open <=> LossyAt(q, Len(q))
    /\ a.open => s[Len(s)][2] = Len(q)
    /\ Len(LossyOf(q)) = SumOf(a.list, "intervals")

\* r is q and one more interval.
Longer(q, x, r) ==
    /\ q \in Seq(IVs) /\ x \in IVs /\ r \in Seq(IVs)
    /\ Len(q) \in Nat /\ Len(r) = Len(q) + 1
    /\ \A i \in 1 .. Len(q) : r[i] = q[i]
    /\ r[Len(q) + 1] = x
    /\ \A i \in Int : LossyAt(r, i) <=> LossyAt(q, i) \/ (i = Len(q) + 1 /\ x.lost # 0)
    /\ ~ LossyAt(q, Len(q) + 1)

LEMMA AppendIsLonger ==
  ASSUME NEW q \in Seq(IVs), NEW x \in IVs
  PROVE  Longer(q, x, Append(q, x))
  <1> DEFINE r == Append(q, x)
  <1>1. /\ r \in Seq(IVs) /\ Len(r) = Len(q) + 1 /\ Len(q) \in Nat
        /\ \A i \in 1 .. Len(q) : r[i] = q[i]
        /\ r[Len(q) + 1] = x
    BY AppendProperties, LenProperties
  <1> HIDE DEF r
  <1>2. \A i \in Int : LossyAt(r, i) <=> LossyAt(q, i) \/ (i = Len(q) + 1 /\ x.lost # 0)
    BY <1>1 DEF LossyAt
  <1>3. ~ LossyAt(q, Len(q) + 1)
    BY <1>1 DEF LossyAt
  <1>4. Longer(q, x, r)
    BY <1>1, <1>2, <1>3 DEF Longer
  <1> QED BY <1>4 DEF r

LEMMA StretchPair ==
  ASSUME NEW q, Len(q) \in Nat, NEW p, Stretch(q, p)
  PROVE  /\ p = <<p[1], p[2]>> /\ p[1] \in Nat /\ p[2] \in Nat
         /\ 1 <= p[1] /\ p[1] <= p[2] /\ p[2] <= Len(q)
         /\ p[1] \in 1 .. Len(q) /\ p[2] \in 1 .. Len(q)
  BY DEF Stretch

\* Two stretches that end at the same interval are the same.
LEMMA EndsOnce ==
  ASSUME NEW q, Len(q) \in Nat, NEW p, Stretch(q, p), NEW o, Stretch(q, o), p[2] = o[2]
  PROVE  p = o
  <1>1. /\ p = <<p[1], p[2]>> /\ o = <<o[1], o[2]>> /\ p[1] \in Nat /\ o[1] \in Nat /\ p[2] \in Nat
        /\ 1 <= p[1] /\ 1 <= o[1] /\ p[1] <= p[2] /\ o[1] <= p[2]
    BY StretchPair
  <1>2. /\ \A k \in p[1] .. p[2] : LossyAt(q, k)
        /\ \A k \in o[1] .. p[2] : LossyAt(q, k)
        /\ ~ LossyAt(q, p[1] - 1) /\ ~ LossyAt(q, o[1] - 1)
    BY DEF Stretch
  <1>3. ~ p[1] < o[1]
    <2>1. SUFFICES ASSUME p[1] < o[1] PROVE FALSE
      OBVIOUS
    <2>2. o[1] - 1 \in p[1] .. p[2]
      BY <1>1, <2>1
    <2> QED BY <1>2, <2>2
  <1>4. ~ o[1] < p[1]
    <2>1. SUFFICES ASSUME o[1] < p[1] PROVE FALSE
      OBVIOUS
    <2>2. p[1] - 1 \in o[1] .. p[2]
      BY <1>1, <2>1
    <2> QED BY <1>2, <2>2
  <1>5. p[1] = o[1]
    BY <1>1, <1>3, <1>4
  <1> QED BY <1>1, <1>5

LEMMA StretchStays ==
  ASSUME NEW q, NEW x, NEW r, Longer(q, x, r), NEW p, Stretch(q, p), p[2] # Len(q) \/ x.lost = 0
  PROVE  Stretch(r, p)
  <1>1. /\ p = <<p[1], p[2]>> /\ p[1] \in Nat /\ p[2] \in Nat
        /\ 1 <= p[1] /\ p[1] <= p[2] /\ p[2] <= Len(q)
    BY StretchPair DEF Longer
  <1>2. /\ \A k \in p[1] .. p[2] : LossyAt(q, k)
        /\ ~ LossyAt(q, p[1] - 1) /\ ~ LossyAt(q, p[2] + 1)
    BY DEF Stretch
  <1>3. \A k \in p[1] .. p[2] : LossyAt(r, k)
    BY <1>1, <1>2 DEF Longer
  <1>4. ~ LossyAt(r, p[1] - 1)
    <2>1. p[1] - 1 \in Int /\ p[1] - 1 # Len(q) + 1
      BY <1>1 DEF Longer
    <2> QED BY <1>2, <2>1 DEF Longer
  <1>5. ~ LossyAt(r, p[2] + 1)
    <2>1. p[2] + 1 \in Int /\ (p[2] + 1 = Len(q) + 1 => x.lost = 0)
      BY <1>1 DEF Longer
    <2> QED BY <1>2, <2>1 DEF Longer
  <1>6. <<p[1], p[2]>> \in (1 .. Len(r)) \X (1 .. Len(r))
    BY <1>1 DEF Longer
  <1> QED BY <1>1, <1>3, <1>4, <1>5, <1>6 DEF Stretch

LEMMA StretchWas ==
  ASSUME NEW q, NEW x, NEW r, Longer(q, x, r), NEW p, Stretch(r, p), p[2] # Len(q) + 1
  PROVE  Stretch(q, p) /\ (p[2] # Len(q) \/ x.lost = 0)
  <1>1. /\ p = <<p[1], p[2]>> /\ p[1] \in Nat /\ p[2] \in Nat
        /\ 1 <= p[1] /\ p[1] <= p[2] /\ p[2] <= Len(q)
    BY StretchPair DEF Longer
  <1>2. /\ \A k \in p[1] .. p[2] : LossyAt(r, k)
        /\ ~ LossyAt(r, p[1] - 1) /\ ~ LossyAt(r, p[2] + 1)
    BY DEF Stretch
  <1>3. \A k \in p[1] .. p[2] : LossyAt(q, k)
    <2>1. \A k \in p[1] .. p[2] : k \in Int /\ k # Len(q) + 1
      BY <1>1 DEF Longer
    <2> QED BY <1>2, <2>1 DEF Longer
  <1>4. p[1] - 1 \in Int /\ p[2] + 1 \in Int
    BY <1>1
  <1>5. ~ LossyAt(q, p[1] - 1) /\ ~ LossyAt(q, p[2] + 1) /\ ~ (p[2] + 1 = Len(q) + 1 /\ x.lost # 0)
    BY <1>2, <1>4 DEF Longer
  <1>6. p[2] = Len(q) => x.lost = 0
    BY <1>5
  <1>7. <<p[1], p[2]>> \in (1 .. Len(q)) \X (1 .. Len(q))
    BY <1>1 DEF Longer
  <1> QED BY <1>1, <1>3, <1>5, <1>6, <1>7 DEF Stretch

\* The intervals of p are the same in q and in r.
Same(q, r, p) ==
    /\ SubSeq(r, p[1], p[2]) = SubSeq(q, p[1], p[2]) /\ SubSeq(q, p[1], p[2]) \in Seq(IVs)
    /\ r[p[1]] = q[p[1]] /\ r[p[2]] = q[p[2]]

LEMMA SamePart ==
  ASSUME NEW q, NEW x, NEW r, Longer(q, x, r), NEW p, Stretch(q, p)
  PROVE  Same(q, r, p)
  <1>1. /\ p[1] \in Nat /\ p[2] \in Nat /\ Len(q) \in Nat
        /\ 1 <= p[1] /\ p[1] <= p[2] /\ p[2] <= Len(q)
        /\ p[1] \in 1 .. Len(q) /\ p[2] \in 1 .. Len(q)
    BY StretchPair DEF Longer
  <1>2. SubSeq(r, p[1], p[2]) = SubSeq(q, p[1], p[2]) /\ SubSeq(q, p[1], p[2]) \in Seq(IVs)
    <2> DEFINE m == p[1]
               n == p[2]
               a == SubSeq(q, m, n)
               b == SubSeq(r, m, n)
    <2>1. \A i \in m .. n : i \in 1 .. Len(q) /\ i \in 1 .. Len(r)
      BY <1>1 DEF Longer
    <2>2. \A i \in m .. n : q[i] \in IVs /\ r[i] \in IVs /\ r[i] = q[i]
      BY <2>1, ElementOfSeq DEF Longer
    <2>3. m \in Int /\ n \in Int /\ m <= n
      BY <1>1
    <2>4. /\ a \in Seq(IVs) /\ Len(a) = n - m + 1
          /\ \A i \in 1 .. n - m + 1 : a[i] = q[m + i - 1]
      BY <2>2, <2>3, SubSeqProperties
    <2>5. /\ b \in Seq(IVs) /\ Len(b) = n - m + 1
          /\ \A i \in 1 .. n - m + 1 : b[i] = r[m + i - 1]
      BY <2>2, <2>3, SubSeqProperties
    <2>6. \A i \in 1 .. n - m + 1 : m + i - 1 \in m .. n
      BY <2>3
    <2> HIDE DEF a, b, m, n
    <2>7. a = b
      BY <2>2, <2>4, <2>5, <2>6, SeqEqual
    <2> QED BY <2>4, <2>7 DEF a, b, m, n
  <1>3. r[p[1]] = q[p[1]] /\ r[p[2]] = q[p[2]]
    BY <1>1 DEF Longer
  <1> QED BY <1>2, <1>3 DEF Same

LEMMA DescribesStays ==
  ASSUME NEW q, NEW x, NEW r, Longer(q, x, r), NEW p, Stretch(q, p), NEW e, Describes(e, q, p)
  PROVE  Describes(e, r, p)
  <1>1. Same(q, r, p)
    BY SamePart
  <1> QED BY <1>1 DEF Describes, Same

\* An interval without a loss ends an episode, and changes none.
LEMMA CleanTold ==
  ASSUME FileInv, NEW q, NEW x, NEW r, Longer(q, x, r), NEW a \in Loops, NEW s, Tells(a, q, s),
         NEW b, b.list = a.list, ~ b.open, x.lost = 0, LossyOf(r) = LossyOf(q)
  PROVE  Tells(b, r, s)
  <1>1. \A k \in 1 .. Len(s) : Stretch(q, s[k]) /\ Describes(a.list[k], q, s[k])
    BY DEF Tells
  <1>2. \A k \in 1 .. Len(s) : Stretch(r, s[k]) /\ Describes(b.list[k], r, s[k])
    BY <1>1, StretchStays, DescribesStays
  <1>3. ~ LossyAt(r, Len(r))
    BY DEF Longer
  <1>4. ASSUME NEW p, Stretch(r, p) PROVE \E k \in 1 .. Len(s) : s[k] = p
    <2>1. /\ p[1] \in Nat /\ p[2] \in Nat /\ p[1] <= p[2] /\ \A k \in p[1] .. p[2] : LossyAt(r, k)
      BY <1>4, StretchPair DEF Longer, Stretch
    <2>2. p[2] # Len(q) + 1
      BY <1>3, <2>1 DEF Longer
    <2> QED BY <1>4, <2>2, StretchWas DEF Tells
  <1> QED BY <1>2, <1>3, <1>4 DEF Tells

LEMMA PartGrows ==
  ASSUME NEW q, NEW x, NEW r, Longer(q, x, r), NEW p, Stretch(q, p), p[2] = Len(q)
  PROVE  SubSeq(r, p[1], Len(q) + 1) = Append(SubSeq(q, p[1], p[2]), x)
  <1> DEFINE m == p[1]
             n == Len(q) + 1
             part == SubSeq(q, m, p[2])
  <1>1. m \in 1 .. Len(r) /\ n \in m .. Len(r) /\ r \in Seq(IVs) /\ n - 1 = Len(q) /\ r[n] = x /\ x \in IVs
    BY StretchPair DEF Longer
  <1>2. SubSeq(r, m, p[2]) = part /\ part \in Seq(IVs)
    <2>1. Same(q, r, p)
      BY SamePart
    <2> QED BY <2>1 DEF Same
  <1> HIDE DEF m, n, part
  <1>3. SubSeq(r, m, n) = SubSeq(r, m, n - 1) \o <<r[n]>>
    BY <1>1, SubSeqRecursiveSecond
  <1>4. Append(part, x) = part \o <<x>>
    BY <1>1, <1>2, AppendIsConcat
  <1>5. SubSeq(r, m, n) = Append(part, x)
    BY <1>1, <1>2, <1>3, <1>4
  <1> QED BY <1>5 DEF m, n, part

\* A stretch that ends at the last interval, and one more interval.
LEMMA StretchGrows ==
  ASSUME FileInv, NEW q, NEW x, NEW r, Longer(q, x, r), r = Append(q, x), x.lost # 0,
         NEW p, Stretch(q, p), p[2] = Len(q), NEW e \in EpRecs, Describes(e, q, p),
         NEW o, o = <<p[1], Len(q) + 1>>
  PROVE  Stretch(r, o) /\ Describes(Extended(e, x), r, o)
  <1>1. /\ p[1] \in Nat /\ p[2] \in Nat /\ 1 <= p[1] /\ p[1] <= p[2] /\ p[2] = Len(q)
        /\ p[1] \in 1 .. Len(q)
    BY StretchPair DEF Longer
  <1>2. o[1] = p[1] /\ o[2] = Len(q) + 1 /\ Len(r) = Len(q) + 1 /\ Len(q) \in Nat
    BY DEF Longer
  <1>3. Stretch(r, o)
    <2>1. o \in (1 .. Len(r)) \X (1 .. Len(r)) /\ o[1] <= o[2]
      BY <1>1, <1>2
    <2>2. ASSUME NEW k \in o[1] .. o[2] PROVE LossyAt(r, k)
      <3>1. k \in Int /\ (k \in p[1] .. p[2] \/ k = Len(q) + 1)
        BY <1>1, <1>2, <2>2
      <3> QED BY <3>1 DEF Longer, Stretch
    <2>3. ~ LossyAt(r, o[1] - 1)
      <3>1. p[1] - 1 \in Int /\ p[1] - 1 # Len(q) + 1 /\ ~ LossyAt(q, p[1] - 1)
        BY <1>1 DEF Stretch
      <3> QED BY <1>2, <3>1 DEF Longer
    <2>4. ~ LossyAt(r, o[2] + 1)
      BY <1>2 DEF LossyAt
    <2> QED BY <2>1, <2>2, <2>3, <2>4 DEF Stretch
  <1>4. SubSeq(r, o[1], o[2]) = Append(SubSeq(q, p[1], p[2]), x)
    BY <1>1, <1>2, PartGrows
  <1> DEFINE part == SubSeq(q, p[1], p[2])
             long == SubSeq(r, o[1], o[2])
  <1>5. part \in Seq(IVs) /\ x \in IVs
    <2>1. Same(q, r, p)
      BY SamePart
    <2> QED BY <2>1 DEF Same, Longer
  <1>6. x.tx \in Nat /\ x.lost \in Nat /\ \A iv \in IVs : iv.tx \in Nat /\ iv.lost \in Nat
    BY <1>5, IntervalTypes
  <1> HIDE DEF part, long
  <1>7. long = Append(part, x)
    BY <1>4 DEF part, long
  <1>8. SumOf(long, "tx") = SumOf(part, "tx") + x.tx /\ SumOf(long, "lost") = SumOf(part, "lost") + x.lost
    BY <1>5, <1>6, <1>7, SumOfRecs
  <1>9. MaxRTT(long) = HigherRTT(MaxRTT(part), x)
    BY <1>5, <1>7, MaxRTTSteps
  <1> DEFINE f == Extended(e, x)
  <1>10. /\ f.start = e.start /\ f.end = x.end /\ f.intervals = e.intervals + 1
         /\ f.tx = e.tx + x.tx /\ f.lost = e.lost + x.lost /\ f.rttMax = HigherRTT(e.rttMax, x)
    BY <1>5, EpisodeRecs
  <1>11. /\ e.start = q[p[1]].start /\ e.intervals = p[2] - p[1] + 1
         /\ e.tx = SumOf(part, "tx") /\ e.lost = SumOf(part, "lost") /\ e.rttMax = MaxRTT(part)
    BY DEF Describes, part
  <1>12. r[o[1]] = q[p[1]] /\ r[o[2]] = x
    BY <1>1, <1>2 DEF Longer
  <1>13. f.intervals = o[2] - o[1] + 1
    BY <1>1, <1>2, <1>10, <1>11
  <1> HIDE DEF f
  <1>14. Describes(f, r, o)
    BY <1>8, <1>9, <1>10, <1>11, <1>12, <1>13 DEF Describes, long
  <1> QED BY <1>3, <1>14 DEF f

\* An interval with a loss after one without.
LEMMA StretchStarts ==
  ASSUME FileInv, NEW q, NEW x, NEW r, Longer(q, x, r), x.lost # 0, ~ LossyAt(q, Len(q)),
         NEW o, o = <<Len(q) + 1, Len(q) + 1>>
  PROVE  Stretch(r, o) /\ Describes(NewEpisode(x), r, o)
  <1>1. o[1] = Len(q) + 1 /\ o[2] = Len(q) + 1 /\ Len(r) = Len(q) + 1 /\ Len(q) \in Nat /\ r \in Seq(IVs) /\ x \in IVs
    BY DEF Longer
  <1>2. Stretch(r, o)
    <2>1. o \in (1 .. Len(r)) \X (1 .. Len(r)) /\ o[1] <= o[2]
      BY <1>1
    <2>2. ASSUME NEW k \in o[1] .. o[2] PROVE LossyAt(r, k)
      <3>1. k \in Int /\ k = Len(q) + 1
        BY <1>1, <2>2
      <3> QED BY <3>1 DEF Longer
    <2>3. ~ LossyAt(r, o[1] - 1)
      <3>1. o[1] - 1 \in Int /\ o[1] - 1 = Len(q) /\ Len(q) # Len(q) + 1
        BY <1>1
      <3> QED BY <3>1 DEF Longer
    <2>4. ~ LossyAt(r, o[2] + 1)
      BY <1>1 DEF LossyAt
    <2> QED BY <2>1, <2>2, <2>3, <2>4 DEF Stretch
  <1>3. r[o[1]] = x /\ r[o[2]] = x
    BY <1>1 DEF Longer
  <1>4. SubSeq(r, o[1], o[2]) = Append(<<>>, x)
    <2>1. o[1] \in 1 .. Len(r) /\ o[2] \in o[1] .. Len(r)
      BY <1>1
    <2>2. SubSeq(r, o[1], o[2]) = SubSeq(r, o[1], o[2] - 1) \o <<r[o[2]]>>
      BY <1>1, <2>1, SubSeqRecursiveSecond
    <2>3. SubSeq(r, o[1], o[2] - 1) = <<>>
      BY <1>1, SubSeqEmpty
    <2>4. <<>> \in Seq(IVs)
      BY EmptySeq
    <2>5. Append(<<>>, x) = <<>> \o <<x>>
      BY <1>1, <2>4, AppendIsConcat
    <2> QED BY <1>3, <2>2, <2>3, <2>5
  <1>5. <<>> \in Seq(IVs)
    BY EmptySeq
  <1>6. x.tx \in Nat /\ x.lost \in Nat /\ x.rttMax \in Nat /\ \A iv \in IVs : iv.tx \in Nat /\ iv.lost \in Nat
    BY <1>1, IntervalTypes
  <1> DEFINE long == SubSeq(r, o[1], o[2])
             none == <<>>
             f == NewEpisode(x)
  <1>7. none \in Seq(IVs) /\ long = Append(none, x) /\ SumOf(none, "tx") = 0 /\ SumOf(none, "lost") = 0 /\ MaxRTT(none) = 0
    BY <1>4, <1>5, <1>6, SumOfRecs, MaxRTTSteps
  <1> HIDE DEF none, long
  <1>8. SumOf(long, "tx") = 0 + x.tx /\ SumOf(long, "lost") = 0 + x.lost
    <2>1. SumOf(Append(none, x), "tx") = SumOf(none, "tx") + x.tx
      BY <1>1, <1>6, <1>7, SumOfRecs
    <2>2. SumOf(Append(none, x), "lost") = SumOf(none, "lost") + x.lost
      BY <1>1, <1>6, <1>7, SumOfRecs
    <2> QED BY <1>7, <2>1, <2>2
  <1>9. MaxRTT(long) = HigherRTT(0, x)
    BY <1>1, <1>7, MaxRTTSteps
  <1>10. SumOf(long, "tx") = x.tx /\ SumOf(long, "lost") = x.lost /\ MaxRTT(long) = x.rttMax
    BY <1>6, <1>8, <1>9 DEF HigherRTT
  <1>11. /\ f.start = x.start /\ f.end = x.end /\ f.intervals = 1 /\ f.tx = x.tx /\ f.lost = x.lost
         /\ f.rttMax = x.rttMax
    BY DEF NewEpisode
  <1>12. f.intervals = o[2] - o[1] + 1
    BY <1>1, <1>11
  <1> HIDE DEF f
  <1>13. Describes(f, r, o)
    BY <1>3, <1>10, <1>11, <1>12 DEF Describes, long
  <1> QED BY <1>2, <1>13 DEF f
\* An interval with a loss after one with a loss makes the last episode longer.
LEMMA OpenTold ==
  ASSUME FileInv, NEW q, NEW x, NEW r, Longer(q, x, r), r = Append(q, x), x.lost # 0,
         NEW a \in Loops, a.open, NEW s, Tells(a, q, s), NEW b \in Loops, b.open,
         b.list = [a.list EXCEPT ![Len(a.list)] = Extended(a.list[Len(a.list)], x)],
         Len(LossyOf(r)) = Len(LossyOf(q)) + 1
  PROVE  \E t : Tells(b, r, t)
  <1> DEFINE l == a.list
             n == Len(l)
             e == l[n]
             f == Extended(e, x)
             m == b.list
             o == <<s[n][1], Len(q) + 1>>
             t == [s EXCEPT ![n] = o]
  <1>1. l \in Seq(EpRecs) /\ l # <<>> /\ x \in IVs /\ Len(q) \in Nat /\ Len(r) = Len(q) + 1
    BY DEF Loops, Longer
  <1>2. n \in 1 .. Len(l) /\ e \in EpRecs
    BY <1>1, EmptySeq, LenProperties
  <1>3. f \in EpRecs /\ f.intervals = e.intervals + 1
    BY <1>1, <1>2, EpisodeRecs
  <1>4. s \in Seq(Nat \X Nat) /\ Len(s) = n /\ s[n][2] = Len(q)
    BY DEF Tells
  <1>5. \A k \in 1 .. n : Stretch(q, s[k]) /\ Describes(l[k], q, s[k])
    BY <1>4 DEF Tells
  <1>6. m \in Seq(EpRecs) /\ Len(m) = n /\ \A k \in 1 .. n : m[k] = IF k = n THEN f ELSE l[k]
    <2>1. n \in 1 .. Len(l) /\ f \in EpRecs /\ l \in Seq(EpRecs)
      BY <1>1, <1>2, <1>3
    <2>2. m = [l EXCEPT ![n] = f]
      OBVIOUS
    <2> HIDE DEF m, f
    <2> QED BY <2>1, <2>2, ExceptSeq
  <1>7. o \in Nat \X Nat /\ o[1] = s[n][1] /\ o[2] = Len(q) + 1
    <2>1. Stretch(q, s[n])
      BY <1>2, <1>5
    <2>2. s[n][1] \in Nat
      BY <1>1, <2>1, StretchPair
    <2> QED BY <1>1, <2>2
  <1>8. t \in Seq(Nat \X Nat) /\ Len(t) = n /\ \A k \in 1 .. n : t[k] = IF k = n THEN o ELSE s[k]
    <2>1. n \in 1 .. Len(s)
      BY <1>2, <1>4
    <2> HIDE DEF o, n
    <2> QED BY <1>4, <1>7, <2>1, ExceptSeq
  <1> HIDE DEF l, e, f, m, o, t
  <1>9. \A k \in 1 .. n : k # n => s[k][2] # Len(q)
    <2>1. SUFFICES ASSUME NEW k \in 1 .. n, k # n, s[k][2] = Len(q) PROVE FALSE
      OBVIOUS
    <2>2. Stretch(q, s[k]) /\ Stretch(q, s[n]) /\ n \in 1 .. n
      BY <1>2, <1>5, <2>1 DEF l
    <2>3. s[k] = s[n]
      BY <1>1, <1>4, <2>1, <2>2, EndsOnce
    <2> QED BY <1>4, <2>1, <2>2, <2>3 DEF Tells
  <1>10. Stretch(r, o) /\ Describes(f, r, o)
    <2>1. Stretch(q, s[n]) /\ Describes(e, q, s[n])
      BY <1>2, <1>5 DEF e, l
    <2> QED BY <1>2, <1>4, <2>1, StretchGrows DEF f, o
  <1>11. \A k \in 1 .. n : k # n => Stretch(r, s[k]) /\ Describes(l[k], r, s[k])
    BY <1>5, <1>9, StretchStays, DescribesStays
  <1>12. \A k \in 1 .. Len(t) : Stretch(r, t[k]) /\ Describes(m[k], r, t[k])
    BY <1>6, <1>8, <1>10, <1>11
  <1>13. \A j, k \in 1 .. Len(t) : t[j] = t[k] => j = k
    <2>1. \A k \in 1 .. n : k # n => s[k] # o
      <3>1. SUFFICES ASSUME NEW k \in 1 .. n, k # n, s[k] = o PROVE FALSE
        OBVIOUS
      <3>2. s[k][2] <= Len(q)
        BY <1>1, <1>5, StretchPair
      <3> QED BY <1>1, <1>7, <3>1, <3>2
    <2>2. \A j, k \in 1 .. n : s[j] = s[k] => j = k
      BY <1>4 DEF Tells
    <2> QED BY <1>8, <2>1, <2>2
  <1>14. ASSUME NEW p, Stretch(r, p) PROVE \E k \in 1 .. Len(t) : t[k] = p
    <2>1. CASE p[2] = Len(q) + 1
      <3>1. p = o
        BY <1>1, <1>7, <1>10, <1>14, <2>1, EndsOnce
      <3> QED BY <1>2, <1>8, <3>1 DEF l
    <2>2. CASE p[2] # Len(q) + 1
      <3>1. Stretch(q, p) /\ p[2] # Len(q)
        BY <1>14, <2>2, StretchWas
      <3>2. PICK k \in 1 .. n : s[k] = p
        BY <1>4, <3>1 DEF Tells
      <3>3. k # n
        BY <1>4, <3>1, <3>2
      <3> QED BY <1>8, <3>2, <3>3
    <2> QED BY <2>1, <2>2
  <1>15. LossyAt(r, Len(r)) /\ t[Len(t)][2] = Len(r)
    <2>1. LossyAt(r, Len(r))
      BY <1>1 DEF Longer
    <2>2. n \in 1 .. n
      BY <1>2 DEF l
    <2> QED BY <1>1, <1>7, <1>8, <2>1, <2>2
  <1>16. Len(LossyOf(r)) = SumOf(m, "intervals")
    <2>1. SumOf(l, "intervals") \in Nat /\ \A i \in EpRecs : i.intervals \in Nat
      <3>1. \A i \in EpRecs : i["intervals"] \in Nat
        BY DEF EpRecs
      <3> QED BY <1>1, <3>1, SumOfRecs DEF l
    <2>2. SumOf(m, "intervals") = (SumOf(l, "intervals") - e["intervals"]) + f["intervals"]
      <3> DEFINE name == "intervals"
      <3>1. \A i \in EpRecs : i[name] \in Nat
        BY DEF EpRecs
      <3>2. l \in Seq(EpRecs) /\ l # <<>> /\ f \in EpRecs /\ m = [l EXCEPT ![Len(l)] = f] /\ e = l[Len(l)]
        BY <1>1, <1>3 DEF l, m, f, e
      <3> HIDE DEF name
      <3>3. SumMoves(m, l, f, name)
        BY <3>1, <3>2, SumChanged
      <3> QED BY <3>2, <3>3 DEF name, SumMoves
    <2>4. e.intervals \in Nat /\ f.intervals = e.intervals + 1
      BY <1>2, <1>3, <2>1 DEF e, f, l
    <2>5. Len(LossyOf(q)) = SumOf(l, "intervals")
      BY DEF Tells, l
    <2>6. SumOf(m, "intervals") = SumOf(l, "intervals") + 1
      BY <2>1, <2>2, <2>4
    <2> QED BY <2>5, <2>6
  <1>17. Tells(b, r, t)
    BY <1>6, <1>8, <1>12, <1>13, <1>14, <1>15, <1>16 DEF Tells, m
  <1> QED BY <1>17

\* After one without a loss it starts an episode.
LEMMA StartTold ==
  ASSUME FileInv, NEW q, NEW x, NEW r, Longer(q, x, r), x.lost # 0,
         NEW a \in Loops, ~ a.open, NEW s, Tells(a, q, s), NEW b \in Loops, b.open,
         b.list = Append(a.list, NewEpisode(x)),
         Len(LossyOf(r)) = Len(LossyOf(q)) + 1
  PROVE  \E t : Tells(b, r, t)
  <1> DEFINE l == a.list
             n == Len(l)
             f == NewEpisode(x)
             m == b.list
             o == <<Len(q) + 1, Len(q) + 1>>
             t == Append(s, o)
  <1>1. l \in Seq(EpRecs) /\ x \in IVs /\ Len(q) \in Nat /\ Len(r) = Len(q) + 1
    BY DEF Loops, Longer
  <1>2. f \in EpRecs /\ f.intervals = 1
    BY <1>1, EpisodeRecs DEF NewEpisode
  <1>3. n \in Nat /\ s \in Seq(Nat \X Nat) /\ Len(s) = n /\ ~ LossyAt(q, Len(q))
    BY <1>1, LenProperties DEF Tells
  <1>4. \A k \in 1 .. n : Stretch(q, s[k]) /\ Describes(l[k], q, s[k])
    BY <1>3 DEF Tells
  <1>5. o \in Nat \X Nat /\ o[1] = Len(q) + 1 /\ o[2] = Len(q) + 1
    BY <1>1
  <1> HIDE DEF f, o
  <1>6. m \in Seq(EpRecs) /\ Len(m) = n + 1 /\ \A k \in 1 .. n + 1 : m[k] = IF k = n + 1 THEN f ELSE l[k]
    <2>1. m = Append(l, f)
      BY DEF f
    <2> HIDE DEF l, m
    <2>2. m \in Seq(EpRecs) /\ Len(m) = n + 1 /\ (\A k \in 1 .. n : m[k] = l[k]) /\ m[n + 1] = f
      BY <1>1, <1>2, <2>1, AppendProperties
    <2> QED BY <1>3, <2>2
  <1>7. t \in Seq(Nat \X Nat) /\ Len(t) = n + 1 /\ \A k \in 1 .. n + 1 : t[k] = IF k = n + 1 THEN o ELSE s[k]
    <2>1. t \in Seq(Nat \X Nat) /\ Len(t) = Len(s) + 1 /\ (\A k \in 1 .. Len(s) : t[k] = s[k]) /\ t[Len(s) + 1] = o
      BY <1>3, <1>5, AppendProperties
    <2> HIDE DEF t, n
    <2> QED BY <1>3, <2>1
  <1> HIDE DEF l, m, t
  <1>8. Stretch(r, o) /\ Describes(f, r, o)
    BY <1>3, StretchStarts DEF f, o
  <1>9. \A k \in 1 .. n : s[k][2] # Len(q)
    <2>1. SUFFICES ASSUME NEW k \in 1 .. n, s[k][2] = Len(q) PROVE FALSE
      OBVIOUS
    <2>2. LossyAt(q, s[k][2])
      <3>1. Stretch(q, s[k])
        BY <1>4
      <3>2. s[k][2] \in s[k][1] .. s[k][2]
        BY <1>1, <3>1, StretchPair
      <3> QED BY <3>1, <3>2 DEF Stretch
    <2> QED BY <1>3, <2>1, <2>2
  <1>10. \A k \in 1 .. n : Stretch(r, s[k]) /\ Describes(l[k], r, s[k])
    BY <1>4, <1>9, StretchStays, DescribesStays
  <1>11. \A k \in 1 .. n + 1 : k # n + 1 => k \in 1 .. n
    BY <1>3
  <1>12. \A k \in 1 .. Len(t) : Stretch(r, t[k]) /\ Describes(m[k], r, t[k])
    BY <1>6, <1>7, <1>8, <1>10, <1>11
  <1>13. \A j, k \in 1 .. Len(t) : t[j] = t[k] => j = k
    <2>1. \A k \in 1 .. n : s[k] # o
      <3>1. SUFFICES ASSUME NEW k \in 1 .. n, s[k] = o PROVE FALSE
        OBVIOUS
      <3>2. s[k][2] <= Len(q)
        BY <1>1, <1>4, StretchPair
      <3> QED BY <1>1, <1>5, <3>1, <3>2
    <2>2. \A j, k \in 1 .. n : s[j] = s[k] => j = k
      BY <1>3 DEF Tells
    <2> QED BY <1>7, <1>11, <2>1, <2>2
  <1>14. n + 1 \in 1 .. n + 1 /\ \A k \in 1 .. n : k \in 1 .. n + 1 /\ k # n + 1
    BY <1>3
  <1>15. ASSUME NEW p, Stretch(r, p) PROVE \E k \in 1 .. Len(t) : t[k] = p
    <2>1. CASE p[2] = Len(q) + 1
      <3>1. p = o
        BY <1>1, <1>5, <1>8, <1>15, <2>1, EndsOnce
      <3> QED BY <1>7, <1>14, <3>1
    <2>2. CASE p[2] # Len(q) + 1
      <3>1. Stretch(q, p)
        BY <1>15, <2>2, StretchWas
      <3>2. PICK k \in 1 .. n : s[k] = p
        BY <1>3, <3>1 DEF Tells
      <3> QED BY <1>7, <1>14, <3>2
    <2> QED BY <2>1, <2>2
  <1>16. LossyAt(r, Len(r)) /\ t[Len(t)][2] = Len(r)
    <2>1. LossyAt(r, Len(r))
      BY <1>1 DEF Longer
    <2> QED BY <1>1, <1>5, <1>7, <1>14, <2>1
  <1>17. Len(LossyOf(r)) = SumOf(m, "intervals")
    <2>1. \A i \in EpRecs : i["intervals"] \in Nat
      BY DEF EpRecs
    <2>2. SumOf(Append(l, f), "intervals") = SumOf(l, "intervals") + f["intervals"]
      <3> DEFINE name == "intervals"
      <3>1. \A i \in EpRecs : i[name] \in Nat
        BY <2>1
      <3>2. l \in Seq(EpRecs) /\ f \in EpRecs
        BY <1>1, <1>2 DEF l
      <3> HIDE DEF name
      <3>3. SumOf(Append(l, f), name) = SumOf(l, name) + f[name]
        BY <3>1, <3>2, SumOfRecs
      <3> QED BY <3>3 DEF name
    <2>3. m = Append(l, f)
      BY DEF m, l, f
    <2>4. Len(LossyOf(q)) = SumOf(l, "intervals")
      BY DEF Tells, l
    <2> QED BY <1>2, <2>2, <2>3, <2>4
  <1>18. Len(t) = Len(m)
    BY <1>6, <1>7
  <1>19. Tells(b, r, t)
    BY <1>7, <1>12, <1>13, <1>15, <1>16, <1>17, <1>18 DEF Tells, m
  <1> QED BY <1>19
LEMMA NextTold ==
  ASSUME FileInv, NEW q \in Seq(IVs), NEW x \in IVs, NEW r, r = Append(q, x),
         NEW s, Tells(Loop(q), q, s)
  PROVE  \E t : Tells(Loop(r), r, t)
  <1> DEFINE a == Loop(q)
             b == Loop(r)
             has == LossyOf(q)
  <1>1. a \in Loops /\ b \in Loops /\ b = AddToEpisodes(a, x) /\ r \in Seq(IVs)
    BY EpisodesSteps, AppendProperties
  <1>2. Longer(q, x, r)
    BY AppendIsLonger
  <1>3. x.lost \in Nat
    BY IntervalTypes
  <1>4. has \in Seq(IVs) /\ LossyOf(r) = IF x.lost # 0 THEN Append(has, x) ELSE has
    <2>1. has \in Lists /\ LossyOf(r) = AddListed(has, x)
      BY ListedSteps
    <2> QED BY <1>3, <2>1 DEF AddListed, Lists
  <1> HIDE DEF a, b, has
  <1>5. Tells(a, q, s)
    BY DEF a
  <1>6. CASE x.lost = 0
    <2>1. b.list = a.list /\ ~ b.open
      BY <1>1, <1>6, LoopSteps
    <2>2. LossyOf(r) = LossyOf(q)
      BY <1>4, <1>6 DEF has
    <2>3. Tells(b, r, s)
      BY <1>1, <1>2, <1>5, <1>6, <2>1, <2>2, CleanTold
    <2> QED BY <2>3 DEF b
  <1>7. CASE x.lost # 0
    <2>1. Len(LossyOf(r)) = Len(LossyOf(q)) + 1
      BY <1>4, <1>7, AppendProperties DEF has
    <2>2. CASE a.open
      <3>1. b.list = [a.list EXCEPT ![Len(a.list)] = Extended(a.list[Len(a.list)], x)] /\ b.open
        BY <1>1, <1>7, <2>2, LoopSteps
      <3>2. \E t : Tells(b, r, t)
        BY <1>1, <1>2, <1>5, <1>7, <2>1, <2>2, <3>1, OpenTold
      <3> QED BY <3>2 DEF b
    <2>3. CASE ~ a.open
      <3>1. b.list = Append(a.list, NewEpisode(x)) /\ b.open
        BY <1>1, <1>7, <2>3, LoopSteps
      <3>2. \E t : Tells(b, r, t)
        BY <1>1, <1>2, <1>5, <1>7, <2>1, <2>3, <3>1, StartTold
      <3> QED BY <3>2 DEF b
    <2> QED BY <2>2, <2>3
  <1> QED BY <1>6, <1>7

LEMMA EpisodesTold ==
  ASSUME FileInv
  PROVE  \A q \in Seq(IVs) : \E s : Tells(Loop(q), q, s)
  <1> DEFINE P(q) == \E s : Tells(Loop(q), q, s)
             T == {n \in Nat : \A q \in Seq(IVs) : Len(q) = n => P(q)}
  <1>1. 0 \in T
    <2>1. SUFFICES ASSUME NEW q \in Seq(IVs), Len(q) = 0 PROVE P(q)
      OBVIOUS
    <2>2. q = <<>>
      BY <2>1, EmptySeq
    <2> DEFINE s == <<>>
    <2>3. s \in Seq(Nat \X Nat) /\ Len(s) = 0 /\ s = <<>> /\ 1 .. 0 = {}
      BY EmptySeq
    <2>4. \A i : ~ LossyAt(q, i)
      BY <2>1 DEF LossyAt
    <2>5. \A p : ~ Stretch(q, p)
      BY <2>1 DEF Stretch
    <2>6. Loop(q).list = s /\ ~ Loop(q).open
      BY <2>2, EpisodesSteps DEF Loop0
    <2>7. Len(LossyOf(q)) = 0
      BY <2>2, <2>3, ListedSteps
    <2>8. SumOf(s, "intervals") = 0
      <3> DEFINE name == "intervals"
      <3>1. \A e \in EpRecs : e[name] \in Nat
        BY DEF EpRecs
      <3> HIDE DEF name
      <3>2. SumOf(s, name) = 0
        BY <3>1, SumOfRecs
      <3> QED BY <3>2 DEF name
    <2> HIDE DEF s
    <2>9. Tells(Loop(q), q, s)
      BY <2>3, <2>4, <2>5, <2>6, <2>7, <2>8 DEF Tells
    <2> QED BY <2>9
  <1>2. ASSUME NEW n \in T PROVE n + 1 \in T
    <2>1. n \in Nat /\ n + 1 \in Nat /\ \A q \in Seq(IVs) : Len(q) = n => P(q)
      BY <1>2
    <2>2. SUFFICES ASSUME NEW r \in Seq(IVs), Len(r) = n + 1 PROVE P(r)
      BY <2>1
    <2>3. r # <<>>
      BY <2>1, <2>2, EmptySeq
    <2>4. PICK q \in Seq(IVs), x \in IVs : r = Append(q, x)
      BY <2>3, SequenceEmptyOrAppend
    <2>5. Len(q) = n
      BY <2>1, <2>2, <2>4, AppendProperties, LenProperties
    <2>6. PICK s : Tells(Loop(q), q, s)
      BY <2>1, <2>5
    <2> QED BY <2>4, <2>6, NextTold
  <1> HIDE DEF P
  <1>3. T \in SUBSET Nat
    OBVIOUS
  <1> HIDE DEF T
  <1>4. T = Nat
    BY <1>1, <1>2, <1>3, NatSetInduction
  <1>5. ASSUME NEW q \in Seq(IVs) PROVE P(q)
    <2>1. Len(q) \in T
      BY <1>4, LenProperties
    <2> QED BY <2>1 DEF T
  <1> QED BY <1>5 DEF P

\* As many stretches as episodes.
LEMMA EpisodesCounted ==
  ASSUME NEW q, NEW a \in Loops, NEW s, Tells(a, q, s), NEW M, \A p : p \in M <=> Stretch(q, p)
  PROVE  Len(a.list) = Cardinality(M)
  <1> DEFINE n == Len(a.list)
             D == 1 .. n
             b == [k \in D |-> s[k]]
  <1>1. n \in Nat /\ Len(s) = n
    BY LenProperties DEF Loops, Tells
  <1>2. /\ \A k \in D : s[k] \in M
        /\ \A j, k \in D : s[j] = s[k] => j = k
        /\ \A p \in M : \E k \in D : s[k] = p
    BY <1>1 DEF Tells
  <1>3. b \in Bijection(D, M)
    <2>1. b \in [D -> M]
      BY <1>2
    <2>2. \A j, k \in D : b[j] = b[k] => j = k
      BY <1>2
    <2>3. \A p \in M : \E k \in D : b[k] = p
      BY <1>2
    <2> HIDE DEF b, D
    <2> QED BY <2>1, <2>2, <2>3 DEF Bijection, Injection, Surjection, IsInjective
  <1> HIDE DEF n
  <1>4. IsFiniteSet(D) /\ Cardinality(D) = n
    <2>1. Cardinality(1 .. n) = IF 1 > n THEN 0 ELSE n - 1 + 1
      BY <1>1, FS_Interval
    <2>2. IsFiniteSet(D)
      BY <1>1, FS_Interval
    <2> QED BY <1>1, <2>1, <2>2
  <1>5. Cardinality(D) = Cardinality(M)
    <2> HIDE DEF b, D
    <2>1. \E f : f \in Bijection(D, M)
      BY <1>3
    <2> QED BY <1>4, <2>1, FS_Bijection DEF ExistsBijection
  <1> QED BY <1>4, <1>5 DEF n

\* What EpisodesAreStretches says of the intervals of a window.
StretchesOf(ivs) ==
    LET Lossy(i) == i \in DOMAIN ivs /\ ivs[i].lost > 0
    IN  {p \in (DOMAIN ivs) \X (DOMAIN ivs) :
            /\ p[1] <= p[2] /\ \A k \in p[1] .. p[2] : Lossy(k)
            /\ ~Lossy(p[1] - 1) /\ ~Lossy(p[2] + 1)}

LEMMA StretchesAre ==
  ASSUME FileInv, NEW q \in Seq(IVs)
  PROVE  \A p : p \in StretchesOf(q) <=> Stretch(q, p)
  <1>1. DOMAIN q = 1 .. Len(q)
    BY LenProperties
  <1>2. \A i \in 1 .. Len(q) : q[i].lost \in Nat
    BY IntervalTypes, ElementOfSeq
  <1>3. \A i : (i \in DOMAIN q /\ q[i].lost > 0) <=> LossyAt(q, i)
    BY <1>1, <1>2 DEF LossyAt
  <1> QED BY <1>1, <1>3, Zenon DEF StretchesOf, Stretch

EpisodesOf(from, to) ==
    LET ivs == Kept(from, to)
        eps == Episodes(ivs)
    IN  /\ Len(eps) = Cardinality(StretchesOf(ivs))
        /\ Len(Listed(ivs, FALSE)) = SumOf(eps, "intervals")
        /\ \A s \in StretchesOf(ivs) : \E e \in ToSet(eps) :
               LET part == SubSeq(ivs, s[1], s[2])
               IN  /\ e.start = ivs[s[1]].start /\ e.end = ivs[s[2]].end
                   /\ e.intervals = Len(part)
                   /\ e.tx = SumOf(part, "tx") /\ e.lost = SumOf(part, "lost")
                   /\ e.rttMax = MaxRTT(part)

LEMMA EpisodesHold ==
  ASSUME FileInv, NEW from, NEW to
  PROVE  EpisodesOf(from, to)
  <1> DEFINE q == Kept(from, to)
             a == Loop(q)
             M == StretchesOf(q)
  <1>1. q \in Seq(IVs)
    <2>1. PICK t : KeptPath(t, from, to)
      BY KeptPathExists
    <2>2. Len(samples) \in 0 .. Len(samples)
      BY IntervalTypes
    <2> QED BY <2>1, <2>2 DEF KeptPath
  <1>2. Episodes(q) = a.list
    BY DEF Episodes, Loop, Loop0
  <1> HIDE DEF q
  <1>3. a \in Loops
    BY <1>1, EpisodesSteps
  <1>4. \A p : p \in M <=> Stretch(q, p)
    BY <1>1, StretchesAre
  <1>5. PICK s : Tells(a, q, s)
    BY <1>1, EpisodesTold
  <1> HIDE DEF a, M
  <1>6. Len(a.list) = Cardinality(M)
    BY <1>3, <1>4, <1>5, EpisodesCounted
  <1>7. Len(Listed(q, FALSE)) = SumOf(a.list, "intervals")
    BY <1>5 DEF Tells, LossyOf
  <1>8. ASSUME NEW p \in M
        PROVE  \E e \in ToSet(a.list) :
                  LET part == SubSeq(q, p[1], p[2])
                  IN  /\ e.start = q[p[1]].start /\ e.end = q[p[2]].end
                      /\ e.intervals = Len(part)
                      /\ e.tx = SumOf(part, "tx") /\ e.lost = SumOf(part, "lost")
                      /\ e.rttMax = MaxRTT(part)
    <2>1. Stretch(q, p)
      BY <1>4
    <2>2. PICK k \in 1 .. Len(s) : s[k] = p
      BY <1>5, <2>1 DEF Tells
    <2> DEFINE e == a.list[k]
    <2>3. Describes(e, q, p)
      BY <1>5, <2>2 DEF Tells
    <2>4. e \in ToSet(a.list)
      <3>1. Len(s) = Len(a.list) /\ DOMAIN a.list = 1 .. Len(a.list)
        BY <1>3, <1>5, LenProperties DEF Tells, Loops
      <3> QED BY <2>2, <3>1 DEF ToSet
    <2>5. Len(SubSeq(q, p[1], p[2])) = p[2] - p[1] + 1
      <3>1. Len(q) \in Nat
        BY <1>1, LenProperties
      <3> DEFINE m == p[1]
                 n == p[2]
      <3>2. m \in Nat /\ n \in Nat /\ 1 <= m /\ m <= n /\ n <= Len(q)
        BY <2>1, <3>1, StretchPair
      <3> HIDE DEF m, n
      <3>3. \A i \in m .. n : q[i] \in IVs
        BY <1>1, <3>1, <3>2, ElementOfSeq
      <3>4. Len(SubSeq(q, m, n)) = n - m + 1
        BY <3>2, <3>3, SubSeqProperties
      <3> QED BY <3>4 DEF m, n
    <2> HIDE DEF e
    <2> QED BY <2>3, <2>4, <2>5 DEF Describes
  <1> QED BY <1>2, <1>6, <1>7, <1>8, Zenon DEF EpisodesOf, q, M

\* The episodes of a report are the longest stretches of intervals that all
\* have a loss, one episode for each, with its totals, and the intervals
\* listed are those of the episodes (pingEpisode, buildPingReport).
THEOREM EpisodesAreRight == Spec => []EpisodesAreStretches
  <1>1. ASSUME FileInv PROVE EpisodesAreStretches
    <2>1. ASSUME NEW w \in Windows PROVE EpisodesOf(w[1], w[2])
      BY <1>1, EpisodesHold
    <2> QED BY <2>1, Zenon DEF EpisodesAreStretches, EpisodesOf, StretchesOf
  <1> QED BY <1>1, FileHolds, PTL
=============================================================================
