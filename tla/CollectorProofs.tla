-------------------------- MODULE CollectorProofs --------------------------
(***************************************************************************)
(* Theorems about Collector, for every value of its constants.             *)
(***************************************************************************)
EXTENDS Collector, SequenceTheorems, FiniteSetTheorems, TLAPS

PCs == {"start", "header", "init", "next", "A", "B", "wait", "stop",
        "stopFailed", "close", "exited", "failed", "dead"}

\* Run has returned only when every monitor has been stopped.
StopInv ==
    /\ pc \in PCs
    /\ mon \in [Pings -> {"new", "running", "stopping", "stopped"}]
    /\ pc \in {"close", "exited", "failed"} => \A m \in Pings : mon[m] = "stopped"

\* How old the lists can be at each point of the loop: the remainder of seq
\* counts the B sections since the last A section, and each refresh that did not
\* see something adds three.
FreshInv ==
    /\ seq \in 0 .. MaxSeq
    /\ pc \in {"start", "header", "init", "next", "A", "B"} => seq < MaxSeq
    /\ live \subseteq Things /\ found \subseteq Things
    /\ missed \in [Things -> Nat] /\ overlooked \in [Things -> Nat]
    /\ \A x \in Things : missed[x] <= 3 * (1 + overlooked[x])
    /\ pc \in {"start", "header", "init"} => seq = 0
    /\ pc = "A" => (seq % 3) = 0 /\ \A x \in Things : Wrong(x) => missed[x] <= 3 * overlooked[x]
    /\ pc \in {"next", "wait"} /\ (seq % 3) # 0 =>
          \A x \in Things : missed[x] <= 3 * overlooked[x] + (seq % 3)
    /\ pc = "B" => \A x \in Things : missed[x] <= 3 * overlooked[x] + (seq % 3) + 1

LoopInv == StopInv /\ FreshInv

-----------------------------------------------------------------------------
LEMMA InitLoop == Init => LoopInv
  <1> SUFFICES ASSUME Init PROVE LoopInv
    OBVIOUS
  <1>1. StopInv
    BY DEF Init, StopInv, PCs
  <1>2. FreshInv
    BY CollectorAssumption DEF Init, FreshInv
  <1> QED BY <1>1, <1>2 DEF LoopInv

LEMMA StopStep == LoopInv /\ [Next]_vars => StopInv'
  <1> SUFFICES ASSUME LoopInv, [Next]_vars PROVE StopInv'
    OBVIOUS
  <1> USE DEF LoopInv, StopInv, PCs
  <1>1. CASE StartMonitors
    BY <1>1 DEF StartMonitors
  <1>2. CASE WriteHeader
    BY <1>2 DEF WriteHeader
  <1>3. CASE Collect
    BY <1>3 DEF Collect
  <1>4. CASE FlushInit
    BY <1>4 DEF FlushInit
  <1>5. CASE BeginA
    BY <1>5 DEF BeginA
  <1>6. CASE BeginB
    BY <1>6 DEF BeginB
  <1>7. CASE EndInterval
    BY <1>7 DEF EndInterval
  <1>8. CASE Elapsed
    BY <1>8 DEF Elapsed
  <1>9. CASE StopSelected
    BY <1>9 DEF StopSelected
  <1>10. ASSUME NEW m \in Pings, StopMonitor(m) PROVE StopInv'
    BY <1>10 DEF StopMonitor, loopVars
  <1>11. ASSUME NEW m \in Pings, MonitorStops(m) PROVE StopInv'
    BY <1>11 DEF MonitorStops, loopVars
  <1>12. CASE RunReturns
    BY <1>12 DEF RunReturns
  <1>13. CASE Close
    BY <1>13 DEF Close
  <1>14. CASE Signal \/ SignalStep
    BY <1>14 DEF Signal, SignalStep, Cancel, CloseStop, loopVars
  <1>15. CASE Dies
    BY <1>15 DEF Dies
  <1>16. ASSUME NEW x \in Things, Change(x) PROVE StopInv'
    BY <1>16 DEF Change, loopVars
  <1>17. CASE UNCHANGED vars
    BY <1>17 DEF vars, loopVars
  <1> QED
    BY <1>1, <1>2, <1>3, <1>4, <1>5, <1>6, <1>7, <1>8, <1>9, <1>10, <1>11, <1>12, <1>13,
       <1>14, <1>15, <1>16, <1>17 DEF Next, MainStep, HostStep, Ended

LEMMA FreshStep == LoopInv /\ [Next]_vars => FreshInv'
  <1> SUFFICES ASSUME LoopInv, [Next]_vars PROVE FreshInv'
    OBVIOUS
  <1> USE CollectorAssumption DEF LoopInv, FreshInv
  <1>1. CASE StartMonitors
    BY <1>1 DEF StartMonitors, hostVars, Wrong
  <1>2. CASE WriteHeader
    BY <1>2 DEF WriteHeader, hostVars, Wrong
  <1>3. CASE Collect
    BY <1>3 DEF Collect, hostVars, Wrong
  <1>4. CASE FlushInit
    BY <1>4 DEF FlushInit, hostVars, Wrong
  <1>5. CASE BeginA
    <2>1. PICK unseen \in SUBSET live :
             /\ RefreshDynamicState(unseen)
             /\ overlooked' = [x \in Things |-> overlooked[x] + IF x \in unseen THEN 1 ELSE 0]
      BY <1>5 DEF BeginA
    <2>2. found' = live \ unseen
      BY <2>1 DEF RefreshDynamicState, DiscoverInterfaces, DiscoverQEMUPIDs, DiscoverCgroupPaths,
                  Things
    <2>3. UNCHANGED <<seq, live, missed>> /\ pc = "next" /\ pc' = "A" /\ (seq % 3) = 0
      BY <1>5 DEF BeginA
    <2>4. \A x \in Things : overlooked'[x] = IF x \in unseen THEN overlooked[x] + 1 ELSE overlooked[x]
      BY <2>1
    <2>5. overlooked' \in [Things -> Nat]
      BY <2>1
    <2>6. \A x \in Things : missed'[x] <= 3 * (1 + overlooked'[x])
      BY <2>3, <2>4
    <2>7. ASSUME NEW x \in Things, Wrong(x)' PROVE missed'[x] <= 3 * overlooked'[x]
      <3>1. x \in unseen
        BY <2>2, <2>3, <2>7 DEF Wrong
      <3>2. overlooked'[x] = overlooked[x] + 1 /\ missed[x] <= 3 * (1 + overlooked[x])
        BY <2>4, <3>1
      <3>3. overlooked[x] \in Nat /\ missed[x] \in Nat
        OBVIOUS
      <3> QED BY <2>3, <3>2, <3>3
    <2>8. found' \subseteq Things
      BY <2>2
    <2> QED BY <2>3, <2>5, <2>6, <2>7, <2>8
  <1>6. CASE BeginB
    <2>1. \A x \in Things : missed'[x] = IF Wrong(x) THEN missed[x] + 1 ELSE 0
      BY <1>6 DEF BeginB
    <2>2. \A x \in Things : overlooked'[x] = IF Wrong(x) THEN overlooked[x] ELSE 0
      BY <1>6 DEF BeginB
    <2>3. \A x \in Things : Wrong(x) => missed[x] <= 3 * overlooked[x] + (seq % 3)
      <3>1. CASE pc = "next" /\ (seq % 3) # 0
        BY <3>1
      <3>2. CASE pc = "A"
        BY <3>2
      <3> QED BY <1>6, <3>1, <3>2 DEF BeginB
    <2>4. (seq % 3) \in 0 .. 2
      OBVIOUS
    <2>5. ASSUME NEW x \in Things
          PROVE  /\ missed'[x] \in Nat /\ overlooked'[x] \in Nat
                 /\ missed'[x] <= 3 * overlooked'[x] + (seq % 3) + 1
                 /\ missed'[x] <= 3 * (1 + overlooked'[x])
      <3>1. missed[x] \in Nat /\ overlooked[x] \in Nat
        OBVIOUS
      <3>2. CASE Wrong(x)
        BY <2>1, <2>2, <2>3, <2>4, <3>1, <3>2
      <3>3. CASE ~Wrong(x)
        <4>1. missed'[x] = 0 /\ overlooked'[x] = 0
          BY <2>1, <2>2, <3>3
        <4> QED BY <2>4, <4>1
      <3> QED BY <3>2, <3>3
    <2>6. missed' \in [Things -> Nat] /\ overlooked' \in [Things -> Nat]
      <3>1. missed' = [x \in Things |-> missed'[x]] /\ overlooked' = [x \in Things |-> overlooked'[x]]
        BY <1>6 DEF BeginB
      <3> QED BY <2>5, <3>1
    <2>7. UNCHANGED <<seq, live, found>> /\ pc' = "B" /\ pc \in {"next", "A"}
      BY <1>6 DEF BeginB
    <2> QED BY <2>5, <2>6, <2>7
  <1>7. CASE EndInterval
    <2>1. ((seq + 1) % 3) # 0 => ((seq + 1) % 3) = (seq % 3) + 1
      OBVIOUS
    <2> QED BY <1>7, <2>1 DEF EndInterval, hostVars
  <1>8. CASE Elapsed
    BY <1>8 DEF Elapsed, hostVars
  <1>9. CASE StopSelected
    BY <1>9 DEF StopSelected, hostVars
  <1>10. ASSUME NEW m \in Pings, StopMonitor(m) PROVE FreshInv'
    BY <1>10 DEF StopMonitor, loopVars, hostVars, Wrong
  <1>11. ASSUME NEW m \in Pings, MonitorStops(m) PROVE FreshInv'
    BY <1>11 DEF MonitorStops, loopVars, hostVars, Wrong
  <1>12. CASE RunReturns
    BY <1>12 DEF RunReturns, hostVars
  <1>13. CASE Close
    BY <1>13 DEF Close, hostVars
  <1>14. CASE Signal \/ SignalStep
    BY <1>14 DEF Signal, SignalStep, Cancel, CloseStop, loopVars, hostVars, Wrong
  <1>15. CASE Dies
    BY <1>15 DEF Dies, hostVars
  <1>16. ASSUME NEW x \in Things, Change(x) PROVE FreshInv'
    <2>1. \A y \in Things : missed'[y] = IF y = x THEN 0 ELSE missed[y]
      BY <1>16 DEF Change
    <2>2. \A y \in Things : y # x => (Wrong(y)' <=> Wrong(y))
      BY <1>16 DEF Change, Wrong
    <2>3. missed' \in [Things -> Nat] /\ overlooked' \in [Things -> Nat] /\ live' \subseteq Things
      BY <1>16 DEF Change
    <2>4. (seq % 3) \in 0 .. 2
      OBVIOUS
    <2>5. UNCHANGED <<pc, seq, found>>
      BY <1>16 DEF Change, loopVars
    <2>6. \A y \in Things : overlooked'[y] = IF y = x THEN 0 ELSE overlooked[y]
      BY <1>16 DEF Change
    <2>7. \A y \in Things : (missed'[y] = 0 /\ overlooked'[y] = 0)
                              \/ (y # x /\ missed'[y] = missed[y] /\ overlooked'[y] = overlooked[y])
      BY <2>1, <2>6
    <2>8. \A y \in Things : missed'[y] <= 3 * (1 + overlooked'[y])
      BY <2>7
    <2>9. pc = "A" => \A y \in Things : Wrong(y)' => missed'[y] <= 3 * overlooked'[y]
      BY <2>2, <2>7
    <2>10. pc = "next" /\ (seq % 3) # 0 =>
              \A y \in Things : missed'[y] <= 3 * overlooked'[y] + (seq % 3)
      BY <2>4, <2>7
    <2>11. pc \in {"next", "A"}
      BY <1>16 DEF Change
    <2> QED BY <2>3, <2>5, <2>8, <2>9, <2>10, <2>11
  <1>17. CASE UNCHANGED vars
    BY <1>17 DEF vars, loopVars, hostVars, Wrong
  <1> QED
    BY <1>1, <1>2, <1>3, <1>4, <1>5, <1>6, <1>7, <1>8, <1>9, <1>10, <1>11, <1>12, <1>13,
       <1>14, <1>15, <1>16, <1>17 DEF Next, MainStep, HostStep, Ended

LEMMA LoopInvariance == Spec => []LoopInv
  <1>1. LoopInv /\ [Next]_vars => LoopInv'
    BY StopStep, FreshStep DEF LoopInv
  <1> QED BY InitLoop, <1>1, PTL DEF Spec

\* No monitor outlives Run, on its error returns too.
THEOREM NoMonitorLeft == Spec => []MonitorsStopped
  <1>1. LoopInv => MonitorsStopped
    BY DEF LoopInv, StopInv, MonitorsStopped
  <1> QED BY LoopInvariance, <1>1, PTL

\* However many processes, cgroups and interfaces come and go, and whatever a
\* refresh fails to see, a list that leaves one out or has one that is gone is
\* used by three B sections at most, and by three more for each refresh that did
\* not see what was there.
THEOREM Freshness == Spec => []ListsAreFresh
  <1>1. LoopInv => ListsAreFresh
    BY DEF LoopInv, FreshInv, ListsAreFresh
  <1> QED BY LoopInvariance, <1>1, PTL

-----------------------------------------------------------------------------
(* What is written, kept and lost.                                         *)

Samples == [src : Sources, n : 0 .. MaxSeq]

LogType ==
    /\ log \in Seq(Samples) /\ buffered \in Seq(Samples)
    /\ durable \in 0 .. Len(log)

\* What has been accepted and not lost.
Accepted == Range(log) \cup Range(buffered)

\* A step that leaves what is on disk there.
LogKept ==
    /\ LogType'
    /\ durable <= durable'
    /\ \A i \in 1 .. durable : log'[i] = log[i]

\* A sequence cut in two has the elements it had.
LEMMA CutInTwo ==
  ASSUME NEW S, NEW q \in Seq(S), NEW m \in 0 .. Len(q)
  PROVE  /\ SubSeq(q, 1, m) \in Seq(S) /\ SubSeq(q, m + 1, Len(q)) \in Seq(S)
         /\ Range(SubSeq(q, 1, m)) \cup Range(SubSeq(q, m + 1, Len(q))) = Range(q)
  <1> DEFINE a == SubSeq(q, 1, m)
             b == SubSeq(q, m + 1, Len(q))
  <1>1. Len(q) \in Nat /\ \A i \in 1 .. Len(q) : q[i] \in S
    BY LenProperties
  <1>2. a \in Seq(S)
    BY <1>1, SubSeqProperties
  <1>3. b \in Seq(S)
    BY <1>1, SubSeqProperties
  <1>4. a \o b = q
    <2>1. 1 \in 1 .. Len(q) + 1 /\ m \in 1 - 1 .. Len(q) /\ Len(q) \in m .. Len(q)
      BY <1>1
    <2>2. a \o b = SubSeq(q, 1, Len(q))
      BY <2>1, ConcatAdjacentSubSeq
    <2> QED BY <2>2, SubSeqFull
  <1> HIDE DEF a, b
  <1>5. Range(a \o b) = Range(a) \cup Range(b)
    BY <1>2, <1>3, RangeConcatenation
  <1>6. Range(a) \cup Range(b) = Range(q)
    BY <1>4, <1>5
  <1> QED BY <1>2, <1>3, <1>6 DEF a, b

\* A log with something appended keeps its beginning.
LEMMA LogGrows ==
  ASSUME LogType, NEW q \in Seq(Samples)
  PROVE  /\ log \o q \in Seq(Samples)
         /\ Len(log \o q) >= Len(log)
         /\ \A i \in 1 .. durable : (log \o q)[i] = log[i]
         /\ Range(log \o q) = Range(log) \cup Range(q)
  <1>1. Len(log) \in Nat /\ Len(q) \in Nat /\ log \in Seq(Samples) /\ durable \in 0 .. Len(log)
    BY LenProperties DEF LogType
  <1>2. /\ log \o q \in Seq(Samples)
        /\ Len(log \o q) = Len(log) + Len(q)
        /\ \A i \in 1 .. Len(log) + Len(q) : (log \o q)[i] = IF i <= Len(log) THEN log[i] ELSE q[i - Len(log)]
    BY <1>1, ConcatProperties
  <1>3. Range(log \o q) = Range(log) \cup Range(q)
    BY <1>1, RangeConcatenation
  <1> QED BY <1>1, <1>2, <1>3

LEMMA MoveKeeps ==
  ASSUME LogType, NEW q \in Seq(Samples), NEW m \in 0 .. Len(q), Log!Move(q, m), durable' = durable
  PROVE  LogKept /\ Accepted' = Range(log) \cup Range(q)
  <1> DEFINE a == SubSeq(q, 1, m)
             b == SubSeq(q, m + 1, Len(q))
  <1>1. a \in Seq(Samples) /\ b \in Seq(Samples) /\ Range(a) \cup Range(b) = Range(q)
    BY CutInTwo
  <1>2. log' = log \o a /\ buffered' = b
    BY DEF Log!Move
  <1>3. LogType'
    BY <1>1, <1>2, LogGrows, LenProperties DEF LogType
  <1>4. Accepted' = Range(log) \cup Range(a) \cup Range(b)
    BY <1>1, <1>2, LogGrows DEF Accepted
  <1>5. \A i \in 1 .. durable : log'[i] = log[i]
    BY <1>1, <1>2, LogGrows
  <1> QED BY <1>1, <1>3, <1>4, <1>5 DEF LogKept, LogType

LEMMA AcceptKeeps ==
  ASSUME LogType, NEW x \in Samples, Log!Accept(x)
  PROVE  LogKept /\ Accepted' = Accepted \cup {x}
  <1> DEFINE q == Append(buffered, x)
  <1>1. q \in Seq(Samples) /\ Len(q) = Len(buffered) + 1 /\ q = buffered \o <<x>>
    BY AppendProperties, AppendIsConcat DEF LogType
  <1>2. PICK m \in 0 .. Len(buffered) + 1 : Log!Move(q, m) /\ durable' = durable
    BY DEF Log!Accept
  <1>3. <<x>> \in Seq(Samples) /\ Range(<<x>>) = {x}
    BY DEF Range
  <1>4. Range(q) = Range(buffered) \cup {x}
    <2>1. buffered \in Seq(Samples)
      BY DEF LogType
    <2>2. Range(buffered \o <<x>>) = Range(buffered) \cup Range(<<x>>)
      BY <1>3, <2>1, RangeConcatenation
    <2> QED BY <1>1, <1>3, <2>2
  <1>5. LogKept /\ Accepted' = Range(log) \cup Range(q)
    BY <1>1, <1>2, MoveKeeps
  <1> QED BY <1>4, <1>5 DEF Accepted

LEMMA CommitKeeps ==
  ASSUME LogType, Log!Commit
  PROVE  LogKept /\ Accepted' = Accepted
  <1>1. PICK m \in 0 .. Len(buffered) : Log!Move(buffered, m) /\ durable' = durable
    BY DEF Log!Commit
  <1>2. buffered \in Seq(Samples)
    BY DEF LogType
  <1> QED BY <1>1, <1>2, MoveKeeps DEF Accepted

\* What was accepted before a flush that succeeds is on disk after it.
LEMMA PersistKeeps ==
  ASSUME LogType, Log!Persist
  PROVE  /\ LogKept /\ Accepted' = Accepted
         /\ \A s \in Accepted : \E i \in 1 .. durable' : log'[i] = s
  <1>1. log' = log \o buffered /\ buffered' = <<>> /\ durable' = Len(log') /\ buffered \in Seq(Samples)
    BY DEF Log!Persist, LogType
  <1>2. /\ log' \in Seq(Samples) /\ Len(log') >= Len(log)
        /\ \A i \in 1 .. durable : log'[i] = log[i]
        /\ Range(log') = Accepted
    BY <1>1, LogGrows DEF Accepted
  <1>3. Len(log') \in Nat /\ Len(log) \in Nat /\ DOMAIN log' = 1 .. Len(log')
    BY <1>2, LenProperties DEF LogType
  <1>4. LogKept
    BY <1>1, <1>2, <1>3, EmptySeq DEF LogKept, LogType
  <1>5. Range(<<>>) = {}
    BY DEF Range
  <1>6. Accepted' = Accepted
    BY <1>1, <1>2, <1>5 DEF Accepted
  <1>7. \A s \in Range(log') : \E i \in 1 .. durable' : log'[i] = s
    BY <1>1, <1>3 DEF Range
  <1> QED BY <1>2, <1>4, <1>6, <1>7

LEMMA DropKeeps ==
  ASSUME LogType, Log!Drop
  PROVE  LogKept
  <1>1. PICK m \in 0 .. Len(buffered) :
           log' = log \o SubSeq(buffered, 1, m) /\ buffered' = <<>> /\ durable' = durable
    BY DEF Log!Drop
  <1>2. SubSeq(buffered, 1, m) \in Seq(Samples)
    BY CutInTwo DEF LogType
  <1>3. LogType'
    BY <1>1, <1>2, LogGrows, LenProperties, EmptySeq DEF LogType
  <1> QED BY <1>1, <1>2, <1>3, LogGrows DEF LogKept, LogType

LEMMA PowerLossKeeps ==
  ASSUME LogType, Log!PowerLoss
  PROVE  LogKept
  <1>1. PICK m \in durable .. Len(log) :
           log' = SubSeq(log, 1, m) /\ buffered' = <<>> /\ durable' = durable
    BY DEF Log!PowerLoss
  <1>2. Len(log) \in Nat /\ durable \in 0 .. Len(log) /\ \A i \in 1 .. Len(log) : log[i] \in Samples
    BY LenProperties DEF LogType
  <1>3. /\ log' \in Seq(Samples) /\ Len(log') = m
        /\ \A i \in 1 .. m : log'[i] = log[i]
    BY <1>1, <1>2, SubSeqProperties
  <1> QED BY <1>1, <1>2, <1>3, EmptySeq DEF LogKept, LogType

LEMMA NothingWritten ==
  ASSUME LogType, UNCHANGED logVars
  PROVE  LogKept /\ Accepted' = Accepted
  <1>1. Len(log) \in Nat
    BY LenProperties DEF LogType
  <1> QED BY <1>1 DEF LogType, LogKept, Accepted, logVars

LEMMA WriteSampleKeeps ==
  ASSUME LogType, NEW x \in Samples, WriteSample(x), bad \in BOOLEAN
  PROVE  /\ LogKept /\ bad' \in BOOLEAN
         /\ ~bad' => ~bad /\ Accepted' = Accepted \cup {x}
  <1>1. CASE ~bad /\ Log!Accept(x) /\ UNCHANGED bad
    BY <1>1, AcceptKeeps
  <1>2. CASE ~bad /\ Log!Drop /\ bad' = TRUE
    BY <1>2, DropKeeps
  <1>3. CASE bad /\ UNCHANGED <<logVars, bad>>
    BY <1>3, NothingWritten
  <1> QED BY <1>1, <1>2, <1>3 DEF WriteSample

LEMMA FlushOKKeeps ==
  ASSUME LogType, FlushOK
  PROVE  /\ LogKept /\ Accepted' = Accepted
         /\ ~bad /\ UNCHANGED <<bad, warned>>
         /\ \A s \in Accepted : \E i \in 1 .. durable' : log'[i] = s
  BY PersistKeeps DEF FlushOK

LEMMA FlushErrorKeeps ==
  ASSUME LogType, FlushError, bad \in BOOLEAN
  PROVE  /\ LogKept /\ bad' \in BOOLEAN /\ warned'
         /\ ~bad' => ~bad /\ Accepted' = Accepted
  <1>1. CASE ~bad /\ Log!Drop /\ bad' = TRUE
    BY <1>1, DropKeeps DEF FlushError
  <1>2. CASE ~bad /\ Log!Commit /\ UNCHANGED bad
    BY <1>2, CommitKeeps DEF FlushError
  <1>3. CASE bad /\ UNCHANGED <<logVars, bad>>
    BY <1>3, NothingWritten DEF FlushError
  <1> QED BY <1>1, <1>2, <1>3 DEF FlushError

-----------------------------------------------------------------------------
DataInv ==
    /\ todo \in Seq(Sources)
    /\ LogType
    /\ stop \in {"open", "signalled", "cancelled", "closed"}
    /\ changes \in 0 .. MaxChanges
    /\ bad \in BOOLEAN /\ warned \in BOOLEAN

\* Every step of the program keeps what is on disk, and what is accepted unless
\* the writer has failed or the program has died.
Kept ==
    /\ LogKept
    /\ ~bad' /\ pc' # "dead" => ~bad /\ Accepted \subseteq Accepted'
    /\ ~warned' => ~warned

\* The sequence of a finite set has its elements.
LEMMA SeqOfSet ==
  ASSUME NEW S, IsFiniteSet(S)
  PROVE  SetToSeq(S) \in Seq(S) /\ Range(SetToSeq(S)) = S
  <1> DEFINE n == Cardinality(S)
  <1>1. n \in Nat /\ Bijection(1 .. n, S) # {}
    BY FS_CardinalityType DEF ExistsBijection
  <1>2. \E f \in [1 .. n -> S] : IsInjective(f)
    BY <1>1 DEF Bijection, Injection
  <1>3. SetToSeq(S) \in [1 .. n -> S] /\ IsInjective(SetToSeq(S))
    BY <1>2 DEF SetToSeq
  <1>4. SetToSeq(S) \in Injection(1 .. n, S)
    BY <1>3 DEF Injection
  <1>5. Cardinality(1 .. n) = n
    BY <1>1, FS_Interval
  <1>6. SetToSeq(S) \in Surjection(1 .. n, S)
    BY <1>4, <1>5, FS_Injection
  <1>7. SetToSeq(S) \in Seq(S)
    BY <1>1, <1>3
  <1>8. Range(SetToSeq(S)) = S
    BY <1>3, <1>6 DEF Surjection, Range
  <1> QED BY <1>7, <1>8

LEMMA Joined ==
  ASSUME NEW S, NEW a \in Seq(S), NEW b \in Seq(S)
  PROVE  a \o b \in Seq(S) /\ Range(a \o b) = Range(a) \cup Range(b)
  BY ConcatProperties, RangeConcatenation

LEMMA One ==
  ASSUME NEW S, NEW x \in S
  PROVE  <<x>> \in Seq(S) /\ Range(<<x>>) = {x}
  BY DEF Range

LEMMA JoinedSources ==
  ASSUME NEW S, S \subseteq Sources, IsFiniteSet(S), NEW a \in Seq(Sources)
  PROVE  a \o SetToSeq(S) \in Seq(Sources) /\ Range(a \o SetToSeq(S)) = Range(a) \cup S
  <1>1. SetToSeq(S) \in Seq(S) /\ Range(SetToSeq(S)) = S
    BY SeqOfSet
  <1>2. SetToSeq(S) \in Seq(Sources)
    BY <1>1, SeqMonotonic
  <1> QED BY <1>1, <1>2, Joined

\* What the sections collect.
LEMMA ASources ==
  ASSUME NEW F
  PROVE  /\ <<"A">> \o SetToSeq(F \cap Ifaces) \in Seq(Sources)
         /\ "A" \in Range(<<"A">> \o SetToSeq(F \cap Ifaces))
  <1>1. IsFiniteSet(F \cap Ifaces) /\ F \cap Ifaces \subseteq Sources
    BY CollectorAssumption, FS_Intersection DEF Sources, Things
  <1> DEFINE a == <<"A">>
  <1>2. a \in Seq(Sources) /\ Range(a) = {"A"}
    BY One DEF Sources, Fixed
  <1> HIDE DEF a
  <1>3. a \o SetToSeq(F \cap Ifaces) \in Seq(Sources) /\ "A" \in Range(a \o SetToSeq(F \cap Ifaces))
    BY <1>1, <1>2, JoinedSources
  <1> QED BY <1>3 DEF a

LEMMA SectionSources ==
  BSources \in Seq(Sources) /\ {"B"} \cup Pings \subseteq Range(BSources)
  <1>1. /\ IsFiniteSet(found \cap Cgroups) /\ found \cap Cgroups \subseteq Sources
        /\ IsFiniteSet(found \cap VMs) /\ found \cap VMs \subseteq Sources
        /\ IsFiniteSet(Pings) /\ Pings \subseteq Sources
    BY CollectorAssumption, FS_Intersection DEF Sources, Things
  <1> DEFINE b == <<"B">>
             c == b \o SetToSeq(found \cap Cgroups)
             v == c \o SetToSeq(found \cap VMs)
             p == v \o SetToSeq(Pings)
  <1>2. b \in Seq(Sources) /\ Range(b) = {"B"}
    BY One DEF Sources, Fixed
  <1>3. c \in Seq(Sources) /\ Range(c) = {"B"} \cup (found \cap Cgroups)
    <2> HIDE DEF b
    <2> QED BY <1>1, <1>2, JoinedSources
  <1>4. v \in Seq(Sources) /\ "B" \in Range(v)
    <2> HIDE DEF c
    <2>1. v \in Seq(Sources) /\ Range(v) = Range(c) \cup (found \cap VMs)
      BY <1>1, <1>3, JoinedSources
    <2> QED BY <1>3, <2>1
  <1>5. p \in Seq(Sources) /\ {"B"} \cup Pings \subseteq Range(p)
    <2> HIDE DEF v
    <2>1. p \in Seq(Sources) /\ Range(p) = Range(v) \cup Pings
      BY <1>1, <1>4, JoinedSources
    <2> QED BY <1>4, <2>1
  <1> QED BY <1>5 DEF BSources

LEMMA InitData == Init => DataInv
  <1> SUFFICES ASSUME Init PROVE DataInv
    OBVIOUS
  <1>1. /\ log = <<>> /\ buffered = <<>> /\ durable = 0
        /\ todo = <<>> /\ stop = "open" /\ changes = 0 /\ bad = FALSE /\ warned = FALSE
    BY DEF Init, Log!LogInit
  <1>2. log \in Seq(Samples) /\ buffered \in Seq(Samples) /\ todo \in Seq(Sources) /\ Len(log) = 0
    BY <1>1, EmptySeq
  <1>3. durable \in 0 .. Len(log) /\ changes \in 0 .. MaxChanges
    BY <1>1, <1>2, CollectorAssumption
  <1> QED BY <1>1, <1>2, <1>3 DEF DataInv, LogType

LEMMA DataStep == LoopInv /\ DataInv /\ [Next]_vars => DataInv' /\ Kept
  <1> SUFFICES ASSUME LoopInv, DataInv, [Next]_vars PROVE DataInv' /\ Kept
    OBVIOUS
  <1> USE DEF DataInv, Kept
  <1>0. UNCHANGED logVars => LogKept /\ Accepted' = Accepted
    BY NothingWritten
  <1>a. LogKept => LogType'
    BY DEF LogKept
  <1>1. CASE StartMonitors
    BY <1>0, <1>1, <1>a DEF StartMonitors, hostVars
  <1>2. CASE WriteHeader
    <2>1. "init" \in Sources
      BY DEF Sources, Fixed
    <2>2. <<"init">> \in Seq(Sources)
      BY <2>1, One
    <2>3. todo' \in Seq(Sources)
      BY <1>2, <2>2 DEF WriteHeader
    <2>4. /\ UNCHANGED <<stop, changes, warned>> /\ UNCHANGED logVars
          /\ bad' \in BOOLEAN /\ (~bad' => ~bad)
      BY <1>2 DEF WriteHeader, hostVars
    <2> QED BY <1>0, <1>a, <2>3, <2>4
  <1>3. CASE Collect
    <2>1. /\ todo # <<>> /\ todo' = Tail(todo) /\ WriteSample([src |-> Head(todo), n |-> seq])
          /\ UNCHANGED <<pc, stop, changes, warned>>
      BY <1>3 DEF Collect, hostVars
    <2>2. Head(todo) \in Sources /\ Tail(todo) \in Seq(Sources)
      BY <2>1, HeadTailProperties
    <2>3. [src |-> Head(todo), n |-> seq] \in Samples
      BY <2>2 DEF Samples, LoopInv, FreshInv
    <2> QED BY <1>a, <2>1, <2>2, <2>3, WriteSampleKeeps
  <1>4. CASE FlushInit
    BY <1>4, <1>a, FlushOKKeeps, FlushErrorKeeps DEF FlushInit, hostVars
  <1>5. CASE BeginA
    <2>1. changes' \in 0 .. MaxChanges
      BY <1>3, <1>5, CollectorAssumption DEF BeginA
    <2> QED BY <1>0, <1>5, <1>a, <2>1, ASources DEF BeginA
  <1>6. CASE BeginB
    BY <1>0, <1>6, <1>a, SectionSources DEF BeginB
  <1>7. CASE EndInterval
    <2>1. CASE FlushDue
      BY <1>7, <1>a, <2>1, FlushOKKeeps, FlushErrorKeeps DEF EndInterval, hostVars
    <2>2. CASE ~FlushDue
      BY <1>0, <1>7, <1>a, <2>2 DEF EndInterval, hostVars
    <2> QED BY <2>1, <2>2
  <1>8. CASE Elapsed
    BY <1>0, <1>8, <1>a DEF Elapsed, hostVars
  <1>9. CASE StopSelected
    BY <1>0, <1>9, <1>a DEF StopSelected, hostVars
  <1>10. ASSUME NEW m \in Pings, StopMonitor(m) \/ MonitorStops(m) PROVE DataInv' /\ Kept
    BY <1>0, <1>10, <1>a DEF StopMonitor, MonitorStops, loopVars, hostVars
  <1>11. CASE RunReturns
    BY <1>0, <1>11, <1>a DEF RunReturns, hostVars
  <1>12. CASE Close
    BY <1>12, <1>a, FlushOKKeeps, FlushErrorKeeps DEF Close, hostVars
  <1>13. CASE Signal \/ SignalStep
    BY <1>0, <1>13, <1>a DEF Signal, SignalStep, Cancel, CloseStop, loopVars, hostVars
  <1>14. CASE Dies
    BY <1>14, <1>a, DropKeeps, PowerLossKeeps DEF Dies, hostVars
  <1>15. ASSUME NEW x \in Things, Change(x) PROVE DataInv' /\ Kept
    BY <1>0, <1>15, <1>a, CollectorAssumption DEF Change, loopVars
  <1>16. CASE UNCHANGED vars
    BY <1>0, <1>16, <1>a DEF vars, loopVars, hostVars
  <1> QED
    BY <1>1, <1>2, <1>3, <1>4, <1>5, <1>6, <1>7, <1>8, <1>9, <1>10, <1>11, <1>12, <1>13,
       <1>14, <1>15, <1>16 DEF Next, MainStep, HostStep, Ended

LEMMA DataInvariance == Spec => [](LoopInv /\ DataInv)
  <1>1. LoopInv /\ DataInv /\ [Next]_vars => (LoopInv /\ DataInv)'
    BY StopStep, FreshStep, DataStep DEF LoopInv
  <1> QED BY InitLoop, InitData, <1>1, PTL DEF Spec

\* Every variable has its type; the bounds of the counters hold.
THEOREM TypeCorrect == Spec => []TypeOK
  <1>1. LoopInv /\ DataInv => TypeOK
    <2> SUFFICES ASSUME LoopInv, DataInv PROVE TypeOK
      OBVIOUS
    <2>1. \A q \in Seq(Samples) : {q[i] : i \in DOMAIN q} \subseteq Samples
      BY LenProperties
    <2>2. missed \in [Things -> Nat]
      BY DEF LoopInv, FreshInv
    <2> QED BY <2>1, <2>2 DEF LoopInv, StopInv, FreshInv, DataInv, TypeOK, LogType, Samples, PCs
  <1> QED BY DataInvariance, <1>1, PTL

-----------------------------------------------------------------------------
(* What a crash loses.                                                     *)

Rec(x, r) == [src |-> x, n |-> r]

\* Unless the writer has failed, what was due has been accepted or is still to
\* be collected.
AcceptedInv ==
    ~bad /\ pc # "dead" =>
        /\ \A r \in 0 .. seq - 1 : \A x \in Due(r) : Rec(x, r) \in Accepted
        /\ pc = "A" => Rec("A", seq) \in Accepted \/ "A" \in Range(todo)
        /\ pc = "B" => \A x \in Due(seq) : Rec(x, seq) \in Accepted \/ x \in Range(todo)

\* A flush that was due is on disk, unless one has failed; so is everything
\* once the program has exited.
FlushedInv ==
    ~warned =>
        /\ \A q \in 1 .. seq : (q % FlushInterval) = 0 => \A r \in 0 .. q - 1 : Safe(r)
        /\ pc = "exited" => \A r \in 0 .. seq - 1 : Safe(r)

LossInv == AcceptedInv /\ FlushedInv

LEMMA SafeStays == ASSUME DataInv, Kept PROVE \A r \in Int : Safe(r) => Safe(r)'
  <1>1. durable \in Nat /\ durable' \in Nat /\ durable <= durable'
    <2>1. Len(log) \in Nat /\ Len(log') \in Nat
      BY LenProperties DEF Kept, LogKept, LogType, DataInv
    <2> QED BY <2>1 DEF Kept, LogKept, LogType, DataInv
  <1>2. \A i \in 1 .. durable : i \in 1 .. durable' /\ log'[i] = log[i]
    BY <1>1 DEF Kept, LogKept
  <1> SUFFICES ASSUME NEW r \in Int, Safe(r), NEW x \in Due(r)
               PROVE  \E i \in 1 .. durable' : log'[i] = [src |-> x, n |-> r]
    BY DEF Safe, Due
  <1>3. PICK i \in 1 .. durable : log[i] = [src |-> x, n |-> r]
    BY DEF Safe
  <1> QED BY <1>2, <1>3

LEMMA InitLoss == Init => LossInv
  <1> SUFFICES ASSUME Init PROVE LossInv
    OBVIOUS
  <1>1. seq = 0 /\ pc = "start"
    BY DEF Init
  <1> QED BY <1>1 DEF LossInv, AcceptedInv, FlushedInv

\* Steps that neither collect nor end an interval.
LEMMA OtherSteps ==
  ASSUME LoopInv, DataInv, LossInv, Kept, seq' = seq,
         pc' = "exited" => pc = "exited",
         pc' \in {"A", "B"} => UNCHANGED <<pc, todo>>,
         pc = "dead" => pc' = "dead"
  PROVE  LossInv'
  <1>0. seq \in Int
    BY DEF LoopInv, FreshInv
  <1>1. AcceptedInv'
    <2> SUFFICES ASSUME ~bad', pc' # "dead"
                 PROVE  /\ \A r \in 0 .. seq - 1 : \A x \in Due(r) : Rec(x, r) \in Accepted'
                        /\ pc' = "A" => Rec("A", seq) \in Accepted' \/ "A" \in Range(todo')
                        /\ pc' = "B" => \A x \in Due(seq) : Rec(x, seq) \in Accepted' \/ x \in Range(todo')
      BY DEF AcceptedInv, Due, Rec
    <2>1. ~bad /\ pc # "dead" /\ Accepted \subseteq Accepted'
      BY DEF Kept
    <2> QED BY <2>1 DEF LossInv, AcceptedInv
  <1>2. FlushedInv'
    <2> SUFFICES ASSUME ~warned'
                 PROVE  /\ \A q \in 1 .. seq : (q % FlushInterval) = 0 => \A r \in 0 .. q - 1 : Safe(r)'
                        /\ pc' = "exited" => \A r \in 0 .. seq - 1 : Safe(r)'
      BY DEF FlushedInv
    <2>1. ~warned
      BY DEF Kept
    <2> QED BY <1>0, <2>1, SafeStays DEF LossInv, FlushedInv
  <1> QED BY <1>1, <1>2 DEF LossInv

LEMMA SectionBegins ==
  ASSUME LoopInv, DataInv, LossInv, Kept, BeginA \/ BeginB
  PROVE  LossInv'
  <1>0. seq \in Int /\ seq' = seq /\ Accepted' = Accepted /\ bad' = bad /\ pc # "dead"
    BY NothingWritten DEF LoopInv, FreshInv, DataInv, BeginA, BeginB
  <1>1. AcceptedInv'
    <2> SUFFICES ASSUME ~bad
                 PROVE  /\ \A r \in 0 .. seq - 1 : \A x \in Due(r) : Rec(x, r) \in Accepted
                        /\ pc' = "A" => Rec("A", seq) \in Accepted \/ "A" \in Range(todo')
                        /\ pc' = "B" => \A x \in Due(seq) : Rec(x, seq) \in Accepted \/ x \in Range(todo')
      BY <1>0 DEF AcceptedInv, Due, Rec
    <2>1. \A r \in 0 .. seq - 1 : \A x \in Due(r) : Rec(x, r) \in Accepted
      BY <1>0 DEF LossInv, AcceptedInv
    <2>2. CASE BeginA
      BY <2>1, <2>2, ASources DEF BeginA
    <2>3. CASE BeginB
      <3>1. {"B"} \cup Pings \subseteq Range(todo') /\ pc' = "B"
        BY <2>3, SectionSources DEF BeginB
      <3>2. (seq % 3) = 0 => Rec("A", seq) \in Accepted
        <4> SUFFICES ASSUME (seq % 3) = 0 PROVE Rec("A", seq) \in Accepted
          OBVIOUS
        <4>1. pc = "A" /\ todo = <<>>
          BY <2>3 DEF BeginB
        <4> QED BY <1>0, <4>1 DEF LossInv, AcceptedInv, Range
      <3> QED BY <2>1, <3>1, <3>2 DEF Due
    <2> QED BY <2>2, <2>3
  <1>2. FlushedInv'
    <2>1. warned' = warned /\ pc' # "exited"
      BY DEF BeginA, BeginB
    <2> QED BY <1>0, <2>1, SafeStays DEF LossInv, FlushedInv
  <1> QED BY <1>1, <1>2 DEF LossInv

LEMMA OneCollected ==
  ASSUME LoopInv, DataInv, LossInv, Kept, Collect
  PROVE  LossInv'
  <1>1. /\ todo # <<>> /\ todo' = Tail(todo) /\ WriteSample(Rec(Head(todo), seq))
        /\ UNCHANGED <<pc, seq, warned>> /\ pc \in {"init", "A", "B"}
    BY DEF Collect, Rec
  <1>2. Head(todo) \in Sources /\ Range(todo) = {Head(todo)} \cup Range(Tail(todo))
    <2>1. /\ Len(todo) \in Nat /\ DOMAIN todo = 1 .. Len(todo)
          /\ Head(todo) \in Sources /\ Tail(todo) \in Seq(Sources)
          /\ Len(Tail(todo)) = Len(todo) - 1
          /\ \A i \in 1 .. Len(Tail(todo)) : Tail(todo)[i] = todo[i + 1]
      BY <1>1, HeadTailProperties, LenProperties DEF DataInv
    <2>2. Head(todo) = todo[1]
      BY <1>1 DEF DataInv
    <2>3. DOMAIN Tail(todo) = 1 .. Len(Tail(todo))
      BY <2>1, LenProperties
    <2>4. ASSUME NEW i \in DOMAIN todo
          PROVE  todo[i] = Head(todo) \/ \E j \in DOMAIN Tail(todo) : todo[i] = Tail(todo)[j]
      <3>1. CASE i = 1
        BY <2>2, <3>1
      <3>2. CASE i # 1
        <4>1. i - 1 \in 1 .. Len(Tail(todo)) /\ Tail(todo)[i - 1] = todo[i]
          BY <2>1, <2>4, <3>2
        <4> QED BY <2>3, <4>1
      <3> QED BY <3>1, <3>2
    <2>5. \A i \in DOMAIN Tail(todo) : \E j \in DOMAIN todo : Tail(todo)[i] = todo[j]
      BY <2>1, <2>3
    <2>6. 1 \in DOMAIN todo
      BY <1>1, <2>1, EmptySeq DEF DataInv
    <2>7. Range(todo) \subseteq {Head(todo)} \cup Range(Tail(todo))
      BY <2>4 DEF Range
    <2>8. {Head(todo)} \cup Range(Tail(todo)) \subseteq Range(todo)
      BY <2>2, <2>5, <2>6 DEF Range
    <2> QED BY <2>1, <2>7, <2>8
  <1>3. Rec(Head(todo), seq) \in Samples
    BY <1>2 DEF Rec, Samples, LoopInv, FreshInv
  <1>4. ~bad' => ~bad /\ Accepted' = Accepted \cup {Rec(Head(todo), seq)}
    BY <1>1, <1>3, WriteSampleKeeps DEF DataInv
  <1>5. AcceptedInv'
    <2> SUFFICES ASSUME ~bad', pc # "dead"
                 PROVE  /\ \A r \in 0 .. seq - 1 : \A x \in Due(r) : Rec(x, r) \in Accepted'
                        /\ pc = "A" => Rec("A", seq) \in Accepted' \/ "A" \in Range(todo')
                        /\ pc = "B" => \A x \in Due(seq) : Rec(x, seq) \in Accepted' \/ x \in Range(todo')
      BY <1>1 DEF AcceptedInv, Due, Rec
    <2> QED BY <1>1, <1>2, <1>4 DEF LossInv, AcceptedInv
  <1>6. FlushedInv'
    <2>1. seq \in Int
      BY DEF LoopInv, FreshInv
    <2> QED BY <1>1, <2>1, SafeStays DEF LossInv, FlushedInv
  <1> QED BY <1>5, <1>6 DEF LossInv

LEMMA IntervalEnds ==
  ASSUME LoopInv, DataInv, LossInv, Kept, EndInterval
  PROVE  LossInv'
  <1>0. seq \in Nat /\ seq' = seq + 1 /\ pc = "B" /\ pc' = "wait" /\ todo = <<>> /\ todo' = todo
    BY DEF LoopInv, FreshInv, EndInterval
  <1>1. ~bad => \A r \in 0 .. seq : \A x \in Due(r) : Rec(x, r) \in Accepted
    <2> SUFFICES ASSUME ~bad, NEW r \in 0 .. seq, NEW x \in Due(r) PROVE Rec(x, r) \in Accepted
      OBVIOUS
    <2>1. CASE r = seq
      BY <1>0, <2>1 DEF LossInv, AcceptedInv, Range
    <2>2. CASE r # seq
      <3>1. r \in 0 .. seq - 1
        BY <1>0, <2>2
      <3> QED BY <1>0, <3>1 DEF LossInv, AcceptedInv
    <2> QED BY <2>1, <2>2
  <1>2. AcceptedInv'
    <2> SUFFICES ASSUME ~bad' PROVE \A r \in 0 .. seq : \A x \in Due(r) : Rec(x, r) \in Accepted'
      BY <1>0 DEF AcceptedInv, Due, Rec
    <2>1. ~bad /\ Accepted \subseteq Accepted'
      BY <1>0 DEF Kept
    <2> QED BY <1>1, <2>1
  <1>3. FlushedInv'
    <2> SUFFICES ASSUME ~warned', NEW q \in 1 .. seq + 1, (q % FlushInterval) = 0, NEW r \in 0 .. q - 1
                 PROVE  Safe(r)'
      BY <1>0 DEF FlushedInv
    <2>1. ~warned
      BY DEF Kept
    <2>2. CASE q = seq + 1
      <3>1. FlushOK
        BY <2>2, FlushErrorKeeps DEF EndInterval, FlushDue, DataInv
      <3>2. ~bad /\ \A s \in Accepted : \E i \in 1 .. durable' : log'[i] = s
        BY <3>1, FlushOKKeeps DEF DataInv
      <3>3. \A x \in Due(r) : Rec(x, r) \in Accepted
        BY <1>0, <1>1, <2>2, <3>2
      <3> QED BY <3>2, <3>3 DEF Safe, Due, Rec
    <2>3. CASE q # seq + 1
      <3>1. q \in 1 .. seq
        BY <1>0, <2>3
      <3>2. Safe(r)
        BY <2>1, <3>1 DEF LossInv, FlushedInv
      <3> QED BY <3>1, <3>2, SafeStays
    <2> QED BY <2>2, <2>3
  <1> QED BY <1>2, <1>3 DEF LossInv

LEMMA Closes ==
  ASSUME LoopInv, DataInv, LossInv, Kept, Close
  PROVE  LossInv'
  <1>0. seq \in Nat /\ seq' = seq /\ pc = "close" /\ pc' = "exited"
    BY DEF LoopInv, FreshInv, Close
  <1>1. AcceptedInv'
    <2> SUFFICES ASSUME ~bad' PROVE \A r \in 0 .. seq - 1 : \A x \in Due(r) : Rec(x, r) \in Accepted'
      BY <1>0 DEF AcceptedInv, Due, Rec
    <2>1. ~bad /\ Accepted \subseteq Accepted'
      BY <1>0 DEF Kept
    <2> QED BY <1>0, <2>1 DEF LossInv, AcceptedInv
  <1>2. FlushedInv'
    <2> SUFFICES ASSUME ~warned'
                 PROVE  /\ \A q \in 1 .. seq : (q % FlushInterval) = 0 => \A r \in 0 .. q - 1 : Safe(r)'
                        /\ \A r \in 0 .. seq - 1 : Safe(r)'
      BY <1>0 DEF FlushedInv
    <2>1. ~warned
      BY DEF Kept
    <2>2. FlushOK
      BY FlushErrorKeeps DEF Close, DataInv
    <2>3. ~bad /\ \A s \in Accepted : \E i \in 1 .. durable' : log'[i] = s
      BY <2>2, FlushOKKeeps DEF DataInv
    <2>4. \A r \in 0 .. seq - 1 : \A x \in Due(r) : Rec(x, r) \in Accepted
      BY <1>0, <2>3 DEF LossInv, AcceptedInv
    <2>5. \A r \in 0 .. seq - 1 : Safe(r)'
      BY <2>3, <2>4 DEF Safe, Due, Rec
    <2> QED BY <1>0, <2>5
  <1> QED BY <1>1, <1>2 DEF LossInv

LEMMA LossStep == LoopInv /\ DataInv /\ LossInv /\ [Next]_vars => LossInv'
  <1> SUFFICES ASSUME LoopInv, DataInv, LossInv, [Next]_vars PROVE LossInv'
    OBVIOUS
  <1>0. Kept
    BY DataStep
  <1>1. CASE StartMonitors
    BY <1>0, <1>1, OtherSteps DEF StartMonitors
  <1>2. CASE WriteHeader
    BY <1>0, <1>2, OtherSteps DEF WriteHeader
  <1>3. CASE Collect
    BY <1>0, <1>3, OneCollected
  <1>4. CASE FlushInit
    BY <1>0, <1>4, OtherSteps DEF FlushInit
  <1>5. CASE BeginA \/ BeginB
    BY <1>0, <1>5, SectionBegins
  <1>6. CASE EndInterval
    BY <1>0, <1>6, IntervalEnds
  <1>7. CASE Elapsed
    BY <1>0, <1>7, OtherSteps DEF Elapsed
  <1>8. CASE StopSelected
    BY <1>0, <1>8, OtherSteps DEF StopSelected
  <1>9. ASSUME NEW m \in Pings, StopMonitor(m) \/ MonitorStops(m) PROVE LossInv'
    BY <1>0, <1>9, OtherSteps DEF StopMonitor, MonitorStops, loopVars
  <1>10. CASE RunReturns
    BY <1>0, <1>10, OtherSteps DEF RunReturns
  <1>11. CASE Close
    BY <1>0, <1>11, Closes
  <1>12. CASE Signal \/ SignalStep
    BY <1>0, <1>12, OtherSteps DEF Signal, SignalStep, Cancel, CloseStop, loopVars
  <1>13. CASE Dies
    BY <1>0, <1>13, OtherSteps DEF Dies
  <1>14. ASSUME NEW x \in Things, Change(x) PROVE LossInv'
    BY <1>0, <1>14, OtherSteps DEF Change, loopVars
  <1>15. CASE UNCHANGED vars
    BY <1>0, <1>15, OtherSteps DEF vars, loopVars
  <1> QED
    BY <1>1, <1>2, <1>3, <1>4, <1>5, <1>6, <1>7, <1>8, <1>9, <1>10, <1>11, <1>12, <1>13,
       <1>14, <1>15 DEF Next, MainStep, HostStep, Ended

LEMMA LossInvariance == Spec => [](LoopInv /\ LossInv)
  <1>1. LoopInv /\ DataInv /\ LossInv /\ [Next]_vars => (LoopInv /\ DataInv /\ LossInv)'
    BY StopStep, FreshStep, DataStep, LossStep DEF LoopInv
  <1> QED BY InitLoop, InitData, InitLoss, <1>1, PTL DEF Spec

\* Among n numbers in a row one is a multiple of n.
LEMMA MultipleAhead ==
  ASSUME NEW r \in Nat, NEW n \in Nat \ {0}
  PROVE  \E q \in r + 1 .. r + n : (q % n) = 0
  <1>1. r = n * (r \div n) + (r % n) /\ (r % n) \in 0 .. n - 1
    OBVIOUS
  <1>2. r + n - (r % n) = n * ((r \div n) + 1)
    BY <1>1, SMTT(30)
  <1>3. \A k \in Int : ((n * k) % n) = 0
    BY SMTT(30)
  <1> QED BY <1>1, <1>2, <1>3

\* Whatever the flush interval: unless a Flush returned an error, a crash or a
\* power loss leaves all but the last FlushInterval intervals on disk.
THEOREM BoundedLoss == Spec => []CrashLosesAtMostN
  <1>1. LoopInv /\ LossInv => CrashLosesAtMostN
    <2> SUFFICES ASSUME LoopInv, LossInv, ~warned, NEW r \in 0 .. seq - FlushInterval PROVE Safe(r)
      BY DEF CrashLosesAtMostN
    <2>1. seq \in Nat /\ FlushInterval \in Nat \ {0}
      BY CollectorAssumption DEF LoopInv, FreshInv, FlushInterval
    <2>2. PICK q \in r + 1 .. r + FlushInterval : (q % FlushInterval) = 0
      <3>1. r \in Nat
        OBVIOUS
      <3> QED BY <2>1, <3>1, MultipleAhead
    <2>3. q \in 1 .. seq /\ r \in 0 .. q - 1
      BY <2>1, <2>2
    <2> QED BY <2>2, <2>3 DEF LossInv, FlushedInv
  <1> QED BY LossInvariance, <1>1, PTL

\* A stop by signal loses nothing when the writer was closed without an error.
THEOREM CleanStop == Spec => []CleanStopKeepsAll
  <1>1. LossInv => CleanStopKeepsAll
    BY DEF LossInv, FlushedInv, CleanStopKeepsAll
  <1> QED BY LossInvariance, <1>1, PTL
-----------------------------------------------------------------------------
(* The file has no gap: the order in which Run accepts samples, and what    *)
(* the log makes of it.                                                    *)

\* Everything that was accepted and not lost, in order.
All == log \o buffered

\* What sample s may only come after.
Before(s) ==
    (UNION {{Rec(x, r) : x \in Due(r)} : r \in 0 .. s.n - 1})
    \cup (IF s.src = "init" THEN {} ELSE {Rec("init", 0)})
    \cup (IF s.src \notin {"init", "A"} /\ (s.n % 3) = 0 THEN {Rec("A", s.n)} ELSE {})

\* Every element has what it needs earlier in the sequence.
GapFree(q) == \A i \in 1 .. Len(q) : \A s \in Before(q[i]) : \E j \in 1 .. i - 1 : q[j] = s

-----------------------------------------------------------------------------
(* Sequences without a gap.                                                *)

LEMMA PrefixGapFree ==
  ASSUME NEW q \in Seq(Samples), GapFree(q), NEW m \in 0 .. Len(q)
  PROVE  GapFree(SubSeq(q, 1, m))
  <1>1. /\ Len(SubSeq(q, 1, m)) = m
        /\ \A i \in 1 .. m : SubSeq(q, 1, m)[i] = q[i]
        /\ Len(q) \in Nat
    <2>1. Len(q) \in Nat /\ \A i \in 1 .. Len(q) : q[i] \in Samples
      BY LenProperties
    <2>2. /\ Len(SubSeq(q, 1, m)) = IF 1 <= m THEN m - 1 + 1 ELSE 0
          /\ \A i \in 1 .. m - 1 + 1 : SubSeq(q, 1, m)[i] = q[1 + i - 1]
      BY <2>1, SubSeqProperties
    <2> QED BY <2>1, <2>2
  <1> SUFFICES ASSUME NEW i \in 1 .. m, NEW s \in Before(q[i])
               PROVE  \E j \in 1 .. i - 1 : SubSeq(q, 1, m)[j] = s
    BY <1>1 DEF GapFree
  <1>2. i \in 1 .. Len(q)
    BY <1>1
  <1>3. PICK j \in 1 .. i - 1 : q[j] = s
    BY <1>2 DEF GapFree
  <1>4. j \in 1 .. m
    BY <1>1, <1>2
  <1> QED BY <1>1, <1>3, <1>4

LEMMA AppendGapFree ==
  ASSUME NEW q \in Seq(Samples), GapFree(q), NEW x \in Samples, Before(x) \subseteq Range(q)
  PROVE  GapFree(Append(q, x))
  <1>1. /\ Len(q) \in Nat /\ DOMAIN q = 1 .. Len(q)
        /\ Len(Append(q, x)) = Len(q) + 1
        /\ \A i \in 1 .. Len(q) : Append(q, x)[i] = q[i]
        /\ Append(q, x)[Len(q) + 1] = x
    BY LenProperties, AppendProperties
  <1> SUFFICES ASSUME NEW i \in 1 .. Len(q) + 1, NEW s \in Before(Append(q, x)[i])
               PROVE  \E j \in 1 .. i - 1 : Append(q, x)[j] = s
    BY <1>1 DEF GapFree
  <1>2. CASE i \in 1 .. Len(q)
    <2>1. PICK j \in 1 .. i - 1 : q[j] = s
      BY <1>1, <1>2 DEF GapFree
    <2> QED BY <1>1, <1>2, <2>1
  <1>3. CASE i = Len(q) + 1
    <2>1. PICK j \in DOMAIN q : q[j] = s
      BY <1>1, <1>3 DEF Range
    <2> QED BY <1>1, <1>3, <2>1
  <1> QED BY <1>1, <1>2, <1>3

-----------------------------------------------------------------------------
(* What the writer does to the sequence.                                   *)

Cut == \E m \in 0 .. Len(All) : All' = SubSeq(All, 1, m)

LEMMA AllType == LogType => All \in Seq(Samples) /\ Len(All) = Len(log) + Len(buffered) /\ Range(All) = Accepted
  BY ConcatProperties, RangeConcatenation DEF LogType, All, Accepted

LEMMA AllMoves ==
  ASSUME LogType, NEW q \in Seq(Samples), NEW m \in 0 .. Len(q), Log!Move(q, m)
  PROVE  All' = log \o q
  <1> DEFINE a == SubSeq(q, 1, m)
             b == SubSeq(q, m + 1, Len(q))
  <1>1. a \in Seq(Samples) /\ b \in Seq(Samples)
    BY CutInTwo
  <1>2. a \o b = q
    <2>1. 1 \in 1 .. Len(q) + 1 /\ m \in 1 - 1 .. Len(q) /\ Len(q) \in m .. Len(q)
      BY LenProperties
    <2>2. a \o b = SubSeq(q, 1, Len(q))
      BY <2>1, ConcatAdjacentSubSeq
    <2> QED BY <2>2, SubSeqFull
  <1>3. All' = (log \o a) \o b
    BY DEF Log!Move, All
  <1> HIDE DEF a, b
  <1>4. (log \o a) \o b = log \o (a \o b)
    <2>1. log \in Seq(Samples)
      BY DEF LogType
    <2> QED BY <1>1, <2>1, ConcatAssociative
  <1> QED BY <1>2, <1>3, <1>4

LEMMA AllAccepts ==
  ASSUME LogType, NEW x \in Samples, Log!Accept(x)
  PROVE  All' = Append(All, x)
  <1>1. Append(buffered, x) \in Seq(Samples) /\ Len(Append(buffered, x)) = Len(buffered) + 1
    BY AppendProperties DEF LogType
  <1>2. All' = log \o Append(buffered, x)
    BY <1>1, AllMoves DEF Log!Accept
  <1>3. Append(buffered, x) = buffered \o <<x>> /\ Append(All, x) = All \o <<x>>
    BY AllType, AppendIsConcat DEF LogType
  <1>4. <<x>> \in Seq(Samples)
    BY One
  <1>5. log \o (buffered \o <<x>>) = (log \o buffered) \o <<x>>
    BY <1>4, ConcatAssociative DEF LogType
  <1> QED BY <1>2, <1>3, <1>5 DEF All

LEMMA WholeIsCut == ASSUME LogType, All' = All PROVE Cut
  <1>1. Len(All) \in Nat /\ SubSeq(All, 1, Len(All)) = All
    BY AllType, LenProperties, SubSeqFull
  <1>2. Len(All) \in 0 .. Len(All) /\ All' = SubSeq(All, 1, Len(All))
    BY <1>1
  <1> QED BY <1>2 DEF Cut

LEMMA AllCommits == ASSUME LogType, Log!Commit PROVE Cut
  <1>1. All' = All
    BY AllMoves DEF Log!Commit, LogType, All
  <1> QED BY <1>1, WholeIsCut

LEMMA AllPersists == ASSUME LogType, Log!Persist PROVE Cut
  <1>1. All' = (log \o buffered) \o <<>>
    BY DEF Log!Persist, All
  <1>2. All' = All
    BY <1>1, AllType, ConcatEmptySeq DEF All
  <1> QED BY <1>2, WholeIsCut

LEMMA AllDrops == ASSUME LogType, Log!Drop PROVE Cut
  <1>1. PICK m \in 0 .. Len(buffered) : log' = log \o SubSeq(buffered, 1, m) /\ buffered' = <<>>
    BY DEF Log!Drop
  <1> DEFINE a == SubSeq(buffered, 1, m)
             k == Len(log) + m
  <1>2. /\ a \in Seq(Samples) /\ Len(a) = m /\ \A i \in 1 .. m : a[i] = buffered[i]
        /\ Len(log) \in Nat /\ Len(buffered) \in Nat
    <2>1. /\ Len(log) \in Nat /\ Len(buffered) \in Nat
          /\ \A i \in 1 .. Len(buffered) : buffered[i] \in Samples
      BY LenProperties DEF LogType
    <2>2. /\ Len(a) = (IF 1 <= m THEN m - 1 + 1 ELSE 0)
          /\ \A i \in 1 .. m - 1 + 1 : a[i] = buffered[1 + i - 1]
          /\ a \in Seq(Samples)
      BY <2>1, SubSeqProperties
    <2> QED BY <2>1, <2>2
  <1> HIDE DEF a
  <1>3. All' = log \o a
    <2>1. log \o a \in Seq(Samples)
      BY <1>2, ConcatProperties DEF LogType
    <2>2. All' = (log \o a) \o <<>>
      BY <1>1 DEF All, a
    <2> QED BY <2>1, <2>2, ConcatEmptySeq
  <1>4. SubSeq(All, 1, k) = log \o a
    <2>1. /\ All \in Seq(Samples) /\ Len(All) = Len(log) + Len(buffered)
          /\ \A i \in 1 .. Len(log) + Len(buffered) :
                 All[i] = IF i <= Len(log) THEN log[i] ELSE buffered[i - Len(log)]
      BY AllType, ConcatProperties DEF LogType, All
    <2>2. /\ log \o a \in Seq(Samples) /\ Len(log \o a) = k
          /\ \A i \in 1 .. k : (log \o a)[i] = IF i <= Len(log) THEN log[i] ELSE a[i - Len(log)]
      BY <1>2, ConcatProperties DEF LogType
    <2>3. k \in 0 .. Len(All) /\ \A i \in 1 .. k : All[i] \in Samples
      BY <1>2, <2>1, LenProperties
    <2>4. /\ SubSeq(All, 1, k) \in Seq(Samples)
          /\ Len(SubSeq(All, 1, k)) = IF 1 <= k THEN k - 1 + 1 ELSE 0
          /\ \A i \in 1 .. k - 1 + 1 : SubSeq(All, 1, k)[i] = All[1 + i - 1]
      BY <2>3, SubSeqProperties
    <2>5. ASSUME NEW i \in 1 .. k PROVE SubSeq(All, 1, k)[i] = (log \o a)[i]
      <3>1. SubSeq(All, 1, k)[i] = All[i] /\ i \in 1 .. Len(log) + Len(buffered)
        BY <1>2, <2>1, <2>3, <2>4
      <3>2. CASE i <= Len(log)
        BY <2>1, <2>2, <3>1, <3>2
      <3>3. CASE i > Len(log)
        <4>1. i - Len(log) \in 1 .. m
          BY <1>2, <3>3
        <4> QED BY <1>2, <2>1, <2>2, <3>1, <3>3, <4>1
      <3> QED BY <1>2, <3>2, <3>3
    <2>6. Len(SubSeq(All, 1, k)) = Len(log \o a)
      BY <1>2, <2>2, <2>4
    <2> HIDE DEF k
    <2> QED BY <2>2, <2>4, <2>5, <2>6, SeqEqual
  <1>5. k \in 0 .. Len(All)
    BY <1>2, AllType
  <1> QED BY <1>3, <1>4, <1>5 DEF Cut

LEMMA AllLoses == ASSUME LogType, Log!PowerLoss PROVE Cut
  <1>1. PICK m \in durable .. Len(log) : log' = SubSeq(log, 1, m) /\ buffered' = <<>>
    BY DEF Log!PowerLoss
  <1>2. /\ Len(log) \in Nat /\ Len(buffered) \in Nat /\ m \in 0 .. Len(log)
        /\ log \in Seq(Samples) /\ buffered \in Seq(Samples)
    BY LenProperties DEF LogType
  <1>3. SubSeq(log, 1, m) \in Seq(Samples)
    BY <1>2, CutInTwo
  <1>4. All' = SubSeq(log, 1, m)
    BY <1>1, <1>3, ConcatEmptySeq DEF All
  <1>5. SubSeq(All, 1, m) = SubSeq(log, 1, m)
    <2>1. CASE m = 0
      BY <1>2, <2>1, SubSeqEmpty
    <2>2. CASE m # 0
      BY <1>2, <2>2, SubSeqOfConcat1 DEF All
    <2> QED BY <2>1, <2>2
  <1>6. m \in 0 .. Len(All)
    BY <1>2, AllType
  <1> QED BY <1>4, <1>5, <1>6 DEF Cut

-----------------------------------------------------------------------------
(* The loop.                                                               *)

\* While the writer has not failed: the init sample comes first, the sample of
\* an A section before its other sources and before the B section.
OrderInv ==
    ~bad /\ pc # "dead" =>
        /\ pc = "init" => todo = <<"init">> \/ (todo = <<>> /\ Rec("init", 0) \in Accepted)
        /\ pc \in {"next", "A", "B", "wait"} => Rec("init", 0) \in Accepted
        /\ pc = "A" => (todo # <<>> /\ Head(todo) = "A") \/ Rec("A", seq) \in Accepted
        /\ pc = "B" /\ (seq % 3) = 0 => Rec("A", seq) \in Accepted

GapInv == GapFree(All) /\ OrderInv

StepInv == LoopInv /\ DataInv /\ LossInv /\ GapInv

LEMMA InitGap == Init => GapInv
  <1> SUFFICES ASSUME Init PROVE GapInv
    OBVIOUS
  <1>1. log = <<>> /\ buffered = <<>> /\ pc = "start"
    BY DEF Init, Log!LogInit
  <1>2. Len(All) = 0
    BY <1>1, InitData, AllType, EmptySeq DEF DataInv
  <1>3. GapFree(All)
    BY <1>2 DEF GapFree
  <1> QED BY <1>1, <1>3 DEF GapInv, OrderInv

LEMMA CutGapFree == ASSUME LogType, GapFree(All), Cut PROVE GapFree(All)'
  <1>1. All \in Seq(Samples)
    BY AllType
  <1>2. PICK m \in 0 .. Len(All) : All' = SubSeq(All, 1, m)
    BY DEF Cut
  <1>3. GapFree(SubSeq(All, 1, m))
    BY <1>1, PrefixGapFree
  <1>4. GapFree(All') <=> GapFree(All)'
    BY DEF GapFree, Before, Due, Rec
  <1> QED BY <1>2, <1>3, <1>4

\* What is collected has what it may only come after.
LEMMA DueBefore ==
  ASSUME StepInv, Collect, ~bad
  PROVE  Before(Rec(Head(todo), seq)) \subseteq Accepted
  <1>1. pc \in {"init", "A", "B"} /\ todo # <<>> /\ pc # "dead"
    BY DEF Collect
  <1>2. \A r \in 0 .. seq - 1 : \A x \in Due(r) : Rec(x, r) \in Accepted
    BY <1>1 DEF StepInv, LossInv, AcceptedInv
  <1>3. \A y : Rec(y, seq).src = y /\ Rec(y, seq).n = seq
    BY DEF Rec
  <1> DEFINE b == Before(Rec(Head(todo), seq))
  <1>4. \A s \in b : \/ \E r \in 0 .. seq - 1 : \E x \in Due(r) : s = Rec(x, r)
                     \/ s = Rec("init", 0) /\ Head(todo) # "init"
                     \/ s = Rec("A", seq) /\ Head(todo) # "A" /\ Head(todo) # "init" /\ (seq % 3) = 0
    BY <1>3 DEF Before
  <1>5. Head(todo) # "init" => Rec("init", 0) \in Accepted
    BY <1>1 DEF StepInv, GapInv, OrderInv
  <1>6. Head(todo) # "A" /\ Head(todo) # "init" /\ (seq % 3) = 0 => Rec("A", seq) \in Accepted
    BY <1>1 DEF StepInv, GapInv, OrderInv
  <1> HIDE DEF b
  <1> QED BY <1>2, <1>4, <1>5, <1>6 DEF b

LEMMA WritesGapFree == ASSUME StepInv, Collect PROVE GapFree(All)'
  <1>1. WriteSample(Rec(Head(todo), seq)) /\ todo # <<>>
    BY DEF Collect, Rec
  <1>2. LogType /\ GapFree(All) /\ All \in Seq(Samples) /\ Range(All) = Accepted
    BY AllType DEF StepInv, DataInv, GapInv
  <1>3. Rec(Head(todo), seq) \in Samples
    BY <1>1, HeadTailProperties DEF Rec, Samples, StepInv, DataInv, LoopInv, FreshInv
  <1>4. CASE ~bad /\ Log!Accept(Rec(Head(todo), seq))
    <2>1. All' = Append(All, Rec(Head(todo), seq))
      BY <1>2, <1>3, <1>4, AllAccepts
    <2>2. GapFree(Append(All, Rec(Head(todo), seq)))
      BY <1>2, <1>3, <1>4, DueBefore, AppendGapFree
    <2>3. GapFree(All') <=> GapFree(All)'
      BY DEF GapFree, Before, Due, Rec
    <2> QED BY <2>1, <2>2, <2>3
  <1>5. CASE Log!Drop
    BY <1>2, <1>5, AllDrops, CutGapFree
  <1>6. CASE UNCHANGED logVars
    <2>1. All' = All
      BY <1>6 DEF logVars, All
    <2> QED BY <1>2, <2>1, WholeIsCut, CutGapFree
  <1> QED BY <1>1, <1>4, <1>5, <1>6 DEF WriteSample

LEMMA GapFreeStep == StepInv /\ [Next]_vars => GapFree(All)'
  <1> SUFFICES ASSUME StepInv, [Next]_vars PROVE GapFree(All)'
    OBVIOUS
  <1>1. LogType /\ GapFree(All)
    BY DEF StepInv, DataInv, GapInv
  <1>2. UNCHANGED logVars => Cut
    BY <1>1, WholeIsCut DEF logVars, All
  <1>3. FlushOK \/ FlushError => Cut
    BY <1>1, <1>2, AllPersists, AllDrops, AllCommits DEF FlushOK, FlushError
  <1>4. CASE Collect
    BY <1>4, WritesGapFree
  <1>5. CASE Dies
    BY <1>1, <1>5, AllDrops, AllLoses, CutGapFree DEF Dies
  <1>6. CASE FlushInit \/ EndInterval \/ Close
    BY <1>1, <1>2, <1>3, <1>6, CutGapFree DEF FlushInit, EndInterval, Close
  <1>7. CASE StartMonitors \/ WriteHeader \/ BeginA \/ BeginB \/ Elapsed \/ StopSelected \/ RunReturns
    BY <1>1, <1>2, <1>7, CutGapFree
       DEF StartMonitors, WriteHeader, BeginA, BeginB, Elapsed, StopSelected, RunReturns
  <1>8. ASSUME NEW m \in Pings, StopMonitor(m) \/ MonitorStops(m) PROVE GapFree(All)'
    BY <1>1, <1>2, <1>8, CutGapFree DEF StopMonitor, MonitorStops
  <1>9. CASE Signal \/ SignalStep
    BY <1>1, <1>2, <1>9, CutGapFree DEF Signal, SignalStep, Cancel, CloseStop
  <1>10. ASSUME NEW x \in Things, Change(x) PROVE GapFree(All)'
    BY <1>1, <1>2, <1>10, CutGapFree DEF Change
  <1>11. CASE UNCHANGED vars
    BY <1>1, <1>2, <1>11, CutGapFree DEF vars
  <1> QED
    BY <1>4, <1>5, <1>6, <1>7, <1>8, <1>9, <1>10, <1>11 DEF Next, MainStep, HostStep, Ended

LEMMA StartsWithA == \A F : LET s == <<"A">> \o SetToSeq(F \cap Ifaces) IN s # <<>> /\ Head(s) = "A"
  <1> SUFFICES ASSUME NEW F
               PROVE  /\ <<"A">> \o SetToSeq(F \cap Ifaces) # <<>>
                      /\ Head(<<"A">> \o SetToSeq(F \cap Ifaces)) = "A"
    OBVIOUS
  <1> DEFINE i == SetToSeq(F \cap Ifaces)
             a == <<"A">>
  <1>1. i \in Seq(Sources)
    <2>1. IsFiniteSet(F \cap Ifaces) /\ F \cap Ifaces \subseteq Sources
      BY CollectorAssumption, FS_Intersection DEF Sources, Things
    <2> QED BY <2>1, SeqOfSet, SeqMonotonic
  <1>2. a \in Seq(Sources) /\ Len(a) = 1 /\ a[1] = "A"
    BY One DEF Sources, Fixed
  <1> HIDE DEF a, i
  <1>3. /\ a \o i \in Seq(Sources) /\ Len(a \o i) = 1 + Len(i) /\ Len(i) \in Nat
        /\ (a \o i)[1] = "A"
    BY <1>1, <1>2, ConcatProperties, LenProperties
  <1>4. a \o i # <<>> /\ Head(a \o i) = "A"
    BY <1>3, EmptySeq
  <1> QED BY <1>4 DEF a, i

\* Steps that leave the loop where it is, or take it out of the sections.
LEMMA OrderStays ==
  ASSUME OrderInv, Kept, UNCHANGED <<pc, todo, seq>> \/ pc' \notin {"init", "next", "A", "B", "wait"},
         pc = "dead" => pc' = "dead"
  PROVE  OrderInv'
  BY DEF OrderInv, Kept, Rec

LEMMA OrderStep == StepInv /\ [Next]_vars => OrderInv'
  <1> SUFFICES ASSUME StepInv, [Next]_vars PROVE OrderInv'
    OBVIOUS
  <1>0. Kept /\ OrderInv /\ LossInv /\ seq \in Nat
    BY DataStep DEF StepInv, GapInv, LoopInv, FreshInv
  <1>1. CASE WriteHeader
    BY <1>1 DEF WriteHeader, OrderInv
  <1>2. CASE Collect
    <2>1. /\ WriteSample(Rec(Head(todo), seq)) /\ todo # <<>> /\ todo' = Tail(todo)
          /\ UNCHANGED <<pc, seq>> /\ pc \in {"init", "A", "B"}
      BY <1>2 DEF Collect, Rec
    <2>2. Rec(Head(todo), seq) \in Samples
      BY <2>1, HeadTailProperties DEF Rec, Samples, StepInv, DataInv, LoopInv, FreshInv
    <2>3. ~bad' => ~bad /\ Accepted' = Accepted \cup {Rec(Head(todo), seq)}
      BY <2>1, <2>2, WriteSampleKeeps DEF StepInv, DataInv
    <2>4. pc = "init" => seq = 0
      BY DEF StepInv, LoopInv, FreshInv
    <2>5. todo = <<"init">> => todo' = <<>> /\ Head(todo) = "init"
      BY <2>1
    <2> SUFFICES ASSUME ~bad', pc' # "dead"
                 PROVE  /\ pc = "init" => todo' = <<"init">> \/ (todo' = <<>> /\ Rec("init", 0) \in Accepted')
                        /\ pc \in {"next", "A", "B", "wait"} => Rec("init", 0) \in Accepted'
                        /\ pc = "A" => (todo' # <<>> /\ Head(todo') = "A") \/ Rec("A", seq) \in Accepted'
                        /\ pc = "B" /\ (seq % 3) = 0 => Rec("A", seq) \in Accepted'
      BY <2>1 DEF OrderInv, Rec
    <2> QED BY <1>0, <2>1, <2>3, <2>4, <2>5 DEF OrderInv
  <1>3. CASE FlushInit
    BY <1>0, <1>3 DEF FlushInit, OrderInv, Kept, Rec
  <1>4. CASE BeginA
    BY <1>0, <1>4, StartsWithA DEF BeginA, OrderInv, Kept, Rec
  <1>5. CASE BeginB
    <2>1. pc = "A" => todo = <<>>
      BY <1>5 DEF BeginB
    <2>2. pc = "A" /\ ~bad => Rec("A", seq) \in Accepted
      BY <1>0, <2>1 DEF OrderInv
    <2> QED BY <1>0, <1>5, <2>2 DEF BeginB, OrderInv, Kept, Rec
  <1>6. CASE EndInterval \/ Elapsed
    BY <1>0, <1>6 DEF EndInterval, Elapsed, OrderInv, Kept, Rec
  <1>7. CASE StartMonitors \/ StopSelected \/ RunReturns \/ Close \/ Dies
    BY <1>0, <1>7, OrderStays DEF StartMonitors, StopSelected, RunReturns, Close, Dies
  <1>8. ASSUME NEW m \in Pings, StopMonitor(m) \/ MonitorStops(m) PROVE OrderInv'
    BY <1>0, <1>8, OrderStays DEF StopMonitor, MonitorStops, loopVars
  <1>9. CASE Signal \/ SignalStep
    BY <1>0, <1>9, OrderStays DEF Signal, SignalStep, Cancel, CloseStop, loopVars
  <1>10. ASSUME NEW x \in Things, Change(x) PROVE OrderInv'
    BY <1>0, <1>10, OrderStays DEF Change, loopVars
  <1>11. CASE UNCHANGED vars
    BY <1>0, <1>11, OrderStays DEF vars, loopVars
  <1> QED
    BY <1>1, <1>2, <1>3, <1>4, <1>5, <1>6, <1>7, <1>8, <1>9, <1>10, <1>11
       DEF Next, MainStep, HostStep, Ended

\* In the file, an interval comes after everything that is due before it.
LEMMA GapFreeLog == StepInv => NoGap
  <1> SUFFICES ASSUME StepInv, NEW i \in DOMAIN log
               PROVE  LET before == {log[j] : j \in 1 .. i - 1}
                          t == log[i].n
                      IN  /\ \A r \in 0 .. t - 1 : \A x \in Due(r) : [src |-> x, n |-> r] \in before
                          /\ log[i].src # "init" => [src |-> "init", n |-> 0] \in before
                          /\ log[i].src \notin {"init", "A"} /\ (t % 3) = 0 => [src |-> "A", n |-> t] \in before
    BY DEF NoGap
  <1>1. /\ DOMAIN log = 1 .. Len(log) /\ Len(log) \in Nat /\ Len(buffered) \in Nat
        /\ Len(All) = Len(log) + Len(buffered)
        /\ \A j \in 1 .. Len(log) : All[j] = log[j]
    <2>1. log \in Seq(Samples) /\ buffered \in Seq(Samples)
      BY DEF StepInv, DataInv, LogType
    <2> QED BY <2>1, LenProperties, ConcatProperties DEF All
  <1>2. \A s \in Before(log[i]) : s \in {log[j] : j \in 1 .. i - 1}
    <2> SUFFICES ASSUME NEW s \in Before(log[i]) PROVE \E j \in 1 .. i - 1 : log[j] = s
      OBVIOUS
    <2>1. i \in 1 .. Len(All) /\ All[i] = log[i]
      BY <1>1
    <2>2. PICK j \in 1 .. i - 1 : All[j] = s
      BY <2>1 DEF StepInv, GapInv, GapFree
    <2>3. j \in 1 .. Len(log)
      BY <1>1
    <2> QED BY <1>1, <2>2, <2>3
  <1> QED BY <1>2 DEF Before, Rec

\* The file has no gap, whatever the flush interval, the errors of the writer
\* and the moment at which the program dies.
THEOREM Gapless == Spec => []NoGap
  <1>1. Init => StepInv
    BY InitLoop, InitData, InitLoss, InitGap DEF StepInv
  <1>2. StepInv /\ [Next]_vars => StepInv'
    BY StopStep, FreshStep, DataStep, LossStep, GapFreeStep, OrderStep DEF StepInv, LoopInv, GapInv
  <1> QED BY <1>1, <1>2, GapFreeLog, PTL DEF Spec
=============================================================================
