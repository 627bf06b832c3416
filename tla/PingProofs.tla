----------------------------- MODULE PingProofs -----------------------------
(***************************************************************************)
(* Theorems about PingMonitor, for every value of its constants.           *)
(***************************************************************************)
EXTENDS PingMonitor, PingStateProofs

(* The wait group counts exactly the goroutines that have not returned.    *)
Active(pc) == IF pc \in {"off", "done"} THEN 0 ELSE 1

ControlInv ==
    /\ wg = Active(run.pc) + Active(rcv.pc)
    /\ coll = "new" <=> run.pc = "off"
    /\ run.pc \in {"off", "opening", "retrying"} => rcv.pc = "off"
    /\ sock = "open" => run.pc \in {"loop", "sending"}
    /\ coll = "stopped" => wg = 0

Inv == TypeOK /\ ControlInv

-----------------------------------------------------------------------------
LEMMA InitInv == Init => Inv
  <1> SUFFICES ASSUME Init PROVE Inv
    OBVIOUS
  <1>1. 0 \in Seqs
    BY SeqModAssumption DEF Seqs
  <1>2. NewState \in States
    BY DEF NewState, States, ProbeStates
  <1>3. TypeOK
    <2>1. run \in [pc : RunPCs, seq : Seqs, at : Nat, ok : BOOLEAN]
      BY <1>1 DEF Init, RunPCs
    <2>2. rcv \in [pc : RcvPCs, seq : Seqs, fromTarget : BOOLEAN, own : BOOLEAN,
                   at : Nat]
      BY <1>1 DEF Init, RcvPCs, Idle
    <2>3. /\ net \in [Seqs -> Nat] /\ wrote \in [Seqs -> Nat]
          /\ sample \in [err : BOOLEAN, errs : Nat, rttSum : Nat]
      BY DEF Init
    <2>4. {openErr, ivalErr, stop} \subseteq BOOLEAN
      BY Zenon DEF Init
    <2> QED BY <1>2, <2>1, <2>2, <2>3, <2>4 DEF Init, TypeOK, CollPCs
  <1>4. ControlInv
    BY DEF Init, ControlInv, Active, Idle
  <1> QED BY <1>3, <1>4 DEF Inv

(* The next sequence number is a sequence number.                          *)
LEMMA NextSeq ==
  ASSUME NEW s \in Seqs
  PROVE  (s + 1) % SeqMod \in Seqs
  BY SeqModAssumption DEF Seqs

LEMMA AfterWriteType ==
  ASSUME TypeOK
  PROVE  AfterWrite \in States
  <1>1. run.seq \in Seqs /\ run.at \in Nat /\ st \in States
    BY DEF TypeOK
  <1> QED BY <1>1, ErrorTypes, SentType DEF AfterWrite

LEMMA NextTypeOK == Inv /\ [Next]_vars => TypeOK'
  <1> SUFFICES ASSUME Inv, [Next]_vars PROVE TypeOK'
    OBVIOUS
  <1> USE DEF Inv
  <1>1. CASE Start
    BY <1>1 DEF Start, TypeOK, ControlInv, Active, RunPCs, RcvPCs, CollPCs
  <1>2. CASE Sample
    <2>1. AfterSnapshot(st, clock) \in States /\ AfterSweep(st, clock) \in States
      BY SnapshotType, SweepType DEF TypeOK
    <2>2. sample' \in [err : BOOLEAN, errs : Nat, rttSum : Nat]
      <3>1. /\ AfterSweep(st, clock).txErr + AfterSweep(st, clock).rxErr \in Nat
            /\ AfterSweep(st, clock).rttSum \in Nat
        BY <2>1 DEF States
      <3>2. (IF sock = "none" THEN openErr ELSE ivalErr) \in BOOLEAN
        BY DEF TypeOK
      <3> QED BY <1>2, <3>1, <3>2 DEF Sample
    <2> QED BY <1>2, <2>1, <2>2 DEF Sample, TypeOK
  <1>3. CASE StopBegins
    BY <1>3 DEF StopBegins, TypeOK, CollPCs
  <1>4. CASE StopReturns
    BY <1>4 DEF StopReturns, TypeOK, CollPCs
  <1>5. CASE OpenFails
    BY <1>5 DEF OpenFails, TypeOK, RunPCs
  <1>6. CASE RetryOpen
    BY <1>6 DEF RetryOpen, TypeOK, RunPCs
  <1>7. CASE GiveUpOpen
    BY <1>7 DEF GiveUpOpen, TypeOK, ControlInv, Active, RunPCs
  <1>8. CASE OpenSucceeds
    <2>1. wg = 1
      BY <1>8 DEF OpenSucceeds, ControlInv, Active
    <2>2. /\ run' \in [pc : RunPCs, seq : Seqs, at : Nat, ok : BOOLEAN]
          /\ rcv' \in [pc : RcvPCs, seq : Seqs, fromTarget : BOOLEAN,
                        own : BOOLEAN, at : Nat]
      BY <1>8 DEF OpenSucceeds, TypeOK, RunPCs, RcvPCs
    <2>3. {openErr', ivalErr', stop'} \subseteq BOOLEAN
      BY <1>8, Zenon DEF OpenSucceeds, TypeOK
    <2> QED BY <1>8, <2>1, <2>2, <2>3 DEF OpenSucceeds, TypeOK
  <1>9. ASSUME NEW ok \in BOOLEAN, SendWrites(ok)
        PROVE  TypeOK'
    BY <1>9, BoundsAssumption DEF SendWrites, TypeOK, RunPCs
  <1>10. CASE SendReturns
    <2>1. st' \in States
      BY <1>10, AfterWriteType, SweepType DEF SendReturns, TypeOK
    <2>2. run' \in [pc : RunPCs, seq : Seqs, at : Nat, ok : BOOLEAN]
      <3>1. run.seq \in Seqs
        BY DEF TypeOK
      <3> QED BY <1>10, <3>1, NextSeq DEF SendReturns, RunPCs
    <2> QED BY <1>10, <2>1, <2>2 DEF SendReturns, TypeOK
  <1>11. CASE RunReturns
    BY <1>11 DEF RunReturns, TypeOK, RunPCs
  <1>12. CASE RunDone
    BY <1>12 DEF RunDone, TypeOK, ControlInv, Active, RunPCs
  <1>13. ASSUME NEW s \in Seqs, ReadReply(s)
         PROVE  TypeOK'
    BY <1>13 DEF ReadReply, Stamp, TypeOK, RcvPCs
  <1>14. ASSUME NEW s \in Seqs, NEW fromTarget \in BOOLEAN,
                ReadForeign(s, fromTarget)
         PROVE  TypeOK'
    BY <1>14 DEF ReadForeign, Stamp, TypeOK, RcvPCs
  <1>15. CASE HandleReply
    <2>1. st' \in States
      BY <1>15, ReplyType, StrayType DEF HandleReply, TypeOK
    <2>2. 0 \in Seqs
      BY SeqModAssumption DEF Seqs
    <2> QED BY <1>15, <2>1, <2>2 DEF HandleReply, TypeOK, Idle, RcvPCs
  <1>16. CASE ReadFails
    BY <1>16 DEF ReadFails, TypeOK, RcvPCs
  <1>17. CASE CountReadError
    <2>1. st' \in States
      BY <1>17, ErrorTypes DEF CountReadError, TypeOK
    <2> QED BY <1>17, <2>1 DEF CountReadError, TypeOK, RcvPCs
  <1>18. CASE ReadFailsStopped
    BY <1>18 DEF ReadFailsStopped, TypeOK, ControlInv, Active, RcvPCs
  <1>19. CASE ReadClosed
    BY <1>19 DEF ReadClosed, TypeOK, ControlInv, Active, RcvPCs
  <1>20. CASE Tick
    BY <1>20 DEF Tick, TypeOK
  <1>21. CASE UNCHANGED vars
    BY <1>21 DEF TypeOK, vars
  <1> QED
    BY <1>1, <1>2, <1>3, <1>4, <1>5, <1>6, <1>7, <1>8, <1>9, <1>10, <1>11,
       <1>12, <1>13, <1>14, <1>15, <1>16, <1>17, <1>18, <1>19, <1>20, <1>21
    DEF Next, RunStep, ReceiveStep, CollectorStep, Stopped

LEMMA NextControlInv == Inv /\ [Next]_vars => ControlInv'
  <1> SUFFICES ASSUME Inv, [Next]_vars PROVE ControlInv'
    OBVIOUS
  <1> USE DEF Inv, ControlInv, Active
  <1>0. /\ run \in [pc : RunPCs, seq : Seqs, at : Nat, ok : BOOLEAN]
        /\ rcv \in [pc : RcvPCs, seq : Seqs, fromTarget : BOOLEAN,
                    own : BOOLEAN, at : Nat]
        /\ wg \in Nat
    BY DEF TypeOK
  <1>1. CASE Start
    BY <1>0, <1>1 DEF Start
  <1>2. CASE Sample
    BY <1>2 DEF Sample
  <1>3. CASE StopBegins
    BY <1>3 DEF StopBegins
  <1>4. CASE StopReturns
    BY <1>4 DEF StopReturns
  <1>5. CASE OpenFails
    BY <1>0, <1>5 DEF OpenFails
  <1>6. CASE RetryOpen
    BY <1>0, <1>6 DEF RetryOpen
  <1>7. CASE GiveUpOpen
    BY <1>0, <1>7 DEF GiveUpOpen
  <1>8. CASE OpenSucceeds
    BY <1>0, <1>8 DEF OpenSucceeds
  <1>9. ASSUME NEW ok \in BOOLEAN, SendWrites(ok)
        PROVE  ControlInv'
    BY <1>0, <1>9 DEF SendWrites
  <1>10. CASE SendReturns
    BY <1>0, <1>10 DEF SendReturns
  <1>11. CASE RunReturns
    BY <1>0, <1>11 DEF RunReturns
  <1>12. CASE RunDone
    BY <1>0, <1>12 DEF RunDone
  <1>13. ASSUME NEW s \in Seqs, ReadReply(s)
         PROVE  ControlInv'
    BY <1>0, <1>13 DEF ReadReply, Stamp
  <1>14. ASSUME NEW s \in Seqs, NEW fromTarget \in BOOLEAN,
                ReadForeign(s, fromTarget)
         PROVE  ControlInv'
    BY <1>0, <1>14 DEF ReadForeign, Stamp
  <1>15. CASE HandleReply
    BY <1>0, <1>15 DEF HandleReply, Idle
  <1>16. CASE ReadFails
    BY <1>0, <1>16 DEF ReadFails
  <1>17. CASE CountReadError
    BY <1>0, <1>17 DEF CountReadError
  <1>18. CASE ReadFailsStopped
    BY <1>0, <1>18 DEF ReadFailsStopped
  <1>19. CASE ReadClosed
    BY <1>0, <1>19 DEF ReadClosed
  <1>20. CASE Tick
    BY <1>20 DEF Tick
  <1>21. CASE UNCHANGED vars
    BY <1>21 DEF vars
  <1> QED
    BY <1>1, <1>2, <1>3, <1>4, <1>5, <1>6, <1>7, <1>8, <1>9, <1>10, <1>11,
       <1>12, <1>13, <1>14, <1>15, <1>16, <1>17, <1>18, <1>19, <1>20, <1>21
    DEF Next, RunStep, ReceiveStep, CollectorStep, Stopped

(* The inductive invariant: types, and what the program counters of the two *)
(* goroutines imply for the lock, the socket and the wait group.           *)
THEOREM InvHolds == Spec => []Inv
  <1>1. Inv /\ [Next]_vars => Inv'
    BY NextTypeOK, NextControlInv DEF Inv
  <1> QED BY InitInv, <1>1, PTL DEF Spec

(* Every variable keeps its type: in particular the wait group counter     *)
(* never goes negative, which would panic.                                 *)
THEOREM TypeCorrect == Spec => []TypeOK
  <1>1. Inv => TypeOK
    BY DEF Inv
  <1> QED BY <1>1, InvHolds, PTL

(* Once Stop has returned, both goroutines have returned and the socket is *)
(* closed.                                                                 *)
THEOREM Quiet == Spec => []QuietAfterStop
  <1>1. Inv => QuietAfterStop
    <2> SUFFICES ASSUME Inv, coll = "stopped"
                 PROVE  run.pc = "done" /\ rcv.pc \in {"off", "done"} /\ sock # "open"
      BY DEF QuietAfterStop
    <2>1. Active(run.pc) = 0 /\ Active(rcv.pc) = 0
      BY DEF Inv, ControlInv, Active
    <2>2. run.pc # "off"
      BY DEF Inv, ControlInv
    <2> QED BY <2>1, <2>2 DEF Inv, ControlInv, Active
  <1> QED BY <1>1, InvHolds, PTL

-----------------------------------------------------------------------------
(* The steps that touch the bookkeeping, and what they do to it.           *)
LEMMA StateSteps ==
  ASSUME [Next]_vars
  PROVE  \/ st' = st
         \/ Sample
         \/ SendReturns
         \/ HandleReply
         \/ CountReadError
  BY DEF Next, RunStep, ReceiveStep, CollectorStep, Stopped, vars, Start,
         StopBegins, StopReturns, OpenFails, RetryOpen, GiveUpOpen,
         OpenSucceeds, SendWrites, RunReturns, RunDone, ReadReply,
         ReadForeign, ReadFails, ReadFailsStopped, ReadClosed, Tick

LEMMA StateType ==
  ASSUME TypeOK, [Next]_vars
  PROVE  st' \in States
  <1>1. st \in States /\ clock \in Nat /\ rcv.seq \in Seqs /\ rcv.at \in Nat
    BY DEF TypeOK
  <1>2. CASE st' = st
    BY <1>1, <1>2
  <1>3. CASE Sample
    BY <1>1, <1>3, SnapshotType DEF Sample
  <1>4. CASE SendReturns
    BY <1>1, <1>4, AfterWriteType, SweepType DEF SendReturns
  <1>5. CASE HandleReply
    BY <1>1, <1>5, ReplyType, StrayType DEF HandleReply
  <1>6. CASE CountReadError
    BY <1>1, <1>6, ErrorTypes DEF CountReadError
  <1> QED BY <1>2, <1>3, <1>4, <1>5, <1>6, StateSteps

LEMMA AfterWriteBalance ==
  ASSUME TypeOK
  PROVE  /\ Unaccounted(AfterWrite) = Unaccounted(st)
         /\ Written(AfterWrite) >= Written(st)
  <1>1. run.seq \in Seqs /\ run.at \in Nat /\ st \in States
    BY DEF TypeOK
  <1>2. Written(st) \in Int
    BY <1>1, CountIsNat DEF Written, States
  <1> QED BY <1>1, <1>2, SentBalance, OtherCounters DEF AfterWrite

LEMMA BalanceStep ==
  ASSUME TypeOK, [Next]_vars
  PROVE  /\ \/ Unaccounted(st') = Unaccounted(st)
            \/ /\ Sample
               /\ Unaccounted(st') = Unaccounted(st) + Cardinality(Dropped(st, clock))
            \/ /\ SendReturns
               /\ Unaccounted(st')
                    = Unaccounted(st) + Cardinality(Dropped(AfterWrite, clock))
         /\ Written(st') >= Written(st)
  <1>0. st \in States /\ clock \in Nat /\ AfterWrite \in States
    BY AfterWriteType DEF TypeOK
  <1>1. Written(st) \in Int /\ Written(AfterWrite) \in Int
    BY <1>0, CountIsNat DEF Written, States
  <1>2. CASE st' = st
    BY <1>1, <1>2
  <1>3. CASE Sample
    BY <1>0, <1>3, SnapshotBalance DEF Sample
  <1>4. CASE SendReturns
    <2>1. st' = AfterSweep(AfterWrite, clock)
      BY <1>4 DEF SendReturns
    <2>2. /\ Unaccounted(st')
               = Unaccounted(AfterWrite) + Cardinality(Dropped(AfterWrite, clock))
          /\ Written(st') >= Written(AfterWrite)
      BY <1>0, <2>1, SweepBalance
    <2>3. Written(st') \in Int
      <3>1. st' \in States
        BY <1>0, <2>1, SweepType
      <3> QED BY <3>1, CountIsNat DEF Written, States
    <2> QED BY <1>1, <1>4, <2>2, <2>3, AfterWriteBalance
  <1>5. CASE HandleReply
    <2>1. rcv.seq \in Seqs /\ rcv.at \in Nat
      BY DEF TypeOK
    <2>2. st' = AfterReply(st, rcv.seq, rcv.at) \/ st' = AfterStray(st)
      BY <1>5 DEF HandleReply
    <2>3. Unaccounted(st') = Unaccounted(st) /\ Written(st') = Written(st)
      BY <1>0, <2>1, <2>2, ReplyBalance, OtherCounters
    <2> QED BY <1>1, <2>3
  <1>6. CASE CountReadError
    <2>1. st' = AfterRXErr(st)
      BY <1>6 DEF CountReadError
    <2>2. Unaccounted(st') = Unaccounted(st) /\ Written(st') = Written(st)
      BY <1>0, <2>1, OtherCounters
    <2> QED BY <1>1, <2>2
  <1> QED BY <1>2, <1>3, <1>4, <1>5, <1>6, StateSteps

-----------------------------------------------------------------------------
(* The balances over a behaviour.                                          *)
LEMMA NewBalance == Unaccounted(NewState) = 0 /\ Written(NewState) = 0
  <1>1. InState(NewState, "pending") = {} /\ InState(NewState, "lost") = {}
    BY DEF InState, NewState
  <1>2. Count(NewState, "pending") = 0 /\ Count(NewState, "lost") = 0
    BY <1>1, FS_EmptySet DEF Count
  <1> QED BY <1>2 DEF Unaccounted, Written, NewState

BalanceInv == Unaccounted(st) >= 0 /\ Written(st) >= 0

LEMMA BalanceHolds == Spec => []BalanceInv
  <1>1. Init => BalanceInv
    BY NewBalance DEF Init, BalanceInv
  <1>2. TypeOK /\ BalanceInv /\ [Next]_vars => BalanceInv'
    <2> SUFFICES ASSUME TypeOK, BalanceInv, [Next]_vars PROVE BalanceInv'
      OBVIOUS
    <2>1. /\ Unaccounted(st) \in Int /\ Written(st) \in Int
      BY CountIsNat DEF Unaccounted, Written, TypeOK, States
    <2>2. /\ Cardinality(Dropped(st, clock)) \in Nat
          /\ Cardinality(Dropped(AfterWrite, clock)) \in Nat
      BY SubsetOfSeqsFinite DEF Dropped, InState
    <2>3. st' \in States
      BY StateType
    <2>4. Written(st') \in Int
      BY <2>3, CountIsNat DEF Written, States
    <2>5. Unaccounted(st') >= 0 /\ Written(st') >= 0
      BY <2>1, <2>2, <2>4, BalanceStep DEF BalanceInv
    <2> QED BY <2>5 DEF BalanceInv
  <1> QED BY <1>1, <1>2, TypeCorrect, PTL DEF Spec

(* However sparse the sweeps, no request is counted twice.                 *)
THEOREM NoDoubleCount == Spec => []NeverOvercounted
  <1>1. TypeOK /\ BalanceInv => NeverOvercounted
    BY CountIsNat
    DEF TypeOK, States, BalanceInv, NeverOvercounted, Unaccounted, Count
  <1> QED BY <1>1, TypeCorrect, BalanceHolds, PTL

(* Late never exceeds Lost, with room for the lost probes still remembered. *)
THEOREM LateWithinLost == Spec => []LateCoveredByLost
  <1>1. TypeOK /\ BalanceInv => LateCoveredByLost
    BY CountIsNat
    DEF TypeOK, States, BalanceInv, LateCoveredByLost, Written, Count
  <1> QED BY <1>1, TypeCorrect, BalanceHolds, PTL

-----------------------------------------------------------------------------
(* Time: how old a probe in each state can be.                             *)
TimeInv ==
    /\ sweptAt <= clock
    /\ run.pc = "sending" => run.at <= clock /\ clock <= run.at + MaxLockWait
    /\ rcv.pc = "stamped" => rcv.at <= clock /\ clock <= rcv.at + MaxLockWait
    /\ Retained(st) # {} => clock <= sweptAt + MaxSweepGap
    /\ \A s \in Seqs : st.probe[s] = "pending" => sweptAt <= st.sentAt[s] + Timeout
    /\ \A s \in Seqs : st.probe[s] = "lost" => clock > st.sentAt[s] + Timeout

LEMMA SweepTimes ==
  ASSUME NEW old \in States, NEW now \in Nat, NEW s \in Seqs,
         NEW new, new = AfterSweep(old, now)
  PROVE  /\ new.probe[s] # "none" =>
                old.probe[s] # "none" /\ new.sentAt[s] = old.sentAt[s]
         /\ new.probe[s] = "pending" =>
                old.probe[s] = "pending" /\ now <= old.sentAt[s] + Timeout
         /\ new.probe[s] = "lost" =>
                old.probe[s] = "lost" \/ now > old.sentAt[s] + Timeout
  <1>1. /\ new.probe = [x \in Seqs |-> IF x \in Forgotten(old, now) THEN "none"
                                       ELSE IF x \in Expired(old, now) THEN "lost"
                                       ELSE old.probe[x]]
        /\ new.sentAt = [x \in Seqs |-> IF x \in Forgotten(old, now) THEN 0
                                        ELSE old.sentAt[x]]
    BY DEF AfterSweep, States
  <1>2. old.sentAt[s] \in Nat /\ Timeout \in Nat
    BY RetentionIsNat DEF States
  <1> QED BY <1>1, <1>2 DEF Forgotten, Expired, Retained, InState

LEMMA ReplyTimes ==
  ASSUME NEW old \in States, NEW seq \in Seqs, NEW now \in Nat, NEW s \in Seqs,
         NEW new, new = AfterReply(old, seq, now) \/ new = AfterStray(old)
  PROVE  /\ new.sentAt[s] = old.sentAt[s]
         /\ new.probe[s] # "none" => old.probe[s] # "none"
         /\ new.probe[s] = "pending" => old.probe[s] = "pending"
         /\ new.probe[s] = "lost" => old.probe[s] = "lost"
  <1>1. /\ new.sentAt = old.sentAt
        /\ \/ new.probe = old.probe
           \/ /\ new.probe = [old.probe EXCEPT ![seq] = "answered"]
              /\ old.probe[seq] # "none"
    <2>1. CASE new = AfterStray(old) \/ new = AfterDup(old)
      BY <2>1 DEF AfterStray, AfterDup, States
    <2>2. CASE /\ old.probe[seq] = "pending"
               /\ \/ new = AfterReplyOverdue(old, seq)
                  \/ new = AfterReplyInTime(old, seq, RTT(old, seq, now))
      BY <2>2 DEF AfterReplyOverdue, AfterReplyInTime, States
    <2>3. CASE old.probe[seq] = "lost" /\ new = AfterReplyToLost(old, seq)
      BY <2>3 DEF AfterReplyToLost, States
    <2> QED BY <2>1, <2>2, <2>3, ReplyCases
  <1> QED BY <1>1 DEF States

LEMMA WriteTimes ==
  ASSUME TypeOK, NEW s \in Seqs
  PROVE  /\ \/ AfterWrite.probe[s] = st.probe[s]
               /\ AfterWrite.sentAt[s] = st.sentAt[s]
            \/ AfterWrite.probe[s] = "pending" /\ AfterWrite.sentAt[s] = run.at
  <1>1. run.seq \in Seqs /\ st \in States
    BY DEF TypeOK
  <1>2. \/ AfterWrite.probe = st.probe /\ AfterWrite.sentAt = st.sentAt
        \/ /\ AfterWrite.probe = [st.probe EXCEPT ![run.seq] = "pending"]
           /\ AfterWrite.sentAt = [st.sentAt EXCEPT ![run.seq] = run.at]
    BY <1>1 DEF AfterWrite, AfterSent, AfterTXErr, States
  <1> QED BY <1>1, <1>2 DEF States

(* The steps that move the clock, the stamps or the sweep time.            *)
LEMMA NextTimeInv == TypeOK /\ ControlInv /\ TimeInv /\ [Next]_vars => TimeInv'
  <1> SUFFICES ASSUME TypeOK, ControlInv, TimeInv, [Next]_vars
               PROVE  TimeInv'
    OBVIOUS
  <1>0. /\ st \in States /\ clock \in Nat /\ sweptAt \in Nat
        /\ run.at \in Nat /\ rcv.at \in Nat /\ rcv.seq \in Seqs
        /\ Timeout \in Nat /\ MaxSweepGap \in Nat /\ MaxLockWait \in Nat
        /\ \A s \in Seqs : st.sentAt[s] \in Nat
    BY RetentionIsNat, BoundsAssumption DEF TypeOK, States
  <1>1. CASE UNCHANGED <<st, clock, sweptAt, run, rcv>>
    BY <1>1 DEF TimeInv, Retained
  <1>2. CASE Sample
    <2>1. /\ clock' = clock /\ sweptAt' = clock /\ run' = run /\ rcv' = rcv
          /\ st'.probe = AfterSweep(st, clock).probe
          /\ st'.sentAt = AfterSweep(st, clock).sentAt
      BY <1>0, <1>2, SnapshotKeeps DEF Sample
    <2>2. \A s \in Seqs :
            /\ st'.probe[s] = "pending" => clock <= st'.sentAt[s] + Timeout
            /\ st'.probe[s] = "lost" => clock > st'.sentAt[s] + Timeout
      BY <1>0, <2>1, SweepTimes DEF TimeInv
    <2> QED BY <1>0, <2>1, <2>2 DEF TimeInv
  <1>3. CASE SendReturns
    <2>1. /\ clock' = clock /\ sweptAt' = clock /\ rcv' = rcv
          /\ run'.pc = "loop" /\ st' = AfterSweep(AfterWrite, clock)
      BY <1>3 DEF SendReturns
    <2>2. AfterWrite \in States
      BY AfterWriteType
    <2>3. ASSUME NEW s \in Seqs
          PROVE  /\ st'.probe[s] = "pending" => clock <= st'.sentAt[s] + Timeout
                 /\ st'.probe[s] = "lost" => clock > st'.sentAt[s] + Timeout
      <3>1. AfterWrite.probe[s] = "lost" =>
              st.probe[s] = "lost" /\ AfterWrite.sentAt[s] = st.sentAt[s]
        BY WriteTimes
      <3> QED BY <1>0, <2>1, <2>2, <3>1, SweepTimes DEF TimeInv
    <2> QED BY <1>0, <2>1, <2>3 DEF TimeInv
  <1>4. CASE HandleReply
    <2>1. /\ clock' = clock /\ sweptAt' = sweptAt /\ run' = run
          /\ rcv'.pc = "reading"
          /\ st' = AfterReply(st, rcv.seq, rcv.at) \/ st' = AfterStray(st)
      BY <1>4 DEF HandleReply, Idle
    <2>2. \A s \in Seqs :
            /\ st'.sentAt[s] = st.sentAt[s]
            /\ st'.probe[s] # "none" => st.probe[s] # "none"
            /\ st'.probe[s] = "pending" => st.probe[s] = "pending"
            /\ st'.probe[s] = "lost" => st.probe[s] = "lost"
      BY <1>0, <2>1, ReplyTimes
    <2>3. Retained(st') # {} => Retained(st) # {}
      BY <2>2 DEF Retained
    <2> QED BY <1>0, <2>1, <2>2, <2>3 DEF TimeInv
  <1>5. CASE CountReadError
    <2>1. /\ UNCHANGED <<clock, sweptAt, run>> /\ rcv'.pc = "reading"
          /\ st' = AfterRXErr(st)
      BY <1>5 DEF CountReadError, TypeOK
    <2>2. st'.probe = st.probe /\ st'.sentAt = st.sentAt
      BY <1>0, <2>1 DEF AfterRXErr, States
    <2> QED BY <2>1, <2>2 DEF TimeInv, Retained
  <1>6. CASE Tick
    <2>1. /\ clock' = clock + 1 /\ UNCHANGED <<st, sweptAt, run, rcv>>
          /\ Retained(st) # {} => clock - sweptAt < MaxSweepGap
          /\ run.pc = "sending" => clock - run.at < MaxLockWait
          /\ rcv.pc = "stamped" => clock - rcv.at < MaxLockWait
      BY <1>6 DEF Tick
    <2> QED BY <1>0, <2>1 DEF TimeInv, Retained
  <1>7. ASSUME UNCHANGED <<st, clock, sweptAt>>,
               run' = run \/ run'.pc # "sending" \/ run'.at = clock,
               rcv' = rcv \/ rcv'.pc # "stamped" \/ rcv'.at = clock
        PROVE  TimeInv'
    BY <1>0, <1>7 DEF TimeInv, Retained
  <1>8. ASSUME NEW ok \in BOOLEAN, SendWrites(ok)
        PROVE  TimeInv'
    BY <1>7, <1>8 DEF SendWrites, TypeOK
  <1>9. CASE \/ Start \/ OpenFails \/ RetryOpen \/ GiveUpOpen \/ OpenSucceeds
             \/ RunReturns \/ RunDone
    BY <1>7, <1>9 DEF Start, OpenFails, RetryOpen, GiveUpOpen, OpenSucceeds,
                      RunReturns, RunDone, TypeOK
  <1>10. CASE \/ \E s \in Seqs : ReadReply(s)
              \/ \E s \in Seqs, fromTarget \in BOOLEAN : ReadForeign(s, fromTarget)
              \/ ReadFails \/ ReadFailsStopped \/ ReadClosed
    BY <1>7, <1>10 DEF ReadReply, ReadForeign, Stamp, ReadFails,
                       ReadFailsStopped, ReadClosed, TypeOK
  <1>11. CASE StopBegins \/ StopReturns \/ UNCHANGED vars
    BY <1>1, <1>11 DEF StopBegins, StopReturns, vars
  <1> QED BY <1>2, <1>3, <1>4, <1>5, <1>6, <1>8, <1>9, <1>10, <1>11
          DEF Next, RunStep, ReceiveStep, CollectorStep, Stopped

LEMMA TimeHolds == Spec => []TimeInv
  <1>1. Init => TimeInv
    BY BoundsAssumption DEF Init, TimeInv, NewState, Retained, Idle
  <1>2. Inv /\ TimeInv /\ [Next]_vars => TimeInv'
    BY NextTimeInv DEF Inv
  <1> QED BY <1>1, <1>2, InvHolds, PTL DEF Spec

(* When sweeps are dense and the lock is not held for longer than the      *)
(* retention window, every request is accounted for.                       *)
THEOREM NoProbeForgotten ==
  ASSUME MaxSweepGap + Timeout <= Retention, MaxLockWait <= Retention
  PROVE  Spec => []LossAccounted
  <1> DEFINE Exact == Unaccounted(st) = 0
  <1>1. Init => Exact
    BY NewBalance DEF Init
  <1>2. Inv /\ TimeInv /\ Exact /\ [Next]_vars => Exact'
    <2> SUFFICES ASSUME TypeOK, TimeInv, Exact, [Next]_vars
                 PROVE  Exact'
      BY DEF Inv
    <2>0. /\ st \in States /\ clock \in Nat /\ sweptAt \in Nat /\ run.at \in Nat
          /\ Timeout \in Nat /\ Retention \in Nat
          /\ MaxSweepGap \in Nat /\ MaxLockWait \in Nat
          /\ \A s \in Seqs : st.sentAt[s] \in Nat
      BY RetentionIsNat, BoundsAssumption DEF TypeOK, States
    <2>1. \A s \in Seqs : st.probe[s] = "pending" =>
                            clock - st.sentAt[s] <= Retention
      BY <2>0 DEF TimeInv, Retained
    <2>2. Dropped(st, clock) = {}
      BY <2>0, <2>1 DEF Dropped, InState, Forgotten
    <2>3. SendReturns => Dropped(AfterWrite, clock) = {}
      <3> SUFFICES ASSUME SendReturns, NEW s \in Seqs,
                          AfterWrite.probe[s] = "pending"
                   PROVE  ~(clock - AfterWrite.sentAt[s] > Retention)
        BY DEF Dropped, InState, Forgotten
      <3>1. clock - run.at <= Retention
        BY <2>0 DEF SendReturns, TimeInv
      <3> QED BY <2>0, <2>1, <3>1, WriteTimes
    <2>4. Cardinality({}) = 0
      BY FS_EmptySet
    <2> QED BY <2>2, <2>3, <2>4, BalanceStep
  <1>3. TypeOK /\ Exact => LossAccounted
    BY CountIsNat DEF TypeOK, States, LossAccounted, Unaccounted, Count
  <1> HIDE DEF Exact
  <1> QED BY <1>1, <1>2, <1>3, InvHolds, TimeHolds, TypeCorrect, PTL DEF Spec

(* A reply counted as late was received more than Timeout - MaxLockWait    *)
(* after its probe was sent.                                               *)
THEOREM LateIsLate == Spec => LateOnlyAfterTimeout
  <1>1. TypeOK /\ TimeInv /\ [Next]_vars
          => [st'.late > st.late
                => rcv.at - st.sentAt[rcv.seq] + MaxLockWait > Timeout]_st
    <2> SUFFICES ASSUME TypeOK, TimeInv, [Next]_vars, st'.late > st.late
                 PROVE  rcv.at - st.sentAt[rcv.seq] + MaxLockWait > Timeout
      OBVIOUS
    <2>0. /\ st \in States /\ clock \in Nat /\ AfterWrite \in States
          /\ rcv.at \in Nat /\ rcv.seq \in Seqs /\ Timeout \in Nat
          /\ MaxLockWait \in Nat /\ st.sentAt[rcv.seq] \in Nat
          /\ st.late \in Nat /\ AfterWrite.late = st.late
      <3>1. AfterWrite \in States
        BY AfterWriteType
      <3>2. /\ st \in States /\ clock \in Nat /\ rcv.at \in Nat
            /\ rcv.seq \in Seqs
        BY DEF TypeOK
      <3>3. st.sentAt[rcv.seq] \in Nat /\ st.late \in Nat
        BY <3>2 DEF States
      <3>4. AfterWrite.late = st.late
        BY <3>2 DEF AfterWrite, AfterSent, AfterTXErr, States
      <3>5. Timeout \in Nat /\ MaxLockWait \in Nat
        BY RetentionIsNat, BoundsAssumption
      <3> QED BY <3>1, <3>2, <3>3, <3>4, <3>5
    <2>1. HandleReply /\ st' = AfterReply(st, rcv.seq, rcv.at)
      <3>1. ~(st' = st) /\ ~CountReadError
        BY <2>0 DEF CountReadError, AfterRXErr, States
      <3>2. ~Sample /\ ~SendReturns
        <4>1. ASSUME NEW old \in States
              PROVE  AfterSweep(old, clock).late = old.late
          BY DEF AfterSweep, States
        <4>2. Sample => st'.late = st.late
          BY <2>0, <4>1, SnapshotKeeps DEF Sample
        <4>3. SendReturns => st'.late = st.late
          BY <2>0, <4>1 DEF SendReturns
        <4> QED BY <2>0, <4>2, <4>3
      <3>3. st' # AfterStray(st)
        BY <2>0 DEF AfterStray, States
      <3> QED BY <3>1, <3>2, <3>3, StateSteps DEF HandleReply
    <2>2. CASE /\ st.probe[rcv.seq] = "pending"
               /\ RTT(st, rcv.seq, rcv.at) > Timeout
      BY <2>0, <2>2 DEF RTT
    <2>3. CASE st.probe[rcv.seq] = "lost"
      <3>1. clock > st.sentAt[rcv.seq] + Timeout
        BY <2>0, <2>3 DEF TimeInv
      <3>2. clock <= rcv.at + MaxLockWait
        BY <2>1 DEF HandleReply, TimeInv
      <3> QED BY <2>0, <3>1, <3>2
    <2>4. CASE \/ st' = AfterStray(st) \/ st' = AfterDup(st)
               \/ st' = AfterReplyInTime(st, rcv.seq, RTT(st, rcv.seq, rcv.at))
      <3>1. st'.late = st.late
        <4>1. AfterStray(st).late = st.late /\ AfterDup(st).late = st.late
          BY <2>0 DEF AfterStray, AfterDup, States
        <4>2. AfterReplyInTime(st, rcv.seq, RTT(st, rcv.seq, rcv.at)).late = st.late
          BY <2>0 DEF AfterReplyInTime, States
        <4> QED BY <2>4, <4>1, <4>2
      <3> QED BY <2>0, <3>1
    <2> QED BY <2>0, <2>1, <2>2, <2>3, <2>4, ReplyCases
  <1> QED BY <1>1, TypeCorrect, TimeHolds, PTL DEF Spec, LateOnlyAfterTimeout

-----------------------------------------------------------------------------
(* The interval between two samples: its RTTs lie between the minimum and  *)
(* the maximum, which start afresh with it.                                *)
MeanInv ==
    /\ st.ivalRX = 0 => st.rttMin = 0 /\ st.rttMax = 0 /\ st.rttSum = sample.rttSum
    /\ sample.rttSum <= st.rttSum
    /\ IntervalMeanWithinMinMax

(* What each operation does to the figures of the interval.                *)
LEMMA IntervalFigures ==
  ASSUME NEW old \in States
  PROVE  /\ \A now \in Nat : LET new == AfterSweep(old, now) IN
              new.ivalRX = old.ivalRX /\ new.rttMin = old.rttMin /\ new.rttMax = old.rttMax /\ new.rttSum = old.rttSum
         /\ \A now \in Nat : LET new == AfterSnapshot(old, now) IN
              new.ivalRX = 0 /\ new.rttMin = 0 /\ new.rttMax = 0 /\ new.rttSum = old.rttSum
         /\ \A new \in {AfterStray(old), AfterDup(old), AfterTXErr(old), AfterRXErr(old)} :
              new.ivalRX = old.ivalRX /\ new.rttMin = old.rttMin /\ new.rttMax = old.rttMax /\ new.rttSum = old.rttSum
         /\ \A s \in Seqs, now \in Nat : \A new \in {AfterSent(old, s, now), AfterReplyOverdue(old, s), AfterReplyToLost(old, s)} :
              new.ivalRX = old.ivalRX /\ new.rttMin = old.rttMin /\ new.rttMax = old.rttMax /\ new.rttSum = old.rttSum
         /\ \A s \in Seqs, rtt \in Nat : LET new == AfterReplyInTime(old, s, rtt) IN
              /\ new.ivalRX = old.ivalRX + 1 /\ new.rttSum = old.rttSum + rtt
              /\ new.rttMin = IF old.ivalRX = 0 \/ rtt < old.rttMin THEN rtt ELSE old.rttMin
              /\ new.rttMax = IF rtt > old.rttMax THEN rtt ELSE old.rttMax
  <1>1. ASSUME NEW now \in Nat
        PROVE  LET new == AfterSweep(old, now) IN
              new.ivalRX = old.ivalRX /\ new.rttMin = old.rttMin /\ new.rttMax = old.rttMax /\ new.rttSum = old.rttSum
    BY DEF AfterSweep, States
  <1>2. ASSUME NEW now \in Nat
        PROVE  LET new == AfterSnapshot(old, now) IN
              new.ivalRX = 0 /\ new.rttMin = 0 /\ new.rttMax = 0 /\ new.rttSum = old.rttSum
    BY DEF AfterSnapshot, AfterSweep, States
  <1>3. ASSUME NEW new \in {AfterStray(old), AfterDup(old), AfterTXErr(old), AfterRXErr(old)}
        PROVE  new.ivalRX = old.ivalRX /\ new.rttMin = old.rttMin /\ new.rttMax = old.rttMax /\ new.rttSum = old.rttSum
    BY DEF AfterStray, AfterDup, AfterTXErr, AfterRXErr, States
  <1>4. ASSUME NEW s \in Seqs, NEW now \in Nat, NEW new \in {AfterSent(old, s, now), AfterReplyOverdue(old, s), AfterReplyToLost(old, s)}
        PROVE  new.ivalRX = old.ivalRX /\ new.rttMin = old.rttMin /\ new.rttMax = old.rttMax /\ new.rttSum = old.rttSum
    BY DEF AfterSent, AfterReplyOverdue, AfterReplyToLost, States
  <1>5. ASSUME NEW s \in Seqs, NEW rtt \in Nat
        PROVE  LET new == AfterReplyInTime(old, s, rtt) IN
              /\ new.ivalRX = old.ivalRX + 1 /\ new.rttSum = old.rttSum + rtt
              /\ new.rttMin = IF old.ivalRX = 0 \/ rtt < old.rttMin THEN rtt ELSE old.rttMin
              /\ new.rttMax = IF rtt > old.rttMax THEN rtt ELSE old.rttMax
    BY DEF AfterReplyInTime, States
  <1> QED BY <1>1, <1>2, <1>3, <1>4, <1>5

(* One more RTT in the interval.                                           *)
LEMMA OneMoreRTT ==
  ASSUME NEW k \in Nat, NEW min \in Nat, NEW max \in Nat, NEW sum \in Nat, NEW rtt \in Nat,
         k * min <= sum, sum <= k * max, k = 0 => max = 0,
         NEW low, low = (IF k = 0 \/ rtt < min THEN rtt ELSE min),
         NEW high, high = (IF rtt > max THEN rtt ELSE max)
  PROVE  (k + 1) * low <= sum + rtt /\ sum + rtt <= (k + 1) * high
  <1>1. low \in Nat /\ high \in Nat /\ low <= rtt /\ rtt <= high /\ (k # 0 => low <= min) /\ max <= high
    OBVIOUS
  <1>2. \A a, b, c \in Nat : a <= b => c * a <= c * b
    OBVIOUS
  <1>3. k * low <= k * min /\ k * max <= k * high
    BY <1>1, <1>2
  <1>4. (k + 1) * low = k * low + low /\ (k + 1) * high = k * high + high
    BY <1>1
  <1>5. k * low \in Nat /\ k * min \in Nat /\ k * max \in Nat /\ k * high \in Nat
    BY <1>1
  <1> QED BY <1>1, <1>3, <1>4, <1>5

LEMMA NextMeanInv == TypeOK /\ MeanInv /\ [Next]_vars => MeanInv'
  <1> SUFFICES ASSUME TypeOK, MeanInv, [Next]_vars PROVE MeanInv'
    OBVIOUS
  <1>0. /\ st \in States /\ clock \in Nat /\ AfterWrite \in States /\ run.seq \in Seqs /\ run.at \in Nat
        /\ rcv.seq \in Seqs /\ rcv.at \in Nat
    BY AfterWriteType DEF TypeOK
  <1>1. st.ivalRX \in Nat /\ st.rttMin \in Nat /\ st.rttMax \in Nat /\ st.rttSum \in Nat /\ sample.rttSum \in Nat
    BY <1>0 DEF States, TypeOK
  <1>2. ASSUME st'.ivalRX = st.ivalRX, st'.rttMin = st.rttMin, st'.rttMax = st.rttMax, st'.rttSum = st.rttSum,
               sample'.rttSum = sample.rttSum
        PROVE  MeanInv'
    BY <1>2 DEF MeanInv, IntervalMeanWithinMinMax
  <1>3. ~ Sample => sample' = sample
    BY DEF Next, RunStep, ReceiveStep, CollectorStep, Stopped, vars, Start, StopBegins, StopReturns, OpenFails, RetryOpen,
           GiveUpOpen, OpenSucceeds, SendWrites, SendReturns, RunReturns, RunDone, ReadReply, ReadForeign, HandleReply,
           ReadFails, CountReadError, ReadFailsStopped, ReadClosed, Tick
  <1>4. CASE Sample
    <2>1. st' = AfterSnapshot(st, clock) /\ sample'.rttSum = AfterSweep(st, clock).rttSum
      BY <1>4 DEF Sample
    <2>2. st'.ivalRX = 0 /\ st'.rttMin = 0 /\ st'.rttMax = 0 /\ st'.rttSum = st.rttSum /\ sample'.rttSum = st.rttSum
      BY <1>0, <2>1, IntervalFigures
    <2> QED BY <1>1, <2>2 DEF MeanInv, IntervalMeanWithinMinMax
  <1>5. CASE SendReturns
    <2>1. st' = AfterSweep(AfterWrite, clock) /\ sample' = sample
      BY <1>5 DEF SendReturns
    <2>2. /\ AfterWrite.ivalRX = st.ivalRX /\ AfterWrite.rttMin = st.rttMin
          /\ AfterWrite.rttMax = st.rttMax /\ AfterWrite.rttSum = st.rttSum
      BY <1>0, IntervalFigures DEF AfterWrite
    <2>3. /\ st'.ivalRX = AfterWrite.ivalRX /\ st'.rttMin = AfterWrite.rttMin
          /\ st'.rttMax = AfterWrite.rttMax /\ st'.rttSum = AfterWrite.rttSum
      BY <1>0, <2>1, IntervalFigures
    <2> QED BY <1>2, <2>1, <2>2, <2>3
  <1>6. CASE HandleReply
    <2> DEFINE rtt == RTT(st, rcv.seq, rcv.at)
    <2>1. sample' = sample /\ (st' = AfterReply(st, rcv.seq, rcv.at) \/ st' = AfterStray(st))
      BY <1>6 DEF HandleReply
    <2>2. \/ st' = AfterReplyInTime(st, rcv.seq, rtt)
          \/ st' \in {AfterStray(st), AfterDup(st), AfterReplyOverdue(st, rcv.seq), AfterReplyToLost(st, rcv.seq)}
      BY <1>0, <2>1, ReplyCases
    <2>3. rtt \in Nat
      BY <1>0, RTTIsNat
    <2> HIDE DEF rtt
    <2>4. CASE st' = AfterReplyInTime(st, rcv.seq, rtt)
      <3>1. /\ st'.ivalRX = st.ivalRX + 1 /\ st'.rttSum = st.rttSum + rtt
            /\ st'.rttMin = IF st.ivalRX = 0 \/ rtt < st.rttMin THEN rtt ELSE st.rttMin
            /\ st'.rttMax = IF rtt > st.rttMax THEN rtt ELSE st.rttMax
        BY <1>0, <2>3, <2>4, IntervalFigures
      <3> DEFINE sum == st.rttSum - sample.rttSum
      <3>2. /\ sum \in Nat /\ st.ivalRX * st.rttMin <= sum /\ sum <= st.ivalRX * st.rttMax
            /\ st.ivalRX = 0 => st.rttMax = 0
        BY <1>1 DEF MeanInv, IntervalMeanWithinMinMax
      <3>3. st'.rttSum - sample'.rttSum = sum + rtt /\ sample'.rttSum <= st'.rttSum
        BY <1>1, <2>1, <2>3, <3>1 DEF MeanInv
      <3> HIDE DEF sum
      <3>4. (st.ivalRX + 1) * st'.rttMin <= sum + rtt /\ sum + rtt <= (st.ivalRX + 1) * st'.rttMax
        BY <1>1, <2>3, <3>1, <3>2, OneMoreRTT
      <3> QED BY <1>1, <3>1, <3>3, <3>4 DEF MeanInv, IntervalMeanWithinMinMax
    <2>5. CASE st' \in {AfterStray(st), AfterDup(st), AfterReplyOverdue(st, rcv.seq), AfterReplyToLost(st, rcv.seq)}
      <3>1. st'.ivalRX = st.ivalRX /\ st'.rttMin = st.rttMin /\ st'.rttMax = st.rttMax /\ st'.rttSum = st.rttSum
        BY <1>0, <2>5, IntervalFigures
      <3> QED BY <1>2, <2>1, <3>1
    <2> QED BY <2>2, <2>4, <2>5
  <1>7. CASE CountReadError
    <2>1. st' = AfterRXErr(st) /\ sample' = sample
      BY <1>7 DEF CountReadError
    <2> QED BY <1>0, <1>2, <2>1, IntervalFigures
  <1>8. CASE st' = st /\ ~ Sample
    BY <1>2, <1>3, <1>8
  <1> QED BY <1>4, <1>5, <1>6, <1>7, <1>8, StateSteps

(* The mean RTT of an interval lies between its minimum and its maximum,    *)
(* however the replies and the samples interleave.                         *)
THEOREM MeanIsWithin == Spec => []IntervalMeanWithinMinMax
  <1>1. Init => MeanInv
    BY DEF Init, NewState, MeanInv, IntervalMeanWithinMinMax
  <1>2. TypeOK /\ MeanInv /\ [Next]_vars => MeanInv'
    BY NextMeanInv
  <1>3. MeanInv => IntervalMeanWithinMinMax
    BY DEF MeanInv
  <1> QED BY <1>1, <1>2, <1>3, TypeCorrect, PTL DEF Spec

-----------------------------------------------------------------------------
(* Errors and samples: the text of the interval's error is there exactly   *)
(* when an error was counted since the last sample.                        *)
Errs == st.txErr + st.rxErr

ErrInv ==
    /\ sample.errs <= Errs
    /\ ivalErr <=> sample.errs < Errs
    /\ sock = "none" => ~ ivalErr /\ run.pc \in {"off", "opening", "retrying", "done"} /\ rcv.pc = "off"

LEMMA ErrorFigures ==
  ASSUME NEW old \in States
  PROVE  /\ \A now \in Nat : \A new \in {AfterSweep(old, now), AfterSnapshot(old, now)} :
              new.txErr = old.txErr /\ new.rxErr = old.rxErr
         /\ \A s \in Seqs, now \in Nat : AfterSent(old, s, now).txErr = old.txErr /\ AfterSent(old, s, now).rxErr = old.rxErr
         /\ AfterTXErr(old).txErr = old.txErr + 1 /\ AfterTXErr(old).rxErr = old.rxErr
         /\ AfterRXErr(old).txErr = old.txErr /\ AfterRXErr(old).rxErr = old.rxErr + 1
         /\ \A s \in Seqs, now \in Nat : \A new \in {AfterReply(old, s, now), AfterStray(old)} :
              new.txErr = old.txErr /\ new.rxErr = old.rxErr
  <1>1. ASSUME NEW now \in Nat, NEW new \in {AfterSweep(old, now), AfterSnapshot(old, now)}
        PROVE  new.txErr = old.txErr /\ new.rxErr = old.rxErr
    BY DEF AfterSweep, AfterSnapshot, States
  <1>2. ASSUME NEW s \in Seqs, NEW now \in Nat
        PROVE  AfterSent(old, s, now).txErr = old.txErr /\ AfterSent(old, s, now).rxErr = old.rxErr
    BY DEF AfterSent, States
  <1>3. /\ AfterTXErr(old).txErr = old.txErr + 1 /\ AfterTXErr(old).rxErr = old.rxErr
        /\ AfterRXErr(old).txErr = old.txErr /\ AfterRXErr(old).rxErr = old.rxErr + 1
    BY DEF AfterTXErr, AfterRXErr, States
  <1>4. ASSUME NEW s \in Seqs, NEW now \in Nat, NEW new \in {AfterReply(old, s, now), AfterStray(old)}
        PROVE  new.txErr = old.txErr /\ new.rxErr = old.rxErr
    <2>1. CASE new = AfterStray(old) \/ new = AfterDup(old)
      BY <2>1 DEF AfterStray, AfterDup, States
    <2>2. CASE new = AfterReplyOverdue(old, s) \/ new = AfterReplyToLost(old, s)
      BY <2>2 DEF AfterReplyOverdue, AfterReplyToLost, States
    <2>3. CASE new = AfterReplyInTime(old, s, RTT(old, s, now))
      BY <2>3 DEF AfterReplyInTime, States
    <2> QED BY <2>1, <2>2, <2>3, ReplyCases
  <1> QED BY <1>1, <1>2, <1>3, <1>4

LEMMA NextErrInv == TypeOK /\ ControlInv /\ ErrInv /\ [Next]_vars => ErrInv'
  <1> SUFFICES ASSUME TypeOK, ControlInv, ErrInv, [Next]_vars PROVE ErrInv'
    OBVIOUS
  <1>0. /\ st \in States /\ clock \in Nat /\ AfterWrite \in States /\ run.seq \in Seqs /\ run.at \in Nat
        /\ rcv.seq \in Seqs /\ rcv.at \in Nat /\ st.txErr \in Nat /\ st.rxErr \in Nat /\ sample.errs \in Nat
        /\ ivalErr \in BOOLEAN /\ run.ok \in BOOLEAN
    <2>1. st \in States /\ AfterWrite \in States /\ ivalErr \in BOOLEAN
      BY AfterWriteType, Zenon DEF TypeOK
    <2> QED BY <2>1 DEF TypeOK, States
  <1>1. CASE Sample
    <2>1. /\ st' = AfterSnapshot(st, clock) /\ sample'.errs = AfterSweep(st, clock).txErr + AfterSweep(st, clock).rxErr
          /\ ivalErr' = FALSE /\ UNCHANGED <<sock, run, rcv>>
      BY <1>1 DEF Sample
    <2>2. st'.txErr = st.txErr /\ st'.rxErr = st.rxErr /\ sample'.errs = st.txErr + st.rxErr
      BY <1>0, <2>1, ErrorFigures
    <2> QED BY <1>0, <2>1, <2>2 DEF ErrInv, Errs
  <1>2. CASE SendReturns
    <2>1. /\ st' = AfterSweep(AfterWrite, clock) /\ sample' = sample /\ sock' = sock /\ rcv' = rcv
          /\ ivalErr' = (ivalErr \/ ~ run.ok) /\ run.pc = "sending"
      BY <1>2 DEF SendReturns
    <2>2. /\ st'.txErr = AfterWrite.txErr /\ st'.rxErr = AfterWrite.rxErr
      BY <1>0, <2>1, ErrorFigures
    <2>3. AfterWrite.rxErr = st.rxErr /\ AfterWrite.txErr = IF run.ok THEN st.txErr ELSE st.txErr + 1
      BY <1>0, ErrorFigures DEF AfterWrite
    <2>4. sock # "none"
      BY <2>1 DEF ErrInv
    <2>5. Errs \in Nat /\ Errs' = IF run.ok THEN Errs ELSE Errs + 1
      BY <1>0, <2>2, <2>3 DEF Errs
    <2>6. CASE run.ok
      <3>1. ivalErr' <=> ivalErr
        BY <2>1, <2>6, Zenon
      <3> QED BY <2>1, <2>4, <2>5, <2>6, <3>1 DEF ErrInv
    <2>7. CASE ~ run.ok
      <3>1. ivalErr'
        BY <2>1, <2>7, Zenon
      <3> QED BY <1>0, <2>1, <2>4, <2>5, <2>7, <3>1 DEF ErrInv
    <2> QED BY <2>6, <2>7
  <1>3. CASE HandleReply
    <2>1. /\ st' = AfterReply(st, rcv.seq, rcv.at) \/ st' = AfterStray(st)
          /\ rcv.pc = "stamped" /\ UNCHANGED <<sample, sock, ivalErr, run>>
      BY <1>3 DEF HandleReply
    <2>2. st'.txErr = st.txErr /\ st'.rxErr = st.rxErr
      BY <1>0, <2>1, ErrorFigures
    <2> QED BY <2>1, <2>2 DEF ErrInv, Errs
  <1>4. CASE CountReadError
    <2>1. st' = AfterRXErr(st) /\ ivalErr' = TRUE /\ rcv.pc = "failed" /\ UNCHANGED <<sample, sock, run>>
      BY <1>4 DEF CountReadError
    <2>2. st'.txErr = st.txErr /\ st'.rxErr = st.rxErr + 1
      BY <1>0, <2>1, ErrorFigures
    <2> QED BY <1>0, <2>1, <2>2 DEF ErrInv, Errs
  <1>5. ASSUME UNCHANGED <<st, sample, ivalErr>>,
               sock' = "none" => sock = "none" /\ run'.pc \in {"off", "opening", "retrying", "done"} /\ rcv'.pc = "off"
        PROVE  ErrInv'
    BY <1>5 DEF ErrInv, Errs
  <1>6. ASSUME NEW ok \in BOOLEAN, SendWrites(ok)
        PROVE  ErrInv'
    BY <1>5, <1>6 DEF SendWrites, ErrInv
  <1>7. CASE \/ Start \/ OpenFails \/ RetryOpen \/ GiveUpOpen \/ OpenSucceeds
             \/ RunReturns \/ RunDone
    <2>1. run \in [pc : RunPCs, seq : Seqs, at : Nat, ok : BOOLEAN]
      BY DEF TypeOK
    <2> QED BY <1>5, <1>7, <2>1 DEF Start, OpenFails, RetryOpen, GiveUpOpen, OpenSucceeds, RunReturns, RunDone, ErrInv
  <1>8. CASE \/ \E s \in Seqs : ReadReply(s)
             \/ \E s \in Seqs, fromTarget \in BOOLEAN : ReadForeign(s, fromTarget)
             \/ ReadFails \/ ReadFailsStopped \/ ReadClosed
    BY <1>5, <1>8 DEF ReadReply, ReadForeign, Stamp, ReadFails, ReadFailsStopped, ReadClosed
  <1>9. CASE Tick \/ StopBegins \/ StopReturns \/ UNCHANGED vars
    BY <1>5, <1>9 DEF Tick, StopBegins, StopReturns, vars, ErrInv
  <1> QED BY <1>1, <1>2, <1>3, <1>4, <1>6, <1>7, <1>8, <1>9
          DEF Next, RunStep, ReceiveStep, CollectorStep, Stopped

(* A sample that counts more errors than the one before carries a text of  *)
(* them, and once the socket is open no other sample carries one.          *)
THEOREM ErrorsAreReported == Spec => ErrorsReported
  <1>1. Init => ErrInv
    BY DEF Init, NewState, ErrInv, Errs, Idle
  <1>2. Inv /\ ErrInv /\ [Next]_vars => ErrInv'
    BY NextErrInv DEF Inv
  <1>3. TypeOK /\ ErrInv /\ [Next]_vars
          => [/\ sample'.errs > sample.errs => sample'.err
              /\ sample'.err /\ sock # "none" => sample'.errs > sample.errs]_sample
    <2> SUFFICES ASSUME TypeOK, ErrInv, [Next]_vars, ~ (sample' = sample)
                 PROVE  /\ sample'.errs > sample.errs => sample'.err
                        /\ sample'.err /\ sock # "none" => sample'.errs > sample.errs
      OBVIOUS
    <2>1. Sample
      BY DEF Next, RunStep, ReceiveStep, CollectorStep, Stopped, vars, Start, StopBegins, StopReturns, OpenFails, RetryOpen,
             GiveUpOpen, OpenSucceeds, SendWrites, SendReturns, RunReturns, RunDone, ReadReply, ReadForeign, HandleReply,
             ReadFails, CountReadError, ReadFailsStopped, ReadClosed, Tick
    <2>2. st \in States /\ clock \in Nat /\ st.txErr \in Nat /\ st.rxErr \in Nat /\ sample.errs \in Nat
      BY DEF TypeOK, States
    <2>3. /\ sample'.errs = AfterSweep(st, clock).txErr + AfterSweep(st, clock).rxErr
          /\ sample'.err = IF sock = "none" THEN openErr ELSE ivalErr
      BY <2>1 DEF Sample
    <2>4. sample'.errs = Errs
      BY <2>2, <2>3, ErrorFigures DEF Errs
    <2>5. CASE sock = "none"
      BY <2>2, <2>4, <2>5 DEF ErrInv, Errs
    <2>6. CASE sock # "none"
      BY <2>2, <2>3, <2>4, <2>6 DEF ErrInv, Errs
    <2> QED BY <2>5, <2>6
  <1> QED BY <1>1, <1>2, <1>3, InvHolds, TypeCorrect, PTL DEF Spec, ErrorsReported

-----------------------------------------------------------------------------
(* Replies to our own requests.  A request that was written is known to    *)
(* the bookkeeping once the lock is free, until it is older than the       *)
(* retention window.                                                       *)
Known(s) ==
    \/ run.pc = "sending" /\ run.ok /\ run.seq = s
    \/ st.probe[s] # "none" /\ st.sentAt[s] = wrote[s]
    \/ clock - wrote[s] > Retention

OwnInv ==
    /\ run.pc = "sending" => mu = "run"
    /\ run.pc = "sending" /\ run.ok => run.at = wrote[run.seq]
    /\ rcv.pc = "stamped" /\ rcv.own => rcv.fromTarget /\ Known(rcv.seq)
    /\ \A s \in Seqs : net[s] > 0 => Known(s)

(* A probe is forgotten only by a sweep, and only when it is old.          *)
LEMMA SweepRemembers ==
  ASSUME NEW old \in States, NEW now \in Nat, NEW s \in Seqs, old.probe[s] # "none"
  PROVE  /\ \/ AfterSweep(old, now).probe[s] # "none" /\ AfterSweep(old, now).sentAt[s] = old.sentAt[s]
            \/ now - old.sentAt[s] > Retention
         /\ AfterSnapshot(old, now).probe = AfterSweep(old, now).probe
         /\ AfterSnapshot(old, now).sentAt = AfterSweep(old, now).sentAt
  <1>1. /\ AfterSweep(old, now).probe = [x \in Seqs |-> IF x \in Forgotten(old, now) THEN "none"
                                           ELSE IF x \in Expired(old, now) THEN "lost"
                                           ELSE old.probe[x]]
        /\ AfterSweep(old, now).sentAt = [x \in Seqs |-> IF x \in Forgotten(old, now) THEN 0 ELSE old.sentAt[x]]
    BY DEF AfterSweep, States
  <1>2. s \in Forgotten(old, now) => now - old.sentAt[s] > Retention
    BY DEF Forgotten
  <1> QED BY <1>1, <1>2, SnapshotKeeps

LEMMA ReplyRemembers ==
  ASSUME NEW old \in States, NEW seq \in Seqs, NEW now \in Nat, NEW s \in Seqs,
         NEW new \in {AfterReply(old, seq, now), AfterStray(old), AfterRXErr(old)}
  PROVE  (old.probe[s] # "none" => new.probe[s] # "none") /\ new.sentAt = old.sentAt
  <1>1. CASE new = AfterStray(old) \/ new = AfterDup(old) \/ new = AfterRXErr(old)
    BY <1>1 DEF AfterStray, AfterDup, AfterRXErr, States
  <1>2. CASE new = AfterReplyOverdue(old, seq) \/ new = AfterReplyToLost(old, seq)
    BY <1>2 DEF AfterReplyOverdue, AfterReplyToLost, States
  <1>3. CASE new = AfterReplyInTime(old, seq, RTT(old, seq, now))
    BY <1>3 DEF AfterReplyInTime, States
  <1> QED BY <1>1, <1>2, <1>3, ReplyCases

LEMMA NextOwnInv == TypeOK /\ ControlInv /\ OwnInv /\ [Next]_vars => OwnInv'
  <1> SUFFICES ASSUME TypeOK, ControlInv, OwnInv, [Next]_vars PROVE OwnInv'
    OBVIOUS
  <1>0. /\ st \in States /\ clock \in Nat /\ AfterWrite \in States /\ Retention \in Nat
        /\ run.seq \in Seqs /\ run.at \in Nat /\ run.ok \in BOOLEAN
        /\ rcv.seq \in Seqs /\ rcv.at \in Nat
        /\ \A s \in Seqs : st.sentAt[s] \in Nat /\ wrote[s] \in Nat /\ net[s] \in Nat
    BY AfterWriteType, RetentionIsNat DEF TypeOK, States
  <1>1. \* nothing is written, and what is known stays known
        ASSUME \A s \in Seqs : Known(s) => Known(s)', UNCHANGED <<wrote, mu>>,
               run' = run \/ (run.pc # "sending" /\ run'.pc # "sending"),
               \A s \in Seqs : net'[s] > 0 => net[s] > 0,
               \/ rcv' = rcv
               \/ rcv'.pc # "stamped"
               \/ rcv'.seq \in Seqs /\ net[rcv'.seq] > 0 /\ rcv'.fromTarget
               \/ ~ rcv'.own
        PROVE  OwnInv'
    <2>1. (run.pc = "sending" => mu = "run")' /\ (run.pc = "sending" /\ run.ok => run.at = wrote[run.seq])'
      BY <1>1 DEF OwnInv
    <2>2. \A s \in Seqs : net'[s] > 0 => Known(s)'
      BY <1>1 DEF OwnInv
    <2>3. rcv'.pc = "stamped" /\ rcv'.own => rcv'.fromTarget /\ Known(rcv.seq)'
      <3>1. CASE rcv' = rcv
        <4>1. rcv.pc = "stamped" /\ rcv.own => rcv.fromTarget /\ Known(rcv.seq)
          BY DEF OwnInv
        <4>2. Known(rcv.seq) => Known(rcv.seq)'
          <5>1. \A s \in Seqs : s = rcv.seq => rcv'.seq = s
            BY <3>1
          <5> QED BY <1>0, <1>1, <3>1, <5>1 DEF Known
        <4> QED BY <3>1, <4>1, <4>2
      <3>2. CASE rcv'.seq \in Seqs /\ net[rcv'.seq] > 0 /\ rcv'.fromTarget
        <4>1. Known(rcv'.seq)
          BY <3>2 DEF OwnInv
        <4> QED BY <1>1, <3>2, <4>1 DEF Known
      <3> QED BY <1>1, <3>1, <3>2
    <2> QED BY <2>1, <2>2, <2>3 DEF OwnInv
  <1>2. ASSUME UNCHANGED <<clock, wrote, st>>, run' = run \/ (run.pc # "sending" /\ run'.pc # "sending")
        PROVE  \A s \in Seqs : Known(s) => Known(s)'
    BY <1>2 DEF Known
  <1>3. CASE Sample
    <2>1. st' = AfterSnapshot(st, clock) /\ mu = "free" /\ UNCHANGED <<clock, mu, run, rcv, net, wrote>>
      BY <1>3 DEF Sample
    <2>2. ASSUME NEW s \in Seqs, Known(s)
          PROVE  Known(s)'
      <3>1. CASE st.probe[s] # "none" /\ st.sentAt[s] = wrote[s]
        BY <1>0, <2>1, <3>1, SweepRemembers DEF Known
      <3>2. CASE \/ run.pc = "sending" /\ run.ok /\ run.seq = s
                 \/ clock - wrote[s] > Retention
        BY <2>1, <3>2 DEF Known
      <3> QED BY <2>2, <3>1, <3>2 DEF Known
    <2> QED BY <1>1, <2>1, <2>2
  <1>4. ASSUME NEW ok \in BOOLEAN, SendWrites(ok)
        PROVE  OwnInv'
    <2>1. /\ run.pc = "loop" /\ mu' = "run" /\ UNCHANGED <<clock, st, rcv>>
          /\ net' = IF ok THEN [net EXCEPT ![run.seq] = Copies] ELSE net
          /\ wrote' = IF ok THEN [wrote EXCEPT ![run.seq] = clock] ELSE wrote
      BY <1>4 DEF SendWrites
    <2>2. run'.pc = "sending" /\ run'.seq = run.seq /\ run'.at = clock /\ run'.ok = ok
      BY <1>4 DEF SendWrites, TypeOK
    <2>3. ASSUME NEW s \in Seqs, Known(s)
          PROVE  Known(s)'
      <3>1. CASE ok /\ s = run.seq
        BY <2>2, <3>1 DEF Known
      <3>2. CASE ~ (ok /\ s = run.seq)
        <4>1. wrote'[s] = wrote[s]
          BY <2>1, <3>2 DEF TypeOK
        <4> QED BY <2>1, <2>3, <4>1 DEF Known
      <3> QED BY <3>1, <3>2
    <2>4. ASSUME NEW s \in Seqs, net'[s] > 0
          PROVE  Known(s)'
      <3>1. CASE ok /\ s = run.seq
        BY <2>2, <3>1 DEF Known
      <3>2. CASE ~ (ok /\ s = run.seq)
        <4>1. net[s] > 0
          BY <2>1, <2>4, <3>2 DEF TypeOK
        <4> QED BY <2>3, <4>1 DEF OwnInv
      <3> QED BY <3>1, <3>2
    <2>5. rcv'.pc = "stamped" /\ rcv'.own => rcv'.fromTarget /\ Known(rcv.seq)'
      <3>1. rcv.pc = "stamped" /\ rcv.own => rcv.fromTarget /\ Known(rcv.seq)
        BY DEF OwnInv
      <3>2. ASSUME NEW s \in Seqs, s = rcv.seq, Known(s)
            PROVE  Known(rcv.seq)'
        <4>1. Known(s)' /\ rcv'.seq = s
          BY <2>1, <2>3, <3>2
        <4> QED BY <4>1 DEF Known
      <3> QED BY <1>0, <2>1, <3>1, <3>2
    <2>6. run'.pc = "sending" /\ run'.ok => run'.at = wrote'[run'.seq]
      BY <1>0, <2>1, <2>2 DEF TypeOK
    <2> QED BY <2>1, <2>2, <2>4, <2>5, <2>6 DEF OwnInv
  <1>5. CASE SendReturns
    <2>1. /\ st' = AfterSweep(AfterWrite, clock) /\ run.pc = "sending" /\ run'.pc = "loop"
          /\ UNCHANGED <<clock, rcv, net, wrote>>
      BY <1>5 DEF SendReturns
    <2>2. ASSUME NEW s \in Seqs, AfterWrite.probe[s] # "none", AfterWrite.sentAt[s] = wrote[s]
          PROVE  Known(s)'
      BY <1>0, <2>1, <2>2, SweepRemembers DEF Known
    <2>3. ASSUME NEW s \in Seqs, Known(s)
          PROVE  Known(s)'
      <3>1. CASE run.ok /\ run.seq = s
        <4>1. AfterWrite.probe[s] = "pending" /\ AfterWrite.sentAt[s] = run.at
          BY <1>0, <3>1 DEF AfterWrite, AfterSent, States
        <4>2. run.at = wrote[s]
          BY <2>1, <3>1 DEF OwnInv
        <4> QED BY <2>2, <4>1, <4>2
      <3>2. CASE clock - wrote[s] > Retention
        BY <2>1, <3>2 DEF Known
      <3>3. CASE ~ (run.ok /\ run.seq = s) /\ st.probe[s] # "none" /\ st.sentAt[s] = wrote[s]
        <4>1. AfterWrite.probe[s] = st.probe[s] /\ AfterWrite.sentAt[s] = st.sentAt[s]
          BY <1>0, <3>3 DEF AfterWrite, AfterSent, AfterTXErr, States
        <4> QED BY <2>2, <3>3, <4>1
      <3> QED BY <2>3, <3>1, <3>2, <3>3 DEF Known
    <2>4. rcv'.pc = "stamped" /\ rcv'.own => rcv'.fromTarget /\ Known(rcv.seq)'
      <3>1. rcv.pc = "stamped" /\ rcv.own => rcv.fromTarget /\ Known(rcv.seq)
        BY DEF OwnInv
      <3>2. ASSUME NEW s \in Seqs, s = rcv.seq, Known(s)
            PROVE  Known(rcv.seq)'
        <4>1. Known(s)' /\ rcv'.seq = s
          BY <2>1, <2>3, <3>2
        <4> QED BY <4>1 DEF Known
      <3> QED BY <1>0, <2>1, <3>1, <3>2
    <2>5. \A s \in Seqs : net'[s] > 0 => Known(s)'
      BY <2>1, <2>3 DEF OwnInv
    <2> QED BY <2>1, <2>4, <2>5 DEF OwnInv
  <1>6. CASE HandleReply \/ CountReadError
    <2>1. /\ st' \in {AfterReply(st, rcv.seq, rcv.at), AfterStray(st), AfterRXErr(st)}
          /\ rcv'.pc = "reading" /\ UNCHANGED <<clock, mu, run, net, wrote>>
      BY <1>6 DEF HandleReply, CountReadError, Idle, TypeOK
    <2>2. ASSUME NEW s \in Seqs
          PROVE  Known(s) => Known(s)'
      <3>1. (st.probe[s] # "none" => st'.probe[s] # "none") /\ st'.sentAt = st.sentAt
        BY <1>0, <2>1, ReplyRemembers
      <3> QED BY <2>1, <3>1 DEF Known
    <2> QED BY <1>1, <2>1, <2>2
  <1>7. ASSUME NEW s \in Seqs, ReadReply(s)
        PROVE  OwnInv'
    <2>1. /\ rcv'.seq = s /\ rcv'.fromTarget /\ net[s] > 0 /\ net' = [net EXCEPT ![s] = @ - 1]
          /\ UNCHANGED <<clock, st, mu, run, wrote>>
      BY <1>7 DEF ReadReply, Stamp
    <2>2. \A x \in Seqs : net'[x] > 0 => net[x] > 0
      BY <2>1 DEF TypeOK
    <2> QED BY <1>1, <1>2, <2>1, <2>2
  <1>8. ASSUME NEW s \in Seqs, NEW fromTarget \in BOOLEAN, ReadForeign(s, fromTarget)
        PROVE  OwnInv'
    <2>1. ~ rcv'.own /\ UNCHANGED <<clock, st, mu, run, wrote, net>>
      BY <1>8 DEF ReadForeign, Stamp
    <2> QED BY <1>1, <1>2, <2>1
  <1>9. CASE Tick
    <2>1. clock' = clock + 1 /\ UNCHANGED <<st, mu, run, rcv, wrote, net>>
      BY <1>9 DEF Tick
    <2>2. \A s \in Seqs : Known(s) => Known(s)'
      BY <1>0, <2>1 DEF Known
    <2> QED BY <1>1, <2>1, <2>2
  <1>10. CASE \/ Start \/ OpenFails \/ RetryOpen \/ GiveUpOpen \/ OpenSucceeds
              \/ RunReturns \/ RunDone
    <2>1. run \in [pc : RunPCs, seq : Seqs, at : Nat, ok : BOOLEAN]
      BY DEF TypeOK
    <2>2. UNCHANGED <<clock, wrote, st, mu, net>>
      BY <1>10 DEF Start, OpenFails, RetryOpen, GiveUpOpen, OpenSucceeds, RunReturns, RunDone
    <2>3. run.pc # "sending" /\ run'.pc # "sending"
      BY <1>10, <2>1 DEF Start, OpenFails, RetryOpen, GiveUpOpen, OpenSucceeds, RunReturns, RunDone, ControlInv
    <2>4. rcv' = rcv \/ rcv'.pc # "stamped"
      BY <1>10 DEF Start, OpenFails, RetryOpen, GiveUpOpen, OpenSucceeds, RunReturns, RunDone, TypeOK
    <2> QED BY <1>1, <1>2, <2>2, <2>3, <2>4
  <1>11. CASE \/ ReadFails \/ ReadFailsStopped \/ ReadClosed \/ StopBegins \/ StopReturns \/ UNCHANGED vars
    <2>1. UNCHANGED <<clock, wrote, st, mu, net, run>>
      BY <1>11 DEF ReadFails, ReadFailsStopped, ReadClosed, StopBegins, StopReturns, vars
    <2>2. rcv' = rcv \/ rcv'.pc # "stamped"
      BY <1>11 DEF ReadFails, ReadFailsStopped, ReadClosed, StopBegins, StopReturns, vars, TypeOK
    <2> QED BY <1>1, <1>2, <2>1, <2>2
  <1> QED BY <1>3, <1>4, <1>5, <1>6, <1>7, <1>8, <1>9, <1>10, <1>11
          DEF Next, RunStep, ReceiveStep, CollectorStep, Stopped

(* A reply to one of our own requests is a stray only when that request is *)
(* older than the retention window: the lock is held across the write.     *)
THEOREM OwnRepliesAreKnown == Spec => OwnReplyNeverStray
  <1>1. Init => OwnInv
    BY DEF Init, OwnInv, Idle
  <1>2. Inv /\ OwnInv /\ [Next]_vars => OwnInv'
    BY NextOwnInv DEF Inv
  <1>3. TypeOK /\ OwnInv /\ [Next]_vars
          => [st'.stray > st.stray /\ rcv.own => clock - wrote[rcv.seq] > Retention]_st
    <2> SUFFICES ASSUME TypeOK, OwnInv, [Next]_vars, st'.stray > st.stray, rcv.own
                 PROVE  clock - wrote[rcv.seq] > Retention
      OBVIOUS
    <2>0. /\ st \in States /\ clock \in Nat /\ AfterWrite \in States /\ rcv.seq \in Seqs /\ rcv.at \in Nat
          /\ run.seq \in Seqs /\ run.at \in Nat /\ st.stray \in Nat
      BY AfterWriteType DEF TypeOK, States
    <2>1. ~ (st' = st \/ Sample \/ SendReturns \/ CountReadError)
      <3>1. CASE st' = st
        BY <2>0, <3>1
      <3>2. CASE Sample
        BY <2>0, <3>2 DEF Sample, AfterSnapshot, AfterSweep, States
      <3>3. CASE SendReturns
        <4>1. AfterWrite.stray = st.stray
          BY <2>0 DEF AfterWrite, AfterSent, AfterTXErr, States
        <4>2. st' = AfterSweep(AfterWrite, clock)
          BY <3>3 DEF SendReturns
        <4>3. st'.stray = AfterWrite.stray
          BY <2>0, <4>2 DEF AfterSweep, States
        <4> QED BY <2>0, <4>1, <4>3
      <3>4. CASE CountReadError
        BY <2>0, <3>4 DEF CountReadError, AfterRXErr, States
      <3> QED BY <3>1, <3>2, <3>3, <3>4, <2>0
    <2>2. HandleReply
      BY <2>1, StateSteps
    <2>3. rcv.pc = "stamped" /\ mu = "free" /\ st' = IF rcv.fromTarget THEN AfterReply(st, rcv.seq, rcv.at) ELSE AfterStray(st)
      BY <2>2 DEF HandleReply
    <2>4. rcv.fromTarget /\ Known(rcv.seq) /\ run.pc # "sending"
      BY <2>3 DEF OwnInv
    <2>5. st.probe[rcv.seq] = "none"
      <3> SUFFICES ASSUME st.probe[rcv.seq] # "none" PROVE FALSE
        OBVIOUS
      <3>1. st.probe[rcv.seq] \in {"pending", "answered", "lost"}
        BY <2>0 DEF States, ProbeStates
      <3>2. CASE st.probe[rcv.seq] = "answered"
        BY <2>0, <2>3, <2>4, <3>2 DEF AfterReply, AfterDup, States
      <3>3. CASE st.probe[rcv.seq] = "lost"
        <4>1. st' = AfterReplyToLost(st, rcv.seq)
          BY <2>3, <2>4, <3>3 DEF AfterReply
        <4>2. AfterReplyToLost(st, rcv.seq).stray = st.stray
          BY <2>0 DEF AfterReplyToLost, States
        <4> QED BY <2>0, <4>1, <4>2
      <3>4. CASE st.probe[rcv.seq] = "pending"
        BY <2>0, <2>3, <2>4, <3>4 DEF AfterReply, AfterReplyOverdue, AfterReplyInTime, States
      <3> QED BY <3>1, <3>2, <3>3, <3>4
    <2> QED BY <2>4, <2>5 DEF Known
  <1> QED BY <1>1, <1>2, <1>3, InvHolds, TypeCorrect, PTL DEF Spec, OwnReplyNeverStray
=============================================================================
