-------------------------- MODULE PingStateProofs --------------------------
(***************************************************************************)
(* What each operation of PingState does to the type of the state and to   *)
(* two balances of its counters.                                           *)
(***************************************************************************)
EXTENDS PingState, FiniteSetTheorems, TLAPS

\* The number of probes in state p.
Count(st, p) == Cardinality(InState(st, p))

\* Requests handed to the kernel that no counter and no probe stands for.
Unaccounted(st) == st.tx - st.rx - st.lost - Count(st, "pending")

\* Probes counted as lost that neither had nor can still have a late reply.
Written(st) == st.lost - st.late - Count(st, "lost")

-----------------------------------------------------------------------------
LEMMA RetentionIsNat == Retention \in Nat /\ Timeout \in Nat /\ Timeout < Retention
  BY WindowAssumption DEF Retention

LEMMA SeqsFinite == IsFiniteSet(Seqs)
  BY SeqModAssumption, FS_Interval DEF Seqs

LEMMA DisjointCardinality ==
  ASSUME NEW A, NEW B, IsFiniteSet(A), IsFiniteSet(B), A \cap B = {}
  PROVE  /\ IsFiniteSet(A \cup B)
         /\ Cardinality(A \cup B) = Cardinality(A) + Cardinality(B)
  <1>1. Cardinality(A) \in Nat /\ Cardinality(B) \in Nat
    BY FS_CardinalityType
  <1>2. Cardinality(A \cap B) = 0
    BY FS_EmptySet
  <1>3. /\ IsFiniteSet(A \cup B)
        /\ Cardinality(A \cup B)
             = Cardinality(A) + Cardinality(B) - Cardinality(A \cap B)
    BY FS_Union
  <1> QED BY <1>1, <1>2, <1>3

LEMMA SubsetOfSeqsFinite ==
  ASSUME NEW A \in SUBSET Seqs
  PROVE  IsFiniteSet(A) /\ Cardinality(A) \in Nat
  BY SeqsFinite, FS_Subset, FS_CardinalityType

LEMMA CountIsNat ==
  ASSUME NEW st, NEW p
  PROVE  IsFiniteSet(InState(st, p)) /\ Count(st, p) \in Nat
  BY SubsetOfSeqsFinite DEF InState, Count

(* Moving one probe to another state moves one unit between the counts.    *)
LEMMA CountMoves ==
  ASSUME NEW st \in States, NEW new \in States, NEW seq \in Seqs,
         NEW q \in ProbeStates, NEW p \in ProbeStates,
         new.probe = [st.probe EXCEPT ![seq] = q]
  PROVE  Count(new, p) = Count(st, p) - (IF st.probe[seq] = p THEN 1 ELSE 0)
                                      + (IF q = p THEN 1 ELSE 0)
  <1> DEFINE Rest == InState(st, p) \ {seq}
  <1>1. /\ IsFiniteSet(Rest)
        /\ Cardinality(Rest) = Count(st, p) - (IF st.probe[seq] = p THEN 1 ELSE 0)
    <2>1. seq \in InState(st, p) <=> st.probe[seq] = p
      BY DEF InState
    <2> QED BY <2>1, CountIsNat, FS_RemoveElement DEF Count
  <1>2. /\ seq \notin Rest
        /\ InState(new, p) = IF q = p THEN Rest \cup {seq} ELSE Rest
    BY DEF InState, States
  <1>3. Cardinality(Rest \cup {seq}) = Cardinality(Rest) + 1
    BY <1>1, <1>2, FS_AddElement
  <1>4. Cardinality(Rest) \in Nat
    BY <1>1, FS_CardinalityType
  <1> HIDE DEF Rest
  <1>5. CASE q = p
    BY <1>1, <1>2, <1>3, <1>4, <1>5, CountIsNat DEF Count
  <1>6. CASE q # p
    BY <1>1, <1>2, <1>4, <1>6, CountIsNat DEF Count
  <1> QED BY <1>5, <1>6

(* A new state with the same probes has the same counts.                   *)
LEMMA CountSame ==
  ASSUME NEW st, NEW new, new.probe = st.probe, NEW p
  PROVE  Count(new, p) = Count(st, p)
  BY DEF Count, InState

-----------------------------------------------------------------------------
(* AfterSent.                                                              *)
LEMMA SentType ==
  ASSUME NEW st \in States, NEW seq \in Seqs, NEW now \in Nat
  PROVE  AfterSent(st, seq, now) \in States
  <1>1. [st.probe EXCEPT ![seq] = "pending"] \in [Seqs -> ProbeStates]
    BY DEF States, ProbeStates
  <1>2. [st.sentAt EXCEPT ![seq] = now] \in [Seqs -> Nat]
    BY DEF States
  <1>3. (IF st.probe[seq] = "pending" THEN st.lost + 1 ELSE st.lost) \in Nat
    BY DEF States
  <1>4. st.tx + 1 \in Nat
    BY DEF States
  <1> QED BY <1>1, <1>2, <1>3, <1>4 DEF AfterSent, States

LEMMA SentBalance ==
  ASSUME NEW st \in States, NEW seq \in Seqs, NEW now \in Nat
  PROVE  /\ Unaccounted(AfterSent(st, seq, now)) = Unaccounted(st)
         /\ Written(AfterSent(st, seq, now)) >= Written(st)
  <1> DEFINE new == AfterSent(st, seq, now)
  <1>1. /\ new.probe = [st.probe EXCEPT ![seq] = "pending"]
        /\ new.tx = st.tx + 1 /\ new.rx = st.rx /\ new.late = st.late
        /\ new.lost = IF st.probe[seq] = "pending" THEN st.lost + 1 ELSE st.lost
    BY DEF AfterSent, States
  <1>2. new \in States
    BY SentType
  <1> HIDE DEF new
  <1>3. Count(new, "pending") = Count(st, "pending")
                        - (IF st.probe[seq] = "pending" THEN 1 ELSE 0) + 1
    BY <1>1, <1>2, CountMoves DEF ProbeStates
  <1>4. Count(new, "lost") = Count(st, "lost")
                        - (IF st.probe[seq] = "lost" THEN 1 ELSE 0)
    <2>1. "pending" # "lost"
      OBVIOUS
    <2>2. Count(new, "lost") = Count(st, "lost")
                        - (IF st.probe[seq] = "lost" THEN 1 ELSE 0)
                        + (IF "pending" = "lost" THEN 1 ELSE 0)
      BY <1>1, <1>2, CountMoves DEF ProbeStates
    <2> QED BY <2>1, <2>2, CountIsNat
  <1>5. Count(st, "pending") \in Nat /\ Count(st, "lost") \in Nat
    BY CountIsNat
  <1>6. st.tx \in Nat /\ st.rx \in Nat /\ st.lost \in Nat /\ st.late \in Nat
    BY DEF States
  <1>7. Unaccounted(new) = Unaccounted(st)
    BY <1>1, <1>3, <1>5, <1>6 DEF Unaccounted
  <1>8. Written(new) >= Written(st)
    BY <1>1, <1>4, <1>5, <1>6 DEF Written
  <1> QED BY <1>7, <1>8 DEF new

-----------------------------------------------------------------------------
(* AfterReply, one lemma per way a reply can be classified.                *)
LEMMA RTTIsNat ==
  ASSUME NEW st \in States, NEW seq \in Seqs, NEW now \in Nat
  PROVE  RTT(st, seq, now) \in Nat
  BY DEF RTT, States

LEMMA AnsweredProbeType ==
  ASSUME NEW st \in States, NEW seq \in Seqs
  PROVE  [st.probe EXCEPT ![seq] = "answered"] \in [Seqs -> ProbeStates]
  BY DEF States, ProbeStates

LEMMA InTimeType ==
  ASSUME NEW st \in States, NEW seq \in Seqs, NEW rtt \in Nat
  PROVE  AfterReplyInTime(st, seq, rtt) \in States
  <1>1. (IF st.ivalRX = 0 \/ rtt < st.rttMin THEN rtt ELSE st.rttMin) \in Nat
    BY DEF States
  <1>2. (IF rtt > st.rttMax THEN rtt ELSE st.rttMax) \in Nat
    BY DEF States
  <1>3. st.rx + 1 \in Nat /\ st.rttSum + rtt \in Nat /\ st.ivalRX + 1 \in Nat
    BY DEF States
  <1> QED BY <1>1, <1>2, <1>3, AnsweredProbeType DEF AfterReplyInTime, States

LEMMA OverdueType ==
  ASSUME NEW st \in States, NEW seq \in Seqs
  PROVE  AfterReplyOverdue(st, seq) \in States
  <1>1. st.lost + 1 \in Nat /\ st.late + 1 \in Nat
    BY DEF States
  <1> QED BY <1>1, AnsweredProbeType DEF AfterReplyOverdue, States

LEMMA ToLostType ==
  ASSUME NEW st \in States, NEW seq \in Seqs
  PROVE  AfterReplyToLost(st, seq) \in States
  <1>1. st.late + 1 \in Nat
    BY DEF States
  <1> QED BY <1>1, AnsweredProbeType DEF AfterReplyToLost, States

LEMMA StrayType ==
  ASSUME NEW st \in States
  PROVE  AfterStray(st) \in States
  BY DEF AfterStray, States

LEMMA DupType ==
  ASSUME NEW st \in States
  PROVE  AfterDup(st) \in States
  BY DEF AfterDup, States

LEMMA ErrorTypes ==
  ASSUME NEW st \in States
  PROVE  AfterTXErr(st) \in States /\ AfterRXErr(st) \in States
  BY DEF AfterTXErr, AfterRXErr, States

(* The four cases of the switch in reply, and their outcomes.              *)
LEMMA ReplyCases ==
  ASSUME NEW st \in States, NEW seq \in Seqs, NEW now \in Nat
  PROVE  \/ /\ st.probe[seq] = "none"
            /\ AfterReply(st, seq, now) = AfterStray(st)
         \/ /\ st.probe[seq] = "pending"
            /\ RTT(st, seq, now) > Timeout
            /\ AfterReply(st, seq, now) = AfterReplyOverdue(st, seq)
         \/ /\ st.probe[seq] = "pending"
            /\ ~(RTT(st, seq, now) > Timeout)
            /\ AfterReply(st, seq, now)
                 = AfterReplyInTime(st, seq, RTT(st, seq, now))
         \/ /\ st.probe[seq] = "answered"
            /\ AfterReply(st, seq, now) = AfterDup(st)
         \/ /\ st.probe[seq] = "lost"
            /\ AfterReply(st, seq, now) = AfterReplyToLost(st, seq)
  <1>1. st.probe[seq] \in ProbeStates
    BY DEF States
  <1> QED BY <1>1 DEF AfterReply, ProbeStates

LEMMA ReplyType ==
  ASSUME NEW st \in States, NEW seq \in Seqs, NEW now \in Nat
  PROVE  AfterReply(st, seq, now) \in States
  BY ReplyCases, RTTIsNat, InTimeType, OverdueType, ToLostType, StrayType, DupType

(* The counters other than tx, rx, lost and late are in no balance.        *)
LEMMA SameBalance ==
  ASSUME NEW st, NEW new,
         new.probe = st.probe, new.tx = st.tx, new.rx = st.rx,
         new.lost = st.lost, new.late = st.late
  PROVE  Unaccounted(new) = Unaccounted(st) /\ Written(new) = Written(st)
  BY CountSame DEF Unaccounted, Written

LEMMA OtherCounters ==
  ASSUME NEW st \in States,
         NEW new \in {AfterStray(st), AfterDup(st), AfterTXErr(st), AfterRXErr(st)}
  PROVE  Unaccounted(new) = Unaccounted(st) /\ Written(new) = Written(st)
  <1>1. /\ new.probe = st.probe /\ new.tx = st.tx /\ new.rx = st.rx
        /\ new.lost = st.lost /\ new.late = st.late
    BY DEF AfterStray, AfterDup, AfterTXErr, AfterRXErr, States
  <1> QED BY <1>1, SameBalance

LEMMA AnsweredMoves ==
  ASSUME NEW st \in States, NEW new \in States, NEW seq \in Seqs,
         new.probe = [st.probe EXCEPT ![seq] = "answered"],
         NEW p \in ProbeStates, p # "answered"
  PROVE  Count(new, p) = Count(st, p) - (IF st.probe[seq] = p THEN 1 ELSE 0)
  <1>1. "answered" \in ProbeStates
    BY DEF ProbeStates
  <1>2. Count(new, p) = Count(st, p) - (IF st.probe[seq] = p THEN 1 ELSE 0)
                                     + (IF "answered" = p THEN 1 ELSE 0)
    BY <1>1, CountMoves
  <1> QED BY <1>2, CountIsNat

LEMMA ReplyBalance ==
  ASSUME NEW st \in States, NEW seq \in Seqs, NEW now \in Nat
  PROVE  /\ Unaccounted(AfterReply(st, seq, now)) = Unaccounted(st)
         /\ Written(AfterReply(st, seq, now)) = Written(st)
  <1> DEFINE new == AfterReply(st, seq, now)
  <1> SUFFICES /\ Unaccounted(new) = Unaccounted(st)
               /\ Written(new) = Written(st)
    OBVIOUS
  <1>1. new \in States
    BY ReplyType
  <1>2. /\ st.tx \in Nat /\ st.rx \in Nat /\ st.lost \in Nat /\ st.late \in Nat
        /\ Count(st, "pending") \in Nat /\ Count(st, "lost") \in Nat
    BY CountIsNat DEF States
  <1>3. ASSUME new.probe = [st.probe EXCEPT ![seq] = "answered"]
        PROVE  /\ Count(new, "pending") = Count(st, "pending")
                        - (IF st.probe[seq] = "pending" THEN 1 ELSE 0)
               /\ Count(new, "lost") = Count(st, "lost")
                        - (IF st.probe[seq] = "lost" THEN 1 ELSE 0)
    <2> HIDE DEF new
    <2> QED BY <1>1, <1>3, AnsweredMoves DEF ProbeStates
  <1>5. CASE /\ st.probe[seq] = "pending"
             /\ new = AfterReplyOverdue(st, seq)
    <2>1. /\ new.probe = [st.probe EXCEPT ![seq] = "answered"]
          /\ new.tx = st.tx /\ new.rx = st.rx
          /\ new.lost = st.lost + 1 /\ new.late = st.late + 1
      BY <1>5 DEF AfterReplyOverdue, States
    <2> HIDE DEF new
    <2>2. /\ Count(new, "pending") = Count(st, "pending") - 1
          /\ Count(new, "lost") = Count(st, "lost")
      BY <1>2, <1>3, <1>5, <2>1
    <2> QED BY <1>2, <2>1, <2>2 DEF Unaccounted, Written
  <1>6. CASE /\ st.probe[seq] = "pending"
             /\ new = AfterReplyInTime(st, seq, RTT(st, seq, now))
    <2>1. /\ new.probe = [st.probe EXCEPT ![seq] = "answered"]
          /\ new.tx = st.tx /\ new.rx = st.rx + 1
          /\ new.lost = st.lost /\ new.late = st.late
      BY <1>6 DEF AfterReplyInTime, States
    <2> HIDE DEF new
    <2>2. /\ Count(new, "pending") = Count(st, "pending") - 1
          /\ Count(new, "lost") = Count(st, "lost")
      BY <1>2, <1>3, <1>6, <2>1
    <2> QED BY <1>2, <2>1, <2>2 DEF Unaccounted, Written
  <1>7. CASE /\ st.probe[seq] = "lost"
             /\ new = AfterReplyToLost(st, seq)
    <2>1. /\ new.probe = [st.probe EXCEPT ![seq] = "answered"]
          /\ new.tx = st.tx /\ new.rx = st.rx
          /\ new.lost = st.lost /\ new.late = st.late + 1
      BY <1>7 DEF AfterReplyToLost, States
    <2> HIDE DEF new
    <2>2. /\ Count(new, "pending") = Count(st, "pending")
          /\ Count(new, "lost") = Count(st, "lost") - 1
      BY <1>2, <1>3, <1>7, <2>1
    <2> QED BY <1>2, <2>1, <2>2 DEF Unaccounted, Written
  <1>8. CASE new = AfterStray(st) \/ new = AfterDup(st)
    BY <1>8, OtherCounters
  <1> QED BY <1>5, <1>6, <1>7, <1>8, ReplyCases

-----------------------------------------------------------------------------
(* AfterSweep.                                                             *)
LEMMA SweepType ==
  ASSUME NEW st \in States, NEW now \in Nat
  PROVE  AfterSweep(st, now) \in States
  <1>1. [s \in Seqs |-> IF s \in Forgotten(st, now) THEN "none"
                        ELSE IF s \in Expired(st, now) THEN "lost"
                        ELSE st.probe[s]] \in [Seqs -> ProbeStates]
    BY DEF States, ProbeStates
  <1>2. [s \in Seqs |-> IF s \in Forgotten(st, now) THEN 0 ELSE st.sentAt[s]]
          \in [Seqs -> Nat]
    BY DEF States
  <1>3. st.lost + Cardinality(Expired(st, now)) \in Nat
    <2>1. Cardinality(Expired(st, now)) \in Nat
      BY SubsetOfSeqsFinite DEF Expired, InState
    <2> QED BY <2>1 DEF States
  <1> QED BY <1>1, <1>2, <1>3 DEF AfterSweep, States

\* The pending probes a sweep deletes without counting them.
Dropped(st, now) == InState(st, "pending") \cap Forgotten(st, now)

LEMMA SweepBalance ==
  ASSUME NEW st \in States, NEW now \in Nat
  PROVE  /\ Unaccounted(AfterSweep(st, now))
              = Unaccounted(st) + Cardinality(Dropped(st, now))
         /\ Written(AfterSweep(st, now)) >= Written(st)
  <1> DEFINE new == AfterSweep(st, now)
             E == Expired(st, now)
             D == Dropped(st, now)
             F == Forgotten(st, now) \cap InState(st, "lost")
  <1>1. /\ new.probe = [s \in Seqs |->
                           IF s \in Forgotten(st, now) THEN "none"
                           ELSE IF s \in Expired(st, now) THEN "lost"
                           ELSE st.probe[s]]
        /\ new.lost = st.lost + Cardinality(E)
        /\ new.tx = st.tx /\ new.rx = st.rx /\ new.late = st.late
    BY DEF AfterSweep, States
  <1>2. /\ E \subseteq Seqs /\ D \subseteq Seqs /\ F \subseteq Seqs
        /\ IsFiniteSet(E) /\ IsFiniteSet(D) /\ IsFiniteSet(F)
        /\ Cardinality(E) \in Nat /\ Cardinality(D) \in Nat
        /\ Cardinality(F) \in Nat
    BY SubsetOfSeqsFinite DEF Expired, Dropped, InState
  <1>3. Count(st, "pending") = Count(new, "pending") + Cardinality(E) + Cardinality(D)
    <2>1. /\ InState(st, "pending") = (InState(new, "pending") \cup E) \cup D
          /\ InState(new, "pending") \cap E = {}
          /\ (InState(new, "pending") \cup E) \cap D = {}
      BY <1>1 DEF InState, Expired, Dropped, Forgotten, Retained
    <2>2. IsFiniteSet(InState(new, "pending"))
      BY CountIsNat
    <2> HIDE DEF new, E, D
    <2>3. /\ IsFiniteSet(InState(new, "pending") \cup E)
          /\ Cardinality(InState(new, "pending") \cup E)
               = Cardinality(InState(new, "pending")) + Cardinality(E)
      BY <1>2, <2>1, <2>2, DisjointCardinality
    <2>4. Cardinality((InState(new, "pending") \cup E) \cup D)
               = Cardinality(InState(new, "pending") \cup E) + Cardinality(D)
      BY <1>2, <2>1, <2>3, DisjointCardinality
    <2> QED BY <2>1, <2>3, <2>4 DEF Count
  <1>4. Count(new, "lost") + Cardinality(F) = Count(st, "lost") + Cardinality(E)
    <2>1. /\ InState(new, "lost") \cup F = InState(st, "lost") \cup E
          /\ InState(new, "lost") \cap F = {}
          /\ InState(st, "lost") \cap E = {}
      BY <1>1 DEF InState, Expired, Forgotten, Retained
    <2>2. IsFiniteSet(InState(new, "lost")) /\ IsFiniteSet(InState(st, "lost"))
      BY CountIsNat
    <2> HIDE DEF new, E, F
    <2> QED BY <1>2, <2>1, <2>2, DisjointCardinality DEF Count
  <1>5. /\ Count(st, "pending") \in Nat /\ Count(st, "lost") \in Nat
        /\ Count(new, "pending") \in Nat /\ Count(new, "lost") \in Nat
        /\ st.tx \in Nat /\ st.rx \in Nat /\ st.lost \in Nat /\ st.late \in Nat
    BY CountIsNat DEF States
  <1> HIDE DEF new, E, D, F
  <1>6. Unaccounted(new) = Unaccounted(st) + Cardinality(D)
    BY <1>1, <1>2, <1>3, <1>5 DEF Unaccounted
  <1>7. Written(new) >= Written(st)
    BY <1>1, <1>2, <1>4, <1>5 DEF Written
  <1> QED BY <1>6, <1>7 DEF new, D

-----------------------------------------------------------------------------
(* AfterSnapshot keeps everything AfterSweep leaves but the RTT interval.  *)
LEMMA SnapshotType ==
  ASSUME NEW st \in States, NEW now \in Nat
  PROVE  AfterSnapshot(st, now) \in States
  BY SweepType DEF AfterSnapshot, States

LEMMA SnapshotKeeps ==
  ASSUME NEW st \in States, NEW now \in Nat
  PROVE  LET swept == AfterSweep(st, now)
             new == AfterSnapshot(st, now)
         IN  /\ new.probe = swept.probe /\ new.sentAt = swept.sentAt
             /\ new.tx = swept.tx /\ new.rx = swept.rx
             /\ new.lost = swept.lost /\ new.late = swept.late
             /\ new.rttSum = swept.rttSum
  BY SweepType DEF AfterSnapshot, States

LEMMA SnapshotBalance ==
  ASSUME NEW st \in States, NEW now \in Nat
  PROVE  /\ Unaccounted(AfterSnapshot(st, now))
              = Unaccounted(st) + Cardinality(Dropped(st, now))
         /\ Written(AfterSnapshot(st, now)) >= Written(st)
  <1>1. /\ Unaccounted(AfterSnapshot(st, now)) = Unaccounted(AfterSweep(st, now))
        /\ Written(AfterSnapshot(st, now)) = Written(AfterSweep(st, now))
    BY SnapshotKeeps, CountSame DEF Unaccounted, Written
  <1> QED BY <1>1, SweepBalance
=============================================================================
