---------------------------- MODULE ChartsProofs ----------------------------
(***************************************************************************)
(* Theorems about Charts, for every value of its constants: what is        *)
(* charted of a counter happened, whatever reset it, the shares are those  *)
(* of the time that was spent, and a rate is of the CPU it is shown for.   *)
(***************************************************************************)
EXTENDS Charts, FoldLemmas

Counts == [cpu : [CPUs -> [Modes -> Nat]], rx : [CPUs -> Nat], burn : [VMs -> Nat], drop : Nat]

\* The counters at two times.
Upto(a, b) ==
    /\ a.drop <= b.drop
    /\ \A v \in VMs : a.burn[v] <= b.burn[v]
    /\ \A c \in CPUs : a.rx[c] <= b.rx[c] /\ \A m \in Modes : a.cpu[c][m] <= b.cpu[c][m]

CountsInv ==
    /\ ever \in Counts /\ base \in Counts
    /\ Upto(base, ever)
    /\ online \in SUBSET CPUs /\ running \in SUBSET VMs

TypesInv ==
    /\ scene \in Scenes /\ clock \in Nat \ {0} /\ events \in 0 .. MaxEvents
    /\ online # {} /\ present \in BOOLEAN

\* Time goes one way through the capture, up to now.
HistoryInv ==
    /\ truth \in Seq([ever : Counts, base : Counts, online : SUBSET CPUs])
    /\ \A k \in DOMAIN truth :
           Upto(truth[k].ever, ever) /\ Upto(truth[k].base, base) /\ Upto(truth[k].base, truth[k].ever)
    /\ \A j, k \in DOMAIN truth :
           j <= k => Upto(truth[j].ever, truth[k].ever) /\ Upto(truth[j].base, truth[k].base)

\* The outputs when e had happened, and b at the last reset.
LineOf(e, b, c) == [f \in Fields |-> Jiffies(e, c, f) - Jiffies(b, c, f)]
StatOf(e, b, on) ==
    [cpu |-> [c \in {All} \cup on |->
                 IF c = All THEN [f \in Fields |-> SumFunction([o \in CPUs |-> LineOf(e, b, o)[f]])]
                 ELSE LineOf(e, b, c)],
     softirq |-> SumFunction([c \in CPUs |-> e.rx[c] - b.rx[c]])]
SoftirqsOf(e, b)    == [c \in CPUs |-> e.rx[c] - b.rx[c]]
RowOf(on, r)        == CHOOSE c \in on : Cardinality({d \in on : d <= c}) = r
SoftnetOf(e, b, on) == [r \in 1 .. Cardinality(on) |-> e.rx[RowOf(on, r)] - b.rx[RowOf(on, r)]]

\* What a snapshot holds of each command.
StatAt(t)     == {Nothing, <<StatOf(t.ever, t.base, t.online)>>}
SoftirqsAt(t) == {Nothing, <<SoftirqsOf(t.ever, t.base)>>}
SoftnetAt(t)  == {Nothing, <<SoftnetOf(t.ever, t.base, t.online)>>}
PsAt(t)       == {Nothing} \cup {<<[v \in R |-> t.ever.burn[v] - t.base.burn[v]]>> : R \in SUBSET VMs}
SysfsAt(t)    == {Nothing, Missing, <<t.ever.drop - t.base.drop>>}

Holds(s, t) ==
    /\ s.time \in Nat
    /\ s.out["stat"] \in StatAt(t) /\ s.out["softirqs"] \in SoftirqsAt(t) /\ s.out["softnet"] \in SoftnetAt(t)
    /\ s.out["ps"] \in PsAt(t) /\ s.out["sysfs"] \in SysfsAt(t)

CaptureInv ==
    /\ \E S : snaps \in Seq(S)
    /\ Len(snaps) = Len(truth)
    /\ \A k \in DOMAIN snaps : Holds(snaps[k], truth[k])

Inv == CountsInv /\ TypesInv /\ HistoryInv /\ CaptureInv

-----------------------------------------------------------------------------
LEMMA UptoRefl == \A a \in Counts : Upto(a, a)
  BY DEF Counts, Upto

LEMMA UptoTrans ==
  ASSUME NEW a \in Counts, NEW b \in Counts, NEW c \in Counts, Upto(a, b), Upto(b, c)
  PROVE  Upto(a, c)
  <1>1. a.drop <= c.drop
    BY DEF Counts, Upto
  <1>2. ASSUME NEW v \in VMs PROVE a.burn[v] <= c.burn[v]
    <2>1. a.burn[v] \in Nat /\ b.burn[v] \in Nat /\ c.burn[v] \in Nat
      BY DEF Counts
    <2>2. a.burn[v] <= b.burn[v] /\ b.burn[v] <= c.burn[v]
      BY DEF Upto
    <2> QED BY <2>1, <2>2
  <1>3. ASSUME NEW o \in CPUs PROVE a.rx[o] <= c.rx[o]
    <2>1. a.rx[o] \in Nat /\ b.rx[o] \in Nat /\ c.rx[o] \in Nat
      BY DEF Counts
    <2>2. a.rx[o] <= b.rx[o] /\ b.rx[o] <= c.rx[o]
      BY DEF Upto
    <2> QED BY <2>1, <2>2
  <1>4. ASSUME NEW o \in CPUs, NEW m \in Modes PROVE a.cpu[o][m] <= c.cpu[o][m]
    <2>1. a.cpu[o][m] \in Nat /\ b.cpu[o][m] \in Nat /\ c.cpu[o][m] \in Nat
      BY DEF Counts
    <2>2. a.cpu[o][m] <= b.cpu[o][m] /\ b.cpu[o][m] <= c.cpu[o][m]
      BY DEF Upto
    <2> QED BY <2>1, <2>2
  <1> QED BY <1>1, <1>2, <1>3, <1>4 DEF Upto

\* Counters that differ in one field.
LEMMA OneField ==
  ASSUME NEW a \in Counts
  PROVE  /\ \A f \in [CPUs -> [Modes -> Nat]] :
               (\A c \in CPUs, m \in Modes : a.cpu[c][m] <= f[c][m])
                   => [a EXCEPT !.cpu = f] \in Counts /\ Upto(a, [a EXCEPT !.cpu = f])
         /\ \A f \in [CPUs -> Nat] :
               (\A c \in CPUs : a.rx[c] <= f[c])
                   => [a EXCEPT !.rx = f] \in Counts /\ Upto(a, [a EXCEPT !.rx = f])
         /\ \A f \in [VMs -> Nat] :
               (\A v \in VMs : a.burn[v] <= f[v])
                   => [a EXCEPT !.burn = f] \in Counts /\ Upto(a, [a EXCEPT !.burn = f])
         /\ \A n \in Nat : a.drop <= n => [a EXCEPT !.drop = n] \in Counts /\ Upto(a, [a EXCEPT !.drop = n])
  <1>1. a.drop \in Nat /\ a.burn \in [VMs -> Nat] /\ a.rx \in [CPUs -> Nat] /\ a.cpu \in [CPUs -> [Modes -> Nat]]
    BY DEF Counts
  <1>2. \A v \in VMs : a.burn[v] <= a.burn[v]
    BY <1>1
  <1>3. \A c \in CPUs : a.rx[c] <= a.rx[c]
    BY <1>1
  <1>4. \A c \in CPUs, m \in Modes : a.cpu[c][m] <= a.cpu[c][m]
    BY <1>1
  <1>5. ASSUME NEW f \in [CPUs -> [Modes -> Nat]], \A c \in CPUs, m \in Modes : a.cpu[c][m] <= f[c][m]
        PROVE  [a EXCEPT !.cpu = f] \in Counts /\ Upto(a, [a EXCEPT !.cpu = f])
    <2>1. [a EXCEPT !.cpu = f] = [cpu |-> f, rx |-> a.rx, burn |-> a.burn, drop |-> a.drop]
      BY DEF Counts
    <2> QED BY <1>1, <1>2, <1>3, <1>5, <2>1 DEF Counts, Upto
  <1>6. ASSUME NEW f \in [CPUs -> Nat], \A c \in CPUs : a.rx[c] <= f[c]
        PROVE  [a EXCEPT !.rx = f] \in Counts /\ Upto(a, [a EXCEPT !.rx = f])
    <2>1. [a EXCEPT !.rx = f] = [cpu |-> a.cpu, rx |-> f, burn |-> a.burn, drop |-> a.drop]
      BY DEF Counts
    <2> QED BY <1>1, <1>2, <1>4, <1>6, <2>1 DEF Counts, Upto
  <1>7. ASSUME NEW f \in [VMs -> Nat], \A v \in VMs : a.burn[v] <= f[v]
        PROVE  [a EXCEPT !.burn = f] \in Counts /\ Upto(a, [a EXCEPT !.burn = f])
    <2>1. [a EXCEPT !.burn = f] = [cpu |-> a.cpu, rx |-> a.rx, burn |-> f, drop |-> a.drop]
      BY DEF Counts
    <2> QED BY <1>1, <1>3, <1>4, <1>7, <2>1 DEF Counts, Upto
  <1>8. ASSUME NEW n \in Nat, a.drop <= n
        PROVE  [a EXCEPT !.drop = n] \in Counts /\ Upto(a, [a EXCEPT !.drop = n])
    <2>1. [a EXCEPT !.drop = n] = [cpu |-> a.cpu, rx |-> a.rx, burn |-> a.burn, drop |-> n]
      BY DEF Counts
    <2> QED BY <1>1, <1>2, <1>3, <1>4, <1>8, <2>1 DEF Counts, Upto
  <1> QED BY <1>5, <1>6, <1>7, <1>8

\* A sequence with one more element.
LEMMA Appended ==
  ASSUME NEW S, NEW s \in Seq(S), NEW x
  PROVE  /\ Append(s, x) \in Seq(S \cup {x})
         /\ Len(Append(s, x)) = Len(s) + 1
         /\ DOMAIN Append(s, x) = DOMAIN s \cup {Len(s) + 1}
         /\ \A i \in DOMAIN s : Append(s, x)[i] = s[i]
         /\ Append(s, x)[Len(s) + 1] = x
  <1> DEFINE T == S \cup {x}
  <1>1. s \in Seq(T) /\ x \in T
    OBVIOUS
  <1> QED BY <1>1

LEMMA TruthType ==
  ASSUME HistoryInv, NEW k \in DOMAIN truth
  PROVE  truth[k].ever \in Counts /\ truth[k].base \in Counts
  <1> DEFINE T == [ever : Counts, base : Counts, online : SUBSET CPUs]
  <1>1. truth \in Seq(T)
    BY DEF HistoryInv
  <1>2. truth[k] \in T
    <2> HIDE DEF T
    <2> QED BY <1>1
  <1> QED BY <1>2

LEMMA InitInv == Init => Inv
  <1> SUFFICES ASSUME Init PROVE Inv
    OBVIOUS
  <1>1. NothingYet \in Counts
    BY DEF NothingYet, Counts
  <1>2. CountsInv
    BY <1>1, UptoRefl DEF Init, CountsInv
  <1>3. truth = <<>> /\ snaps = <<>>
    BY DEF Init
  <1>4. HistoryInv
    BY <1>3 DEF HistoryInv
  <1>5. CaptureInv
    <2>1. snaps \in Seq({})
      BY <1>3
    <2> QED BY <1>3, <2>1 DEF CaptureInv
  <1>6. TypesInv
    BY ChartsAssumption DEF Init, TypesInv
  <1> QED BY <1>2, <1>4, <1>5, <1>6 DEF Inv

(* Whatever the host does, its counters go up and no reset is undone.      *)
LEMMA HostGrows ==
  ASSUME Inv, HostStep
  PROVE  CountsInv' /\ Upto(ever, ever') /\ Upto(base, base') /\ UNCHANGED <<snaps, truth>>
  <1> USE DEF Inv, CountsInv
  <1>1. ASSUME NEW e \in Counts, Upto(ever, e), Does(e)
        PROVE  CountsInv' /\ Upto(ever, ever') /\ Upto(base, base') /\ UNCHANGED <<snaps, truth>>
    <2>1. ever' = e /\ UNCHANGED <<base, online, running, snaps, truth>>
      BY <1>1 DEF Does
    <2>2. Upto(base, e)
      BY <1>1, UptoTrans
    <2> QED BY <1>1, <2>1, <2>2, UptoRefl
  <1>2. ASSUME NEW c \in CPUs, NEW m \in Modes, Work(c, m)
        PROVE  CountsInv' /\ Upto(ever, ever') /\ Upto(base, base') /\ UNCHANGED <<snaps, truth>>
    <2> DEFINE f == [ever.cpu EXCEPT ![c][m] = @ + 1]
               e == [ever EXCEPT !.cpu = f]
    <2>1. e \in Counts /\ Upto(ever, e)
      <3>1. ever.cpu \in [CPUs -> [Modes -> Nat]]
        BY DEF Counts
      <3>2. f \in [CPUs -> [Modes -> Nat]] /\ \A o \in CPUs, n \in Modes : ever.cpu[o][n] <= f[o][n]
        BY <3>1
      <3> HIDE DEF f
      <3> QED BY <3>2, OneField
    <2>2. Does(e)
      BY <1>2 DEF Work
    <2> HIDE DEF e
    <2> QED BY <1>1, <2>1, <2>2
  <1>3. ASSUME NEW c \in CPUs, Receive(c)
        PROVE  CountsInv' /\ Upto(ever, ever') /\ Upto(base, base') /\ UNCHANGED <<snaps, truth>>
    <2> DEFINE f == [ever.rx EXCEPT ![c] = @ + 1]
               e == [ever EXCEPT !.rx = f]
    <2>1. e \in Counts /\ Upto(ever, e)
      <3>1. ever.rx \in [CPUs -> Nat]
        BY DEF Counts
      <3>2. f \in [CPUs -> Nat] /\ \A o \in CPUs : ever.rx[o] <= f[o]
        BY <3>1
      <3> HIDE DEF f
      <3> QED BY <3>2, OneField
    <2>2. Does(e)
      BY <1>3 DEF Receive
    <2> HIDE DEF e
    <2> QED BY <1>1, <2>1, <2>2
  <1>4. ASSUME NEW v \in VMs, Burn(v)
        PROVE  CountsInv' /\ Upto(ever, ever') /\ Upto(base, base') /\ UNCHANGED <<snaps, truth>>
    <2> DEFINE f == [ever.burn EXCEPT ![v] = @ + 1]
               e == [ever EXCEPT !.burn = f]
    <2>1. e \in Counts /\ Upto(ever, e)
      <3>1. ever.burn \in [VMs -> Nat]
        BY DEF Counts
      <3>2. f \in [VMs -> Nat] /\ \A u \in VMs : ever.burn[u] <= f[u]
        BY <3>1
      <3> HIDE DEF f
      <3> QED BY <3>2, OneField
    <2>2. Does(e)
      BY <1>4 DEF Burn
    <2> HIDE DEF e
    <2> QED BY <1>1, <2>1, <2>2
  <1>5. ASSUME Drop
        PROVE  CountsInv' /\ Upto(ever, ever') /\ Upto(base, base') /\ UNCHANGED <<snaps, truth>>
    <2> DEFINE e == [ever EXCEPT !.drop = ever.drop + 1]
    <2>1. e \in Counts /\ Upto(ever, e)
      <3>1. ever.drop \in Nat
        BY DEF Counts
      <3> QED BY <3>1, OneField
    <2>2. Does(e)
      BY <1>5 DEF Drop
    <2> HIDE DEF e
    <2> QED BY <1>1, <2>1, <2>2
  <1>6. ASSUME NEW c \in CPUs, Plug(c)
        PROVE  CountsInv' /\ Upto(ever, ever') /\ Upto(base, base') /\ UNCHANGED <<snaps, truth>>
    BY <1>6, UptoRefl DEF Plug
  <1>7. ASSUME NEW v \in VMs, Launch(v)
        PROVE  CountsInv' /\ Upto(ever, ever') /\ Upto(base, base') /\ UNCHANGED <<snaps, truth>>
    <2>1. /\ base' = [base EXCEPT !.burn[v] = ever.burn[v]]
          /\ running' = running \cup {v}
          /\ UNCHANGED <<ever, online, snaps, truth>>
      BY <1>7 DEF Launch
    <2> DEFINE f == [base.burn EXCEPT ![v] = ever.burn[v]]
    <2>2. /\ f \in [VMs -> Nat] /\ base' = [base EXCEPT !.burn = f]
          /\ \A u \in VMs : base.burn[u] <= f[u] /\ f[u] <= ever.burn[u]
      <3>1. ever.burn \in [VMs -> Nat] /\ base.burn \in [VMs -> Nat]
        BY DEF Counts
      <3> QED BY <2>1, <3>1 DEF Upto
    <2> HIDE DEF f
    <2>3. base' \in Counts /\ Upto(base, base')
      BY <2>2, OneField
    <2>4. Upto(base', ever)
      <3>1. base' = [cpu |-> base.cpu, rx |-> base.rx, burn |-> f, drop |-> base.drop]
        BY <2>2 DEF Counts
      <3> QED BY <2>2, <3>1 DEF Upto
    <2> QED BY <2>1, <2>3, <2>4, UptoRefl
  <1>8. ASSUME NEW v \in VMs, Exit(v)
        PROVE  CountsInv' /\ Upto(ever, ever') /\ Upto(base, base') /\ UNCHANGED <<snaps, truth>>
    BY <1>8, UptoRefl DEF Exit
  <1>9. ASSUME Replug
        PROVE  CountsInv' /\ Upto(ever, ever') /\ Upto(base, base') /\ UNCHANGED <<snaps, truth>>
    <2>1. UNCHANGED <<ever, online, running, snaps, truth>>
      BY <1>9 DEF Replug
    <2>2. base' \in Counts /\ Upto(base, base') /\ Upto(base', ever)
      <3>1. CASE UNCHANGED base
        BY <3>1, UptoRefl
      <3>2. CASE base' = [base EXCEPT !.drop = ever.drop]
        <4>1. ever.drop \in Nat /\ base.drop <= ever.drop
          BY DEF Counts, Upto
        <4>2. base' \in Counts /\ Upto(base, base')
          BY <3>2, <4>1, OneField
        <4>3. base' = [cpu |-> base.cpu, rx |-> base.rx, burn |-> base.burn, drop |-> ever.drop]
          BY <3>2 DEF Counts
        <4> QED BY <4>1, <4>2, <4>3 DEF Upto
      <3> QED BY <1>9, <3>1, <3>2 DEF Replug
    <2> QED BY <2>1, <2>2, UptoRefl
  <1>10. ASSUME Reboot
         PROVE  CountsInv' /\ Upto(ever, ever') /\ Upto(base, base') /\ UNCHANGED <<snaps, truth>>
    BY <1>10, UptoRefl DEF Reboot
  <1> QED
    BY <1>2, <1>3, <1>4, <1>5, <1>6, <1>7, <1>8, <1>9, <1>10 DEF HostStep

LEMMA HostTypes ==
  ASSUME TypesInv, HostStep
  PROVE  TypesInv'
  <1> USE DEF TypesInv
  <1>1. ASSUME Event PROVE events' \in 0 .. MaxEvents
    BY <1>1, ChartsAssumption DEF Event
  <1>2. ASSUME NEW e, Does(e) PROVE TypesInv'
    BY <1>1, <1>2 DEF Does
  <1>3. CASE \E c \in CPUs : Receive(c) \/ \E m \in Modes : Work(c, m)
    BY <1>2, <1>3 DEF Receive, Work
  <1>4. CASE Drop \/ \E v \in VMs : Burn(v)
    BY <1>2, <1>4 DEF Drop, Burn
  <1>5. CASE \E c \in CPUs : Plug(c)
    BY <1>1, <1>5 DEF Plug
  <1>6. CASE \E v \in VMs : Launch(v) \/ Exit(v)
    BY <1>1, <1>6 DEF Launch, Exit
  <1>7. CASE Replug
    BY <1>1, <1>7 DEF Replug
  <1>8. CASE Reboot
    BY <1>1, <1>8, ChartsAssumption DEF Reboot
  <1> QED BY <1>3, <1>4, <1>5, <1>6, <1>7, <1>8 DEF HostStep

LEMMA HostStepInv ==
  ASSUME Inv, HostStep
  PROVE  Inv'
  <1>1. CountsInv' /\ Upto(ever, ever') /\ Upto(base, base') /\ UNCHANGED <<snaps, truth>>
    BY HostGrows
  <1>2. ASSUME NEW k \in DOMAIN truth
        PROVE  Upto(truth[k].ever, ever') /\ Upto(truth[k].base, base')
    <2>1. truth[k].ever \in Counts /\ truth[k].base \in Counts
      BY TruthType DEF Inv
    <2>2. Upto(truth[k].ever, ever) /\ Upto(truth[k].base, base)
      BY DEF Inv, HistoryInv
    <2>3. ever \in Counts /\ base \in Counts /\ ever' \in Counts /\ base' \in Counts
      BY <1>1 DEF Inv, CountsInv
    <2> QED BY <1>1, <2>1, <2>2, <2>3, UptoTrans
  <1>3. HistoryInv'
    BY <1>1, <1>2 DEF Inv, HistoryInv
  <1>4. CaptureInv'
    BY <1>1 DEF Inv, CaptureInv
  <1>5. TypesInv'
    BY HostTypes DEF Inv
  <1> QED BY <1>1, <1>3, <1>4, <1>5 DEF Inv

LEMMA SnapshotInv ==
  ASSUME Inv, NEW dt \in Nat, NEW failed, Snapshot(dt, failed)
  PROVE  Inv'
  <1> DEFINE now  == [ever |-> ever, base |-> base, online |-> online]
             n    == Len(truth) + 1
             snap == [time |-> clock',
                      out |-> [cmd \in Cmds |-> IF cmd \in failed THEN Nothing ELSE Output(cmd)]]
  <1>1. /\ truth' = Append(truth, now) /\ snaps' = Append(snaps, snap)
        /\ UNCHANGED <<ever, base, online, running, present>>
    BY DEF Snapshot, hostVars
  <1>2. CountsInv'
    BY <1>1 DEF Inv, CountsInv
  <1>3. now \in [ever : Counts, base : Counts, online : SUBSET CPUs]
    BY DEF Inv, CountsInv
  <1>4. /\ truth' \in Seq([ever : Counts, base : Counts, online : SUBSET CPUs])
        /\ Len(truth') = n
        /\ DOMAIN truth' = DOMAIN truth \cup {n} /\ n \notin DOMAIN truth
        /\ \A k \in DOMAIN truth : k \in Nat /\ k < n /\ truth'[k] = truth[k]
        /\ truth'[n] = now
    BY <1>1, <1>3 DEF Inv, HistoryInv
  <1>5. HistoryInv'
    <2>1. Upto(ever, ever) /\ Upto(base, base)
      BY UptoRefl DEF Inv, CountsInv
    <2>2. \A k \in DOMAIN truth' :
             Upto(truth'[k].ever, ever) /\ Upto(truth'[k].base, base) /\ Upto(truth'[k].base, truth'[k].ever)
      BY <1>4, <2>1 DEF Inv, HistoryInv, CountsInv
    <2>3. ASSUME NEW j \in DOMAIN truth', NEW k \in DOMAIN truth', j <= k
          PROVE  Upto(truth'[j].ever, truth'[k].ever) /\ Upto(truth'[j].base, truth'[k].base)
      <3>1. CASE k = n
        BY <1>4, <2>2, <3>1
      <3>2. CASE k \in DOMAIN truth
        <4>1. j \in DOMAIN truth
          BY <1>4, <2>3, <3>2
        <4> QED BY <1>4, <2>3, <3>2, <4>1 DEF Inv, HistoryInv
      <3> QED BY <1>4, <3>1, <3>2
    <2> QED BY <1>1, <1>4, <2>2, <2>3 DEF HistoryInv
  <1>6. CaptureInv'
    <2>1. PICK S : snaps \in Seq(S)
      BY DEF Inv, CaptureInv
    <2>2. Len(snaps) + 1 = n
      BY DEF Inv, CaptureInv
    <2>3. /\ snaps' \in Seq(S \cup {snap}) /\ Len(snaps') = n
          /\ DOMAIN snaps' = DOMAIN snaps \cup {n}
          /\ \A k \in DOMAIN snaps : snaps'[k] = snaps[k]
          /\ snaps'[n] = snap
      BY <1>1, <2>1, <2>2, Appended
    <2>4. DOMAIN snaps = DOMAIN truth
      BY <2>1 DEF Inv, CaptureInv, HistoryInv
    <2>5. Holds(snap, now)
      <3>1. now.ever = ever /\ now.base = base /\ now.online = online /\ snap.time = clock'
        OBVIOUS
      <3>2. \A cmd \in Cmds : snap.out[cmd] \in {Nothing, Output(cmd)}
        OBVIOUS
      <3> HIDE DEF snap, now
      <3>3. Output("stat") = <<StatOf(ever, base, online)>>
        <4>1. Stat = StatOf(ever, base, online)
          BY Zenon DEF Stat, StatOf, LineOf, CPULine, Received
        <4> QED BY <4>1 DEF Output
      <3>4. Output("softirqs") = <<SoftirqsOf(ever, base)>>
        BY DEF Output, Softirqs, SoftirqsOf, Received
      <3>5. Output("softnet") = <<SoftnetOf(ever, base, online)>>
        <4>1. Softnet = SoftnetOf(ever, base, online)
          BY Zenon DEF Softnet, SoftnetOf, Received, InRow, RowOf
        <4> QED BY <4>1 DEF Output
      <3>6. Output("ps") = <<[v \in running |-> ever.burn[v] - base.burn[v]]>> /\ running \in SUBSET VMs
        BY DEF Output, Ps, Inv, CountsInv
      <3>7. Output("sysfs") \in {Missing, <<ever.drop - base.drop>>}
        BY DEF Output
      <3>8. snap.time \in Nat
        BY <3>1 DEF Snapshot, Inv, TypesInv
      <3>9. snap.out["stat"] \in StatAt(now) /\ snap.out["softirqs"] \in SoftirqsAt(now)
        BY <3>1, <3>2, <3>3, <3>4 DEF StatAt, SoftirqsAt, Cmds
      <3>10. snap.out["softnet"] \in SoftnetAt(now) /\ snap.out["sysfs"] \in SysfsAt(now)
        BY <3>1, <3>2, <3>5, <3>7 DEF SoftnetAt, SysfsAt, Cmds
      <3>11. snap.out["ps"] \in PsAt(now)
        BY <3>1, <3>2, <3>6 DEF PsAt, Cmds
      <3> QED BY <3>8, <3>9, <3>10, <3>11 DEF Holds
    <2>7. ASSUME NEW k \in DOMAIN snaps'
          PROVE  Holds(snaps'[k], truth'[k])
      <3>1. CASE k = n
        BY <1>4, <2>3, <2>5, <3>1
      <3>2. CASE k \in DOMAIN snaps
        BY <1>4, <2>3, <2>4, <3>2 DEF Inv, CaptureInv
      <3> QED BY <2>3, <3>1, <3>2
    <2> QED BY <1>4, <2>3, <2>7 DEF CaptureInv
  <1>7. TypesInv'
    <2>1. clock' \in Nat \ {0} /\ scene' = scene /\ online' = online /\ present' = present
      BY DEF Snapshot, hostVars, Inv, TypesInv
    <2>2. events' \in 0 .. MaxEvents
      BY ChartsAssumption DEF Snapshot, Event, Inv, TypesInv
    <2> QED BY <2>1, <2>2 DEF Inv, TypesInv
  <1> QED BY <1>2, <1>5, <1>6, <1>7 DEF Inv

LEMMA NextInv == Inv /\ [Next]_vars => Inv'
  <1> SUFFICES ASSUME Inv, [Next]_vars PROVE Inv'
    OBVIOUS
  <1>1. CASE HostStep
    BY <1>1, HostStepInv
  <1>2. ASSUME NEW dt \in {0, StartupSkip}, NEW failed, Snapshot(dt, failed) PROVE Inv'
    <2>1. dt \in Nat
      BY DEF StartupSkip
    <2> QED BY <1>2, <2>1, SnapshotInv
  <1>3. CASE UNCHANGED vars
    BY <1>3 DEF vars, hostVars, Inv, CountsInv, TypesInv, HistoryInv, CaptureInv
  <1> QED BY <1>1, <1>2, <1>3 DEF Next

\* In every reachable state the counters, the history and what snapshots hold
\* of each command belong together.
THEOREM Invariance == Spec => []Inv
  BY InitInv, NextInv, PTL DEF Spec

-----------------------------------------------------------------------------
LEMMA PairTypes ==
  ASSUME Inv, NEW cmd, NEW p \in Pairs(cmd)
  PROVE  /\ p[1] \in DOMAIN snaps /\ p[2] \in DOMAIN snaps
         /\ p[1] \in DOMAIN truth /\ p[2] \in DOMAIN truth
         /\ snaps[p[1]].out[cmd] # Missing /\ snaps[p[2]].out[cmd] # Missing
         /\ Upto(truth[p[1]].ever, truth[p[2]].ever) /\ Upto(truth[p[1]].base, truth[p[2]].base)
  <1>1. /\ p[1] \in SamplesOf(cmd) /\ p[2] \in SamplesOf(cmd) /\ p[1] < p[2]
    BY DEF Pairs
  <1>2. /\ p[1] \in DOMAIN snaps /\ p[2] \in DOMAIN snaps
        /\ snaps[p[1]].out[cmd] # Missing /\ snaps[p[2]].out[cmd] # Missing
    BY <1>1 DEF SamplesOf
  <1>3. DOMAIN snaps = DOMAIN truth /\ DOMAIN snaps \subseteq Nat
    BY DEF Inv, CaptureInv, HistoryInv
  <1>4. p[1] <= p[2]
    BY <1>1, <1>2, <1>3
  <1> QED BY <1>2, <1>3, <1>4 DEF Inv, HistoryInv

\* What the output of ps says of one process.
LEMMA PsValue ==
  ASSUME Inv, NEW k \in DOMAIN snaps, HasOutput("ps", k), NEW v \in DOMAIN Get("ps", k)
  PROVE  v \in VMs /\ Get("ps", k)[v] = truth[k].ever.burn[v] - truth[k].base.burn[v]
  <1>1. snaps[k].out["ps"] \in PsAt(truth[k]) /\ snaps[k].out["ps"] # Nothing
    BY DEF Inv, CaptureInv, Holds, HasOutput
  <1>2. PICK R \in SUBSET VMs :
           snaps[k].out["ps"] = <<[w \in R |-> truth[k].ever.burn[w] - truth[k].base.burn[w]]>>
    BY <1>1 DEF PsAt
  <1>3. Get("ps", k) = [w \in R |-> truth[k].ever.burn[w] - truth[k].base.burn[w]]
    BY <1>2 DEF Get
  <1> QED BY <1>3

LEMMA QemuReal == Inv => QemuTimeIsReal
  <1> SUFFICES ASSUME Inv, NEW p \in Pairs("ps"), NEW x \in QemuPoints(p)
               PROVE  LET spent == truth[p[2]].ever.burn[x.vm] - truth[p[1]].ever.burn[x.vm]
                      IN  /\ x.delta \in 0 .. spent
                          /\ truth[p[1]].base.burn[x.vm] = truth[p[2]].base.burn[x.vm] => x.delta = spent
    BY DEF QemuTimeIsReal, Between, NoReset
  <1> DEFINE v    == x.vm
             prev == Get("ps", p[1])
             curr == Get("ps", p[2])
  <1>1. /\ p[1] \in DOMAIN snaps /\ p[2] \in DOMAIN snaps
        /\ p[1] \in DOMAIN truth /\ p[2] \in DOMAIN truth
        /\ Upto(truth[p[1]].ever, truth[p[2]].ever) /\ Upto(truth[p[1]].base, truth[p[2]].base)
    BY PairTypes
  <1>2. /\ HasOutput("ps", p[1]) /\ HasOutput("ps", p[2])
        /\ v \in DOMAIN prev /\ v \in DOMAIN curr
        /\ curr[v] >= prev[v] /\ x.delta = curr[v] - prev[v]
    BY DEF QemuPoints, BothHaveOutput, Rises
  <1>3. /\ v \in VMs
        /\ prev[v] = truth[p[1]].ever.burn[v] - truth[p[1]].base.burn[v]
        /\ curr[v] = truth[p[2]].ever.burn[v] - truth[p[2]].base.burn[v]
    BY <1>1, <1>2, PsValue
  <1>4. /\ truth[p[1]].ever.burn[v] \in Nat /\ truth[p[1]].base.burn[v] \in Nat
        /\ truth[p[2]].ever.burn[v] \in Nat /\ truth[p[2]].base.burn[v] \in Nat
    BY <1>1, <1>3, TruthType DEF Inv, Counts
  <1>5. /\ truth[p[1]].ever.burn[v] <= truth[p[2]].ever.burn[v]
        /\ truth[p[1]].base.burn[v] <= truth[p[2]].base.burn[v]
    BY <1>1, <1>3 DEF Upto
  <1> QED BY <1>2, <1>3, <1>4, <1>5

\* The time charted for a virtual machine was spent by a process of its PID,
\* whatever processes had the PID and however often the machine rebooted.
THEOREM QemuTime == Spec => []QemuTimeIsReal
  BY Invariance, QemuReal, PTL

\* The drop counter, as a reading has it.
LEMMA SysfsReading ==
  ASSUME Inv, NEW p \in Pairs("sysfs"), NEW k \in {p[1], p[2]}
  PROVE  /\ SysfsValue(k) \in Int
         /\ HasOutput("sysfs", k) => SysfsValue(k) = truth[k].ever.drop - truth[k].base.drop
         /\ ~HasOutput("sysfs", k) => SysfsValue(k) = 0
  <1>1. k \in DOMAIN snaps /\ k \in DOMAIN truth /\ snaps[k].out["sysfs"] # Missing
    BY PairTypes
  <1>2. truth[k].ever.drop \in Nat /\ truth[k].base.drop \in Nat
    BY <1>1, TruthType DEF Inv, Counts
  <1>3. snaps[k].out["sysfs"] \in SysfsAt(truth[k])
    BY <1>1 DEF Inv, CaptureInv, Holds
  <1>4. ASSUME HasOutput("sysfs", k)
        PROVE  SysfsValue(k) = truth[k].ever.drop - truth[k].base.drop
    BY <1>1, <1>3, <1>4 DEF HasOutput, SysfsAt, SysfsValue, Get
  <1>5. ASSUME ~HasOutput("sysfs", k)
        PROVE  SysfsValue(k) = 0
    BY <1>5 DEF SysfsValue
  <1> QED BY <1>2, <1>4, <1>5

LEMMA DropsReal == Inv => DropsAreReal
  <1> SUFFICES ASSUME Inv, NEW p \in Pairs("sysfs"), HasOutput("sysfs", p[1]), Elapsed(p) > 0
               PROVE  LET dropped == truth[p[2]].ever.drop - truth[p[1]].ever.drop
                      IN  /\ \A x \in SysfsSeries : x.at = p => x.delta <= dropped
                          /\ HasOutput("sysfs", p[2]) /\ dropped > 0
                                /\ truth[p[1]].base.drop = truth[p[2]].base.drop
                                 => [at |-> p, delta |-> dropped] \in SysfsSeries
    BY DEF DropsAreReal, Between, NoReset
  <1> DEFINE dropped == truth[p[2]].ever.drop - truth[p[1]].ever.drop
             delta   == SafeDelta(SysfsValue(p[2]), SysfsValue(p[1]))
  <1>1. /\ p[1] \in DOMAIN truth /\ p[2] \in DOMAIN truth
        /\ Upto(truth[p[1]].ever, truth[p[2]].ever) /\ Upto(truth[p[1]].base, truth[p[2]].base)
    BY PairTypes
  <1>2. /\ truth[p[1]].ever.drop \in Nat /\ truth[p[1]].base.drop \in Nat
        /\ truth[p[2]].ever.drop \in Nat /\ truth[p[2]].base.drop \in Nat
    BY <1>1, TruthType DEF Inv, Counts
  <1>3. /\ truth[p[1]].ever.drop <= truth[p[2]].ever.drop
        /\ truth[p[1]].base.drop <= truth[p[2]].base.drop
    BY <1>1 DEF Upto
  <1>4. SysfsValue(p[1]) = truth[p[1]].ever.drop - truth[p[1]].base.drop
    BY SysfsReading
  <1>5. truth[p[1]].base.drop <= truth[p[1]].ever.drop
    BY <1>1 DEF Inv, HistoryInv, Upto
  <1>6. /\ SysfsValue(p[2]) \in Int
        /\ HasOutput("sysfs", p[2]) => SysfsValue(p[2]) = truth[p[2]].ever.drop - truth[p[2]].base.drop
        /\ ~HasOutput("sysfs", p[2]) => SysfsValue(p[2]) = 0
    BY SysfsReading
  <1>7. delta <= dropped
    BY <1>2, <1>3, <1>4, <1>5, <1>6 DEF SafeDelta
  <1>8. ASSUME NEW x \in SysfsSeries, x.at = p
        PROVE  x.delta <= dropped
    <2>1. x.delta = delta
      BY <1>8 DEF SysfsSeries
    <2> QED BY <1>7, <2>1
  <1>9. ASSUME HasOutput("sysfs", p[2]), dropped > 0, truth[p[1]].base.drop = truth[p[2]].base.drop
        PROVE  [at |-> p, delta |-> dropped] \in SysfsSeries
    <2>1. delta = dropped
      BY <1>2, <1>4, <1>6, <1>9 DEF SafeDelta
    <2>2. delta > 0
      BY <1>9, <2>1
    <2> QED BY <2>1, <2>2 DEF SysfsSeries
  <1> QED BY <1>8, <1>9

\* Drops that are charted happened in the interval, and those that happened
\* between two readings are charted, whatever became of the interface.
THEOREM Drops == Spec => []DropsAreReal
  BY Invariance, DropsReal, PTL

-----------------------------------------------------------------------------
(* What a snapshot says of a CPU, or of all of them.                       *)

Lines == {All} \cup CPUs

LEMMA FieldsFinite == IsFiniteSet(Fields) /\ IsFiniteSet(Modes) /\ Modes \in SUBSET Fields
  <1>1. IsFiniteSet({}) /\ Fields = {} \cup {"user"} \cup {"idle"} \cup {"iowait"} \cup {"softirq"} \cup {"guest"}
    BY FS_EmptySet DEF Fields
  <1>2. IsFiniteSet({} \cup {"user"})
    BY <1>1, FS_AddElement
  <1>3. IsFiniteSet({} \cup {"user"} \cup {"idle"})
    BY <1>2, FS_AddElement
  <1>4. IsFiniteSet({} \cup {"user"} \cup {"idle"} \cup {"iowait"})
    BY <1>3, FS_AddElement
  <1>5. IsFiniteSet({} \cup {"user"} \cup {"idle"} \cup {"iowait"} \cup {"softirq"})
    BY <1>4, FS_AddElement
  <1>6. IsFiniteSet(Fields)
    BY <1>1, <1>5, FS_AddElement
  <1>7. Modes \in SUBSET Fields
    BY ChartsAssumption
  <1> QED BY <1>6, <1>7, FS_Subset

LEMMA WhoseFinite ==
  ASSUME NEW c \in Lines
  PROVE  IsFiniteSet(Whose(c)) /\ Whose(c) \subseteq CPUs /\ (c # All => c \in CPUs /\ Whose(c) = {c})
  BY ChartsAssumption, FS_Singleton DEF Lines, Whose, All

LEMMA JiffiesType ==
  ASSUME NEW t \in Counts, NEW c \in CPUs, NEW f \in Fields
  PROVE  Jiffies(t, c, f) \in Nat
  <1>1. \A m \in Modes : t.cpu[c][m] \in Nat
    BY DEF Counts
  <1> QED BY <1>1 DEF Jiffies

LEMMA JiffiesGrow ==
  ASSUME NEW a \in Counts, NEW b \in Counts, Upto(a, b), NEW c \in CPUs, NEW f \in Fields
  PROVE  Jiffies(a, c, f) <= Jiffies(b, c, f)
  <1>1. \A m \in Modes : a.cpu[c][m] \in Nat /\ b.cpu[c][m] \in Nat /\ a.cpu[c][m] <= b.cpu[c][m]
    BY DEF Counts, Upto
  <1> DEFINE Of(t, m) == IF m \in Modes THEN t.cpu[c][m] ELSE 0
  <1>2. \A m : Of(a, m) \in Nat /\ Of(b, m) \in Nat /\ Of(a, m) <= Of(b, m)
    BY <1>1
  <1>3. \A t : Jiffies(t, c, f) = IF f = "user" THEN Of(t, "user") + Of(t, "guest") ELSE Of(t, f)
    BY DEF Jiffies
  <1> HIDE DEF Of
  <1> QED BY <1>2, <1>3

\* The time spent on f grows with the counters.
LEMMA SpentOnGrows ==
  ASSUME NEW c \in Lines, NEW f \in Fields
  PROVE  /\ \A t \in Counts : SpentOn(t, c, f) \in Nat
         /\ \A a, b \in Counts : Upto(a, b) => SpentOn(a, c, f) <= SpentOn(b, c, f)
  <1> DEFINE W(t) == [o \in Whose(c) |-> Jiffies(t, o, f)]
  <1>1. IsFiniteSet(Whose(c)) /\ Whose(c) \subseteq CPUs
    BY WhoseFinite
  <1>2. \A t \in Counts : W(t) \in [Whose(c) -> Nat]
    BY <1>1, JiffiesType
  <1>3. ASSUME NEW a \in Counts, NEW b \in Counts, Upto(a, b)
        PROVE  \A o \in Whose(c) : W(a)[o] <= W(b)[o]
    BY <1>1, <1>3, JiffiesGrow
  <1>4. \A t : SpentOn(t, c, f) = SumFunction(W(t))
    BY DEF SpentOn
  <1> HIDE DEF W
  <1>5. \A t \in Counts : SumFunction(W(t)) \in Nat
    BY <1>1, <1>2, SumContains
  <1>6. ASSUME NEW a \in Counts, NEW b \in Counts, Upto(a, b)
        PROVE  SumFunction(W(a)) <= SumFunction(W(b))
    <2>1. W(a) \in [Whose(c) -> Int] /\ W(b) \in [Whose(c) -> Int]
      BY <1>2
    <2> QED BY <1>1, <1>3, <1>6, <2>1, SumGrows
  <1> QED BY <1>4, <1>5, <1>6

\* A sum of one.
LEMMA SumOfOne ==
  ASSUME NEW x, NEW w \in [{x} -> Int]
  PROVE  SumFunction(w) = w[x]
  <1> DEFINE D == {x}
  <1>1. IsFiniteSet(D) /\ D \in SUBSET D /\ x \in D /\ D \ {x} = {} /\ w[x] \in Int
    BY FS_Singleton
  <1> HIDE DEF D
  <1>2. w \in [D -> Int]
    BY DEF D
  <1>3. SumFunction(w) = SumFunctionOnSet(w, D)
    BY <1>1, <1>2, SumOnSteps
  <1>4. SumFunctionOnSet(w, D) = w[x] + SumFunctionOnSet(w, D \ {x})
    BY <1>1, <1>2, SumOnSteps
  <1>5. SumFunctionOnSet(w, {}) = 0
    BY <1>1, <1>2, SumOnSteps
  <1> QED BY <1>1, <1>3, <1>4, <1>5

\* A line of /proc/stat counts the time since the last reset.
LEMMA LineIs ==
  ASSUME NEW e \in Counts, NEW b \in Counts, NEW on \in SUBSET CPUs, NEW c \in {All} \cup on, NEW f \in Fields
  PROVE  StatOf(e, b, on).cpu[c][f] = SpentOn(e, c, f) - SpentOn(b, c, f)
  <1>1. c \in Lines
    BY DEF Lines
  <1>2. SpentOn(e, c, f) \in Nat /\ SpentOn(b, c, f) \in Nat
    BY <1>1, SpentOnGrows
  <1>3. CASE c = All
    <2> DEFINE u == [o \in CPUs |-> Jiffies(e, o, f)]
               v == [o \in CPUs |-> Jiffies(b, o, f)]
               w == [o \in CPUs |-> LineOf(e, b, o)[f]]
    <2>1. StatOf(e, b, on).cpu[c][f] = SumFunction(w)
      BY <1>3 DEF StatOf
    <2>2. \A o \in CPUs : Jiffies(e, o, f) \in Int /\ Jiffies(b, o, f) \in Int
      BY JiffiesType
    <2>3. u \in [CPUs -> Int] /\ v \in [CPUs -> Int] /\ w \in [CPUs -> Int]
      BY <2>2 DEF LineOf
    <2>4. \A o \in CPUs : u[o] = w[o] + v[o]
      BY <2>2 DEF LineOf
    <2>5. SpentOn(e, c, f) = SumFunction(u) /\ SpentOn(b, c, f) = SumFunction(v)
      BY <1>3 DEF SpentOn, Whose
    <2>6. IsFiniteSet(CPUs) /\ CPUs \in SUBSET CPUs
      BY ChartsAssumption
    <2> HIDE DEF u, v, w
    <2>7. SumFunction(u) = SumFunction(w) + SumFunction(v)
      BY <2>3, <2>4, <2>6, SumAdds
    <2>8. SumFunction(w) \in Int
      BY <2>3, <2>6, SumOnSteps
    <2> QED BY <1>2, <2>1, <2>5, <2>7, <2>8
  <1>4. CASE c # All
    <2>1. c \in CPUs /\ Whose(c) = {c}
      BY <1>1, <1>4, WhoseFinite
    <2>2. StatOf(e, b, on).cpu[c][f] = Jiffies(e, c, f) - Jiffies(b, c, f)
      BY <1>4 DEF StatOf, LineOf
    <2> DEFINE w(t) == [o \in {c} |-> Jiffies(t, o, f)]
    <2>3. \A t \in Counts : w(t) \in [{c} -> Int] /\ w(t)[c] = Jiffies(t, c, f)
      BY <2>1, JiffiesType
    <2>4. \A t : SpentOn(t, c, f) = SumFunction(w(t))
      BY <2>1 DEF SpentOn
    <2> HIDE DEF w
    <2>5. \A t \in Counts : SumFunction(w(t)) = Jiffies(t, c, f)
      BY <2>3, SumOfOne
    <2> QED BY <2>2, <2>4, <2>5
  <1> QED BY <1>3, <1>4

\* What snapshot k says of the line c.
LEMMA LinesHold ==
  ASSUME Inv, NEW k \in DOMAIN snaps, NEW c \in DOMAIN CPULines(k), NEW f \in Fields
  PROVE  /\ c \in Lines /\ HasOutput("stat", k)
         /\ CPULines(k)[c][f] = SpentOn(truth[k].ever, c, f) - SpentOn(truth[k].base, c, f)
  <1>1. snaps[k].out["stat"] \in StatAt(truth[k]) /\ k \in DOMAIN truth
    BY DEF Inv, CaptureInv, Holds, HistoryInv
  <1>2. truth[k].ever \in Counts /\ truth[k].base \in Counts /\ truth[k].online \in SUBSET CPUs
    <2> DEFINE T == [ever : Counts, base : Counts, online : SUBSET CPUs]
    <2>1. truth[k] \in T
      <3>1. truth \in Seq(T)
        BY DEF Inv, HistoryInv
      <3> HIDE DEF T
      <3> QED BY <1>1, <3>1
    <2> QED BY <2>1
  <1>3. HasOutput("stat", k)
    BY DEF CPULines
  <1>4. CPULines(k) = StatOf(truth[k].ever, truth[k].base, truth[k].online).cpu
    BY <1>1, <1>3 DEF CPULines, HasOutput, StatAt, Get
  <1>5. DOMAIN CPULines(k) = {All} \cup truth[k].online
    BY <1>4 DEF StatOf
  <1>6. c \in Lines
    BY <1>2, <1>5 DEF Lines
  <1> QED BY <1>2, <1>3, <1>4, <1>5, <1>6, LineIs

\* The difference of two lines.
LEMMA DeltaIs ==
  ASSUME Inv, NEW p \in Pairs("stat"), NEW c \in InBoth(p), NEW f \in Fields
  PROVE  /\ c \in Lines /\ Deltas(p, c)[f] \in Nat
         /\ truth[p[1]].base.cpu = truth[p[2]].base.cpu =>
               Deltas(p, c)[f] = SpentOn(truth[p[2]].ever, c, f) - SpentOn(truth[p[1]].ever, c, f)
  <1> DEFINE t1 == truth[p[1]]
             t2 == truth[p[2]]
  <1>1. /\ p[1] \in DOMAIN snaps /\ p[2] \in DOMAIN snaps /\ p[1] \in DOMAIN truth /\ p[2] \in DOMAIN truth
        /\ Upto(t1.ever, t2.ever)
    BY PairTypes
  <1>2. t1.ever \in Counts /\ t1.base \in Counts /\ t2.ever \in Counts /\ t2.base \in Counts
    BY <1>1, TruthType DEF Inv
  <1>3. c \in DOMAIN CPULines(p[1]) /\ c \in DOMAIN CPULines(p[2])
    BY DEF InBoth
  <1> DEFINE v1 == CPULines(p[1])[c][f]
             v2 == CPULines(p[2])[c][f]
  <1>4. c \in Lines /\ v1 = SpentOn(t1.ever, c, f) - SpentOn(t1.base, c, f)
    BY <1>1, <1>3, LinesHold
  <1>5. v2 = SpentOn(t2.ever, c, f) - SpentOn(t2.base, c, f)
    BY <1>1, <1>3, LinesHold
  <1>6. Deltas(p, c)[f] = SafeDelta(v2, v1)
    BY DEF Deltas
  <1>7. /\ SpentOn(t1.ever, c, f) \in Nat /\ SpentOn(t1.base, c, f) \in Nat
        /\ SpentOn(t2.ever, c, f) \in Nat /\ SpentOn(t2.base, c, f) \in Nat
        /\ SpentOn(t1.ever, c, f) <= SpentOn(t2.ever, c, f)
    BY <1>1, <1>2, <1>4, SpentOnGrows
  <1>8. t1.base.cpu = t2.base.cpu => SpentOn(t1.base, c, f) = SpentOn(t2.base, c, f)
    BY DEF SpentOn, Jiffies
  <1> HIDE DEF v1, v2, t1, t2
  <1>9. SafeDelta(v2, v1) \in Nat
    BY <1>4, <1>5, <1>7 DEF SafeDelta
  <1>10. t1.base.cpu = t2.base.cpu => SafeDelta(v2, v1) = SpentOn(t2.ever, c, f) - SpentOn(t1.ever, c, f)
    BY <1>4, <1>5, <1>7, <1>8 DEF SafeDelta
  <1> QED BY <1>4, <1>6, <1>9, <1>10 DEF t1, t2

-----------------------------------------------------------------------------
(* Percentages.                                                            *)

LEMMA TotalHolds ==
  ASSUME Inv, NEW p \in Pairs("stat"), NEW c \in InBoth(p)
  PROVE  /\ Deltas(p, c) \in [Fields -> Nat] /\ TotalDelta(p, c) \in Nat
         /\ \A f \in Fields : Deltas(p, c)[f] <= TotalDelta(p, c)
         /\ \A f, g \in Fields : f # g => Deltas(p, c)[f] + Deltas(p, c)[g] <= TotalDelta(p, c)
  <1>1. Deltas(p, c) \in [Fields -> Nat]
    <2>1. \A f \in Fields : Deltas(p, c)[f] \in Nat
      BY DeltaIs
    <2>2. Deltas(p, c) = [f \in Fields |-> Deltas(p, c)[f]]
      BY DEF Deltas
    <2> QED BY <2>1, <2>2
  <1> DEFINE w == Deltas(p, c)
  <1> HIDE DEF w
  <1>2. w \in [Fields -> Nat] /\ IsFiniteSet(Fields)
    BY <1>1, FieldsFinite DEF w
  <1>3. SumFunction(w) \in Nat
    BY <1>2, SumContains
  <1>4. \A f \in Fields : w[f] <= SumFunction(w)
    BY <1>2, SumContains
  <1>5. \A f, g \in Fields : f # g => w[f] + w[g] <= SumFunction(w)
    BY <1>2, SumContains
  <1> QED BY <1>1, <1>3, <1>4, <1>5 DEF w, TotalDelta

\* A point or a cell of the table: its CPU, its field and its share.
LEMMA SharesAre ==
  ASSUME NEW p, NEW x \in StatPoints(p) \cup Printed(p)
  PROVE  /\ x.cpu \in Counted(p)
         /\ \/ x.field \in Fields /\ x.share = <<Deltas(p, x.cpu)[x.field], TotalDelta(p, x.cpu)>>
            \/ /\ x.field = "iowait=busy" /\ x.cpu = All
               /\ x.share = <<TotalDelta(p, All) - Deltas(p, All)["idle"], TotalDelta(p, All)>>
            \/ /\ x.field = "iowait=idle" /\ x.cpu = All
               /\ x.share = <<TotalDelta(p, All) - Deltas(p, All)["idle"] - Deltas(p, All)["iowait"], TotalDelta(p, All)>>
  <1>1. CASE x \in Printed(p)
    BY <1>1 DEF Printed, Share
  <1>2. CASE x \in StatPoints(p)
    <2>1. "softirq" \in Fields
      BY DEF Fields
    <2>2. All \in Counted(p)
      BY <1>2 DEF StatPoints
    <2> QED BY <1>2, <2>1, <2>2 DEF StatPoints, Share
  <1> QED BY <1>1, <1>2

LEMMA SharesInRange ==
  ASSUME Inv, NEW p \in Pairs("stat"), NEW x \in StatPoints(p) \cup Printed(p)
  PROVE  x.share[2] > 0 /\ x.share[1] \in 0 .. x.share[2]
  <1> DEFINE c == x.cpu
             total == TotalDelta(p, c)
             D == Deltas(p, c)
  <1>1. c \in InBoth(p) /\ total > 0
    BY SharesAre DEF Counted
  <1>2. /\ D \in [Fields -> Nat] /\ total \in Nat
        /\ \A f \in Fields : D[f] <= total
        /\ \A f, g \in Fields : f # g => D[f] + D[g] <= total
    BY <1>1, TotalHolds
  <1>3. "idle" \in Fields /\ "iowait" \in Fields
    BY DEF Fields
  <1>4. \/ x.field \in Fields /\ x.share = <<D[x.field], total>>
        \/ x.share = <<total - D["idle"], total>>
        \/ x.share = <<total - D["idle"] - D["iowait"], total>>
    BY SharesAre
  <1> HIDE DEF c, total, D
  <1>5. CASE x.field \in Fields /\ x.share = <<D[x.field], total>>
    BY <1>1, <1>2, <1>5
  <1>6. CASE x.share = <<total - D["idle"], total>>
    BY <1>1, <1>2, <1>3, <1>6
  <1>7. CASE x.share = <<total - D["idle"] - D["iowait"], total>>
    <2>1. D["idle"] + D["iowait"] <= total /\ D["idle"] \in Nat /\ D["iowait"] \in Nat
      BY <1>2, <1>3
    <2> QED BY <1>1, <1>2, <1>7, <2>1
  <1> QED BY <1>4, <1>5, <1>6, <1>7

\* Everything has its type, and every percentage is one, however many CPUs
\* there are and however long the capture is.
THEOREM TypeCorrect == Spec => []TypeOK
  <1>1. ASSUME Inv PROVE TypeOK
    <2>1. \A p \in Pairs("stat") : \A x \in StatPoints(p) \cup Printed(p) :
             x.share[2] > 0 /\ x.share[1] \in 0 .. x.share[2]
      BY <1>1, SharesInRange
    <2>2. scene \in Scenes /\ clock \in Nat \ {0} /\ events \in 0 .. MaxEvents /\ present \in BOOLEAN
      BY <1>1, Zenon DEF Inv, TypesInv
    <2>3. online \in (SUBSET CPUs) \ {{}} /\ running \in SUBSET VMs
      BY <1>1 DEF Inv, CountsInv, TypesInv
    <2>4. Len(truth) = Len(snaps)
      BY <1>1 DEF Inv, CaptureInv
    <2> QED BY <2>1, <2>2, <2>3, <2>4, Zenon DEF TypeOK
  <1> QED BY <1>1, Invariance, PTL

\* Guest time is counted once: the time of all fields is all the time.
LEMMA SpentIs ==
  ASSUME "guest" \notin Modes, NEW t \in Counts, NEW c \in Lines
  PROVE  Spent(t, c) = SumFunction([f \in Fields |-> SpentOn(t, c, f)]) /\ Spent(t, c) \in Nat
  <1> DEFINE D == Whose(c)
             a == [o \in D |-> [f \in Fields |-> Jiffies(t, o, f)]]
  <1>1. IsFiniteSet(D) /\ D \subseteq CPUs
    BY WhoseFinite
  <1>2. \A o \in D, f \in Fields : Jiffies(t, o, f) \in Nat
    BY <1>1, JiffiesType
  <1>3. a \in [D -> [Fields -> Int]]
    BY <1>2
  <1>4. SumFunction([o \in D |-> SumFunction(a[o])]) = SumFunction([f \in Fields |-> SumFunction([o \in D |-> a[o][f]])])
    <2> HIDE DEF D, a
    <2> QED BY <1>1, <1>3, FieldsFinite, SumSwap
  <1>5. ASSUME NEW o \in D PROVE SumFunction(a[o]) = SumFunction(t.cpu[o]) /\ SumFunction(t.cpu[o]) \in Nat
    <2> DEFINE w == a[o]
               v == t.cpu[o]
    <2>1. v \in [Modes -> Nat]
      BY <1>1 DEF Counts
    <2>2. w \in [Fields -> Int] /\ \A f \in Fields : w[f] = Jiffies(t, o, f)
      BY <1>3
    <2>3. \A f \in Fields \ Modes : w[f] = 0
      BY <2>2 DEF Jiffies
    <2>4. \A f \in Modes : w[f] = v[f]
      <3>1. \A m \in Modes : v[m] \in Nat
        BY <2>1
      <3> QED BY <2>2, <3>1, FieldsFinite DEF Jiffies
    <2> HIDE DEF w, v, a, D
    <2>5. v \in [Modes -> Int]
      BY <2>1
    <2>6. SumFunction(w) = SumFunction(v)
      BY <2>2, <2>3, <2>4, <2>5, FieldsFinite, SumRestrict
    <2>7. SumFunction(v) \in Nat
      BY <2>1, FieldsFinite, SumContains
    <2> QED BY <2>6, <2>7 DEF w, v
  <1>6. Spent(t, c) = SumFunction([o \in D |-> SumFunction(a[o])])
    <2>1. [o \in D |-> SumFunction(t.cpu[o])] = [o \in D |-> SumFunction(a[o])]
      <3> HIDE DEF D, a
      <3> QED BY <1>5
    <2> QED BY <2>1 DEF Spent
  <1>7. \A f \in Fields : SumFunction([o \in D |-> a[o][f]]) = SpentOn(t, c, f)
    <2>1. \A f \in Fields : [o \in D |-> a[o][f]] = [o \in D |-> Jiffies(t, o, f)]
      OBVIOUS
    <2> QED BY <2>1 DEF SpentOn
  <1>8. [f \in Fields |-> SumFunction([o \in D |-> a[o][f]])] = [f \in Fields |-> SpentOn(t, c, f)]
    <2> HIDE DEF a, D
    <2> QED BY <1>7
  <1>9. Spent(t, c) \in Nat
    <2> DEFINE w == [o \in D |-> SumFunction(t.cpu[o])]
    <2>1. w \in [D -> Nat]
      BY <1>5
    <2>2. Spent(t, c) = SumFunction(w)
      BY DEF Spent
    <2> HIDE DEF w, D
    <2> QED BY <1>1, <2>1, <2>2, SumContains
  <1> HIDE DEF a
  <1> QED BY <1>4, <1>6, <1>8, <1>9

\* The total of a line is the time that was spent.
LEMMA TotalIs ==
  ASSUME Inv, "guest" \notin Modes, NEW p \in Pairs("stat"), NEW c \in InBoth(p),
         truth[p[1]].base.cpu = truth[p[2]].base.cpu
  PROVE  TotalDelta(p, c) = Spent(truth[p[2]].ever, c) - Spent(truth[p[1]].ever, c)
  <1> DEFINE t1 == truth[p[1]].ever
             t2 == truth[p[2]].ever
             w == Deltas(p, c)
             u == [f \in Fields |-> SpentOn(t2, c, f)]
             v == [f \in Fields |-> SpentOn(t1, c, f)]
  <1>1. t1 \in Counts /\ t2 \in Counts
    BY PairTypes, TruthType DEF Inv
  <1>2. c \in Lines
    <2>1. "idle" \in Fields
      BY DEF Fields
    <2> QED BY <2>1, DeltaIs
  <1>3. w \in [Fields -> Nat]
    BY TotalHolds
  <1>4. \A f \in Fields : w[f] = SpentOn(t2, c, f) - SpentOn(t1, c, f)
    BY DeltaIs
  <1> HIDE DEF w, t1, t2
  <1>5. \A f \in Fields : SpentOn(t1, c, f) \in Nat /\ SpentOn(t2, c, f) \in Nat
    BY <1>1, <1>2, SpentOnGrows
  <1>6. u \in [Fields -> Int] /\ v \in [Fields -> Int] /\ w \in [Fields -> Int] /\ IsFiniteSet(Fields)
    BY <1>3, <1>5, FieldsFinite
  <1>7. \A f \in Fields : u[f] = w[f] + v[f]
    BY <1>4, <1>5
  <1>8. /\ Spent(t2, c) = SumFunction(u) /\ Spent(t1, c) = SumFunction(v)
        /\ Spent(t2, c) \in Nat /\ Spent(t1, c) \in Nat
    BY <1>1, <1>2, SpentIs
  <1> HIDE DEF u, v
  <1>9. SumFunction(u) = SumFunction(w) + SumFunction(v)
    BY <1>6, <1>7, SumAdds
  <1>10. SumFunction(w) \in Nat
    BY <1>3, <1>6, SumContains
  <1>11. SumFunction(w) = Spent(t2, c) - Spent(t1, c)
    BY <1>8, <1>9, <1>10
  <1> QED BY <1>11 DEF w, t1, t2, TotalDelta

\* A share is the true one.
LEMMA ShareTrue ==
  ASSUME Inv, "guest" \notin Modes, NEW p \in Pairs("stat"), NEW x \in StatPoints(p) \cup Printed(p),
         truth[p[1]].base.cpu = truth[p[2]].base.cpu
  PROVE  x.share = TrueShare(p, x.cpu, x.field)
  <1> DEFINE c == x.cpu
             total == TotalDelta(p, c)
             Time(g) == SpentOn(truth[p[2]].ever, c, g) - SpentOn(truth[p[1]].ever, c, g)
  <1>1. c \in InBoth(p)
    BY SharesAre DEF Counted
  <1>2. total = Spent(truth[p[2]].ever, c) - Spent(truth[p[1]].ever, c)
    BY <1>1, TotalIs
  <1>3. \A f \in Fields : Deltas(p, c)[f] = Time(f)
    BY <1>1, DeltaIs
  <1>4. TrueShare(p, c, x.field) =
          <<CASE x.field = "iowait=busy" -> total - Time("idle")
              [] x.field = "iowait=idle" -> total - Time("idle") - Time("iowait")
              [] OTHER -> Time(x.field), total>>
    BY <1>2, Zenon DEF TrueShare, Between
  <1>5. "idle" \in Fields /\ "iowait" \in Fields /\ "iowait=busy" \notin Fields /\ "iowait=idle" \notin Fields
    BY DEF Fields
  <1>6. \/ x.field \in Fields /\ x.share = <<Deltas(p, c)[x.field], total>>
        \/ x.field = "iowait=busy" /\ x.share = <<total - Deltas(p, c)["idle"], total>>
        \/ /\ x.field = "iowait=idle"
           /\ x.share = <<total - Deltas(p, c)["idle"] - Deltas(p, c)["iowait"], total>>
    BY SharesAre
  <1> HIDE DEF c, total, Time
  <1>7. CASE x.field \in Fields /\ x.share = <<Deltas(p, c)[x.field], total>>
    BY <1>3, <1>4, <1>5, <1>7 DEF c
  <1>8. CASE x.field = "iowait=busy" /\ x.share = <<total - Deltas(p, c)["idle"], total>>
    BY <1>3, <1>4, <1>5, <1>8 DEF c
  <1>9. CASE /\ x.field = "iowait=idle"
             /\ x.share = <<total - Deltas(p, c)["idle"] - Deltas(p, c)["iowait"], total>>
    BY <1>3, <1>4, <1>5, <1>9 DEF c
  <1> QED BY <1>6, <1>7, <1>8, <1>9

\* All that was spent is charted.
LEMMA AllCounted ==
  ASSUME Inv, "guest" \notin Modes, NEW p \in Pairs("stat"), BothHaveOutput("stat", p),
         truth[p[1]].base.cpu = truth[p[2]].base.cpu,
         Spent(truth[p[2]].ever, All) - Spent(truth[p[1]].ever, All) > 0
  PROVE  StatPoints(p) # {}
  <1>1. ASSUME NEW k \in {p[1], p[2]} PROVE All \in DOMAIN CPULines(k)
    <2>1. k \in DOMAIN snaps /\ HasOutput("stat", k)
      BY PairTypes DEF BothHaveOutput
    <2>2. snaps[k].out["stat"] \in StatAt(truth[k])
      BY <2>1 DEF Inv, CaptureInv, Holds
    <2>3. CPULines(k) = StatOf(truth[k].ever, truth[k].base, truth[k].online).cpu
      BY <2>1, <2>2 DEF CPULines, HasOutput, StatAt, Get
    <2> QED BY <2>3 DEF StatOf
  <1>2. All \in InBoth(p)
    BY <1>1 DEF InBoth
  <1>3. TotalDelta(p, All) > 0
    BY <1>2, TotalIs
  <1> QED BY <1>2, <1>3 DEF StatPoints, Counted

\* The percentages are the shares of the time that was spent, for any number
\* of CPUs that come and go, as long as no time is guest time, which
\* /proc/stat counts twice.
THEOREM Percentages == ASSUME "guest" \notin Modes PROVE Spec => []PctsAreShares
  <1>1. ASSUME Inv PROVE PctsAreShares
    <2> SUFFICES ASSUME NEW p \in Pairs("stat"), truth[p[1]].base.cpu = truth[p[2]].base.cpu
                 PROVE  /\ \A x \in StatPoints(p) \cup Printed(p) : Equal(x.share, TrueShare(p, x.cpu, x.field))
                        /\ BothHaveOutput("stat", p) /\ TrueShare(p, All, "idle")[2] > 0 => StatPoints(p) # {}
      BY DEF PctsAreShares, NoReset
    <2>1. \A x \in StatPoints(p) \cup Printed(p) : x.share = TrueShare(p, x.cpu, x.field)
      BY <1>1, ShareTrue
    <2>2. TrueShare(p, All, "idle")[2] = Spent(truth[p[2]].ever, All) - Spent(truth[p[1]].ever, All)
      BY DEF TrueShare, Between
    <2>3. BothHaveOutput("stat", p) /\ TrueShare(p, All, "idle")[2] > 0 => StatPoints(p) # {}
      BY <1>1, <2>2, AllCounted
    <2> QED BY <2>1, <2>3 DEF Equal
  <1> QED BY <1>1, Invariance, PTL

-----------------------------------------------------------------------------
(* Rates.                                                                  *)

LEMMA RecordOf ==
  ASSUME Inv, NEW k \in DOMAIN snaps
  PROVE  /\ k \in DOMAIN truth /\ k \in Nat /\ Holds(snaps[k], truth[k])
         /\ truth[k].ever \in Counts /\ truth[k].base \in Counts /\ truth[k].online \in SUBSET CPUs
         /\ Upto(truth[k].base, truth[k].ever)
  <1> DEFINE T == [ever : Counts, base : Counts, online : SUBSET CPUs]
  <1>1. k \in DOMAIN truth /\ k \in Nat /\ Holds(snaps[k], truth[k]) /\ truth \in Seq(T)
    BY DEF Inv, CaptureInv, HistoryInv
  <1>2. truth[k] \in T
    <2> HIDE DEF T
    <2> QED BY <1>1
  <1>3. Upto(truth[k].base, truth[k].ever)
    BY <1>1 DEF Inv, HistoryInv
  <1> QED BY <1>1, <1>2, <1>3

\* Two snapshots in a row, and what CPU c received before each.
Between2(a, b) ==
    /\ a.ever \in Counts /\ a.base \in Counts /\ b.ever \in Counts /\ b.base \in Counts
    /\ Upto(a.ever, b.ever) /\ Upto(a.base, b.base) /\ Upto(a.base, a.ever) /\ Upto(b.base, b.ever)

LEMMA Neighbours ==
  ASSUME Inv, NEW k \in (DOMAIN snaps) \ {1}
  PROVE  k - 1 \in DOMAIN snaps /\ Between2(truth[k - 1], truth[k])
  <1>1. k \in DOMAIN snaps /\ k \in Nat
    BY RecordOf
  <1>2. PICK j \in DOMAIN snaps : j = k - 1 /\ j <= k
    <2>1. DOMAIN snaps = 1 .. Len(snaps) /\ Len(snaps) \in Nat
      BY DEF Inv, CaptureInv
    <2> QED BY <1>1, <2>1
  <1>3. j \in DOMAIN truth /\ k \in DOMAIN truth
    BY <1>1, RecordOf
  <1>4. Upto(truth[j].ever, truth[k].ever) /\ Upto(truth[j].base, truth[k].base)
    BY <1>2, <1>3 DEF Inv, HistoryInv
  <1>5. Between2(truth[j], truth[k])
    BY <1>1, <1>4, RecordOf DEF Between2
  <1> QED BY <1>2, <1>5

\* A counter of a CPU went up by what was received, or less if it was reset.
LEMMA RxDelta ==
  ASSUME NEW a, NEW b, Between2(a, b), NEW c \in CPUs
  PROVE  /\ a.ever.rx[c] \in Nat /\ a.base.rx[c] \in Nat /\ b.ever.rx[c] \in Nat /\ b.base.rx[c] \in Nat
         /\ (b.ever.rx[c] - b.base.rx[c]) - (a.ever.rx[c] - a.base.rx[c]) <= b.ever.rx[c] - a.ever.rx[c]
         /\ a.base.rx = b.base.rx =>
               /\ (b.ever.rx[c] - b.base.rx[c]) - (a.ever.rx[c] - a.base.rx[c]) = b.ever.rx[c] - a.ever.rx[c]
               /\ a.ever.rx[c] - a.base.rx[c] <= b.ever.rx[c] - b.base.rx[c]
  <1>1. a.ever.rx[c] \in Nat /\ a.base.rx[c] \in Nat /\ b.ever.rx[c] \in Nat /\ b.base.rx[c] \in Nat
    BY DEF Between2, Counts
  <1>2. a.ever.rx[c] <= b.ever.rx[c] /\ a.base.rx[c] <= b.base.rx[c]
    BY DEF Between2, Upto
  <1>3. a.base.rx = b.base.rx => a.base.rx[c] = b.base.rx[c]
    OBVIOUS
  <1> DEFINE e == a.ever.rx[c]
             f == b.ever.rx[c]
             g == a.base.rx[c]
             h == b.base.rx[c]
  <1> HIDE DEF e, f, g, h
  <1>4. e \in Nat /\ f \in Nat /\ g \in Nat /\ h \in Nat /\ e <= f /\ g <= h
    BY <1>1, <1>2 DEF e, f, g, h
  <1>5. (f - h) - (e - g) <= f - e /\ (g = h => (f - h) - (e - g) = f - e /\ e - g <= f - h)
    BY <1>4
  <1> QED BY <1>1, <1>3, <1>5 DEF e, f, g, h

LEMMA SoftirqsAre ==
  ASSUME Inv, NEW k \in DOMAIN snaps, HasOutput("softirqs", k)
  PROVE  Get("softirqs", k) = SoftirqsOf(truth[k].ever, truth[k].base)
  BY RecordOf DEF Holds, SoftirqsAt, HasOutput, Get

\* The points of two snapshots a and b of /proc/softirqs.
LEMMA SoftirqPointsAre ==
  ASSUME Inv, NEW p, p[1] \in DOMAIN snaps, p[2] \in DOMAIN snaps, BothHaveOutput("softirqs", p), Elapsed(p) > 0,
         NEW a, a = truth[p[1]], NEW b, b = truth[p[2]]
  PROVE  SoftirqPoints(p) =
             {[cpu |-> c, delta |-> (b.ever.rx[c] - b.base.rx[c]) - (a.ever.rx[c] - a.base.rx[c])] :
                 c \in {o \in CPUs : b.ever.rx[o] - b.base.rx[o] >= a.ever.rx[o] - a.base.rx[o]}}
  <1>3. Get("softirqs", p[1]) = SoftirqsOf(a.ever, a.base) /\ Get("softirqs", p[2]) = SoftirqsOf(b.ever, b.base)
    BY SoftirqsAre DEF BothHaveOutput
  <1> DEFINE q == Get("softirqs", p[1])
             r == Get("softirqs", p[2])
  <1>4. SoftirqPoints(p) = {[cpu |-> c, delta |-> r[c] - q[c]] : c \in Rises(q, r)}
    BY DEF SoftirqPoints
  <1> HIDE DEF q, r
  <1>5. /\ DOMAIN q = CPUs /\ DOMAIN r = CPUs
        /\ \A c \in CPUs : q[c] = a.ever.rx[c] - a.base.rx[c] /\ r[c] = b.ever.rx[c] - b.base.rx[c]
    BY <1>3 DEF q, r, SoftirqsOf
  <1>6. Rises(q, r) = {o \in CPUs : b.ever.rx[o] - b.base.rx[o] >= a.ever.rx[o] - a.base.rx[o]}
    BY <1>5 DEF Rises
  <1> DEFINE R == Rises(q, r)
  <1>7. \A c \in R : r[c] - q[c] = (b.ever.rx[c] - b.base.rx[c]) - (a.ever.rx[c] - a.base.rx[c])
    BY <1>5 DEF Rises
  <1>8. {[cpu |-> c, delta |-> r[c] - q[c]] : c \in R}
           = {[cpu |-> c, delta |-> (b.ever.rx[c] - b.base.rx[c]) - (a.ever.rx[c] - a.base.rx[c])] : c \in R}
    <2> HIDE DEF R
    <2> QED BY <1>7
  <1> QED BY <1>4, <1>6, <1>8

\* With all CPUs online the CPU of a row is its number.
LEMMA RowIs ==
  ASSUME NEW r \in 1 .. Cardinality(CPUs)
  PROVE  RowOf(CPUs, r) = r - 1 /\ r - 1 \in CPUs
  <1> DEFINE n == Cardinality(CPUs)
  <1>1. n \in Nat /\ CPUs = 0 .. n - 1
    BY ChartsAssumption, FS_CardinalityType
  <1> HIDE DEF n
  <1>2. r \in Nat /\ r > 0 /\ r - 1 \in CPUs
    BY <1>1 DEF n
  <1>3. ASSUME NEW c \in CPUs PROVE Cardinality({d \in CPUs : d <= c}) = c + 1
    <2>1. c \in Nat /\ {d \in CPUs : d <= c} = 0 .. c
      BY <1>1
    <2>2. Cardinality(0 .. c) = IF 0 > c THEN 0 ELSE c - 0 + 1
      BY <2>1, FS_Interval
    <2>3. (IF 0 > c THEN 0 ELSE c - 0 + 1) = c + 1
      BY <2>1
    <2>4. Cardinality(0 .. c) = c + 1
      BY ONLY <2>2, <2>3
    <2> QED BY ONLY <2>1, <2>4
  <1>4. \A c \in CPUs : c + 1 = r <=> c = r - 1
    BY <1>1, <1>2
  <1>5. \A c \in CPUs : Cardinality({d \in CPUs : d <= c}) = r <=> c = r - 1
    BY <1>3, <1>4
  <1> QED BY <1>2, <1>5 DEF RowOf

LEMMA SoftnetPointIs ==
  ASSUME Inv, NEW k \in (DOMAIN snaps) \ {1}, NEW p, p = <<k - 1, k>>, NEW x \in SoftnetPoints(p),
         NEW a, a = truth[k - 1], NEW b, b = truth[k], a.online = CPUs, b.online = CPUs
  PROVE  /\ x.cpu \in CPUs
         /\ x.delta = (b.ever.rx[x.cpu] - b.base.rx[x.cpu]) - (a.ever.rx[x.cpu] - a.base.rx[x.cpu])
  <1>1. k - 1 \in DOMAIN snaps /\ k \in DOMAIN snaps
    BY Neighbours
  <1>2. BothHaveOutput("softnet", p)
    BY DEF SoftnetPoints
  <1>3. ASSUME NEW j \in DOMAIN snaps, HasOutput("softnet", j), truth[j].online = CPUs
        PROVE  Get("softnet", j) = SoftnetOf(truth[j].ever, truth[j].base, CPUs)
    BY <1>3, RecordOf DEF Holds, SoftnetAt, HasOutput, Get
  <1> DEFINE q == Get("softnet", p[1])
             w == Get("softnet", p[2])
  <1>4. q = SoftnetOf(a.ever, a.base, CPUs) /\ w = SoftnetOf(b.ever, b.base, CPUs)
    BY <1>1, <1>2, <1>3 DEF BothHaveOutput
  <1>5. PICK r \in Rises(q, w) : x = [cpu |-> r - 1, delta |-> w[r] - q[r]]
    BY DEF SoftnetPoints
  <1> HIDE DEF q, w
  <1>6. r \in 1 .. Cardinality(CPUs)
    BY <1>4 DEF Rises, SoftnetOf
  <1>7. RowOf(CPUs, r) = r - 1 /\ r - 1 \in CPUs
    BY <1>6, RowIs
  <1>8. q[r] = a.ever.rx[r - 1] - a.base.rx[r - 1] /\ w[r] = b.ever.rx[r - 1] - b.base.rx[r - 1]
    BY <1>4, <1>6, <1>7 DEF SoftnetOf
  <1> QED BY <1>5, <1>7, <1>8

\* The sum of what the CPUs received between a and b.
LEMMA AllReceived ==
  ASSUME NEW a, NEW b, Between2(a, b)
  PROVE  /\ SumFunction([c \in CPUs |-> b.ever.rx[c] - b.base.rx[c]])
               - SumFunction([c \in CPUs |-> a.ever.rx[c] - a.base.rx[c]])
            <= SumFunction([c \in CPUs |-> b.ever.rx[c] - a.ever.rx[c]])
  <1> DEFINE u == [c \in CPUs |-> b.ever.rx[c] - b.base.rx[c]]
             v == [c \in CPUs |-> a.ever.rx[c] - a.base.rx[c]]
             w == [c \in CPUs |-> b.ever.rx[c] - a.ever.rx[c]]
             d == [c \in CPUs |-> u[c] - v[c]]
  <1>1. u \in [CPUs -> Int] /\ v \in [CPUs -> Int] /\ w \in [CPUs -> Int]
    BY RxDelta
  <1>2. d \in [CPUs -> Int] /\ \A c \in CPUs : u[c] = d[c] + v[c]
    <2>1. \A c \in CPUs : u[c] \in Int /\ v[c] \in Int
      BY <1>1
    <2> HIDE DEF u, v
    <2> QED BY <2>1
  <1>3. \A c \in CPUs : d[c] <= w[c]
    BY RxDelta
  <1>4. IsFiniteSet(CPUs) /\ CPUs \in SUBSET CPUs
    BY ChartsAssumption
  <1> HIDE DEF u, v, w, d
  <1>5. SumFunction(u) = SumFunction(d) + SumFunction(v)
    BY <1>1, <1>2, <1>4, SumAdds
  <1>6. SumFunction(d) <= SumFunction(w)
    BY <1>1, <1>2, <1>3, <1>4, SumGrows
  <1>7. SumFunction(u) \in Int /\ SumFunction(v) \in Int
    BY <1>1, <1>4, SumOnSteps
  <1>8. SumFunction(d) \in Int /\ SumFunction(w) \in Int
    BY <1>1, <1>2, <1>4, SumOnSteps
  <1>9. SumFunction(u) - SumFunction(v) <= SumFunction(w)
    BY <1>5, <1>6, <1>7, <1>8
  <1> QED BY <1>9 DEF u, v, w

\* Without a reset the points are of all CPUs, and add up to what they received.
LEMMA TotalReceived ==
  ASSUME Inv, NEW p, p[1] \in DOMAIN snaps, p[2] \in DOMAIN snaps, BothHaveOutput("softirqs", p), Elapsed(p) > 0,
         NEW a, a = truth[p[1]], NEW b, b = truth[p[2]], Between2(a, b), a.base.rx = b.base.rx
  PROVE  TotalOf(SoftirqPoints(p)) = SumFunction([c \in CPUs |-> b.ever.rx[c] - a.ever.rx[c]])
  <1> DEFINE E == SoftirqPoints(p)
             v == [x \in E |-> x.delta]
             w == [c \in CPUs |-> b.ever.rx[c] - a.ever.rx[c]]
             h == [c \in CPUs |-> [cpu |-> c, delta |-> b.ever.rx[c] - a.ever.rx[c]]]
  <1>1. Between2(a, b)
    OBVIOUS
  <1>2. E = {h[c] : c \in CPUs}
    <2>1. E = {[cpu |-> c, delta |-> (b.ever.rx[c] - b.base.rx[c]) - (a.ever.rx[c] - a.base.rx[c])] :
                 c \in {o \in CPUs : b.ever.rx[o] - b.base.rx[o] >= a.ever.rx[o] - a.base.rx[o]}}
      BY SoftirqPointsAre
    <2>2. \A c \in CPUs : /\ b.ever.rx[c] - b.base.rx[c] >= a.ever.rx[c] - a.base.rx[c]
                          /\ (b.ever.rx[c] - b.base.rx[c]) - (a.ever.rx[c] - a.base.rx[c]) = b.ever.rx[c] - a.ever.rx[c]
      BY <1>1, RxDelta
    <2>3. {o \in CPUs : b.ever.rx[o] - b.base.rx[o] >= a.ever.rx[o] - a.base.rx[o]} = CPUs
      BY <2>2
    <2> HIDE DEF E
    <2> QED BY <2>1, <2>2, <2>3
  <1>3. \A c \in CPUs : w[c] \in Int
    BY <1>1, RxDelta
  <1> HIDE DEF E
  <1>4. h \in [CPUs -> E] /\ (\A c, d \in CPUs : h[c] = h[d] => c = d) /\ \A x \in E : \E c \in CPUs : h[c] = x
    BY <1>2
  <1>5. \A c \in CPUs : h[c].delta = w[c]
    OBVIOUS
  <1>6. v \in [E -> Int] /\ \A c \in CPUs : v[h[c]] = w[c]
    <2> HIDE DEF h, w
    <2> QED BY <1>2, <1>3, <1>4, <1>5
  <1>7. w \in [CPUs -> Int]
    BY <1>3
  <1>8. IsFiniteSet(CPUs) /\ IsFiniteSet(E)
    <2>1. IsFiniteSet(CPUs)
      BY ChartsAssumption
    <2> HIDE DEF h
    <2>2. h \in Surjection(CPUs, E)
      BY <1>4 DEF Surjection
    <2>3. IsFiniteSet(E)
      BY <2>1, <2>2, FS_Surjection DEF ExistsSurjection
    <2> QED BY <2>1, <2>3
  <1>9. TotalOf(E) = SumFunction(v)
    BY DEF TotalOf
  <1> HIDE DEF h, v, w
  <1>10. SumFunction(w) = SumFunction(v)
    BY <1>4, <1>6, <1>7, <1>8, SumRenamed
  <1> QED BY <1>9, <1>10 DEF E, w

\* A rate shown for a CPU is of what that CPU did, and the total is of what all
\* did, for any number of CPUs that come and go and after any reboots
\* (processSoftirqSnapshots, processSoftnetStatSnapshots).
THEOREM Rates == Spec => []RatesAreOwn
  <1>1. ASSUME Inv, NEW k \in (DOMAIN snaps) \ {1}
        PROVE  LET p    == <<k - 1, k>>
                   rows == IF truth[k].online = CPUs /\ truth[k - 1].online = CPUs THEN SoftnetPoints(p) ELSE {}
                   Rx(c) == Between(p, LAMBDA t : t.rx[c])
                   all   == SumFunction([c \in CPUs |-> Rx(c)])
               IN  /\ \A x \in SoftirqPoints(p) \cup rows :
                          /\ x.delta <= Rx(x.cpu)
                          /\ NoReset(p, LAMBDA t : t.rx) => x.delta = Rx(x.cpu)
                   /\ NoReset(p, LAMBDA t : t.rx) /\ SoftirqPoints(p) # {} => TotalOf(SoftirqPoints(p)) = all
                   /\ \A n \in PrintedSoftirqs(p) : n <= all
    <2> DEFINE p == <<k - 1, k>>
               a == truth[k - 1]
               b == truth[k]
               rows == IF b.online = CPUs /\ a.online = CPUs THEN SoftnetPoints(p) ELSE {}
               all == SumFunction([c \in CPUs |-> b.ever.rx[c] - a.ever.rx[c]])
    <2>1. Between2(a, b) /\ k - 1 \in DOMAIN snaps /\ k \in DOMAIN snaps
      BY <1>1, Neighbours
    <2>2. ASSUME NEW x \in SoftirqPoints(p) \cup rows
          PROVE  /\ x.cpu \in CPUs
                 /\ x.delta = (b.ever.rx[x.cpu] - b.base.rx[x.cpu]) - (a.ever.rx[x.cpu] - a.base.rx[x.cpu])
      <3>1. CASE x \in SoftirqPoints(p)
        <4>1. BothHaveOutput("softirqs", p) /\ Elapsed(p) > 0
          BY <3>1 DEF SoftirqPoints
        <4>2. SoftirqPoints(p) =
             {[cpu |-> c, delta |-> (b.ever.rx[c] - b.base.rx[c]) - (a.ever.rx[c] - a.base.rx[c])] :
                 c \in {o \in CPUs : b.ever.rx[o] - b.base.rx[o] >= a.ever.rx[o] - a.base.rx[o]}}
          BY <1>1, <2>1, <4>1, SoftirqPointsAre
        <4> QED BY <3>1, <4>2
      <3>2. CASE x \in rows
        BY <1>1, <3>2, SoftnetPointIs
      <3> QED BY <2>2, <3>1, <3>2
    <2>3. \A x \in SoftirqPoints(p) \cup rows :
             /\ x.delta <= b.ever.rx[x.cpu] - a.ever.rx[x.cpu]
             /\ a.base.rx = b.base.rx => x.delta = b.ever.rx[x.cpu] - a.ever.rx[x.cpu]
      <3> HIDE DEF a, b, rows, p
      <3> QED BY <2>1, <2>2, RxDelta
    <2>4. ASSUME a.base.rx = b.base.rx, SoftirqPoints(p) # {} PROVE TotalOf(SoftirqPoints(p)) = all
      <3>1. BothHaveOutput("softirqs", p) /\ Elapsed(p) > 0
        BY <2>4 DEF SoftirqPoints
      <3> QED BY <1>1, <2>1, <2>4, <3>1, TotalReceived
    <2>5. ASSUME NEW n \in PrintedSoftirqs(p) PROVE n <= all
      <3>1. BothHaveOutput("stat", p) /\ n = Get("stat", p[2]).softirq - Get("stat", p[1]).softirq
        BY DEF PrintedSoftirqs
      <3>2. ASSUME NEW j \in DOMAIN snaps, HasOutput("stat", j)
            PROVE  Get("stat", j).softirq = SumFunction([c \in CPUs |-> truth[j].ever.rx[c] - truth[j].base.rx[c]])
        <4>1. Get("stat", j) = StatOf(truth[j].ever, truth[j].base, truth[j].online)
          BY <1>1, <3>2, RecordOf DEF Holds, StatAt, HasOutput, Get
        <4> QED BY <4>1 DEF StatOf
      <3>3. Get("stat", p[2]).softirq = SumFunction([c \in CPUs |-> b.ever.rx[c] - b.base.rx[c]])
        BY <2>1, <3>1, <3>2 DEF BothHaveOutput
      <3>4. Get("stat", p[1]).softirq = SumFunction([c \in CPUs |-> a.ever.rx[c] - a.base.rx[c]])
        BY <2>1, <3>1, <3>2 DEF BothHaveOutput
      <3> QED BY <2>1, <3>1, <3>3, <3>4, AllReceived
    <2>6. p[1] = k - 1 /\ p[2] = k
      OBVIOUS
    <2> QED BY <2>3, <2>4, <2>5, <2>6 DEF Between, NoReset
  <1>2. ASSUME Inv PROVE RatesAreOwn
    BY <1>1, <1>2 DEF RatesAreOwn
  <1> QED BY <1>2, Invariance, PTL

\* The share of a field of a CPU's time, as StepCPU averages it.
LEMMA FieldShareTrue ==
  ASSUME Inv, "guest" \notin Modes, NEW p \in Pairs("stat"), NEW c \in Counted(p), NEW f \in Fields,
         truth[p[1]].base.cpu = truth[p[2]].base.cpu
  PROVE  Share(p, c, f) = TrueShare(p, c, f)
  <1> DEFINE total == TotalDelta(p, c)
             Time(g) == SpentOn(truth[p[2]].ever, c, g) - SpentOn(truth[p[1]].ever, c, g)
  <1>1. c \in InBoth(p)
    BY DEF Counted
  <1>2. total = Spent(truth[p[2]].ever, c) - Spent(truth[p[1]].ever, c)
    BY <1>1, TotalIs
  <1>3. Deltas(p, c)[f] = Time(f)
    BY <1>1, DeltaIs
  <1>4. TrueShare(p, c, f) =
          <<CASE f = "iowait=busy" -> total - Time("idle")
              [] f = "iowait=idle" -> total - Time("idle") - Time("iowait")
              [] OTHER -> Time(f), total>>
    BY <1>2, Zenon DEF TrueShare, Between
  <1>5. f # "iowait=busy" /\ f # "iowait=idle"
    BY DEF Fields
  <1>6. Share(p, c, f) = <<Deltas(p, c)[f], total>>
    BY DEF Share
  <1> HIDE DEF total, Time
  <1> QED BY <1>3, <1>4, <1>5, <1>6

\* The times of a capture and the ends of windows are numbers.
LEMMA InStepIs ==
  ASSUME Inv, NEW w \in Windows, NEW cmd
  PROVE  InStep(cmd, w) = {p \in Pairs(cmd) : snaps[p[2]].time >= w.from /\ snaps[p[2]].time <= w.to}
  <1>1. \A k \in DOMAIN snaps : snaps[k].time \in Nat
    BY DEF Inv, CaptureInv, Holds
  <1>2. w.from \in Int /\ w.to \in Int
    <2>1. PICK start \in {snaps[k].time : k \in DOMAIN snaps}, end \in {clock, clock - StartupSkip}, duration \in {0, 4} :
             w = StepWindow(start, end, duration)
      BY DEF Windows
    <2>2. start \in Int /\ end \in Int /\ duration \in Int
      BY <1>1 DEF Inv, TypesInv, StartupSkip
    <2> QED BY <2>1, <2>2 DEF StepWindow, StartupSkip
  <1>3. \A p \in Pairs(cmd) : snaps[p[2]].time \in Int
    BY <1>1, PairTypes
  <1>4. \A p \in Pairs(cmd) : snaps[p[2]].time \in w.from .. w.to <=>
                                 snaps[p[2]].time >= w.from /\ snaps[p[2]].time <= w.to
    BY <1>2, <1>3
  <1> QED BY <1>4 DEF InStep

\* What all CPUs received.
LEMMA ReceivedByAll ==
  ASSUME NEW a, NEW b, Between2(a, b)
  PROVE  SumFunction([c \in CPUs |-> b.ever.rx[c] - a.ever.rx[c]]) = SumFunction(b.ever.rx) - SumFunction(a.ever.rx)
  <1> DEFINE u == a.ever.rx
             v == [c \in CPUs |-> b.ever.rx[c] - a.ever.rx[c]]
             w == b.ever.rx
  <1>1. u \in [CPUs -> Nat] /\ w \in [CPUs -> Nat]
    BY DEF Between2, Counts
  <1>2. v \in [CPUs -> Int] /\ \A c \in CPUs : w[c] = u[c] + v[c]
    BY <1>1
  <1>3. IsFiniteSet(CPUs)
    BY ChartsAssumption
  <1> HIDE DEF u, v, w
  <1>4. u \in [CPUs -> Int] /\ w \in [CPUs -> Int]
    BY <1>1
  <1>5. SumFunction(w) = SumFunction(u) + SumFunction(v)
    BY <1>2, <1>3, <1>4, SumAdds
  <1>6. SumFunction(u) \in Int /\ SumFunction(v) \in Int
    BY <1>2, <1>3, <1>4, SumOnSteps
  <1>7. SumFunction(v) = SumFunction(w) - SumFunction(u)
    BY <1>5, <1>6
  <1> QED BY <1>7 DEF u, v, w

\* An average over a rate step is the mean of what the host did in the intervals
\* of the step, for any number of intervals and CPUs (computeRateStepCPU,
\* computeRateStepSoftirq).
THEOREM StepAverages == ASSUME "guest" \notin Modes PROVE Spec => []StepAveragesAreMeans
  <1>1. ASSUME Inv, NEW w \in Windows, NEW x \in StepCPU(w),
               NEW ends, ends = {p \in Pairs("stat") : snaps[p[2]].time >= w.from /\ snaps[p[2]].time <= w.to},
               \A p \in ends : x.cpu \in Counted(p) /\ NoReset(p, LAMBDA t : t.cpu),
               NEW f, f = [p \in ends |-> TrueShare(p, x.cpu, x.field)]
        PROVE  Equal(x.share, <<SumOf(f)[1], SumOf(f)[2] * Cardinality(DOMAIN f)>>)
    <2>1. InStep("stat", w) = ends
      BY <1>1, InStepIs
    <2>2. /\ x.field \in Fields
          /\ x.share = LET sum == SumOf([p \in {q \in ends : x.cpu \in Counted(q)} |-> Share(p, x.cpu, x.field)])
                       IN  <<sum[1], sum[2] * Cardinality(ends)>>
      <3> DEFINE Sum(c, g) == SumOf([p \in {q \in InStep("stat", w) : c \in Counted(q)} |-> Share(p, c, g)])
                 n == Cardinality(InStep("stat", w))
      <3>1. StepCPU(w) = {[cpu |-> c, field |-> g, share |-> <<Sum(c, g)[1], Sum(c, g)[2] * n>>] :
                             c \in UNION {Counted(p) : p \in InStep("stat", w)}, g \in Fields}
        BY DEF StepCPU
      <3> HIDE DEF Sum, n
      <3>2. x.field \in Fields /\ x.share = <<Sum(x.cpu, x.field)[1], Sum(x.cpu, x.field)[2] * n>>
        BY <1>1, <3>1
      <3> QED BY <2>1, <3>2 DEF Sum, n
    <2>3. {q \in ends : x.cpu \in Counted(q)} = ends
      BY <1>1
    <2>4. ASSUME NEW p \in ends PROVE Share(p, x.cpu, x.field) = TrueShare(p, x.cpu, x.field)
      <3>1. p \in Pairs("stat") /\ x.cpu \in Counted(p) /\ truth[p[1]].base.cpu = truth[p[2]].base.cpu
        BY <1>1, <2>4 DEF NoReset
      <3> QED BY <1>1, <2>2, <3>1, FieldShareTrue
    <2>5. [p \in ends |-> Share(p, x.cpu, x.field)] = f
      BY <1>1, <2>4
    <2>6. x.share = <<SumOf(f)[1], SumOf(f)[2] * Cardinality(ends)>>
      BY <2>2, <2>3, <2>5
    <2>7. DOMAIN f = ends
      BY <1>1
    <2> QED BY <2>6, <2>7 DEF Equal
  <1>2. ASSUME Inv, NEW w \in Windows,
               NEW good, good = {p \in InStep("softirqs", w) : Elapsed(p) > 0 /\ BothHaveOutput("softirqs", p)},
               good # {}, \A p \in good : NoReset(p, LAMBDA t : t.rx),
               NEW f, f = [p \in good |-> <<Between(p, LAMBDA t : SumFunction(t.rx)), Elapsed(p)>>]
        PROVE  Equal(StepSoftirq(w), <<SumOf(f)[1], SumOf(f)[2] * Cardinality(DOMAIN f)>>)
    <2>1. StepSoftirq(w) = LET sum == SumOf([p \in good |-> <<TotalOf(SoftirqPoints(p)), Elapsed(p)>>])
                           IN  <<sum[1], sum[2] * Cardinality(good)>>
      BY <1>2 DEF StepSoftirq
    <2>2. ASSUME NEW p \in good
          PROVE  <<TotalOf(SoftirqPoints(p)), Elapsed(p)>> = <<Between(p, LAMBDA t : SumFunction(t.rx)), Elapsed(p)>>
      <3> DEFINE a == truth[p[1]]
                 b == truth[p[2]]
      <3>1. /\ p \in Pairs("softirqs") /\ Elapsed(p) > 0 /\ BothHaveOutput("softirqs", p)
            /\ a.base.rx = b.base.rx
        BY <1>2, <2>2 DEF NoReset, InStep
      <3>2. p[1] \in DOMAIN snaps /\ p[2] \in DOMAIN snaps /\ Upto(a.ever, b.ever) /\ Upto(a.base, b.base)
        BY <1>2, <3>1, PairTypes
      <3>3. Between2(a, b)
        BY <1>2, <3>2, RecordOf DEF Between2
      <3>4. TotalOf(SoftirqPoints(p)) = SumFunction(b.ever.rx) - SumFunction(a.ever.rx)
        <4>1. TotalOf(SoftirqPoints(p)) = SumFunction([c \in CPUs |-> b.ever.rx[c] - a.ever.rx[c]])
          BY <1>2, <3>1, <3>2, <3>3, TotalReceived
        <4>2. SumFunction([c \in CPUs |-> b.ever.rx[c] - a.ever.rx[c]]) = SumFunction(b.ever.rx) - SumFunction(a.ever.rx)
          BY <3>3, ReceivedByAll
        <4> QED BY <4>1, <4>2
      <3> QED BY <3>4 DEF Between
    <2>3. [p \in good |-> <<TotalOf(SoftirqPoints(p)), Elapsed(p)>>] = f
      BY <1>2, <2>2
    <2>4. DOMAIN f = good
      BY <1>2
    <2>5. StepSoftirq(w) = <<SumOf(f)[1], SumOf(f)[2] * Cardinality(good)>>
      BY <2>1, <2>3
    <2> QED BY <2>4, <2>5 DEF Equal
  <1>3. ASSUME Inv PROVE StepAveragesAreMeans
    <2>1. ASSUME NEW w \in Windows
          PROVE  {p \in {q \in Pairs("softirqs") : snaps[q[2]].time >= w.from /\ snaps[q[2]].time <= w.to} :
                     Elapsed(p) > 0 /\ BothHaveOutput("softirqs", p)}
                   = {p \in InStep("softirqs", w) : Elapsed(p) > 0 /\ BothHaveOutput("softirqs", p)}
      BY <1>3, <2>1, InStepIs
    <2> QED BY <1>1, <1>2, <1>3, <2>1 DEF StepAveragesAreMeans
  <1> QED BY <1>3, Invariance, PTL
=============================================================================
