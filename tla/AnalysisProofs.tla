---------------------------- MODULE AnalysisProofs ----------------------------
(***************************************************************************)
(* What the analyzer reads from the two files of a run, for captures of    *)
(* any length of a collector without -n, whose samples are all of the root *)
(* namespace.  CaptureInv is the invariant of module Capture; the readers  *)
(* are followed along the records and lines as these are written.          *)
(***************************************************************************)
EXTENDS Analysis, FoldLemmas

\* The collector runs without -n, as it does by default.
RootOnly == Namespaces = {}

-----------------------------------------------------------------------------
(* The capture.                                                            *)

NetVals  == Nat \cup {Absent}
DevOuts  == {<<f>> : f \in [Ifaces -> NetVals]}
Outs     == DevOuts \cup {<<n>> : n \in Nat} \cup {Nothing}
Sections == {"init", "A", "B"}
Srcs     == [cmd : Commands, ns : {Root}]
Times    == Nat \ {0}

RecSet == [seq : Ids, sec : Sections, cmd : Commands, ns : {Root}, time : Times, out : Outs]

LineSet ==
    [kind : {"begin", "end"}, sec : {"A", "B"}, id : Ids, time : Times]
    \cup [kind : {"marker"}, src : Srcs] \cup [kind : {"out"}, value : Outs]

Passed == [{Root} -> [Ifaces -> Nat]]

TypeInv ==
    /\ clock \in Times /\ now \in Times /\ run \in Times /\ seq \in Ids
    /\ section \in Sections \cup {None} /\ next \in {"A", "B"}
    /\ section \in {"A", "B"} => seq < MaxSeq
    /\ todo \in Seq(Srcs) /\ recs \in Seq(RecSet) /\ lines \in Seq(LineSet)
    /\ net \in [{Root} -> [Ifaces -> NetVals]] /\ passed \in Passed
    /\ truth \in Seq(Passed) /\ Len(truth) = Len(recs)

\* The commands of the init section are its own.
SourceInv == section = "init" => \A i \in 1 .. Len(todo) : todo[i].cmd = "lscpu"

\* A reading of /proc/net/dev.
Reading(r) == r.cmd = "dev" /\ r.out # Nothing

\* Times grow along the file, and a counter has moved by no more than what has
\* passed since it was read.
RecordInv ==
    \A k \in 1 .. Len(recs) :
        /\ recs[k].time < clock
        /\ Reading(recs[k]) => recs[k].out \in DevOuts
        /\ \A i \in Ifaces : truth[k][Root][i] <= passed[Root][i]
        /\ Reading(recs[k]) => \A i \in Ifaces :
              recs[k].out[1][i] # Absent => net[Root][i] <= recs[k].out[1][i] + (passed[Root][i] - truth[k][Root][i])

\* So it is of any two records.
PairInv ==
    \A j, k \in 1 .. Len(recs) : j < k =>
        /\ recs[j].time < recs[k].time
        /\ \A i \in Ifaces : truth[j][Root][i] <= truth[k][Root][i]
        /\ Reading(recs[j]) /\ Reading(recs[k]) => \A i \in Ifaces :
              recs[j].out[1][i] # Absent =>
                  recs[k].out[1][i] <= recs[j].out[1][i] + (truth[k][Root][i] - truth[j][Root][i])

CaptureInv == TypeInv /\ SourceInv /\ RecordInv /\ PairInv

LEMMA SourcesAre ==
  ASSUME RootOnly
  PROVE  /\ Sources("init") = <<Source("lscpu", Root)>>
         /\ Sources("A") = <<Source("dev", Root), Source("softnet", Root)>>
         /\ Sources("B") = <<Source("stat", Root), Source("softnet", Root)>>
         /\ \A sec \in Sections :
               /\ Sources(sec) \in Seq(Srcs) /\ Sources(sec) # <<>>
               /\ \A i, j \in 1 .. Len(Sources(sec)) : i # j => Sources(sec)[i].cmd # Sources(sec)[j].cmd
  <1> DEFINE q == [i \in 1 .. Cardinality(Namespaces) |->
                      LET ns == SetToSeq(Namespaces)[i]
                      IN  <<Source("dev", ns), Source("softnet", ns)>>]
  <1>1. Cardinality(Namespaces) = 0
    BY FS_EmptySet DEF RootOnly
  <1>2. q \in [1 .. 0 -> {}] /\ 1 .. 0 = {}
    BY <1>1
  <1>3. q \in Seq({}) /\ Len(q) = 0
    <2>1. q \in [1 .. 0 -> {}] /\ 0 \in Nat
      BY <1>2
    <2> HIDE DEF q
    <2>2. q \in Seq({})
      BY <2>1, SeqDef
    <2> QED BY <2>1, <2>2, LenProperties
  <1> HIDE DEF q
  <1>4. q = <<>>
    BY <1>3, EmptySeq
  <1>5. PerNamespace = <<>>
    <2>1. PerNamespace = FlattenSeq(q)
      BY DEF PerNamespace, q
    <2> QED BY <1>3, <1>4, <2>1 DEF FlattenSeq
  <1>6. \A cmd \in Commands : Source(cmd, Root) \in Srcs
    BY DEF Source, Srcs
  <1>7. "lscpu" \in Commands /\ "dev" \in Commands /\ "softnet" \in Commands /\ "stat" \in Commands
    BY DEF Commands
  <1> DEFINE a == <<Source("dev", Root), Source("softnet", Root)>>
             b == <<Source("stat", Root), Source("softnet", Root)>>
             c == <<Source("lscpu", Root)>>
  <1>8. /\ a \in Seq(Srcs) /\ a # <<>> /\ b \in Seq(Srcs) /\ b # <<>> /\ c \in Seq(Srcs) /\ c # <<>>
    BY <1>6, <1>7
  <1>9. a \o <<>> = a
    <2> HIDE DEF a
    <2> QED BY <1>8, ConcatEmptySeq
  <1>10. Sources("init") = c /\ Sources("B") = b /\ Sources("A") = a
    BY <1>5, <1>9 DEF Sources
  <1>11. \A sec \in Sections : Sources(sec) \in {a, b, c}
    BY <1>10 DEF Sections
  <1>12. \A i, j \in 1 .. Len(a) : i # j => a[i].cmd # a[j].cmd
    BY DEF Source
  <1>13. \A i, j \in 1 .. Len(b) : i # j => b[i].cmd # b[j].cmd
    BY DEF Source
  <1>14. \A i, j \in 1 .. Len(c) : i # j => c[i].cmd # c[j].cmd
    BY DEF Source
  <1> HIDE DEF a, b, c
  <1>15. \A sec \in Sections :
           /\ Sources(sec) \in Seq(Srcs) /\ Sources(sec) # <<>>
           /\ \A i, j \in 1 .. Len(Sources(sec)) : i # j => Sources(sec)[i].cmd # Sources(sec)[j].cmd
    BY <1>8, <1>11, <1>12, <1>13, <1>14
  <1> QED BY <1>10, <1>15 DEF a, b, c

LEMMA InitCapture ==
  ASSUME RootOnly, Init
  PROVE  CaptureInv
  <1>1. AllNS = {Root} /\ MaxSeq \in Nat
    BY CaptureAssumption DEF AllNS, RootOnly
  <1>2. /\ clock = 1 /\ run = 1 /\ seq = 0 /\ now = 1 /\ section = "init" /\ todo = Sources("init") /\ next = "A"
        /\ net \in [AllNS -> [Ifaces -> {Absent, 0}]]
        /\ passed = [n \in AllNS |-> [i \in Ifaces |-> 0]]
        /\ recs = <<>> /\ lines = <<>> /\ truth = <<>>
    BY DEF Init, CaptureInit
  <1>3. recs \in Seq(RecSet) /\ lines \in Seq(LineSet) /\ truth \in Seq(Passed) /\ Len(recs) = 0 /\ Len(truth) = 0
    BY <1>2, EmptySeq
  <1>4. todo \in Seq(Srcs) /\ \A i \in 1 .. Len(todo) : todo[i].cmd = "lscpu"
    BY <1>2, SourcesAre DEF Source, Sections
  <1>5. net \in [{Root} -> [Ifaces -> NetVals]] /\ passed \in Passed
    BY <1>1, <1>2 DEF NetVals, Passed
  <1>6. seq \in Ids /\ section \in Sections
    BY <1>1, <1>2 DEF Ids, Sections
  <1>7. TypeInv
    BY <1>2, <1>3, <1>4, <1>5, <1>6 DEF TypeInv, Times
  <1> QED BY <1>3, <1>4, <1>7 DEF CaptureInv, SourceInv, RecordInv, PairInv

LEMMA OutputType ==
  ASSUME CaptureInv, NEW src \in Srcs
  PROVE  Output(src) \in Outs /\ (src.cmd = "dev" => Output(src) = <<net[Root]>> /\ Output(src) \in DevOuts)
  <1>1. src.ns = Root /\ net[Root] \in [Ifaces -> NetVals] /\ clock \in Nat
    BY DEF CaptureInv, TypeInv, Srcs, Times
  <1>2. src.cmd = "dev" => Output(src) = <<net[Root]>>
    BY <1>1 DEF Output
  <1>3. src.cmd # "dev" => Output(src) = <<clock>>
    BY DEF Output
  <1>4. <<net[Root]>> \in DevOuts
    BY <1>1 DEF DevOuts
  <1> QED BY <1>1, <1>2, <1>3, <1>4 DEF Outs

\* The record that Collect adds, and the lines.
Added(src, v) == [seq |-> seq, sec |-> section, cmd |-> src.cmd, ns |-> src.ns, time |-> clock, out |-> v]

Shown(src, v) == <<Marker(src)>> \o (IF v = Nothing THEN <<>> ELSE <<Out(v)>>)

Collects(src, v) ==
    /\ section \in Sections /\ todo # <<>> /\ src = Head(todo) /\ src \in Srcs
    /\ v \in {Output(src), Nothing} /\ v \in Outs
    /\ recs' = Append(recs, Added(src, v)) /\ Added(src, v) \in RecSet
    /\ lines' = IF run = 1 THEN lines \o Shown(src, v) ELSE lines
    /\ truth' = Append(truth, passed) /\ todo' = Tail(todo) /\ clock' = clock + 1
    /\ UNCHANGED <<run, seq, section, now, next, net, passed>>

LEMMA CollectAdds ==
  ASSUME CaptureInv, Collect
  PROVE  \E src \in Srcs, v \in Outs : Collects(src, v)
  <1> DEFINE src == Head(todo)
  <1>1. PICK v \in {Output(src), Nothing} :
          /\ recs' = Append(recs, Added(src, v))
          /\ lines' = IF run = 1 THEN lines \o Shown(src, v) ELSE lines
    BY DEF Collect, Printed, Added, Shown
  <1>2. /\ section \in Sections /\ todo # <<>> /\ todo \in Seq(Srcs)
        /\ truth' = Append(truth, passed) /\ todo' = Tail(todo) /\ clock' = clock + 1
        /\ UNCHANGED <<run, seq, section, now, next, net, passed>>
    BY DEF Collect, CaptureInv, TypeInv
  <1>3. src \in Srcs
    BY <1>2, HeadTailProperties
  <1> HIDE DEF src
  <1>4. v \in Outs
    BY <1>1, <1>3, OutputType DEF Outs
  <1>5. Added(src, v) \in RecSet
    BY <1>2, <1>3, <1>4 DEF Added, RecSet, Srcs, CaptureInv, TypeInv
  <1>6. Collects(src, v)
    BY <1>1, <1>2, <1>3, <1>4, <1>5 DEF Collects, src
  <1> QED BY <1>3, <1>4, <1>6

LEMMA ShownLines ==
  ASSUME CaptureInv, NEW src \in Srcs, NEW v \in Outs
  PROVE  /\ Marker(src) \in LineSet /\ Out(v) \in LineSet
         /\ lines \o Shown(src, v) = IF v = Nothing THEN Append(lines, Marker(src))
                                     ELSE Append(Append(lines, Marker(src)), Out(v))
         /\ lines \o Shown(src, v) \in Seq(LineSet)
  <1> DEFINE m == Marker(src)
             o == Out(v)
  <1>1. m \in LineSet /\ o \in LineSet /\ lines \in Seq(LineSet)
    BY DEF Marker, Out, LineSet, CaptureInv, TypeInv
  <1>2. Shown(src, v) = <<m>> \o (IF v = Nothing THEN <<>> ELSE <<o>>)
    BY DEF Shown
  <1> HIDE DEF m, o
  <1>3. Append(lines, m) = lines \o <<m>> /\ Append(lines, m) \in Seq(LineSet)
    BY <1>1, AppendIsConcat, AppendProperties
  <1>4. Append(Append(lines, m), o) = Append(lines, m) \o <<o>> /\ Append(Append(lines, m), o) \in Seq(LineSet)
    BY <1>1, <1>3, AppendIsConcat, AppendProperties
  <1>5. <<m>> \in Seq(LineSet) /\ <<o>> \in Seq(LineSet)
    BY <1>1
  <1>6. (lines \o <<m>>) \o <<o>> = lines \o (<<m>> \o <<o>>) /\ <<m>> \o <<>> = <<m>>
    BY <1>1, <1>5, ConcatAssociative, ConcatEmptySeq
  <1>7. lines \o Shown(src, v) = IF v = Nothing THEN Append(lines, m) ELSE Append(Append(lines, m), o)
    BY <1>2, <1>3, <1>4, <1>6
  <1> QED BY <1>1, <1>3, <1>4, <1>7 DEF m, o

LEMMA CollectCapture ==
  ASSUME CaptureInv, NEW src \in Srcs, NEW v \in Outs, Collects(src, v)
  PROVE  CaptureInv'
  <1> DEFINE n == Len(recs)
             r == Added(src, v)
  <1>1. /\ n \in Nat /\ recs' \in Seq(RecSet) /\ Len(recs') = n + 1 /\ recs'[n + 1] = r
        /\ \A k \in 1 .. n : recs'[k] = recs[k]
    BY AppendProperties, LenProperties DEF Collects, CaptureInv, TypeInv
  <1>2. /\ truth' \in Seq(Passed) /\ Len(truth') = n + 1 /\ truth'[n + 1] = passed
        /\ \A k \in 1 .. n : truth'[k] = truth[k]
    BY AppendProperties, LenProperties DEF Collects, CaptureInv, TypeInv
  <1>3. lines' \in Seq(LineSet)
    BY ShownLines DEF Collects, CaptureInv, TypeInv
  <1>4. /\ todo' \in Seq(Srcs) /\ Len(todo') = Len(todo) - 1 /\ Len(todo) \in Nat
        /\ \A i \in 1 .. Len(todo') : todo'[i] = todo[i + 1]
    BY HeadTailProperties, LenProperties DEF Collects, CaptureInv, TypeInv
  <1>5. clock \in Nat /\ clock' = clock + 1 /\ UNCHANGED <<run, seq, section, now, next, net, passed>>
    BY DEF Collects, CaptureInv, TypeInv, Times
  <1>6. TypeInv'
    BY <1>1, <1>2, <1>3, <1>4, <1>5 DEF CaptureInv, TypeInv, Times
  <1>7. SourceInv'
    BY <1>4, <1>5 DEF CaptureInv, SourceInv
  <1>8. r.time = clock /\ r.out = v /\ r.cmd = src.cmd
    BY DEF Added
  <1>9. Reading(r) => v = <<net[Root]>> /\ v \in DevOuts
    BY <1>8, OutputType DEF Reading, Collects
  <1>10. net[Root] \in [Ifaces -> NetVals] /\ passed[Root] \in [Ifaces -> Nat]
    BY DEF CaptureInv, TypeInv, Passed
  <1>11. \A k \in 1 .. n + 1 : k \in 1 .. n \/ k = n + 1
    BY <1>1
  <1> HIDE DEF n, r
  <1>12. RecordInv'
    <2> SUFFICES ASSUME NEW k \in 1 .. n + 1
                 PROVE  /\ recs'[k].time < clock'
                        /\ Reading(recs'[k]) => recs'[k].out \in DevOuts
                        /\ \A i \in Ifaces : truth'[k][Root][i] <= passed'[Root][i]
                        /\ Reading(recs'[k]) => \A i \in Ifaces :
                              recs'[k].out[1][i] # Absent =>
                                  net'[Root][i] <= recs'[k].out[1][i] + (passed'[Root][i] - truth'[k][Root][i])
      BY <1>1 DEF RecordInv, Reading
    <2>1. CASE k \in 1 .. n
      <3>1. recs[k].time \in Nat /\ recs[k].time < clock
        <4>1. recs[k] \in RecSet
          BY <2>1, ElementOfSeq DEF n, CaptureInv, TypeInv
        <4> QED BY <2>1, <4>1 DEF CaptureInv, RecordInv, n, RecSet, Times
      <3>2. recs'[k] = recs[k] /\ truth'[k] = truth[k]
        BY <1>1, <1>2, <2>1
      <3>3. recs'[k].time < clock'
        BY <1>5, <3>1, <3>2
      <3> QED BY <1>5, <2>1, <3>2, <3>3 DEF CaptureInv, RecordInv, n
    <2>2. CASE k = n + 1
      <3>1. recs'[k] = r /\ truth'[k] = passed
        BY <1>1, <1>2, <2>2
      <3>2. \A i \in Ifaces : passed[Root][i] \in Nat /\ passed'[Root][i] = passed[Root][i]
        BY <1>5, <1>10
      <3>3. \A i \in Ifaces : net[Root][i] \in Int /\ net'[Root][i] = net[Root][i]
        BY <1>5, <1>10 DEF NetVals, Absent
      <3>4. Reading(r) => r.out[1] = net[Root] /\ r.out \in DevOuts
        BY <1>8, <1>9
      <3>5. r.time < clock'
        BY <1>5, <1>8
      <3> QED BY <3>1, <3>2, <3>3, <3>4, <3>5
    <2> QED BY <1>11, <2>1, <2>2
  <1>13. PairInv'
    <2> SUFFICES ASSUME NEW j \in 1 .. n + 1, NEW k \in 1 .. n + 1, j < k
                 PROVE  /\ recs'[j].time < recs'[k].time
                        /\ \A i \in Ifaces : truth'[j][Root][i] <= truth'[k][Root][i]
                        /\ Reading(recs'[j]) /\ Reading(recs'[k]) => \A i \in Ifaces :
                              recs'[j].out[1][i] # Absent =>
                                  recs'[k].out[1][i] <= recs'[j].out[1][i] + (truth'[k][Root][i] - truth'[j][Root][i])
      BY <1>1 DEF PairInv, Reading
    <2>1. j \in 1 .. n /\ recs'[j] = recs[j] /\ truth'[j] = truth[j]
      BY <1>1, <1>2
    <2>2. CASE k \in 1 .. n
      <3>1. recs'[k] = recs[k] /\ truth'[k] = truth[k]
        BY <1>1, <1>2, <2>2
      <3> QED BY <2>1, <2>2, <3>1 DEF CaptureInv, PairInv, n
    <2>3. CASE k = n + 1
      <3>1. recs'[k] = r /\ truth'[k] = passed
        BY <1>1, <1>2, <2>3
      <3>2. recs[j].time < r.time
        BY <1>8, <2>1 DEF CaptureInv, RecordInv, n
      <3>3. Reading(r) => r.out[1] = net[Root]
        BY <1>8, <1>9
      <3> QED BY <2>1, <3>1, <3>2, <3>3 DEF CaptureInv, RecordInv, n
    <2> QED BY <1>11, <2>2, <2>3
  <1> QED BY <1>6, <1>7, <1>12, <1>13 DEF CaptureInv

\* A line more, or none.
LEMMA LinesGrow ==
  ASSUME CaptureInv, NEW l \in LineSet
  PROVE  lines \o <<l>> = Append(lines, l) /\ Append(lines, l) \in Seq(LineSet) /\ lines \o <<>> = lines
  BY AppendIsConcat, AppendProperties, ConcatEmptySeq DEF CaptureInv, TypeInv

LEMMA MarkedLines ==
  ASSUME CaptureInv
  PROVE  /\ Begin(next) \in LineSet
         /\ section \in {"A", "B"} => End(section) \in LineSet
  BY DEF CaptureInv, TypeInv, Begin, End, LineSet

\* What neither the host nor the records take part in.
LEMMA SameRecords ==
  ASSUME CaptureInv, clock' \in Times, clock <= clock', UNCHANGED <<hostVars, recs, truth>>
  PROVE  RecordInv' /\ PairInv'
  <1>1. PairInv'
    BY DEF PairInv, CaptureInv, hostVars, Reading
  <1>2. ASSUME NEW k \in 1 .. Len(recs) PROVE recs[k].time < clock'
    <2>1. recs[k] \in RecSet /\ clock \in Nat
      BY ElementOfSeq DEF CaptureInv, TypeInv, Times
    <2>2. recs[k].time \in Nat /\ recs[k].time < clock
      BY <2>1 DEF CaptureInv, RecordInv, RecSet, Times
    <2> QED BY <2>1, <2>2 DEF Times
  <1>3. RecordInv'
    BY <1>2 DEF RecordInv, CaptureInv, hostVars, Reading
  <1> QED BY <1>1, <1>3

LEMMA BeginCapture ==
  ASSUME RootOnly, CaptureInv, BeginSection
  PROVE  CaptureInv'
  <1>1. /\ section = None /\ seq < MaxSeq /\ section' = next /\ todo' = Sources(next)
        /\ clock' = clock + 1 /\ now' = clock' /\ UNCHANGED <<run, seq, next, hostVars, recs, truth>>
        /\ lines' = IF run = 1 THEN lines \o <<Begin(next)>> ELSE lines
    BY DEF BeginSection, Printed
  <1>2. lines' \in Seq(LineSet)
    BY <1>1, LinesGrow, MarkedLines DEF CaptureInv, TypeInv
  <1>3. todo' \in Seq(Srcs) /\ section' \in {"A", "B"}
    BY <1>1, SourcesAre DEF CaptureInv, TypeInv, Sections
  <1>4. TypeInv'
    BY <1>1, <1>2, <1>3 DEF CaptureInv, TypeInv, Times, Sections, hostVars
  <1>5. SourceInv'
    BY <1>3 DEF SourceInv
  <1>6. RecordInv' /\ PairInv'
    BY <1>1, SameRecords DEF CaptureInv, TypeInv, Times
  <1> QED BY <1>4, <1>5, <1>6 DEF CaptureInv

LEMMA EndCapture ==
  ASSUME RootOnly, CaptureInv, EndSection
  PROVE  CaptureInv'
  <1>1. /\ section # None /\ todo = <<>> /\ section' = None
        /\ seq' = IF section = "B" THEN seq + 1 ELSE seq
        /\ next' \in {"A", "B"}
        /\ clock' = clock + 1 /\ UNCHANGED <<run, todo, now, hostVars, recs, truth>>
        /\ lines' = IF run = 1 THEN lines \o (IF section = "init" THEN <<>> ELSE <<End(section)>>) ELSE lines
    BY DEF EndSection, Printed, CaptureInv, TypeInv, Sections
  <1>2. lines' \in Seq(LineSet)
    BY <1>1, LinesGrow, MarkedLines DEF CaptureInv, TypeInv, Sections
  <1>3. seq' \in Ids
    BY <1>1, CaptureAssumption DEF CaptureInv, TypeInv, Ids
  <1>4. TypeInv'
    BY <1>1, <1>2, <1>3 DEF CaptureInv, TypeInv, Times, Sections, hostVars, None
  <1>5. SourceInv'
    BY <1>1 DEF SourceInv, None
  <1>6. RecordInv' /\ PairInv'
    BY <1>1, SameRecords DEF CaptureInv, TypeInv, Times
  <1> QED BY <1>4, <1>5, <1>6 DEF CaptureInv

LEMMA RestartCapture ==
  ASSUME RootOnly, CaptureInv, Restart
  PROVE  CaptureInv'
  <1>1. /\ run' = run + 1 /\ seq' = 0 /\ section' = "init" /\ todo' = Sources("init") /\ next' = "A"
        /\ clock' = clock + 1 /\ UNCHANGED <<now, hostVars, recs, lines, truth>>
    BY DEF Restart
  <1>2. todo' \in Seq(Srcs) /\ \A i \in 1 .. Len(todo') : todo'[i].cmd = "lscpu"
    BY <1>1, SourcesAre DEF Source, Sections
  <1>3. seq' \in Ids
    BY <1>1, CaptureAssumption DEF Ids
  <1>4. TypeInv'
    BY <1>1, <1>2, <1>3 DEF CaptureInv, TypeInv, Times, Sections, hostVars
  <1>5. SourceInv'
    BY <1>2 DEF SourceInv
  <1>6. RecordInv' /\ PairInv'
    BY <1>1, SameRecords DEF CaptureInv, TypeInv, Times
  <1> QED BY <1>4, <1>5, <1>6 DEF CaptureInv

LEMMA HostCapture ==
  ASSUME RootOnly, CaptureInv, HostStep
  PROVE  CaptureInv'
  <1>1. AllNS = {Root}
    BY DEF AllNS, RootOnly
  <1>2. PICK i \in Ifaces : Packet(Root, i) \/ Replug(Root, i)
    BY <1>1 DEF HostStep
  <1>3. UNCHANGED <<clock, run, seq, section, now, next, todo, recs, lines, truth>>
    BY DEF HostStep
  <1>4. net[Root] \in [Ifaces -> NetVals] /\ passed[Root] \in [Ifaces -> Nat] /\ DOMAIN net = {Root} /\ DOMAIN passed = {Root}
    BY DEF CaptureInv, TypeInv, Passed
  <1>5. \A j \in Ifaces : net[Root][j] \in NetVals /\ passed[Root][j] \in Nat
    BY <1>4
  <1>6. \A a \in NetVals : a \in Int /\ (a # Absent => a \in Nat /\ a + 1 \in NetVals) /\ a >= -1
    BY DEF NetVals, Absent
  <1>7. \A j \in Ifaces : /\ net'[Root][j] \in NetVals /\ passed'[Root][j] \in Nat
                          /\ passed[Root][j] <= passed'[Root][j]
                          /\ \/ net'[Root][j] <= 0
                             \/ net'[Root][j] - net[Root][j] = passed'[Root][j] - passed[Root][j]
    <2>1. CASE Packet(Root, i)
      <3>1. /\ net[Root][i] # Absent
            /\ net' = [net EXCEPT ![Root][i] = net[Root][i] + 1]
            /\ passed' = [passed EXCEPT ![Root][i] = passed[Root][i] + 1]
        BY <2>1 DEF Packet
      <3>2. \A j \in Ifaces : /\ net'[Root][j] = IF j = i THEN net[Root][j] + 1 ELSE net[Root][j]
                              /\ passed'[Root][j] = IF j = i THEN passed[Root][j] + 1 ELSE passed[Root][j]
        BY <1>4, <3>1
      <3> SUFFICES ASSUME NEW j \in Ifaces
                   PROVE  /\ net'[Root][j] \in NetVals /\ passed'[Root][j] \in Nat
                          /\ passed[Root][j] <= passed'[Root][j]
                          /\ net'[Root][j] - net[Root][j] = passed'[Root][j] - passed[Root][j]
        OBVIOUS
      <3>3. net[Root][j] \in Int /\ passed[Root][j] \in Nat
        BY <1>5, <1>6
      <3>4. CASE j = i
        <4>1. net'[Root][j] = net[Root][j] + 1 /\ passed'[Root][j] = passed[Root][j] + 1
          BY <3>2, <3>4
        <4>2. net[Root][j] + 1 \in NetVals
          BY <1>5, <1>6, <3>1, <3>4
        <4> QED BY <3>3, <4>1, <4>2
      <3>5. CASE j # i
        <4>1. net'[Root][j] = net[Root][j] /\ passed'[Root][j] = passed[Root][j]
          BY <3>2, <3>5
        <4>2. net[Root][j] \in NetVals
          BY <1>5
        <4> QED BY <3>3, <4>1, <4>2
      <3> QED BY <3>4, <3>5
    <2>2. CASE Replug(Root, i)
      <3>1. PICK v \in {Absent, 0} : net' = [net EXCEPT ![Root][i] = v] /\ passed' = passed
        BY <2>2 DEF Replug
      <3>2. \A j \in Ifaces : net'[Root][j] = IF j = i THEN v ELSE net[Root][j]
        BY <1>4, <3>1
      <3>3. v \in NetVals /\ v <= 0
        BY DEF NetVals, Absent
      <3> SUFFICES ASSUME NEW j \in Ifaces
                   PROVE  /\ net'[Root][j] \in NetVals /\ passed'[Root][j] \in Nat
                          /\ passed[Root][j] <= passed'[Root][j]
                          /\ \/ net'[Root][j] <= 0
                             \/ net'[Root][j] - net[Root][j] = passed'[Root][j] - passed[Root][j]
        OBVIOUS
      <3>4. passed'[Root][j] = passed[Root][j] /\ passed[Root][j] \in Nat /\ net[Root][j] \in NetVals /\ net[Root][j] \in Int
        BY <1>5, <1>6, <3>1
      <3>5. CASE j = i
        <4>1. net'[Root][j] \in NetVals /\ net'[Root][j] <= 0
          BY <3>2, <3>3, <3>5
        <4> QED BY <3>4, <4>1
      <3>6. CASE j # i
        <4>1. net'[Root][j] = net[Root][j]
          BY <3>2, <3>6
        <4> QED BY <3>4, <4>1
      <3> QED BY <3>5, <3>6
    <2> QED BY <1>2, <2>1, <2>2
  <1>8. net' \in [{Root} -> [Ifaces -> NetVals]] /\ passed' \in Passed
    <2>1. CASE Packet(Root, i)
      <3>1. /\ net' = [net EXCEPT ![Root][i] = net[Root][i] + 1] /\ net[Root][i] + 1 \in NetVals
            /\ passed' = [passed EXCEPT ![Root][i] = passed[Root][i] + 1] /\ passed[Root][i] + 1 \in Nat
        BY <1>5, <1>6, <2>1 DEF Packet
      <3> QED BY <3>1 DEF CaptureInv, TypeInv, Passed
    <2>2. CASE Replug(Root, i)
      <3>1. PICK v \in {Absent, 0} : net' = [net EXCEPT ![Root][i] = v] /\ passed' = passed
        BY <2>2 DEF Replug
      <3>2. v \in NetVals
        BY DEF NetVals
      <3> QED BY <3>1, <3>2 DEF CaptureInv, TypeInv
    <2> QED BY <1>2, <2>1, <2>2
  <1>9. TypeInv' /\ SourceInv' /\ PairInv'
    BY <1>3, <1>8 DEF CaptureInv, TypeInv, SourceInv, PairInv, Reading
  <1>10. RecordInv'
    <2> SUFFICES ASSUME NEW k \in 1 .. Len(recs)
                 PROVE  /\ recs[k].time < clock
                        /\ Reading(recs[k]) => recs[k].out \in DevOuts
                        /\ \A j \in Ifaces : truth[k][Root][j] <= passed'[Root][j]
                        /\ Reading(recs[k]) => \A j \in Ifaces :
                              recs[k].out[1][j] # Absent =>
                                  net'[Root][j] <= recs[k].out[1][j] + (passed'[Root][j] - truth[k][Root][j])
      BY <1>3 DEF RecordInv, Reading
    <2>1. /\ recs[k].time < clock
          /\ Reading(recs[k]) => recs[k].out \in DevOuts
          /\ \A j \in Ifaces : truth[k][Root][j] <= passed[Root][j]
          /\ Reading(recs[k]) => \A j \in Ifaces :
                recs[k].out[1][j] # Absent => net[Root][j] <= recs[k].out[1][j] + (passed[Root][j] - truth[k][Root][j])
      BY DEF CaptureInv, RecordInv
    <2>2. \A j \in Ifaces : truth[k][Root][j] \in Nat
      <3>1. truth[k] \in Passed
        BY ElementOfSeq DEF CaptureInv, TypeInv
      <3> QED BY <3>1 DEF Passed
    <2>3. \A j \in Ifaces : truth[k][Root][j] <= passed'[Root][j]
      BY <1>5, <1>7, <2>1, <2>2
    <2>4. ASSUME Reading(recs[k]), NEW j \in Ifaces, recs[k].out[1][j] # Absent
          PROVE  net'[Root][j] <= recs[k].out[1][j] + (passed'[Root][j] - truth[k][Root][j])
      <3> DEFINE o == recs[k].out[1][j]
                 p == passed[Root][j]
                 q == passed'[Root][j]
                 t == truth[k][Root][j]
                 a == net[Root][j]
                 b == net'[Root][j]
      <3>1. o \in NetVals
        BY <2>1, <2>4 DEF DevOuts
      <3>2. o \in Nat
        BY <1>6, <2>4, <3>1
      <3>3. a <= o + (p - t) /\ t <= q
        BY <2>1, <2>3, <2>4
      <3>4. p \in Nat /\ q \in Nat /\ t \in Nat /\ a \in Int /\ b \in Int /\ (b <= 0 \/ b - a = q - p)
        BY <1>5, <1>6, <1>7, <2>2
      <3> HIDE DEF o, p, q, t, a, b
      <3>5. b <= o + (q - t)
        BY <3>2, <3>3, <3>4
      <3> QED BY <3>5 DEF o, p, q, t, a, b
    <2> QED BY <2>1, <2>3, <2>4
  <1> QED BY <1>9, <1>10 DEF CaptureInv

LEMMA NextCapture ==
  ASSUME RootOnly, CaptureInv, [Next]_vars
  PROVE  CaptureInv'
  <1>1. CASE Collect
    BY <1>1, CollectAdds, CollectCapture
  <1>2. CASE UNCHANGED vars
    BY <1>2 DEF vars, captureVars, hostVars, CaptureInv, TypeInv, SourceInv, RecordInv, PairInv, Reading
  <1> QED BY <1>1, <1>2, BeginCapture, EndCapture, RestartCapture, HostCapture DEF Next, CaptureNext

\* Times grow along the CBOR file, across restarts, and no counter has moved by
\* more than the packets there were: the inductive invariant of the capture.
THEOREM CaptureHolds ==
  ASSUME RootOnly
  PROVE  Spec => []CaptureInv
  <1>1. Init => CaptureInv
    BY InitCapture
  <1>2. CaptureInv /\ [Next]_vars => CaptureInv'
    BY NextCapture
  <1> QED BY <1>1, <1>2, PTL DEF Spec

-----------------------------------------------------------------------------
(* The snapshots of the CBOR file.                                         *)

NumSet  == [at : Nat \ {0}, rec : RecSet]
SnapSet == [at : Nat \ {0}, time : Times, out : Outs]
SnapSeq == Seq(SnapSet)

\* The snapshots of cmd in numbered records.
SnapsOf(cmd, q) == FoldLeft(LAMBDA snaps, x : AddSnapshot(snaps, x, cmd), <<>>, q)

LEMMA AddSnapshotType ==
  ASSUME NEW cmd, NEW v \in SnapSeq, NEW x \in NumSet
  PROVE  AddSnapshot(v, x, cmd) \in SnapSeq
  <1>1. [at |-> x.at, time |-> x.rec.time, out |-> x.rec.out] \in SnapSet
    BY DEF NumSet, RecSet, SnapSet
  <1> QED BY <1>1, AppendProperties DEF SnapSeq, AddSnapshot

LEMMA SnapsSteps ==
  ASSUME NEW cmd
  PROVE  /\ SnapsOf(cmd, <<>>) = <<>>
         /\ \A q \in Seq(NumSet) : SnapsOf(cmd, q) \in SnapSeq
         /\ \A q \in Seq(NumSet), x \in NumSet : SnapsOf(cmd, Append(q, x)) = AddSnapshot(SnapsOf(cmd, q), x, cmd)
  <1> DEFINE H == [p \in NumSet \X SnapSeq |-> AddSnapshot(p[2], p[1], cmd)]
  <1>1. Foldable(NumSet, SnapSeq, <<>>, H)
    <2>1. <<>> \in SnapSeq
      BY EmptySeq DEF SnapSeq
    <2>2. H \in [NumSet \X SnapSeq -> SnapSeq]
      BY AddSnapshotType
    <2> HIDE DEF H
    <2> QED BY <2>1, <2>2 DEF Foldable
  <1>2. \A x \in NumSet, v \in SnapSeq : H[<<x, v>>] = AddSnapshot(v, x, cmd)
    OBVIOUS
  <1> HIDE DEF H
  <1>3. ASSUME NEW q \in Seq(NumSet)
        PROVE  SnapsOf(cmd, q) = Fold(H, <<>>, q)
    <2> DEFINE Body(g) == [s \in SUBSET DOMAIN q |-> IF s = {} THEN <<>> ELSE AddSnapshot(g[s \ {Max(s)}], q[Max(s)], cmd)]
               iter == CHOOSE g : g = Body(g)
    <2>1. SnapsOf(cmd, q) = iter[DOMAIN q]
      BY DEF SnapsOf, FoldLeft, MapThenFoldSet
    <2>2. \E g : g = Body(g)
      <3>1. PICK g : FoldsByIndex(g, q, NumSet, SnapSeq, <<>>, H)
        BY <1>1, FoldByIndex
      <3>2. g = [s \in SUBSET DOMAIN q |-> g[s]] /\ g[{}] = <<>>
        BY <3>1 DEF FoldsByIndex
      <3>3. \A s \in SUBSET DOMAIN q : s # {} => g[s] = AddSnapshot(g[s \ {Max(s)}], q[Max(s)], cmd)
        BY <1>2, <3>1 DEF FoldsByIndex
      <3> QED BY <3>2, <3>3
    <2>3. iter = Body(iter)
      BY <2>2
    <2>4. iter[{}] = <<>>
      BY <2>3
    <2>5. ASSUME NEW s \in SUBSET DOMAIN q, s # {}
          PROVE  q[Max(s)] \in NumSet /\ iter[s] = AddSnapshot(iter[s \ {Max(s)}], q[Max(s)], cmd)
      <3>1. Max(s) \in DOMAIN q
        BY <2>5, MaxOfFinite, LenProperties
      <3>2. q[Max(s)] \in NumSet
        BY <3>1
      <3> QED BY <2>3, <2>5, <3>2
    <2> HIDE DEF iter
    <2>6. ByIndex(iter, q, <<>>, SnapSeq, H)
      BY <1>2, <2>4, <2>5 DEF ByIndex
    <2> QED BY <1>1, <2>1, <2>6, FoldByIndex
  <1>4. <<>> \in Seq(NumSet)
    BY EmptySeq
  <1>5. SnapsOf(cmd, <<>>) = <<>>
    <2>1. PICK e \in Seq(NumSet) : e = <<>>
      BY <1>4
    <2>2. Fold(H, <<>>, <<>>) = <<>>
      BY <1>1, FoldSteps
    <2>3. SnapsOf(cmd, e) = Fold(H, <<>>, e)
      BY <1>3
    <2> QED BY <2>1, <2>2, <2>3
  <1>6. \A q \in Seq(NumSet) : SnapsOf(cmd, q) \in SnapSeq
    BY <1>1, <1>3, FoldSteps
  <1>7. ASSUME NEW q \in Seq(NumSet), NEW x \in NumSet
        PROVE  SnapsOf(cmd, Append(q, x)) = AddSnapshot(SnapsOf(cmd, q), x, cmd)
    <2> DEFINE a == Append(q, x)
    <2>1. a \in Seq(NumSet)
      BY AppendProperties
    <2>2. Fold(H, <<>>, a) = H[<<x, Fold(H, <<>>, q)>>]
      BY <1>1, FoldSteps
    <2> HIDE DEF a
    <2>3. SnapsOf(cmd, a) = Fold(H, <<>>, a) /\ SnapsOf(cmd, q) = Fold(H, <<>>, q)
      BY <1>3, <2>1
    <2> QED BY <1>2, <1>6, <2>2, <2>3 DEF a
  <1> QED BY <1>5, <1>6, <1>7

LEMMA NumberedIs ==
  ASSUME NEW q \in Seq(RecSet)
  PROVE  /\ Numbered(q) \in Seq(NumSet)
         /\ \A r \in RecSet : Numbered(Append(q, r)) = Append(Numbered(q), [at |-> Len(q) + 1, rec |-> r])
  <1> DEFINE n == Len(q)
             c == Numbered(q)
  <1>1. n \in Nat /\ DOMAIN q = 1 .. n
    BY LenProperties
  <1>2. \A k \in 1 .. n : q[k] \in RecSet
    BY ElementOfSeq
  <1>3. c \in [1 .. n -> NumSet] /\ \A k \in 1 .. n : c[k] = [at |-> k, rec |-> q[k]]
    BY <1>1, <1>2 DEF Numbered, NumSet
  <1> HIDE DEF c, n
  <1>4. c \in Seq(NumSet) /\ Len(c) = n
    BY <1>1, <1>3, SeqDef, LenProperties
  <1>5. ASSUME NEW r \in RecSet
        PROVE  Numbered(Append(q, r)) = Append(c, [at |-> n + 1, rec |-> r])
    <2> DEFINE a == Append(q, r)
               x == [at |-> n + 1, rec |-> r]
               b == Append(c, x)
               m == Numbered(a)
    <2>1. a \in Seq(RecSet) /\ Len(a) = n + 1 /\ a[n + 1] = r /\ (\A k \in 1 .. n : a[k] = q[k]) /\ DOMAIN a = 1 .. n + 1
      BY AppendProperties, LenProperties DEF n
    <2>2. x \in NumSet
      BY <1>1 DEF NumSet
    <2>3. DOMAIN m = 1 .. n + 1 /\ \A k \in 1 .. n + 1 : m[k] = [at |-> k, rec |-> a[k]]
      BY <2>1 DEF Numbered
    <2>4. m = [k \in 1 .. n + 1 |-> m[k]]
      BY <2>1 DEF Numbered
    <2>5. \A k \in 1 .. n + 1 : a[k] \in RecSet
      BY <2>1, ElementOfSeq
    <2>6. \A k \in 1 .. n + 1 : m[k] \in NumSet
      BY <1>1, <2>3, <2>5 DEF NumSet
    <2> HIDE DEF m, a, x
    <2>7. m \in Seq(NumSet) /\ Len(m) = n + 1
      <3>1. m \in [1 .. n + 1 -> NumSet] /\ n + 1 \in Nat
        BY <1>1, <2>4, <2>6
      <3> QED BY <3>1, SeqDef, LenProperties
    <2>8. b \in Seq(NumSet) /\ Len(b) = n + 1 /\ b[n + 1] = x /\ \A k \in 1 .. n : b[k] = c[k]
      BY <1>4, <2>2, AppendProperties
    <2> HIDE DEF b
    <2>9. \A k \in 1 .. n + 1 : m[k] = b[k]
      <3> SUFFICES ASSUME NEW k \in 1 .. n + 1 PROVE m[k] = b[k]
        OBVIOUS
      <3>1. CASE k \in 1 .. n
        BY <1>3, <2>1, <2>3, <2>8, <3>1
      <3>2. CASE k = n + 1
        BY <1>1, <2>1, <2>3, <2>8, <3>2 DEF x
      <3> QED BY <1>1, <3>1, <3>2
    <2>10. m = b
      BY <2>7, <2>8, <2>9, SeqEqual
    <2> QED BY <2>10 DEF m, a, b, x
  <1> QED BY <1>4, <1>5 DEF c, n

LEMMA SnapshotsGrow ==
  ASSUME NEW cmd, NEW q \in Seq(RecSet), NEW r \in RecSet
  PROVE  /\ SnapsOf(cmd, Numbered(q)) \in SnapSeq
         /\ SnapsOf(cmd, Numbered(Append(q, r))) =
                AddSnapshot(SnapsOf(cmd, Numbered(q)), [at |-> Len(q) + 1, rec |-> r], cmd)
  <1> DEFINE c == Numbered(q)
             x == [at |-> Len(q) + 1, rec |-> r]
  <1>1. c \in Seq(NumSet) /\ Numbered(Append(q, r)) = Append(c, x)
    BY NumberedIs
  <1>2. x \in NumSet
    BY LenProperties DEF NumSet
  <1> HIDE DEF c, x
  <1>3. SnapsOf(cmd, Append(c, x)) = AddSnapshot(SnapsOf(cmd, c), x, cmd) /\ SnapsOf(cmd, c) \in SnapSeq
    BY <1>1, <1>2, SnapsSteps
  <1> QED BY <1>1, <1>3 DEF c, x

\* The snapshots of /proc/net/dev in the records q are readings of it, in the
\* order of the file.
SnapIs(x, q) ==
    /\ x.at \in 1 .. Len(q) /\ q[x.at].cmd = "dev"
    /\ x.time = q[x.at].time /\ x.out = q[x.at].out

SnapsAre(s, q) ==
    /\ s \in SnapSeq
    /\ \A k \in 1 .. Len(s) : SnapIs(s[k], q)
    /\ \A j, k \in 1 .. Len(s) : j < k => s[j].at < s[k].at

SnapInv == SnapsAre(SnapsOf("dev", Numbered(recs)), recs)

LEMMA InitSnaps ==
  ASSUME Init
  PROVE  SnapInv
  <1>1. recs = <<>>
    BY DEF Init, CaptureInit
  <1>2. Numbered(recs) = <<>>
    <2>1. recs \in Seq(RecSet) /\ Len(recs) = 0
      BY <1>1, EmptySeq
    <2>2. Numbered(recs) \in Seq(NumSet)
      BY <2>1, NumberedIs
    <2>3. DOMAIN Numbered(recs) = {}
      BY <2>1, LenProperties DEF Numbered
    <2> QED BY <2>2, <2>3, EmptySeq, LenProperties
  <1>3. SnapsOf("dev", Numbered(recs)) = <<>>
    BY <1>2, SnapsSteps
  <1>4. <<>> \in SnapSeq /\ Len(<<>>) = 0
    BY EmptySeq DEF SnapSeq
  <1>5. SnapsAre(<<>>, recs)
    BY <1>4 DEF SnapsAre
  <1> QED BY <1>3, <1>5 DEF SnapInv

LEMMA SnapsStay ==
  ASSUME NEW q \in Seq(RecSet), NEW r \in RecSet, SnapsAre(SnapsOf("dev", Numbered(q)), q)
  PROVE  SnapsAre(SnapsOf("dev", Numbered(Append(q, r))), Append(q, r))
  <1> DEFINE cmd == "dev"
             s == SnapsOf(cmd, Numbered(q))
             t == SnapsOf(cmd, Numbered(Append(q, r)))
             n == Len(q)
             a == Append(q, r)
             y == [at |-> n + 1, time |-> r.time, out |-> r.out]
  <1>1. n \in Nat
    BY LenProperties
  <1>3. Len(a) = n + 1 /\ a[n + 1] = r /\ \A k \in 1 .. n : a[k] = q[k]
    BY AppendProperties
  <1>4. /\ s \in SnapSeq
        /\ \A k \in 1 .. Len(s) : SnapIs(s[k], q)
        /\ \A j, k \in 1 .. Len(s) : j < k => s[j].at < s[k].at
    BY DEF SnapsAre
  <1>5. t = IF r.cmd = cmd THEN Append(s, y) ELSE s
    <2> DEFINE x == [at |-> n + 1, rec |-> r]
    <2>1. t = AddSnapshot(s, x, cmd)
      BY SnapshotsGrow
    <2>2. x.at = n + 1 /\ x.rec = r
      OBVIOUS
    <2> HIDE DEF x, t, s, cmd
    <2> QED BY <2>1, <2>2 DEF AddSnapshot
  <1>6. y \in SnapSet
    BY <1>1 DEF SnapSet, RecSet
  <1> HIDE DEF a
  <1>7. \A x : SnapIs(x, q) => SnapIs(x, a)
    BY <1>1, <1>3 DEF SnapIs
  <1>8. r.cmd = cmd => SnapIs(y, a)
    BY <1>1, <1>3 DEF SnapIs
  <1>9. y.at = n + 1
    OBVIOUS
  <1> HIDE DEF s, t, y, cmd
  <1>11. CASE r.cmd = cmd
    <2> DEFINE m == Len(s)
    <2>1. t = Append(s, y) /\ t \in SnapSeq
      BY <1>4, <1>5, <1>6, <1>11, AppendProperties DEF SnapSeq
    <2>2. m \in Nat /\ Len(t) = m + 1 /\ t[m + 1] = y /\ \A k \in 1 .. m : t[k] = s[k]
      BY <1>4, <1>6, <2>1, AppendProperties, LenProperties DEF SnapSeq
    <2>3. /\ \A k \in 1 .. m : SnapIs(s[k], q)
          /\ \A j, k \in 1 .. m : j < k => s[j].at < s[k].at
      BY <1>4
    <2> HIDE DEF m
    <2>4. \A k \in 1 .. m + 1 : k \in 1 .. m \/ k = m + 1
      BY <2>2
    <2>5. \A k \in 1 .. m + 1 : SnapIs(t[k], a)
      BY <1>7, <1>8, <1>11, <2>2, <2>3, <2>4
    <2>6. \A k \in 1 .. m : s[k].at \in 1 .. n
      BY <2>3 DEF SnapIs
    <2>7. ASSUME NEW j \in 1 .. m + 1, NEW k \in 1 .. m + 1, j < k
          PROVE  t[j].at < t[k].at
      <3>1. j \in 1 .. m /\ t[j] = s[j]
        BY <2>2, <2>7
      <3>2. CASE k \in 1 .. m
        BY <2>2, <2>3, <2>7, <3>1, <3>2
      <3>3. CASE k = m + 1
        <4>1. t[k].at = n + 1 /\ s[j].at \in 1 .. n
          BY <1>9, <2>2, <2>6, <3>1, <3>3
        <4> QED BY <1>1, <3>1, <4>1
      <3> QED BY <2>4, <3>2, <3>3
    <2>8. SnapsAre(t, a)
      BY <2>1, <2>2, <2>5, <2>7 DEF SnapsAre
    <2> QED BY <2>8 DEF t, a, cmd
  <1>12. CASE r.cmd # cmd
    <2>1. t = s
      BY <1>5, <1>12
    <2>2. SnapsAre(t, a)
      BY <1>4, <1>7, <2>1 DEF SnapsAre
    <2> QED BY <2>2 DEF t, a, cmd
  <1> QED BY <1>11, <1>12

LEMMA NextSnaps ==
  ASSUME RootOnly, CaptureInv, SnapInv, [Next]_vars
  PROVE  SnapInv'
  <1>1. CASE Collect
    <2>1. PICK src \in Srcs, v \in Outs : Collects(src, v)
      BY <1>1, CollectAdds
    <2>2. recs \in Seq(RecSet) /\ Added(src, v) \in RecSet /\ recs' = Append(recs, Added(src, v))
      BY <2>1 DEF Collects, CaptureInv, TypeInv
    <2> QED BY <2>2, SnapsStay DEF SnapInv
  <1>2. CASE UNCHANGED recs
    BY <1>2 DEF SnapInv
  <1>3. BeginSection \/ EndSection \/ Restart \/ HostStep \/ UNCHANGED vars => UNCHANGED recs
    BY DEF BeginSection, EndSection, Restart, HostStep, vars, captureVars
  <1> QED BY <1>1, <1>2, <1>3 DEF Next, CaptureNext

\* What the records of two snapshots of /proc/net/dev say of an interface that
\* both list.
LEMMA ReadingsCompare ==
  ASSUME CaptureInv, SnapInv, NEW j \in 1 .. Len(CBORSnapshots("dev")), NEW k \in 1 .. Len(CBORSnapshots("dev")), j < k
  PROVE  LET a == CBORSnapshots("dev")[j]
             b == CBORSnapshots("dev")[k]
         IN  /\ a.time < b.time /\ recs[a.at].ns = Root /\ recs[b.at].ns = Root
             /\ \A i \in Ifaces : /\ truth[a.at][Root][i] \in Nat /\ truth[b.at][Root][i] \in Nat
                                  /\ truth[a.at][Root][i] <= truth[b.at][Root][i]
             /\ \A i \in Listed(a.out) \cap Listed(b.out) :
                    /\ i \in Ifaces /\ a.out[1][i] \in Nat /\ b.out[1][i] \in Nat
                    /\ b.out[1][i] <= a.out[1][i] + (truth[b.at][Root][i] - truth[a.at][Root][i])
  <1> DEFINE s == CBORSnapshots("dev")
             a == s[j]
             b == s[k]
             n == Len(recs)
  <1>1. SnapsAre(s, recs)
    BY DEF SnapInv, CBORSnapshots, SnapsOf
  <1>2. SnapIs(a, recs) /\ SnapIs(b, recs) /\ a.at < b.at
    <2> HIDE DEF s
    <2> QED BY <1>1 DEF SnapsAre, s
  <1> HIDE DEF s, a, b
  <1>3. /\ a.at \in 1 .. n /\ b.at \in 1 .. n /\ recs[a.at].cmd = "dev" /\ recs[b.at].cmd = "dev"
        /\ a.time = recs[a.at].time /\ a.out = recs[a.at].out /\ b.time = recs[b.at].time /\ b.out = recs[b.at].out
    BY <1>2 DEF SnapIs
  <1>4. recs[a.at] \in RecSet /\ recs[b.at] \in RecSet
    BY <1>3, ElementOfSeq DEF CaptureInv, TypeInv
  <1>5. recs[a.at].ns = Root /\ recs[b.at].ns = Root
    BY <1>4 DEF RecSet
  <1>6. /\ recs[a.at].time < recs[b.at].time
        /\ \A i \in Ifaces : truth[a.at][Root][i] <= truth[b.at][Root][i]
        /\ Reading(recs[a.at]) /\ Reading(recs[b.at]) => \A i \in Ifaces :
              recs[a.at].out[1][i] # Absent =>
                  recs[b.at].out[1][i] <= recs[a.at].out[1][i] + (truth[b.at][Root][i] - truth[a.at][Root][i])
    BY <1>2, <1>3 DEF CaptureInv, PairInv
  <1>7. truth[a.at] \in Passed /\ truth[b.at] \in Passed
    BY <1>3, ElementOfSeq DEF CaptureInv, TypeInv
  <1>8. \A i \in Ifaces : truth[a.at][Root][i] \in Nat /\ truth[b.at][Root][i] \in Nat
    BY <1>7 DEF Passed
  <1>9. ASSUME NEW i \in Listed(a.out) \cap Listed(b.out)
        PROVE  /\ i \in Ifaces /\ a.out[1][i] \in Nat /\ b.out[1][i] \in Nat
               /\ b.out[1][i] <= a.out[1][i] + (truth[b.at][Root][i] - truth[a.at][Root][i])
    <2>1. i \in Ifaces /\ a.out # Nothing /\ b.out # Nothing /\ a.out[1][i] # Absent /\ b.out[1][i] # Absent
      BY DEF Listed
    <2>2. Reading(recs[a.at]) /\ Reading(recs[b.at])
      BY <1>3, <2>1 DEF Reading
    <2>3. recs[a.at].out \in DevOuts /\ recs[b.at].out \in DevOuts
      BY <1>3, <2>2 DEF CaptureInv, RecordInv
    <2>4. a.out[1][i] \in NetVals /\ b.out[1][i] \in NetVals
      BY <1>3, <2>1, <2>3 DEF DevOuts
    <2> QED BY <1>3, <1>6, <2>1, <2>2, <2>4 DEF NetVals
  <1>10. a.time < b.time
    BY <1>3, <1>6
  <1> QED BY <1>5, <1>6, <1>8, <1>9, <1>10 DEF a, b, s

\* Each point is made of a snapshot and the one before.
LEMMA PointsAre ==
  ASSUME NEW s, NEW p
  PROVE  p \in AllPoints(s) <=>
            \E k \in 2 .. Len(s) : \E i \in Listed(s[k - 1].out) \cap Listed(s[k].out) :
                /\ s[k].time > s[k - 1].time
                /\ p = [at |-> s[k].at, after |-> s[k - 1].at, iface |-> i,
                        delta |-> SafeU64Delta(s[k].out[1][i], s[k - 1].out[1][i])]
  BY DEF AllPoints, PointsOf

LEMMA RatesHold ==
  ASSUME CaptureInv, SnapInv
  PROVE  RatesAreReal
  <1> DEFINE s == CBORSnapshots("dev")
  <1> SUFFICES ASSUME NEW p \in NetDevSeries
               PROVE  p.delta <= truth[p.at][recs[p.at].ns][p.iface] - truth[p.after][recs[p.at].ns][p.iface]
    BY DEF RatesAreReal
  <1>1. p \in AllPoints(s)
    BY DEF NetDevSeries
  <1>2. Len(s) \in Nat
    BY LenProperties DEF SnapInv, SnapsAre, SnapSeq, CBORSnapshots, SnapsOf
  <1> HIDE DEF s
  <1>3. PICK k \in 2 .. Len(s) : \E i \in Listed(s[k - 1].out) \cap Listed(s[k].out) :
            p = [at |-> s[k].at, after |-> s[k - 1].at, iface |-> i,
                 delta |-> SafeU64Delta(s[k].out[1][i], s[k - 1].out[1][i])]
    BY <1>1, PointsAre
  <1> DEFINE j == k - 1
             a == s[j]
             b == s[k]
  <1>4. PICK i \in Listed(a.out) \cap Listed(b.out) :
            p = [at |-> b.at, after |-> a.at, iface |-> i, delta |-> SafeU64Delta(b.out[1][i], a.out[1][i])]
    BY <1>3
  <1>5. j \in 1 .. Len(s) /\ k \in 1 .. Len(s) /\ j < k
    BY <1>2
  <1> HIDE DEF j, a, b
  <1> DEFINE x == a.out[1][i]
             y == b.out[1][i]
             t == truth[a.at][Root][i]
             u == truth[b.at][Root][i]
  <1>6. recs[b.at].ns = Root /\ i \in Ifaces /\ x \in Nat /\ y \in Nat /\ y <= x + (u - t) /\ t \in Nat /\ u \in Nat /\ t <= u
    BY <1>4, <1>5, ReadingsCompare DEF s, a, b
  <1>7. /\ p.delta = SafeU64Delta(y, x) /\ truth[p.at][recs[p.at].ns][p.iface] = u
        /\ truth[p.after][recs[p.at].ns][p.iface] = t
    <2>1. p.at = b.at /\ p.after = a.at /\ p.iface = i /\ p.delta = SafeU64Delta(y, x)
      BY <1>4
    <2> QED BY <1>6, <2>1
  <1> HIDE DEF x, y, t, u
  <1>8. SafeU64Delta(y, x) <= u - t
    BY <1>6 DEF SafeU64Delta
  <1> QED BY <1>7, <1>8

LEMMA TrafficHolds ==
  ASSUME CaptureInv, SnapInv
  PROVE  TrafficCharted
  <1> DEFINE s == CBORSnapshots("dev")
             root == {k \in DOMAIN s : recs[s[k].at].ns = Root}
  <1>1. /\ Len(s) \in Nat /\ DOMAIN s = 1 .. Len(s)
        /\ \A k \in 1 .. Len(s) : SnapIs(s[k], recs)
    BY LenProperties DEF SnapInv, SnapsAre, SnapSeq, CBORSnapshots, SnapsOf
  <1>2. root = 1 .. Len(s)
    <2>1. ASSUME NEW k \in 1 .. Len(s) PROVE recs[s[k].at].ns = Root
      <3> HIDE DEF s
      <3>1. s[k].at \in 1 .. Len(recs)
        BY <1>1 DEF SnapIs
      <3>2. recs[s[k].at] \in RecSet
        BY <3>1, ElementOfSeq DEF CaptureInv, TypeInv
      <3> QED BY <3>2 DEF RecSet
    <2> HIDE DEF s
    <2> QED BY <1>1, <2>1
  <1>3. NetDevSeries = {p \in AllPoints(s) : p.iface \in WithTraffic(AllPoints(s))}
    BY DEF NetDevSeries
  <1> SUFFICES ASSUME NEW j \in root, NEW k \in root, j < k, \A m \in root : m <= j \/ k <= m,
                      NEW i \in Listed(s[j].out) \cap Listed(s[k].out), s[k].out[1][i] > s[j].out[1][i]
               PROVE  \E p \in NetDevSeries : /\ p.iface = i /\ p.at = s[k].at
                                              /\ p.delta = s[k].out[1][i] - s[j].out[1][i]
    BY DEF TrafficCharted
  <1> HIDE DEF s, root
  <1>4. j \in 1 .. Len(s) /\ k \in 1 .. Len(s) /\ j < k
    BY <1>2
  <1>5. j = k - 1 /\ k \in 2 .. Len(s)
    <2>1. j + 1 \in 1 .. Len(s)
      BY <1>1, <1>4
    <2>2. j + 1 <= j \/ k <= j + 1
      BY <1>2, <2>1
    <2> QED BY <1>4, <2>2
  <1> DEFINE x == s[j].out[1][i]
             y == s[k].out[1][i]
             p == [at |-> s[k].at, after |-> s[j].at, iface |-> i, delta |-> SafeU64Delta(y, x)]
  <1>6. s[j].time < s[k].time /\ x \in Nat /\ y \in Nat /\ s[j].time \in Nat /\ s[k].time \in Nat
    <2>1. s[j].time < s[k].time /\ x \in Nat /\ y \in Nat
      BY <1>4, ReadingsCompare DEF s
    <2>2. s \in Seq(SnapSet)
      BY DEF SnapInv, SnapsAre, SnapSeq, CBORSnapshots, SnapsOf, s
    <2>3. s[j] \in SnapSet /\ s[k] \in SnapSet
      BY <1>4, <2>2, ElementOfSeq
    <2> QED BY <2>1, <2>3 DEF SnapSet, Times
  <1>7. p \in AllPoints(s)
    <2>1. s[k].time > s[k - 1].time
      BY <1>5, <1>6
    <2> HIDE DEF p
    <2>2. p = [at |-> s[k].at, after |-> s[k - 1].at, iface |-> i, delta |-> SafeU64Delta(s[k].out[1][i], s[k - 1].out[1][i])]
      BY <1>5 DEF p
    <2>3. i \in Listed(s[k - 1].out) \cap Listed(s[k].out)
      BY <1>5
    <2> QED BY <1>5, <2>1, <2>2, <2>3, PointsAre
  <1>8. p.iface = i /\ p.at = s[k].at /\ p.delta = SafeU64Delta(y, x)
    OBVIOUS
  <1>9. y > x
    OBVIOUS
  <1> HIDE DEF x, y, p
  <1>10. SafeU64Delta(y, x) = y - x /\ y - x > 0
    BY <1>6, <1>9 DEF SafeU64Delta
  <1>11. i \in WithTraffic(AllPoints(s))
    BY <1>7, <1>8, <1>10 DEF WithTraffic
  <1>12. p \in NetDevSeries
    BY <1>3, <1>7, <1>8, <1>11
  <1> QED BY <1>8, <1>10, <1>12 DEF x, y

LEMMA ChartsHold ==
  ASSUME RootOnly
  PROVE  Spec => [](CaptureInv /\ SnapInv)
  <1>1. Init => CaptureInv /\ SnapInv
    BY InitCapture, InitSnaps
  <1>2. CaptureInv /\ SnapInv /\ [Next]_vars => (CaptureInv /\ SnapInv)'
    BY NextCapture, NextSnaps
  <1> QED BY <1>1, <1>2, PTL DEF Spec

\* A charted packet rate is never more than the packets that passed between
\* the two readings, whatever became of the interface between them and across
\* restarts of the collector (safeU64Delta, net_dev.go).
THEOREM RatesAreOfPackets ==
  ASSUME RootOnly
  PROVE  Spec => []RatesAreReal
  <1>1. CaptureInv /\ SnapInv => RatesAreReal
    BY RatesHold
  <1> QED BY <1>1, ChartsHold, PTL

\* Without other namespaces, packets that an interface counted between two
\* readings in a row are charted (processNetDevSnapshots, net_dev.go).
THEOREM TrafficIsCharted ==
  ASSUME RootOnly
  PROVE  Spec => []TrafficCharted
  <1>1. CaptureInv /\ SnapInv => TrafficCharted
    BY TrafficHolds
  <1> QED BY <1>1, ChartsHold, PTL

-----------------------------------------------------------------------------
(* The snapshots of the text file.                                         *)

Taken(time, out) == [time |-> time, out |-> out]

TakenSet == [time : Nat, out : Outs]
TakenSeq == Seq(TakenSet)

ScanStates == [snaps : TakenSeq, time : Nat, inSection : BOOLEAN, active : BOOLEAN, out : Outs]

\* What the reader has after it puts aside the output it keeps.
Put(st) == IF st.active THEN Append(st.snaps, Taken(st.time, st.out)) ELSE st.snaps

Scan(snaps, time, inSection, active, out) ==
    [snaps |-> snaps, time |-> time, inSection |-> inSection, active |-> active, out |-> out]

\* The reader for a command of that name.
ScanOf(name, q) == FoldLeft(LAMBDA st, l : ScanLine(st, l, name), Scanning0, q)

LEMMA LinesAre ==
  ASSUME NEW l \in LineSet
  PROVE  /\ l.kind \in {"begin", "end", "marker", "out"}
         /\ l.kind \in {"begin", "end"} => l.sec \in {"A", "B"} /\ l.id \in Ids /\ l.time \in Times
         /\ l.kind = "marker" => l.src \in Srcs
         /\ l.kind = "out" => l.value \in Outs
  <1>1. CASE l \in [kind : {"begin", "end"}, sec : {"A", "B"}, id : Ids, time : Times]
    BY <1>1
  <1>2. CASE l \in [kind : {"marker"}, src : Srcs]
    BY <1>2
  <1>3. CASE l \in [kind : {"out"}, value : Outs]
    BY <1>3
  <1> QED BY <1>1, <1>2, <1>3 DEF LineSet

LEMMA PutType ==
  ASSUME NEW st \in ScanStates
  PROVE  Put(st) \in TakenSeq
  <1>1. Taken(st.time, st.out) \in TakenSet /\ st.snaps \in TakenSeq
    BY DEF ScanStates, Taken, TakenSet
  <1> QED BY <1>1, AppendProperties DEF Put, TakenSeq

LEMMA ScanLineIs ==
  ASSUME NEW st \in ScanStates, NEW l \in LineSet, NEW name
  PROVE  /\ l.kind = "begin" => ScanLine(st, l, name) = Scan(Put(st), l.time, TRUE, FALSE, Nothing)
         /\ l.kind = "end" => ScanLine(st, l, name) = Scan(Put(st), st.time, FALSE, FALSE, Nothing)
         /\ l.kind = "marker" => ScanLine(st, l, name) =
                IF st.inSection THEN Scan(Put(st), st.time, st.inSection, TextName(l.src) = name, Nothing) ELSE st
         /\ l.kind = "out" => ScanLine(st, l, name) =
                IF st.active THEN Scan(st.snaps, st.time, st.inSection, st.active, l.value) ELSE st
  <1> DEFINE a == st.snaps
             u == st.time
             b == st.inSection
             c == st.active
             d == st.out
             e == Put(st)
             no == FALSE
             yes == TRUE
             w == (TextName(l.src) = name)
             t == l.time
  <1>1. st = Scan(a, u, b, c, d)
    BY DEF ScanStates, Scan
  <1>2. Snapped(st) = [st EXCEPT !.snaps = e, !.active = no, !.out = Nothing]
    BY DEF Snapped, Put, Taken
  <1> HIDE DEF a, u, b, c, d, e, no, yes, w, t
  <1>3. Snapped(st) = Scan(e, u, b, no, Nothing)
    BY <1>1, <1>2 DEF Scan
  <1>4. [Snapped(st) EXCEPT !.time = t, !.inSection = yes] = Scan(e, t, yes, no, Nothing)
    <2> DEFINE y == Snapped(st)
    <2>1. y = [snaps |-> e, time |-> u, inSection |-> b, active |-> no, out |-> Nothing]
      BY <1>3 DEF Scan
    <2> HIDE DEF y
    <2> DEFINE z == [y EXCEPT !.time = t]
    <2>2. z = [snaps |-> e, time |-> t, inSection |-> b, active |-> no, out |-> Nothing]
      BY <2>1
    <2>3. [y EXCEPT !.time = t, !.inSection = yes] = [z EXCEPT !.inSection = yes]
      BY Zenon
    <2> HIDE DEF z
    <2>4. [z EXCEPT !.inSection = yes] = [snaps |-> e, time |-> t, inSection |-> yes, active |-> no, out |-> Nothing]
      BY <2>2
    <2>5. [y EXCEPT !.time = t, !.inSection = yes] = Scan(e, t, yes, no, Nothing)
      BY <2>3, <2>4 DEF Scan
    <2> QED BY <2>5, Zenon DEF y
  <1>10. [Snapped(st) EXCEPT !.inSection = no] = Scan(e, u, no, no, Nothing)
    BY <1>3 DEF Scan
  <1>11. [Snapped(st) EXCEPT !.active = w] = Scan(e, u, b, w, Nothing)
    BY <1>3 DEF Scan
  <1>5. [st EXCEPT !.out = l.value] = Scan(a, u, b, c, l.value)
    BY <1>1 DEF Scan
  <1>6. l.kind = "begin" => ScanLine(st, l, name) = Scan(e, t, yes, no, Nothing)
    BY <1>4 DEF ScanLine, yes, t
  <1>7. l.kind = "end" => ScanLine(st, l, name) = Scan(e, u, no, no, Nothing)
    BY <1>10 DEF ScanLine, no
  <1>8. l.kind = "marker" => ScanLine(st, l, name) = IF b THEN Scan(e, u, b, w, Nothing) ELSE st
    BY <1>11 DEF ScanLine, w, b
  <1>9. l.kind = "out" => ScanLine(st, l, name) = IF c THEN Scan(a, u, b, c, l.value) ELSE st
    BY <1>5 DEF ScanLine, c
  <1> QED BY <1>6, <1>7, <1>8, <1>9 DEF a, u, b, c, e, no, yes, w, t

LEMMA ScanType ==
  ASSUME NEW st \in ScanStates, NEW l \in LineSet, NEW name
  PROVE  ScanLine(st, l, name) \in ScanStates
  <1>1. /\ Put(st) \in TakenSeq /\ st.snaps \in TakenSeq /\ Nothing \in Outs /\ st.time \in Nat
        /\ st.inSection \in BOOLEAN /\ st.active \in BOOLEAN
    BY PutType DEF ScanStates, Outs
  <1> DEFINE no == FALSE
             yes == TRUE
             w == (TextName(l.src) = name)
  <1>2. \A snaps \in TakenSeq, u \in Nat, b, c \in BOOLEAN, o \in Outs : Scan(snaps, u, b, c, o) \in ScanStates
    BY DEF Scan, ScanStates
  <1>8. no \in BOOLEAN /\ yes \in BOOLEAN /\ w \in BOOLEAN
    OBVIOUS
  <1>9. /\ l.kind = "begin" => ScanLine(st, l, name) = Scan(Put(st), l.time, yes, no, Nothing)
        /\ l.kind = "end" => ScanLine(st, l, name) = Scan(Put(st), st.time, no, no, Nothing)
        /\ l.kind = "marker" =>
              ScanLine(st, l, name) = IF st.inSection THEN Scan(Put(st), st.time, st.inSection, w, Nothing) ELSE st
    BY ScanLineIs
  <1> HIDE DEF no, yes, w
  <1>4. CASE l.kind = "begin"
    <2>1. l.time \in Nat
      BY <1>4, LinesAre DEF Times
    <2> QED BY <1>1, <1>2, <1>4, <1>8, <1>9, <2>1
  <1>5. CASE l.kind = "end"
    BY <1>1, <1>2, <1>5, <1>8, <1>9
  <1>6. CASE l.kind = "marker"
    <2> DEFINE x == Scan(Put(st), st.time, st.inSection, w, Nothing)
    <2>1. x \in ScanStates
      BY <1>1, <1>2, <1>8
    <2>2. ScanLine(st, l, name) = IF st.inSection THEN x ELSE st
      BY <1>6, <1>9
    <2> HIDE DEF x
    <2>3. ScanLine(st, l, name) = x \/ ScanLine(st, l, name) = st
      BY <2>2, Zenon
    <2> QED BY <2>1, <2>3
  <1>7. CASE l.kind = "out"
    <2> DEFINE x == Scan(st.snaps, st.time, st.inSection, st.active, l.value)
    <2>1. l.value \in Outs
      BY <1>7, LinesAre
    <2>2. x \in ScanStates
      BY <1>1, <1>2, <2>1
    <2>3. ScanLine(st, l, name) = IF st.active THEN x ELSE st
      BY <1>7, ScanLineIs
    <2> HIDE DEF x
    <2>4. ScanLine(st, l, name) = x \/ ScanLine(st, l, name) = st
      BY <2>3, Zenon
    <2> QED BY <2>2, <2>4
  <1> QED BY <1>4, <1>5, <1>6, <1>7, LinesAre

LEMMA ScanSteps ==
  ASSUME NEW name
  PROVE  /\ ScanOf(name, <<>>) = Scanning0
         /\ \A q \in Seq(LineSet) : ScanOf(name, q) \in ScanStates
         /\ \A q \in Seq(LineSet), x \in LineSet : ScanOf(name, Append(q, x)) = ScanLine(ScanOf(name, q), x, name)
  <1> DEFINE H == [p \in LineSet \X ScanStates |-> ScanLine(p[2], p[1], name)]
  <1>1. Foldable(LineSet, ScanStates, Scanning0, H)
    <2>1. Scanning0 \in ScanStates
      BY EmptySeq DEF ScanStates, Scanning0, TakenSeq, Outs
    <2>2. H \in [LineSet \X ScanStates -> ScanStates]
      BY ScanType
    <2> HIDE DEF H
    <2> QED BY <2>1, <2>2 DEF Foldable
  <1>2. \A x \in LineSet, v \in ScanStates : H[<<x, v>>] = ScanLine(v, x, name)
    OBVIOUS
  <1> HIDE DEF H
  <1>3. ASSUME NEW q \in Seq(LineSet)
        PROVE  ScanOf(name, q) = Fold(H, Scanning0, q)
    <2> DEFINE Body(g) == [s \in SUBSET DOMAIN q |-> IF s = {} THEN Scanning0 ELSE ScanLine(g[s \ {Max(s)}], q[Max(s)], name)]
               iter == CHOOSE g : g = Body(g)
    <2>1. ScanOf(name, q) = iter[DOMAIN q]
      BY DEF ScanOf, FoldLeft, MapThenFoldSet
    <2>2. \E g : g = Body(g)
      <3>1. PICK g : FoldsByIndex(g, q, LineSet, ScanStates, Scanning0, H)
        BY <1>1, FoldByIndex
      <3>2. g = [s \in SUBSET DOMAIN q |-> g[s]] /\ g[{}] = Scanning0
        BY <3>1 DEF FoldsByIndex
      <3>3. \A s \in SUBSET DOMAIN q : s # {} => g[s] = ScanLine(g[s \ {Max(s)}], q[Max(s)], name)
        BY <1>2, <3>1 DEF FoldsByIndex
      <3> QED BY <3>2, <3>3
    <2>3. iter = Body(iter)
      BY <2>2
    <2>4. iter[{}] = Scanning0
      BY <2>3
    <2>5. ASSUME NEW s \in SUBSET DOMAIN q, s # {}
          PROVE  q[Max(s)] \in LineSet /\ iter[s] = ScanLine(iter[s \ {Max(s)}], q[Max(s)], name)
      <3>1. Max(s) \in DOMAIN q
        BY <2>5, MaxOfFinite, LenProperties
      <3>2. q[Max(s)] \in LineSet
        BY <3>1
      <3> QED BY <2>3, <2>5, <3>2
    <2> HIDE DEF iter
    <2>6. ByIndex(iter, q, Scanning0, ScanStates, H)
      BY <1>2, <2>4, <2>5 DEF ByIndex
    <2> QED BY <1>1, <2>1, <2>6, FoldByIndex
  <1>4. <<>> \in Seq(LineSet)
    BY EmptySeq
  <1>5. ScanOf(name, <<>>) = Scanning0
    <2>1. PICK e \in Seq(LineSet) : e = <<>>
      BY <1>4
    <2>2. Fold(H, Scanning0, <<>>) = Scanning0
      BY <1>1, FoldSteps
    <2>3. ScanOf(name, e) = Fold(H, Scanning0, e)
      BY <1>3
    <2> QED BY <2>1, <2>2, <2>3
  <1>6. \A q \in Seq(LineSet) : ScanOf(name, q) \in ScanStates
    BY <1>1, <1>3, FoldSteps
  <1>7. ASSUME NEW q \in Seq(LineSet), NEW x \in LineSet
        PROVE  ScanOf(name, Append(q, x)) = ScanLine(ScanOf(name, q), x, name)
    <2> DEFINE a == Append(q, x)
    <2>1. a \in Seq(LineSet)
      BY AppendProperties
    <2>2. Fold(H, Scanning0, a) = H[<<x, Fold(H, Scanning0, q)>>]
      BY <1>1, FoldSteps
    <2> HIDE DEF a
    <2>3. ScanOf(name, a) = Fold(H, Scanning0, a) /\ ScanOf(name, q) = Fold(H, Scanning0, q)
      BY <1>3, <2>1
    <2> QED BY <1>2, <1>6, <2>2, <2>3 DEF a
  <1> QED BY <1>5, <1>6, <1>7

\* How far the reader of the text file is, when it has or keeps the snapshots c.
Follower(st, c, inSection) ==
    /\ st.inSection = inSection /\ (st.active => inSection)
    /\ IF st.active THEN c = Append(st.snaps, Taken(st.time, st.out)) ELSE c = st.snaps /\ st.out = Nothing

Charted == Commands \ {"lscpu"}

\* The snapshots c of the text file have the outputs of the snapshots s of the
\* CBOR file, and a time before theirs that is after the one before.
Interleaved(c, s) ==
    /\ Len(c) = Len(s)
    /\ \A k \in 1 .. Len(s) :
          /\ c[k].out = s[k].out
          /\ c[k].time < s[k].time
          /\ k > 1 => s[k - 1].time < c[k].time

Earlier(s, t) == \A k \in 1 .. Len(s) : s[k].time < t

\* At time t, in a section that began at u or between two, with a command that
\* is still due in it or not.
InTime(c, s, u, t, inSection, due) ==
    /\ Interleaved(c, s) /\ Earlier(s, t)
    /\ inSection => u < t
    /\ inSection /\ due => Earlier(s, u)

IsDue(cmd, q) == \E i \in 1 .. Len(q) : q[i].cmd = cmd

SnapsNow(cmd) == SnapsOf(cmd, Numbered(recs))

ScanAt(cmd, q, s, t, inSection, due) ==
    LET st == ScanOf(<<cmd>>, q)
    IN  Follower(st, Put(st), inSection) /\ InTime(Put(st), s, st.time, t, inSection, due)

ScanInv ==
    run = 1 => \A cmd \in Charted :
        ScanAt(cmd, lines, SnapsNow(cmd), clock, section \in {"A", "B"}, IsDue(cmd, todo))

\* No section runs a command twice.
OnceInv == \A i, j \in 1 .. Len(todo) : i # j => todo[i].cmd # todo[j].cmd

LEMMA FollowerPuts ==
  ASSUME NEW st \in ScanStates, NEW c, NEW b \in BOOLEAN, Follower(st, c, b)
  PROVE  Put(st) = c
  BY Zenon DEF Follower, Put

LEMMA FollowerStops ==
  ASSUME NEW c, NEW u, NEW b \in BOOLEAN
  PROVE  Follower(Scan(c, u, b, FALSE, Nothing), c, b)
  <1> DEFINE no == FALSE
             st == Scan(c, u, b, no, Nothing)
  <1> HIDE DEF no
  <1>1. st.snaps = c /\ st.inSection = b /\ st.active = no /\ st.out = Nothing
    BY DEF Scan
  <1> HIDE DEF st
  <1>2. Follower(st, c, b)
    BY <1>1, Zenon DEF Follower, no
  <1> QED BY <1>2 DEF st, no

LEMMA FollowerKeeps ==
  ASSUME NEW c, NEW u, NEW v
  PROVE  Follower(Scan(c, u, TRUE, TRUE, v), Append(c, Taken(u, v)), TRUE)
  <1> DEFINE yes == TRUE
             st == Scan(c, u, yes, yes, v)
  <1> HIDE DEF yes
  <1>1. st.snaps = c /\ st.time = u /\ st.inSection = yes /\ st.active = yes /\ st.out = v
    BY DEF Scan
  <1> HIDE DEF st
  <1>2. Follower(st, Append(c, Taken(u, v)), yes)
    BY <1>1, Zenon DEF Follower, yes
  <1> QED BY <1>2 DEF st, yes

LEMMA TimeGrows ==
  ASSUME NEW c \in TakenSeq, NEW s \in SnapSeq, NEW u \in Nat, NEW t \in Nat, InTime(c, s, u, t, TRUE, TRUE),
         NEW y \in SnapSet, y.time = t
  PROVE  InTime(Append(c, Taken(u, y.out)), Append(s, y), u, t + 1, TRUE, FALSE)
  <1> DEFINE x == Taken(u, y.out)
             n == Len(s)
             d == Append(c, x)
             p == Append(s, y)
  <1>1. x \in TakenSet /\ x.time = u /\ x.out = y.out
    BY DEF Taken, TakenSet, SnapSet
  <1> HIDE DEF x
  <1>2. n \in Nat /\ Len(c) = n
    BY LenProperties DEF SnapSeq, InTime, Interleaved
  <1>3. Len(d) = n + 1 /\ d[n + 1] = x /\ \A k \in 1 .. n : d[k] = c[k]
    BY <1>1, <1>2, AppendProperties DEF TakenSeq
  <1>4. Len(p) = n + 1 /\ p[n + 1] = y /\ \A k \in 1 .. n : p[k] = s[k]
    BY <1>2, AppendProperties DEF SnapSeq
  <1>5. u < t /\ \A k \in 1 .. n : s[k].time < u /\ s[k].time < t /\ s[k].time \in Nat
    <2>1. \A k \in 1 .. n : s[k] \in SnapSet
      BY <1>2, ElementOfSeq DEF SnapSeq
    <2> QED BY <2>1 DEF InTime, Earlier, SnapSet, Times
  <1>6. \A k \in 1 .. n : /\ c[k].out = s[k].out /\ c[k].time < s[k].time
                          /\ k > 1 => s[k - 1].time < c[k].time
    BY DEF InTime, Interleaved
  <1> HIDE DEF n, d, p
  <1>7. \A k \in 1 .. n + 1 : k = n + 1 \/ (k \in 1 .. n /\ k # n + 1)
    BY <1>2
  <1>8. ASSUME NEW k \in 1 .. n + 1
        PROVE  /\ d[k].out = p[k].out /\ d[k].time < p[k].time
               /\ k > 1 => p[k - 1].time < d[k].time
               /\ p[k].time < t + 1
    <2>1. CASE k \in 1 .. n
      <3>1. d[k] = c[k] /\ p[k] = s[k] /\ (k > 1 => p[k - 1] = s[k - 1])
        BY <1>2, <1>3, <1>4, <2>1
      <3>2. p[k].time < t /\ p[k].time \in Nat
        BY <1>5, <2>1, <3>1
      <3> QED BY <1>6, <2>1, <3>1, <3>2
    <2>2. CASE k = n + 1
      <3>1. d[k] = x /\ p[k] = y
        BY <1>3, <1>4, <2>2
      <3>2. k > 1 => p[k - 1].time < u
        <4>1. k > 1 => k - 1 \in 1 .. n
          BY <1>2, <2>2
        <4> QED BY <1>4, <1>5, <4>1
      <3> QED BY <1>1, <1>5, <3>1, <3>2
    <2> QED BY <1>7, <2>1, <2>2
  <1>9. Interleaved(d, p)
    BY <1>3, <1>4, <1>8 DEF Interleaved
  <1>10. Earlier(p, t + 1)
    BY <1>4, <1>8 DEF Earlier
  <1>11. u < t + 1
    BY <1>5
  <1> QED BY <1>9, <1>10, <1>11 DEF InTime, d, p, x

LEMMA TimePasses ==
  ASSUME NEW c, NEW s \in SnapSeq, NEW u \in Nat, NEW t \in Nat, NEW b, NEW f, InTime(c, s, u, t, b, f)
  PROVE  /\ InTime(c, s, t, t + 1, TRUE, TRUE)
         /\ \A b2 \in BOOLEAN, f2 \in BOOLEAN : (b2 => b) /\ (f2 => f) => InTime(c, s, u, t + 1, b2, f2)
  <1>1. \A k \in 1 .. Len(s) : s[k].time \in Nat
    <2>1. \A k \in 1 .. Len(s) : s[k] \in SnapSet
      BY ElementOfSeq DEF SnapSeq
    <2> QED BY <2>1 DEF SnapSet, Times
  <1>2. Earlier(s, t + 1) /\ t < t + 1 /\ (u < t => u < t + 1)
    BY <1>1 DEF InTime, Earlier
  <1>3. Interleaved(c, s) /\ Earlier(s, t) /\ (b => u < t) /\ (b /\ f => Earlier(s, u))
    BY DEF InTime
  <1> QED BY <1>2, <1>3, Zenon DEF InTime

\* So time may pass with nothing done.
LEMMA TimeMore ==
  ASSUME NEW c, NEW s, NEW u, NEW t, NEW b, NEW f, InTime(c, s, u, t, b, f), NEW f2 \in BOOLEAN, f2 => f
  PROVE  InTime(c, s, u, t, b, f2)
  BY Zenon DEF InTime

\* What a command of the section adds.
LEMMA CollectFollows ==
  ASSUME CaptureInv, NEW src \in Srcs, NEW v \in Outs, NEW cmd, NEW c, NEW b \in BOOLEAN,
         Follower(ScanOf(<<cmd>>, lines), c, b)
  PROVE  LET u == ScanOf(<<cmd>>, lines).time
         IN  /\ Follower(ScanOf(<<cmd>>, lines \o Shown(src, v)),
                         IF b /\ src.cmd = cmd THEN Append(c, Taken(u, v)) ELSE c, b)
             /\ ScanOf(<<cmd>>, lines \o Shown(src, v)).time = u
  <1> DEFINE name == <<cmd>>
             st == ScanOf(name, lines)
             m == Marker(src)
             o == Out(v)
             st1 == ScanLine(st, m, name)
             st2 == ScanLine(st1, o, name)
             w == (TextName(src) = name)
             u == st.time
  <1>1. src.cmd = cmd <=> w
    <2>1. src.ns = Root
      BY DEF Srcs
    <2> QED BY <2>1 DEF TextName
  <1>2. m \in LineSet /\ o \in LineSet /\ lines \in Seq(LineSet) /\ Append(lines, m) \in Seq(LineSet)
    BY ShownLines, AppendProperties DEF CaptureInv, TypeInv
  <1>3. m.kind = "marker" /\ m.src = src /\ o.kind = "out" /\ o.value = v
    BY DEF Marker, Out
  <1>4. lines \o Shown(src, v) = IF v = Nothing THEN Append(lines, m) ELSE Append(Append(lines, m), o)
    BY ShownLines
  <1> HIDE DEF name, m, o
  <1>5. st \in ScanStates /\ ScanOf(name, Append(lines, m)) = st1 /\ ScanOf(name, Append(Append(lines, m), o)) = st2
    BY <1>2, ScanSteps
  <1>6. ScanOf(name, lines \o Shown(src, v)) = IF v = Nothing THEN st1 ELSE st2
    BY <1>4, <1>5
  <1>7. st1 \in ScanStates
    BY <1>2, <1>5, ScanType
  <1>8. Follower(st, c, b)
    BY DEF name
  <1> HIDE DEF st, w, u
  <1>u. u = st.time
    BY DEF u
  <1>9. st1 = IF st.inSection THEN Scan(Put(st), u, st.inSection, w, Nothing) ELSE st
    <2>1. st1 = IF st.inSection THEN Scan(Put(st), st.time, st.inSection, TextName(m.src) = name, Nothing) ELSE st
      BY <1>2, <1>3, <1>5, ScanLineIs
    <2> QED BY <1>3, <1>u, <2>1, Zenon DEF w
  <1> HIDE DEF st1
  <1>10. st2 = IF st1.active THEN Scan(st1.snaps, st1.time, st1.inSection, st1.active, v) ELSE st1
    BY <1>2, <1>3, <1>7, ScanLineIs
  <1>11. st.inSection = b /\ (st.active => b) /\ Put(st) = c
    BY <1>5, <1>8, FollowerPuts DEF Follower
  <1> HIDE DEF st2
  <1>12. CASE ~b
    <2>1. st1 = st
      BY <1>9, <1>11, <1>12, Zenon
    <2>2. st2 = st
      BY <1>10, <1>11, <1>12, <2>1, Zenon
    <2>3. ScanOf(name, lines \o Shown(src, v)) = st
      BY <1>6, <2>1, <2>2, Zenon
    <2> QED BY <1>8, <1>12, <1>u, <2>3, Zenon DEF name, st, u
  <1>13. CASE b /\ ~w
    <2>1. b = TRUE /\ w = FALSE
      BY <1>13, Zenon DEF w
    <2>2. st1 = Scan(c, u, b, FALSE, Nothing)
      BY <1>9, <1>11, <2>1, Zenon
    <2>3. Follower(st1, c, b)
      BY <2>2, FollowerStops
    <2>4. ~st1.active
      <3> DEFINE no == FALSE
      <3>1. st1 = Scan(c, u, b, no, Nothing)
        BY <2>2
      <3> HIDE DEF no
      <3>2. st1.active = no
        BY <3>1 DEF Scan
      <3> QED BY <3>2, Zenon DEF no
    <2>7. st1.time = u
      <3> DEFINE no == FALSE
      <3>1. st1 = Scan(c, u, b, no, Nothing)
        BY <2>2
      <3> HIDE DEF no
      <3> QED BY <3>1 DEF Scan
    <2>5. st2 = st1
      BY <1>10, <2>4, Zenon
    <2>6. ScanOf(name, lines \o Shown(src, v)) = st1
      BY <1>6, <2>5
    <2> QED BY <1>1, <1>13, <2>3, <2>6, <2>7, Zenon DEF name, st, u
  <1>14. CASE b /\ w
    <2>1. b = TRUE /\ w = TRUE
      BY <1>14, Zenon DEF w
    <2>2. st1 = Scan(c, u, TRUE, TRUE, Nothing)
      BY <1>9, <1>11, <2>1, Zenon
    <2>3. st1.active = TRUE /\ st1.snaps = c /\ st1.time = u /\ st1.inSection = TRUE
      <3> DEFINE yes == TRUE
      <3>1. st1 = Scan(c, u, yes, yes, Nothing)
        BY <2>2
      <3> HIDE DEF yes
      <3>2. st1.active = yes /\ st1.snaps = c /\ st1.time = u /\ st1.inSection = yes
        BY <3>1 DEF Scan
      <3> QED BY <3>2, Zenon DEF yes
    <2>4. st2 = Scan(c, u, TRUE, TRUE, v)
      BY <1>10, <2>3, Zenon
    <2>5. ScanOf(name, lines \o Shown(src, v)) = Scan(c, u, TRUE, TRUE, v)
      BY <1>6, <2>2, <2>4, Zenon
    <2>6. Follower(ScanOf(name, lines \o Shown(src, v)), Append(c, Taken(u, v)), TRUE)
      BY <2>5, FollowerKeeps
    <2>7. ScanOf(name, lines \o Shown(src, v)).time = u
      <3> DEFINE yes == TRUE
                 x == ScanOf(name, lines \o Shown(src, v))
      <3>1. x = Scan(c, u, yes, yes, v)
        BY <2>5
      <3> HIDE DEF yes, x
      <3>2. x.time = u
        BY <3>1 DEF Scan
      <3> QED BY <3>2 DEF x
    <2> QED BY <1>1, <1>14, <2>1, <2>6, <2>7, Zenon DEF name, st, u
  <1> QED BY <1>12, <1>13, <1>14

\* What the reader has when it is at a line, by its fields.
LEMMA ScanAtIs ==
  ASSUME NEW cmd, NEW q \in Seq(LineSet), NEW s, NEW t, NEW b \in BOOLEAN, NEW f, NEW c,
         Follower(ScanOf(<<cmd>>, q), c, b), InTime(c, s, ScanOf(<<cmd>>, q).time, t, b, f)
  PROVE  ScanAt(cmd, q, s, t, b, f)
  <1> DEFINE st == ScanOf(<<cmd>>, q)
  <1>1. st \in ScanStates
    BY ScanSteps
  <1> HIDE DEF st
  <1>2. Follower(st, c, b) /\ InTime(c, s, st.time, t, b, f)
    BY DEF st
  <1>3. Put(st) = c
    BY <1>1, <1>2, FollowerPuts
  <1>4. Follower(st, Put(st), b) /\ InTime(Put(st), s, st.time, t, b, f)
    BY <1>2, <1>3
  <1> QED BY <1>4, Zenon DEF ScanAt, st

LEMMA InitScan ==
  ASSUME RootOnly, Init
  PROVE  ScanInv /\ OnceInv
  <1>1. recs = <<>> /\ lines = <<>> /\ section = "init" /\ clock = 1 /\ todo = Sources("init")
    BY DEF Init, CaptureInit
  <1>2. ASSUME NEW cmd PROVE SnapsNow(cmd) = <<>>
    <2>1. recs \in Seq(RecSet) /\ Len(recs) = 0
      BY <1>1, EmptySeq
    <2>2. Numbered(recs) \in Seq(NumSet)
      BY <2>1, NumberedIs
    <2>3. DOMAIN Numbered(recs) = {}
      BY <2>1, LenProperties DEF Numbered
    <2>4. Numbered(recs) = <<>>
      BY <2>2, <2>3, EmptySeq, LenProperties
    <2> QED BY <2>4, SnapsSteps DEF SnapsNow
  <1>4. \A name : ScanOf(name, lines) = Scan(<<>>, 0, FALSE, FALSE, Nothing)
    BY <1>1, ScanSteps DEF Scanning0, Scan
  <1>5. (section \in {"A", "B"}) = FALSE
    BY <1>1
  <1>6. Follower(Scan(<<>>, 0, FALSE, FALSE, Nothing), <<>>, FALSE)
    BY FollowerStops
  <1>7. \A u, t, f : InTime(<<>>, <<>>, u, t, FALSE, f)
    <2>1. Len(<<>>) = 0
      OBVIOUS
    <2>2. Interleaved(<<>>, <<>>) /\ \A t : Earlier(<<>>, t)
      BY <2>1 DEF Interleaved, Earlier
    <2> QED BY <2>2, Zenon DEF InTime
  <1>8. ASSUME NEW cmd PROVE ScanAt(cmd, lines, SnapsNow(cmd), clock, FALSE, IsDue(cmd, todo))
    <2>1. lines \in Seq(LineSet) /\ FALSE \in BOOLEAN
      BY <1>1, EmptySeq
    <2>2. Follower(ScanOf(<<cmd>>, lines), <<>>, FALSE)
      BY <1>4, <1>6
    <2>3. InTime(<<>>, SnapsNow(cmd), ScanOf(<<cmd>>, lines).time, clock, FALSE, IsDue(cmd, todo))
      BY <1>2, <1>7
    <2> QED BY <2>1, <2>2, <2>3, ScanAtIs
  <1>9. ScanInv
    BY <1>5, <1>8 DEF ScanInv
  <1>10. OnceInv
    BY <1>1, SourcesAre DEF OnceInv, Sections
  <1> QED BY <1>9, <1>10

LEMMA NextOnce ==
  ASSUME RootOnly, CaptureInv, OnceInv, [Next]_vars
  PROVE  OnceInv'
  <1>1. CASE Collect
    <2>1. todo # <<>> /\ todo' = Tail(todo) /\ todo \in Seq(Srcs)
      BY <1>1 DEF Collect, CaptureInv, TypeInv
    <2>2. /\ Len(todo') = Len(todo) - 1 /\ Len(todo) \in Nat
          /\ \A i \in 1 .. Len(todo') : todo'[i] = todo[i + 1]
      BY <2>1, HeadTailProperties, LenProperties
    <2>3. \A i \in 1 .. Len(todo') : i + 1 \in 1 .. Len(todo)
      BY <2>2
    <2>4. \A i, j \in 1 .. Len(todo') : i # j => i + 1 # j + 1
      BY <2>2
    <2> QED BY <2>2, <2>3, <2>4 DEF OnceInv
  <1>2. CASE BeginSection \/ Restart
    <2>1. \E sec \in Sections : todo' = Sources(sec)
      BY <1>2 DEF BeginSection, Restart, CaptureInv, TypeInv, Sections
    <2> QED BY <2>1, SourcesAre DEF OnceInv
  <1>3. CASE UNCHANGED todo
    BY <1>3 DEF OnceInv
  <1>4. EndSection \/ HostStep \/ UNCHANGED vars => UNCHANGED todo
    BY DEF EndSection, HostStep, vars, captureVars
  <1> QED BY <1>1, <1>2, <1>3, <1>4 DEF Next, CaptureNext

LEMMA SnapsNowGrow ==
  ASSUME CaptureInv, NEW src \in Srcs, NEW v \in Outs, NEW cmd, Collects(src, v)
  PROVE  /\ SnapsNow(cmd) \in SnapSeq
         /\ \E y \in SnapSet :
               /\ y.time = clock /\ y.out = v
               /\ SnapsNow(cmd)' = IF src.cmd = cmd THEN Append(SnapsNow(cmd), y) ELSE SnapsNow(cmd)
  <1> DEFINE r == Added(src, v)
             s == SnapsOf(cmd, Numbered(recs))
             t == SnapsOf(cmd, Numbered(Append(recs, r)))
             x == [at |-> Len(recs) + 1, rec |-> r]
             y == [at |-> Len(recs) + 1, time |-> r.time, out |-> r.out]
  <1>1. recs \in Seq(RecSet) /\ r \in RecSet /\ recs' = Append(recs, r)
    BY DEF Collects, CaptureInv, TypeInv
  <1>2. r.cmd = src.cmd /\ r.out = v /\ r.time = clock
    BY DEF Added
  <1>3. SnapsNow(cmd) = s /\ SnapsNow(cmd)' = t
    BY <1>1 DEF SnapsNow
  <1> HIDE DEF r
  <1>4. s \in SnapSeq /\ t = AddSnapshot(s, x, cmd)
    BY <1>1, SnapshotsGrow
  <1>5. x.at = Len(recs) + 1 /\ x.rec = r
    OBVIOUS
  <1>6. y \in SnapSet /\ y.out = v /\ y.time = clock
    BY <1>1, <1>2, LenProperties DEF SnapSet, RecSet
  <1> HIDE DEF s, t, x
  <1>7. t = IF src.cmd = cmd THEN Append(s, y) ELSE s
    BY <1>2, <1>4, <1>5 DEF AddSnapshot
  <1> HIDE DEF y
  <1> QED BY <1>3, <1>4, <1>6, <1>7

\* SnapsNow has its type.
LEMMA SnapsNowType ==
  ASSUME CaptureInv, NEW cmd
  PROVE  SnapsNow(cmd) \in SnapSeq
  <1>1. recs \in Seq(RecSet)
    BY DEF CaptureInv, TypeInv
  <1> QED BY <1>1, NumberedIs, SnapsSteps DEF SnapsNow

LEMMA CollectScan ==
  ASSUME CaptureInv, OnceInv, NEW src \in Srcs, NEW v \in Outs, Collects(src, v), run = 1, NEW cmd \in Charted,
         ScanAt(cmd, lines, SnapsNow(cmd), clock, section \in {"A", "B"}, IsDue(cmd, todo))
  PROVE  ScanAt(cmd, lines', SnapsNow(cmd)', clock', section \in {"A", "B"}, IsDue(cmd, todo)')
  <1> DEFINE b  == section \in {"A", "B"}
             f  == IsDue(cmd, todo)
             f2 == IsDue(cmd, todo)'
             s  == SnapsNow(cmd)
             st == ScanOf(<<cmd>>, lines)
             c  == Put(st)
             u  == st.time
             q  == lines \o Shown(src, v)
  <1>1. PICK y \in SnapSet : /\ y.time = clock /\ y.out = v
                           /\ SnapsNow(cmd)' = IF src.cmd = cmd THEN Append(s, y) ELSE s
    BY SnapsNowGrow
  <1>2. lines' = q /\ clock' = clock + 1 /\ clock \in Nat /\ lines \in Seq(LineSet) /\ q \in Seq(LineSet)
    BY ShownLines DEF Collects, CaptureInv, TypeInv, Times
  <1>3. s \in SnapSeq /\ st \in ScanStates
    BY <1>2, SnapsNowType, ScanSteps
  <1>4. c \in TakenSeq /\ u \in Nat
    BY <1>3, PutType DEF ScanStates
  <1>5. Follower(st, c, b) /\ InTime(c, s, u, clock, b, f)
    BY Zenon DEF ScanAt
  <1>6. /\ todo # <<>> /\ todo \in Seq(Srcs) /\ src = todo[1] /\ section \in Sections
        /\ Len(todo') = Len(todo) - 1 /\ Len(todo) \in Nat
        /\ \A i \in 1 .. Len(todo') : todo'[i] = todo[i + 1]
    <2>1. todo # <<>> /\ src = Head(todo) /\ todo' = Tail(todo) /\ todo \in Seq(Srcs) /\ section \in Sections
      BY DEF Collects, CaptureInv, TypeInv
    <2> QED BY <2>1, HeadTailProperties, LenProperties
  <1>7. 1 \in 1 .. Len(todo) /\ \A i \in 1 .. Len(todo') : i + 1 \in 1 .. Len(todo) /\ i + 1 # 1
    BY <1>6, EmptySeq
  <1>8. src.cmd = cmd => f /\ ~f2
    BY <1>6, <1>7 DEF OnceInv, IsDue
  <1>9. f2 => f
    BY <1>6, <1>7 DEF IsDue
  <1>10. src.cmd = cmd => b
    BY <1>6, <1>7 DEF CaptureInv, SourceInv, Sections, Charted
  <1>11. b \in BOOLEAN /\ f \in BOOLEAN /\ f2 \in BOOLEAN
    BY DEF IsDue
  <1> HIDE DEF b, f, f2, s, st, c, u, q
  <1>12. /\ Follower(ScanOf(<<cmd>>, q), IF b /\ src.cmd = cmd THEN Append(c, Taken(u, v)) ELSE c, b)
         /\ ScanOf(<<cmd>>, q).time = u
    <2>1. Follower(ScanOf(<<cmd>>, lines), c, b)
      BY <1>5 DEF st
    <2> QED BY <1>11, <2>1, CollectFollows DEF q, st, u
  <1>13. CASE src.cmd = cmd
    <2>1. b = TRUE /\ f = TRUE /\ f2 = FALSE
      BY <1>8, <1>10, <1>11, <1>13
    <2>2. InTime(Append(c, Taken(u, v)), Append(s, y), u, clock + 1, TRUE, FALSE)
      <3>1. InTime(c, s, u, clock, TRUE, TRUE)
        BY <1>5, <2>1
      <3>2. InTime(Append(c, Taken(u, y.out)), Append(s, y), u, clock + 1, TRUE, FALSE)
        BY <1>1, <1>2, <1>3, <1>4, <3>1, TimeGrows
      <3> QED BY <1>1, <3>2
    <2>3. Follower(ScanOf(<<cmd>>, q), Append(c, Taken(u, v)), TRUE)
      BY <1>12, <1>13, <2>1
    <2>4. ScanAt(cmd, q, Append(s, y), clock + 1, TRUE, FALSE)
      BY <1>2, <1>12, <2>2, <2>3, ScanAtIs
    <2>5. SnapsNow(cmd)' = Append(s, y)
      BY <1>1, <1>13
    <2>6. ScanAt(cmd, lines', SnapsNow(cmd)', clock', b, f2)
      BY <1>2, <2>1, <2>4, <2>5
    <2> QED BY <2>6 DEF b, f2
  <1>14. CASE src.cmd # cmd
    <2>1. InTime(c, s, u, clock + 1, b, f2)
      BY <1>2, <1>3, <1>4, <1>5, <1>9, <1>11, TimePasses
    <2>2. Follower(ScanOf(<<cmd>>, q), c, b)
      BY <1>12, <1>14
    <2>3. ScanAt(cmd, q, s, clock + 1, b, f2)
      BY <1>2, <1>11, <1>12, <2>1, <2>2, ScanAtIs
    <2>4. SnapsNow(cmd)' = s
      BY <1>1, <1>14
    <2>5. ScanAt(cmd, lines', SnapsNow(cmd)', clock', b, f2)
      BY <1>2, <2>3, <2>4
    <2> QED BY <2>5 DEF b, f2
  <1> QED BY <1>13, <1>14

LEMMA BeginScan ==
  ASSUME CaptureInv, BeginSection, run = 1, NEW cmd \in Charted,
         ScanAt(cmd, lines, SnapsNow(cmd), clock, section \in {"A", "B"}, IsDue(cmd, todo))
  PROVE  ScanAt(cmd, lines', SnapsNow(cmd)', clock', section' \in {"A", "B"}, IsDue(cmd, todo)')
  <1> DEFINE b  == section \in {"A", "B"}
             f  == IsDue(cmd, todo)
             f2 == IsDue(cmd, todo)'
             s  == SnapsNow(cmd)
             st == ScanOf(<<cmd>>, lines)
             c  == Put(st)
             u  == st.time
             l  == Begin(next)
             q  == Append(lines, l)
  <1>1. /\ section' \in {"A", "B"} /\ UNCHANGED recs /\ clock' = clock + 1 /\ clock \in Nat
        /\ lines' = lines \o <<l>>
    BY DEF BeginSection, Printed, CaptureInv, TypeInv, Times
  <1>2. l \in LineSet /\ l.kind = "begin" /\ l.time = clock /\ lines \in Seq(LineSet) /\ lines \o <<l>> = q
    BY MarkedLines, LinesGrow DEF Begin, CaptureInv, TypeInv
  <1>3. s \in SnapSeq /\ st \in ScanStates /\ q \in Seq(LineSet)
    BY <1>2, SnapsNowType, ScanSteps, AppendProperties
  <1>4. c \in TakenSeq /\ u \in Nat
    BY <1>3, PutType DEF ScanStates
  <1>5. Follower(st, c, b) /\ InTime(c, s, u, clock, b, f)
    BY Zenon DEF ScanAt
  <1>6. SnapsNow(cmd)' = s
    BY <1>1 DEF SnapsNow
  <1>7. f2 \in BOOLEAN
    BY DEF IsDue
  <1>8. (section' \in {"A", "B"}) = TRUE
    BY <1>1
  <1> HIDE DEF b, f, f2, s, st, c, u, l
  <1>9. ScanOf(<<cmd>>, q) = Scan(c, clock, TRUE, FALSE, Nothing)
    <2>1. ScanOf(<<cmd>>, q) = ScanLine(st, l, <<cmd>>)
      BY <1>2, ScanSteps DEF st
    <2> QED BY <1>2, <1>3, <2>1, ScanLineIs DEF c
  <1>10. Follower(ScanOf(<<cmd>>, q), c, TRUE)
    BY <1>9, FollowerStops
  <1>11. ScanOf(<<cmd>>, q).time = clock
    <2> DEFINE yes == TRUE
               no  == FALSE
    <2>1. ScanOf(<<cmd>>, q) = Scan(c, clock, yes, no, Nothing)
      BY <1>9
    <2> HIDE DEF yes, no, q
    <2> QED BY <2>1 DEF Scan
  <1>12. InTime(c, s, clock, clock + 1, TRUE, TRUE)
    BY <1>1, <1>3, <1>4, <1>5, TimePasses
  <1>13. InTime(c, s, clock, clock + 1, TRUE, f2)
    BY <1>7, <1>12, TimeMore
  <1> HIDE DEF q
  <1>14. ScanAt(cmd, q, s, clock + 1, TRUE, f2)
    BY <1>3, <1>10, <1>11, <1>13, ScanAtIs
  <1>15. ScanAt(cmd, lines', SnapsNow(cmd)', clock', section' \in {"A", "B"}, f2)
    BY <1>1, <1>2, <1>6, <1>8, <1>14
  <1> QED BY <1>15 DEF f2

LEMMA EndScan ==
  ASSUME CaptureInv, EndSection, run = 1, NEW cmd \in Charted,
         ScanAt(cmd, lines, SnapsNow(cmd), clock, section \in {"A", "B"}, IsDue(cmd, todo))
  PROVE  ScanAt(cmd, lines', SnapsNow(cmd)', clock', section' \in {"A", "B"}, IsDue(cmd, todo)')
  <1> DEFINE b  == section \in {"A", "B"}
             f  == IsDue(cmd, todo)
             s  == SnapsNow(cmd)
             st == ScanOf(<<cmd>>, lines)
             c  == Put(st)
             u  == st.time
             l  == End(section)
  <1>1. /\ section' = None /\ UNCHANGED <<recs, todo>> /\ clock' = clock + 1 /\ clock \in Nat
        /\ section \in Sections /\ lines \in Seq(LineSet)
        /\ lines' = lines \o (IF section = "init" THEN <<>> ELSE <<l>>)
    BY DEF EndSection, Printed, CaptureInv, TypeInv, Times
  <1>2. s \in SnapSeq /\ st \in ScanStates
    BY <1>1, SnapsNowType, ScanSteps
  <1>3. c \in TakenSeq /\ u \in Nat
    BY <1>2, PutType DEF ScanStates
  <1>4. Follower(st, c, b) /\ InTime(c, s, u, clock, b, f)
    BY Zenon DEF ScanAt
  <1>5. SnapsNow(cmd)' = s /\ IsDue(cmd, todo)' = f
    BY <1>1 DEF SnapsNow
  <1>6. b \in BOOLEAN /\ f \in BOOLEAN
    BY DEF IsDue
  <1>7. (section' \in {"A", "B"}) = FALSE
    BY <1>1 DEF None
  <1>8. InTime(c, s, u, clock + 1, FALSE, f)
    BY <1>1, <1>2, <1>3, <1>4, <1>6, TimePasses
  <1>9. lines' \in Seq(LineSet) /\ Follower(ScanOf(<<cmd>>, lines'), c, FALSE) /\ ScanOf(<<cmd>>, lines').time = u
    <2>1. CASE section = "init"
      <3>1. lines' = lines
        <4>1. lines' = lines \o <<>>
          BY <1>1, <2>1
        <4> QED BY <1>1, <4>1, ConcatEmptySeq
      <3>2. b = FALSE
        BY <2>1
      <3> HIDE DEF c, b
      <3>3. Follower(st, c, FALSE)
        BY <1>4, <3>2
      <3> QED BY <1>1, <3>1, <3>3, Zenon
    <2>2. CASE section \in {"A", "B"}
      <3>1. l \in LineSet /\ l.kind = "end" /\ lines \o <<l>> = Append(lines, l) /\ Append(lines, l) \in Seq(LineSet)
        BY <2>2, MarkedLines, LinesGrow, AppendProperties DEF End, CaptureInv, TypeInv
      <3>2. lines' = Append(lines, l)
        BY <1>1, <2>2, <3>1
      <3> HIDE DEF l, st, c, u
      <3>3. ScanOf(<<cmd>>, Append(lines, l)) = ScanLine(st, l, <<cmd>>)
        BY <1>1, <3>1, ScanSteps DEF st
      <3>4. ScanOf(<<cmd>>, lines') = Scan(c, u, FALSE, FALSE, Nothing)
        BY <1>2, <3>1, <3>2, <3>3, ScanLineIs DEF c, u
      <3>5. Follower(Scan(c, u, FALSE, FALSE, Nothing), c, FALSE)
        BY FollowerStops
      <3>6. ScanOf(<<cmd>>, lines').time = u
        <4> DEFINE no == FALSE
                   x  == ScanOf(<<cmd>>, lines')
        <4>1. x = Scan(c, u, no, no, Nothing)
          BY <3>4
        <4> HIDE DEF no, x
        <4>2. x.time = u
          BY <4>1 DEF Scan
        <4> QED BY <4>2 DEF x
      <3> QED BY <3>1, <3>2, <3>4, <3>5, <3>6
    <2> QED BY <1>1, <2>1, <2>2 DEF Sections
  <1> HIDE DEF b, f, s, st, c, u, l
  <1>10. ScanAt(cmd, lines', s, clock + 1, FALSE, f)
    BY <1>8, <1>9, ScanAtIs
  <1> QED BY <1>1, <1>5, <1>7, <1>10

LEMMA NextScan ==
  ASSUME RootOnly, CaptureInv, OnceInv, ScanInv, [Next]_vars
  PROVE  ScanInv'
  <1> DEFINE At(cmd) == ScanAt(cmd, lines, SnapsNow(cmd), clock, section \in {"A", "B"}, IsDue(cmd, todo))
  <1>1. CASE Collect
    <2>1. PICK src \in Srcs, v \in Outs : Collects(src, v)
      BY <1>1, CollectAdds
    <2>2. UNCHANGED <<run, section>>
      BY <2>1 DEF Collects
    <2>3. ASSUME run = 1, NEW cmd \in Charted PROVE At(cmd)'
      <3>1. At(cmd)
        BY <2>3 DEF ScanInv
      <3>2. ScanAt(cmd, lines', SnapsNow(cmd)', clock', section \in {"A", "B"}, IsDue(cmd, todo)')
        BY <2>1, <2>3, <3>1, CollectScan
      <3> QED BY <2>2, <3>2
    <2> QED BY <2>2, <2>3 DEF ScanInv
  <1>2. CASE BeginSection
    <2>1. run' = run
      BY <1>2 DEF BeginSection
    <2>2. ASSUME run = 1, NEW cmd \in Charted PROVE At(cmd)'
      <3>1. At(cmd)
        BY <2>2 DEF ScanInv
      <3> QED BY <1>2, <2>2, <3>1, BeginScan
    <2> QED BY <2>1, <2>2 DEF ScanInv
  <1>3. CASE EndSection
    <2>1. run' = run
      BY <1>3 DEF EndSection
    <2>2. ASSUME run = 1, NEW cmd \in Charted PROVE At(cmd)'
      <3>1. At(cmd)
        BY <2>2 DEF ScanInv
      <3> QED BY <1>3, <2>2, <3>1, EndScan
    <2> QED BY <2>1, <2>2 DEF ScanInv
  <1>4. CASE Restart
    <2>1. run' # 1
      BY <1>4 DEF Restart, CaptureInv, TypeInv, Times
    <2> QED BY <2>1 DEF ScanInv
  <1>5. CASE UNCHANGED <<run, recs, lines, section, clock, todo>>
    BY <1>5 DEF ScanInv, SnapsNow
  <1>6. HostStep \/ UNCHANGED vars => UNCHANGED <<run, recs, lines, section, clock, todo>>
    BY DEF HostStep, vars, captureVars
  <1> QED BY <1>1, <1>2, <1>3, <1>4, <1>5, <1>6 DEF Next, CaptureNext

LEMMA SnapshotsHold ==
  ASSUME CaptureInv, ScanInv
  PROVE  SameSnapshots
  <1>1. ASSUME run = 1, section = None, NEW cmd \in Charted
        PROVE  Interleaved(TextSnapshots(cmd), CBORSnapshots(cmd))
    <2> DEFINE st == ScanOf(<<cmd>>, lines)
    <2>1. (section \in {"A", "B"}) = FALSE
      BY <1>1 DEF None
    <2>2. ScanAt(cmd, lines, SnapsNow(cmd), clock, FALSE, IsDue(cmd, todo))
      BY <1>1, <2>1 DEF ScanInv
    <2>3. Follower(st, Put(st), FALSE) /\ Interleaved(Put(st), SnapsNow(cmd))
      BY <2>2, Zenon DEF ScanAt, InTime
    <2>4. TextSnapshots(cmd) = IF st.out # Nothing THEN Snapped(st).snaps ELSE st.snaps
      BY DEF TextSnapshots, ScanOf
    <2>5. CBORSnapshots(cmd) = SnapsNow(cmd)
      BY DEF CBORSnapshots, SnapsNow, SnapsOf
    <2> HIDE DEF st
    <2>6. Put(st) = st.snaps /\ st.out = Nothing
      BY <2>3, Zenon DEF Follower, Put
    <2> QED BY <2>3, <2>4, <2>5, <2>6, Zenon
  <1> QED BY <1>1, Zenon DEF SameSnapshots, Interleaved, Charted

\* In a run without -n, the snapshots of a command that are read from the text
\* file have the outputs of those read from the CBOR file, in the same order,
\* failed commands included, and each has a time between those at which this
\* output and the one before were read (collectMSUSnapshots,
\* collectMSUSnapshotsCBOR).
THEOREM SnapshotsAreSame ==
  ASSUME RootOnly
  PROVE  Spec => []SameSnapshots
  <1> DEFINE Inv == CaptureInv /\ OnceInv /\ ScanInv
  <1>1. Init => Inv
    BY InitCapture, InitScan
  <1>2. Inv /\ [Next]_vars => Inv'
    BY NextCapture, NextOnce, NextScan
  <1>3. Inv => SameSnapshots
    BY SnapshotsHold
  <1> QED BY <1>1, <1>2, <1>3, PTL DEF Spec

-----------------------------------------------------------------------------
(* The parsers.                                                            *)

Qs      == [mode : {"command", "changing"}, cmds : SUBSET Commands, type : SectionTypes]
Names   == {<<c>> : c \in Commands}
Values  == {Extracted(c, o) : c \in Commands, o \in Outs} \cup {0}
Samples == [name : Names, id : Ids, time : Nat, value : Values, out : Outs]
AB      == {"A", "B"}
Tables  == [AB -> [Ids -> Nat]]
Orders  == [AB -> Seq(Ids)]
Results == [begin : Tables, end : Tables, order : Orders, followed : Seq(Samples), matching : SUBSET Names]

\* A result, field by field.
Result(b, e, o, f, m) == [begin |-> b, end |-> e, order |-> o, followed |-> f, matching |-> m]

LEMMA ResultIs ==
  ASSUME NEW res \in Results
  PROVE  /\ res = Result(res.begin, res.end, res.order, res.followed, res.matching)
         /\ res.begin \in Tables /\ res.end \in Tables /\ res.order \in Orders
         /\ res.followed \in Seq(Samples) /\ res.matching \in SUBSET Names
  BY DEF Results, Result

\* The samples f, and one more if there is a value.
Grown(f, q, name, sec, id, time, out) ==
    IF ~ShouldTrackSection(q.type, sec) \/ Extracted(name[1], out) = Absent THEN f
    ELSE Append(f, SampleOf(name, id, time, Extracted(name[1], out), out))

LEMMA WithSampleIs ==
  ASSUME NEW res \in Results, NEW q, NEW name, NEW sec, NEW id, NEW time, NEW v
  PROVE  WithSample(res, q, name, sec, id, time, v) =
           Result(res.begin, res.end, res.order, Grown(res.followed, q, name, sec, id, time, v), res.matching)
  <1> DEFINE x == SampleOf(name, id, time, Extracted(name[1], v), v)
             a == Append(res.followed, x)
             skip == ~ShouldTrackSection(q.type, sec) \/ Extracted(name[1], v) = Absent
  <1>1. WithSample(res, q, name, sec, id, time, v) = IF skip THEN res ELSE [res EXCEPT !.followed = a]
    BY DEF WithSample
  <1>2. Grown(res.followed, q, name, sec, id, time, v) = IF skip THEN res.followed ELSE a
    BY DEF Grown
  <1> HIDE DEF a, skip
  <1>3. [res EXCEPT !.followed = a] = Result(res.begin, res.end, res.order, a, res.matching)
    BY DEF Results, Result
  <1> QED BY <1>1, <1>2, <1>3, ResultIs

LEMMA GrownType ==
  ASSUME NEW f \in Seq(Samples), NEW q, NEW name \in Names, NEW sec, NEW id \in Ids, NEW time \in Nat, NEW v \in Outs
  PROVE  Grown(f, q, name, sec, id, time, v) \in Seq(Samples)
  <1>1. Extracted(name[1], v) \in Values
    BY DEF Names, Values
  <1>2. SampleOf(name, id, time, Extracted(name[1], v), v) \in Samples
    BY <1>1 DEF Samples, SampleOf
  <1> QED BY <1>2, AppendProperties DEF Grown

LEMMA MatchedIs ==
  ASSUME NEW res \in Results, NEW name \in Names
  PROVE  Matched(res, name) = Result(res.begin, res.end, res.order, res.followed, res.matching \cup {name})
  <1> DEFINE m == res.matching \cup {name}
  <1>1. Matched(res, name) = [res EXCEPT !.matching = m]
    BY DEF Matched
  <1> HIDE DEF m
  <1>2. [res EXCEPT !.matching = m] = Result(res.begin, res.end, res.order, res.followed, m)
    BY DEF Results, Result
  <1> QED BY <1>1, <1>2 DEF m

LEMMA ResultType ==
  ASSUME NEW b \in Tables, NEW e \in Tables, NEW o \in Orders, NEW f \in Seq(Samples), NEW m \in SUBSET Names
  PROVE  /\ Result(b, e, o, f, m) \in Results
         /\ Result(b, e, o, f, m).begin = b /\ Result(b, e, o, f, m).end = e /\ Result(b, e, o, f, m).order = o
         /\ Result(b, e, o, f, m).followed = f /\ Result(b, e, o, f, m).matching = m
  BY DEF Result, Results

\* Tables and orders with another entry.
Entered(t, sec, id, v) == [t EXCEPT ![sec][id] = v]
Ordered(o, sec, id) == [o EXCEPT ![sec] = Append(o[sec], id)]

LEMMA EnteredIs ==
  ASSUME NEW t \in Tables, NEW sec \in AB, NEW id \in Ids, NEW v \in Nat
  PROVE  /\ Entered(t, sec, id, v) \in Tables
         /\ \A s \in AB, i \in Ids : Entered(t, sec, id, v)[s][i] = IF s = sec /\ i = id THEN v ELSE t[s][i]
  BY DEF Entered, Tables

LEMMA OrderedIs ==
  ASSUME NEW o \in Orders, NEW sec \in AB, NEW id \in Ids
  PROVE  /\ Ordered(o, sec, id) \in Orders
         /\ \A s \in AB : Ordered(o, sec, id)[s] = IF s = sec THEN Append(o[s], id) ELSE o[s]
  BY AppendProperties DEF Ordered, Orders

LEMMA IndexedIs ==
  ASSUME NEW res \in Results, NEW s, s.sec \in AB, s.seq \in Ids, s.time \in Times
  PROVE  Indexed(res, s) =
           IF res.begin[s.sec][s.seq] = 0
           THEN Result(Entered(res.begin, s.sec, s.seq, s.time), Entered(res.end, s.sec, s.seq, s.time),
                       Ordered(res.order, s.sec, s.seq), res.followed, res.matching)
           ELSE Result(res.begin, Entered(res.end, s.sec, s.seq, s.time), res.order, res.followed, res.matching)
  <1> DEFINE sec == s.sec
             id == s.seq
             t == s.time
             b == res.begin
             e == res.end
             o == res.order
             f == res.followed
             m == res.matching
  <1>1. b \in Tables /\ e \in Tables /\ o \in Orders /\ res = Result(b, e, o, f, m)
    BY ResultIs
  <1>2. sec \in AB /\ id \in Ids /\ t \in Nat
    BY DEF Times
  <1>3. Indexed(res, s) = [res EXCEPT !.begin[sec][id] = IF b[sec][id] = 0 THEN t ELSE @,
                                      !.order[sec] = IF b[sec][id] = 0 THEN Append(@, id) ELSE @,
                                      !.end[sec][id] = t]
    BY DEF Indexed
  <1> HIDE DEF sec, id, t, b, e, o, f, m
  <1>4. CASE b[sec][id] = 0
    <2>1. Indexed(res, s) = [Result(b, e, o, f, m) EXCEPT !.begin = Entered(b, sec, id, t),
                                  !.order = Ordered(o, sec, id), !.end = Entered(e, sec, id, t)]
      BY <1>1, <1>3, <1>4 DEF Result, Entered, Ordered
    <2>2. Indexed(res, s) = Result(Entered(b, sec, id, t), Entered(e, sec, id, t), Ordered(o, sec, id), f, m)
      BY <2>1 DEF Result
    <2> QED BY <1>4, <2>2 DEF sec, id, t, b, e, o, f, m
  <1>5. CASE b[sec][id] # 0
    <2>1. [b EXCEPT ![sec][id] = b[sec][id]] = b /\ [o EXCEPT ![sec] = o[sec]] = o
      BY <1>1, <1>2 DEF Tables, Orders
    <2>2. Indexed(res, s) = [Result(b, e, o, f, m) EXCEPT !.begin = [b EXCEPT ![sec][id] = b[sec][id]],
                                  !.order = [o EXCEPT ![sec] = o[sec]], !.end = Entered(e, sec, id, t)]
      BY <1>1, <1>3, <1>5 DEF Result, Entered
    <2>3. Indexed(res, s) = Result(b, Entered(e, sec, id, t), o, f, m)
      BY <2>1, <2>2 DEF Result
    <2> QED BY <1>5, <2>3 DEF sec, id, t, b, e, o, f, m
  <1> QED BY <1>4, <1>5 DEF sec, id, b

\* The parser of the CBOR file, but for the samples without a value that
\* WithOutput adds; FullOf has those too.
ValueSample(res, s, q) ==
    LET name == <<s.cmd>>
    IN  IF s.sec = "init" THEN res
        ELSE IF ~Wanted(q, name) THEN Indexed(res, s)
        ELSE WithSample(Matched(Indexed(res, s), name), q, name, s.sec, s.seq, s.time, s.out)

\* So it is after the records p.
CBOROf(q, p) == FoldLeft(LAMBDA res, s : ValueSample(res, s, q), NoResult, p)

\* A sequence that is not empty is another one and an element.
LEMMA Longer ==
  ASSUME NEW S, NEW f \in Seq(S), NEW m \in Nat, Len(f) = m + 1
  PROVE  \E p \in Seq(S), x \in S : /\ f = Append(p, x) /\ Len(p) = m /\ f[m + 1] = x
                                    /\ \A k \in 1 .. m : f[k] = p[k]
  <1>1. f # <<>>
    BY EmptySeq
  <1>2. PICK p \in Seq(S), x \in S : f = Append(p, x)
    BY <1>1, SequenceEmptyOrAppend
  <1>3. Len(p) \in Nat /\ Len(Append(p, x)) = Len(p) + 1 /\ Append(p, x)[Len(p) + 1] = x
        /\ \A k \in 1 .. Len(p) : Append(p, x)[k] = p[k]
    BY AppendProperties, LenProperties
  <1>4. Len(p) = m
    BY <1>2, <1>3
  <1> QED BY <1>2, <1>3, <1>4

\* What a sample does to each part of the result.
Sampled(res, r, q) ==
    LET new  == res.begin[r.sec][r.seq] = 0
        name == <<r.cmd>>
    IN  Result(IF new THEN Entered(res.begin, r.sec, r.seq, r.time) ELSE res.begin,
               Entered(res.end, r.sec, r.seq, r.time),
               IF new THEN Ordered(res.order, r.sec, r.seq) ELSE res.order,
               IF Wanted(q, name) THEN Grown(res.followed, q, name, r.sec, r.seq, r.time, r.out) ELSE res.followed,
               IF Wanted(q, name) THEN res.matching \cup {name} ELSE res.matching)

LEMMA NoResultType == NoResult \in Results
  <1>1. [sec \in {"A", "B"} |-> [id \in Ids |-> 0]] \in Tables
    BY DEF Tables, AB
  <1>2. [sec \in {"A", "B"} |-> <<>>] \in Orders
    BY EmptySeq DEF Orders, AB
  <1>3. <<>> \in Seq(Samples) /\ {} \in SUBSET Names
    BY EmptySeq
  <1>4. NoResult = Result([sec \in {"A", "B"} |-> [id \in Ids |-> 0]], [sec \in {"A", "B"} |-> [id \in Ids |-> 0]],
                          [sec \in {"A", "B"} |-> <<>>], <<>>, {})
    BY DEF NoResult, Result
  <1> QED BY <1>1, <1>2, <1>3, <1>4, ResultType

LEMMA RecordIs ==
  ASSUME NEW r \in RecSet
  PROVE  /\ r.sec = "init" \/ r.sec \in AB
         /\ r.seq \in Ids /\ r.time \in Times /\ r.time \in Nat /\ r.out \in Outs /\ r.cmd \in Commands /\ <<r.cmd>> \in Names
  BY DEF RecSet, Sections, AB, Times, Names

LEMMA SampledType ==
  ASSUME NEW res \in Results, NEW r \in RecSet, r.sec \in AB, NEW q
  PROVE  Sampled(res, r, q) \in Results
  <1> DEFINE b == IF res.begin[r.sec][r.seq] = 0 THEN Entered(res.begin, r.sec, r.seq, r.time) ELSE res.begin
             e == Entered(res.end, r.sec, r.seq, r.time)
             o == IF res.begin[r.sec][r.seq] = 0 THEN Ordered(res.order, r.sec, r.seq) ELSE res.order
             f == IF Wanted(q, <<r.cmd>>) THEN Grown(res.followed, q, <<r.cmd>>, r.sec, r.seq, r.time, r.out) ELSE res.followed
             m == IF Wanted(q, <<r.cmd>>) THEN res.matching \cup {<<r.cmd>>} ELSE res.matching
  <1>1. b \in Tables /\ e \in Tables
    BY RecordIs, ResultIs, EnteredIs
  <1>2. o \in Orders
    BY RecordIs, ResultIs, OrderedIs
  <1>3. f \in Seq(Samples)
    BY RecordIs, ResultIs, GrownType
  <1>4. m \in SUBSET Names
    BY RecordIs, ResultIs
  <1>5. Sampled(res, r, q) = Result(b, e, o, f, m)
    BY DEF Sampled
  <1> HIDE DEF b, e, o, f, m
  <1> QED BY <1>1, <1>2, <1>3, <1>4, <1>5, ResultType

LEMMA ValueSampleIs ==
  ASSUME NEW res \in Results, NEW r \in RecSet, NEW q
  PROVE  ValueSample(res, r, q) = IF r.sec = "init" THEN res ELSE Sampled(res, r, q)
  <1> DEFINE name == <<r.cmd>>
             y == Indexed(res, r)
             z == Matched(y, name)
             new == res.begin[r.sec][r.seq] = 0
             b == IF new THEN Entered(res.begin, r.sec, r.seq, r.time) ELSE res.begin
             e == Entered(res.end, r.sec, r.seq, r.time)
             o == IF new THEN Ordered(res.order, r.sec, r.seq) ELSE res.order
  <1>1. CASE r.sec = "init"
    BY <1>1 DEF ValueSample
  <1>2. CASE r.sec \in AB
    <2>1. r.sec # "init" /\ name \in Names
      BY <1>2, RecordIs DEF AB
    <2>2. y = Result(b, e, o, res.followed, res.matching)
      BY <1>2, RecordIs, IndexedIs
    <2>3. b \in Tables /\ e \in Tables /\ o \in Orders
      BY <1>2, RecordIs, ResultIs, EnteredIs, OrderedIs
    <2>4. res.followed \in Seq(Samples) /\ res.matching \in SUBSET Names
      BY ResultIs
    <2>5. ValueSample(res, r, q) = IF ~Wanted(q, name) THEN y ELSE WithSample(z, q, name, r.sec, r.seq, r.time, r.out)
      BY <2>1 DEF ValueSample
    <2>6. Sampled(res, r, q) = Result(b, e, o,
               IF Wanted(q, name) THEN Grown(res.followed, q, name, r.sec, r.seq, r.time, r.out) ELSE res.followed,
               IF Wanted(q, name) THEN res.matching \cup {name} ELSE res.matching)
      BY DEF Sampled
    <2> HIDE DEF b, e, o, y, name
    <2>7. /\ y \in Results /\ y.begin = b /\ y.end = e /\ y.order = o
          /\ y.followed = res.followed /\ y.matching = res.matching
      BY <2>2, <2>3, <2>4, ResultType
    <2>8. z = Result(b, e, o, res.followed, res.matching \cup {name})
      BY <2>1, <2>7, MatchedIs
    <2>9. res.matching \cup {name} \in SUBSET Names
      BY <2>1, <2>4
    <2> HIDE DEF z
    <2>10. /\ z \in Results /\ z.begin = b /\ z.end = e /\ z.order = o
           /\ z.followed = res.followed /\ z.matching = res.matching \cup {name}
      BY <2>3, <2>4, <2>8, <2>9, ResultType
    <2>11. WithSample(z, q, name, r.sec, r.seq, r.time, r.out) =
             Result(b, e, o, Grown(res.followed, q, name, r.sec, r.seq, r.time, r.out), res.matching \cup {name})
      BY <2>10, WithSampleIs
    <2> QED BY <2>1, <2>2, <2>5, <2>6, <2>11
  <1> QED BY <1>1, <1>2, RecordIs

LEMMA CBORSteps ==
  ASSUME NEW q
  PROVE  /\ CBOROf(q, <<>>) = NoResult
         /\ \A p \in Seq(RecSet) : CBOROf(q, p) \in Results
         /\ \A p \in Seq(RecSet), x \in RecSet : CBOROf(q, Append(p, x)) = ValueSample(CBOROf(q, p), x, q)
  <1> DEFINE H == [w \in RecSet \X Results |-> ValueSample(w[2], w[1], q)]
  <1>1. Foldable(RecSet, Results, NoResult, H)
    <2>1. ASSUME NEW x \in RecSet, NEW v \in Results PROVE ValueSample(v, x, q) \in Results
      BY ValueSampleIs, SampledType, RecordIs
    <2>2. H \in [RecSet \X Results -> Results]
      BY <2>1
    <2> HIDE DEF H
    <2> QED BY <2>2, NoResultType DEF Foldable
  <1>2. \A x \in RecSet, v \in Results : H[<<x, v>>] = ValueSample(v, x, q)
    OBVIOUS
  <1> HIDE DEF H
  <1>3. ASSUME NEW p \in Seq(RecSet)
        PROVE  CBOROf(q, p) = Fold(H, NoResult, p)
    <2> DEFINE Body(g) == [s \in SUBSET DOMAIN p |-> IF s = {} THEN NoResult ELSE ValueSample(g[s \ {Max(s)}], p[Max(s)], q)]
               iter == CHOOSE g : g = Body(g)
    <2>1. CBOROf(q, p) = iter[DOMAIN p]
      BY DEF CBOROf, FoldLeft, MapThenFoldSet
    <2>2. \E g : g = Body(g)
      <3>1. PICK g : FoldsByIndex(g, p, RecSet, Results, NoResult, H)
        BY <1>1, FoldByIndex
      <3>2. g = [s \in SUBSET DOMAIN p |-> g[s]] /\ g[{}] = NoResult
        BY <3>1 DEF FoldsByIndex
      <3>3. \A s \in SUBSET DOMAIN p : s # {} => g[s] = ValueSample(g[s \ {Max(s)}], p[Max(s)], q)
        BY <1>2, <3>1 DEF FoldsByIndex
      <3> QED BY <3>2, <3>3
    <2>3. iter = Body(iter)
      BY <2>2
    <2>4. iter[{}] = NoResult
      BY <2>3
    <2>5. ASSUME NEW s \in SUBSET DOMAIN p, s # {}
          PROVE  p[Max(s)] \in RecSet /\ iter[s] = ValueSample(iter[s \ {Max(s)}], p[Max(s)], q)
      <3>1. Max(s) \in DOMAIN p
        BY <2>5, MaxOfFinite, LenProperties
      <3>2. p[Max(s)] \in RecSet
        BY <3>1
      <3> QED BY <2>3, <2>5, <3>2
    <2> HIDE DEF iter
    <2>6. ByIndex(iter, p, NoResult, Results, H)
      BY <1>2, <2>4, <2>5 DEF ByIndex
    <2> QED BY <1>1, <2>1, <2>6, FoldByIndex
  <1>4. <<>> \in Seq(RecSet)
    BY EmptySeq
  <1>5. CBOROf(q, <<>>) = NoResult
    <2>1. PICK e \in Seq(RecSet) : e = <<>>
      BY <1>4
    <2>2. Fold(H, NoResult, <<>>) = NoResult
      BY <1>1, FoldSteps
    <2>3. CBOROf(q, e) = Fold(H, NoResult, e)
      BY <1>3
    <2> QED BY <2>1, <2>2, <2>3
  <1>6. \A p \in Seq(RecSet) : CBOROf(q, p) \in Results
    BY <1>1, <1>3, FoldSteps
  <1>7. ASSUME NEW p \in Seq(RecSet), NEW x \in RecSet
        PROVE  CBOROf(q, Append(p, x)) = ValueSample(CBOROf(q, p), x, q)
    <2> DEFINE a == Append(p, x)
    <2>1. a \in Seq(RecSet)
      BY AppendProperties
    <2>2. Fold(H, NoResult, a) = H[<<x, Fold(H, NoResult, p)>>]
      BY <1>1, FoldSteps
    <2> HIDE DEF a
    <2>3. CBOROf(q, a) = Fold(H, NoResult, a) /\ CBOROf(q, p) = Fold(H, NoResult, p)
      BY <1>3, <2>1
    <2> QED BY <1>2, <1>6, <2>2, <2>3 DEF a
  <1> QED BY <1>5, <1>6, <1>7

\* The parser of the text file after the lines p.
ReadOf(q, p) == FoldLeft(LAMBDA st, l : TextLine(st, l, q), Reading0, p)

\* A state of it, field by field.
Read(res, sec, id, time, name, o) ==
    [res |-> res, sec |-> sec, id |-> id, time |-> time, name |-> name, out |-> o]

ReadStates ==
    [res : Results, sec : AB \cup {None}, id : Ids, time : Nat, name : Names \cup {NotFollowing}, out : Outs]

\* The result once the output that is kept goes to it.
Pending(st, q) ==
    IF st.name = NotFollowing THEN st.res
    ELSE WithSample(st.res, q, st.name, st.sec, st.id, st.time, st.out)

LEMMA ReadIs ==
  ASSUME NEW st \in ReadStates
  PROVE  /\ st = Read(st.res, st.sec, st.id, st.time, st.name, st.out)
         /\ st.res \in Results /\ st.sec \in AB \cup {None} /\ st.id \in Ids /\ st.time \in Nat
         /\ st.name \in Names \cup {NotFollowing} /\ st.out \in Outs
  BY DEF ReadStates, Read

LEMMA ReadType ==
  ASSUME NEW res \in Results, NEW sec \in AB \cup {None}, NEW id \in Ids, NEW time \in Nat,
         NEW name \in Names \cup {NotFollowing}, NEW o \in Outs
  PROVE  /\ Read(res, sec, id, time, name, o) \in ReadStates
         /\ Read(res, sec, id, time, name, o).res = res /\ Read(res, sec, id, time, name, o).sec = sec
         /\ Read(res, sec, id, time, name, o).id = id /\ Read(res, sec, id, time, name, o).time = time
         /\ Read(res, sec, id, time, name, o).name = name /\ Read(res, sec, id, time, name, o).out = o
  BY DEF Read, ReadStates

LEMMA PendingIs ==
  ASSUME NEW st \in ReadStates, NEW q
  PROVE  /\ Pending(st, q) \in Results
         /\ Pending(st, q).begin = st.res.begin /\ Pending(st, q).end = st.res.end
         /\ Pending(st, q).order = st.res.order /\ Pending(st, q).matching = st.res.matching
         /\ Pending(st, q).followed =
              IF st.name = NotFollowing THEN st.res.followed
              ELSE Grown(st.res.followed, q, st.name, st.sec, st.id, st.time, st.out)
  <1> DEFINE res == st.res
             f == Grown(res.followed, q, st.name, st.sec, st.id, st.time, st.out)
  <1>1. res \in Results
    BY ReadIs
  <1>2. /\ res.begin \in Tables /\ res.end \in Tables /\ res.order \in Orders
        /\ res.followed \in Seq(Samples) /\ res.matching \in SUBSET Names
    <2> HIDE DEF res
    <2> QED BY <1>1, ResultIs
  <1>3. CASE st.name = NotFollowing
    BY <1>1, <1>3 DEF Pending
  <1>4. CASE st.name \in Names /\ st.name # NotFollowing
    <2>1. f \in Seq(Samples)
      BY <1>2, <1>4, ReadIs, GrownType
    <2>2. Pending(st, q) = Result(res.begin, res.end, res.order, f, res.matching)
      BY <1>1, <1>4, WithSampleIs DEF Pending
    <2> HIDE DEF res, f
    <2>3. /\ Pending(st, q) \in Results /\ Pending(st, q).begin = res.begin /\ Pending(st, q).end = res.end
          /\ Pending(st, q).order = res.order /\ Pending(st, q).matching = res.matching /\ Pending(st, q).followed = f
      BY <1>2, <2>1, <2>2, ResultType
    <2> QED BY <1>4, <2>3 DEF res, f
  <1> QED BY <1>3, <1>4, ReadIs

\* Each kind of line.
LineBegin(st, l) ==
    IF st.sec # None THEN st
    ELSE Read(Result(Entered(st.res.begin, l.sec, l.id, l.time), st.res.end, Ordered(st.res.order, l.sec, l.id),
                     st.res.followed, st.res.matching),
              l.sec, l.id, l.time, st.name, st.out)

LineEnd(st, l, p) ==
    Read(Result(p.begin, IF p.begin[l.sec][l.id] # 0 THEN Entered(p.end, l.sec, l.id, l.time) ELSE p.end,
                p.order, p.followed, p.matching),
         IF st.sec = l.sec THEN None ELSE st.sec, st.id, st.time, NotFollowing, Nothing)

LineMarker(st, l, p, q) ==
    IF st.sec = None THEN st
    ELSE IF ~Wanted(q, TextName(l.src)) THEN Read(p, st.sec, st.id, st.time, NotFollowing, Nothing)
    ELSE Read(Result(p.begin, p.end, p.order, p.followed, p.matching \cup {TextName(l.src)}),
              st.sec, st.id, st.time, TextName(l.src), Nothing)

LineOut(st, l) ==
    IF st.sec # None /\ st.name # NotFollowing
    THEN Read(st.res, st.sec, st.id, st.time, st.name, l.value) ELSE st

LEMMA FlushedIs ==
  ASSUME NEW st \in ReadStates, NEW q
  PROVE  Flushed(st, q) = Read(Pending(st, q), st.sec, st.id, st.time, NotFollowing, Nothing)
  <1> DEFINE p == Pending(st, q)
             no == NotFollowing
             nil == Nothing
  <1>1. Flushed(st, q) = [st EXCEPT !.res = p, !.name = no, !.out = nil]
    BY DEF Flushed, Pending
  <1>2. st = Read(st.res, st.sec, st.id, st.time, st.name, st.out)
    BY ReadIs
  <1> HIDE DEF p, no, nil
  <1>3. Flushed(st, q) = Read(p, st.sec, st.id, st.time, no, nil)
    BY <1>1, <1>2 DEF Read
  <1> QED BY <1>3 DEF p, no, nil

LEMMA BeginLine ==
  ASSUME NEW st \in ReadStates, NEW l \in LineSet, l.kind = "begin", NEW q
  PROVE  TextLine(st, l, q) = LineBegin(st, l)
  <1> DEFINE res == st.res
             b == Entered(res.begin, l.sec, l.id, l.time)
             o == Ordered(res.order, l.sec, l.id)
             sec == l.sec
             id == l.id
             t == l.time
             r2 == Result(b, res.end, o, res.followed, res.matching)
  <1>1. TextLine(st, l, q) = ReadBegin(st, l)
    BY DEF TextLine
  <1>2. st = Read(res, st.sec, st.id, st.time, st.name, st.out) /\ res = Result(res.begin, res.end, res.order, res.followed, res.matching)
    BY ReadIs, ResultIs
  <1>3. ReadBegin(st, l) = IF st.sec # None THEN st
                           ELSE [st EXCEPT !.res = [[res EXCEPT !.begin = b] EXCEPT !.order = o],
                                           !.sec = sec, !.id = id, !.time = t]
    <2>1. [st EXCEPT !.res.begin[l.sec][l.id] = l.time,
                    !.res.order[l.sec] = Append(@, l.id),
                    !.sec = l.sec, !.id = l.id, !.time = l.time]
          = [st EXCEPT !.res = [[res EXCEPT !.begin = b] EXCEPT !.order = o], !.sec = sec, !.id = id, !.time = t]
      <3> DEFINE a == Append(res.order[sec], id)
                 r1 == Result(b, res.end, res.order, res.followed, res.matching)
                 s1 == Read(r1, st.sec, st.id, st.time, st.name, st.out)
                 s2 == Read(r2, st.sec, st.id, st.time, st.name, st.out)
      <3> HIDE DEF a, sec, id, t
      <3>1. o = [res.order EXCEPT ![sec] = a] /\ b = [res.begin EXCEPT ![sec][id] = t]
        BY DEF a, Ordered, Entered, sec, id, t
      <3> HIDE DEF res, o, b, r1, r2, s1, s2
      <3>2. [res EXCEPT !.begin[sec][id] = t] = r1 /\ [res EXCEPT !.begin = b] = r1
        BY <1>2, <3>1 DEF Result, r1
      <3>3. [r1 EXCEPT !.order[sec] = a] = r2 /\ [r1 EXCEPT !.order = o] = r2
        BY <3>1 DEF Result, r1, r2
      <3>4. [st EXCEPT !.res.begin[sec][id] = t] = s1
        <4>1. [st EXCEPT !.res.begin[sec][id] = t] = [st EXCEPT !.res = [res EXCEPT !.begin[sec][id] = t]]
          BY DEF res
        <4>2. [st EXCEPT !.res = r1] = s1
          BY <1>2 DEF Read, s1
        <4> QED BY <3>2, <4>1, <4>2
      <3>5. [s1 EXCEPT !.res.order[sec] = a] = s2
        <4>1. s1.res = r1
          BY DEF Read, s1
        <4>2. [s1 EXCEPT !.res.order[sec] = a] = [s1 EXCEPT !.res = [s1.res EXCEPT !.order[sec] = a]]
          OBVIOUS
        <4>3. [s1 EXCEPT !.res = r2] = s2
          BY DEF Read, s1, s2
        <4> QED BY <3>3, <4>1, <4>2, <4>3
      <3>6. [st EXCEPT !.res = r2] = s2
        BY <1>2 DEF Read, s2
      <3>7. [st EXCEPT !.res.begin[sec][id] = t, !.res.order[sec] = a, !.sec = sec, !.id = id, !.time = t]
              = [[[[[st EXCEPT !.res.begin[sec][id] = t] EXCEPT !.res.order[sec] = a] EXCEPT !.sec = sec] EXCEPT !.id = id] EXCEPT !.time = t]
        OBVIOUS
      <3>8. [st EXCEPT !.res = r2, !.sec = sec, !.id = id, !.time = t]
              = [[[[st EXCEPT !.res = r2] EXCEPT !.sec = sec] EXCEPT !.id = id] EXCEPT !.time = t]
        OBVIOUS
      <3>9. [st EXCEPT !.res.begin[sec][id] = t, !.res.order[sec] = a, !.sec = sec, !.id = id, !.time = t]
              = [st EXCEPT !.res = r2, !.sec = sec, !.id = id, !.time = t]
        BY <3>4, <3>5, <3>6, <3>7, <3>8
      <3> QED BY <3>2, <3>3, <3>9 DEF a, sec, id, t, res
    <2> QED BY <2>1 DEF ReadBegin
  <1> HIDE DEF b, o, sec, id, t, res
  <1>4. [[res EXCEPT !.begin = b] EXCEPT !.order = o] = r2
    <2> DEFINE r1 == Result(b, res.end, res.order, res.followed, res.matching)
    <2>1. [res EXCEPT !.begin = b] = r1
      BY <1>2 DEF Result
    <2>2. [r1 EXCEPT !.order = o] = r2
      BY DEF Result
    <2> HIDE DEF r1, r2
    <2> QED BY <2>1, <2>2
  <1> HIDE DEF r2
  <1>5. [st EXCEPT !.res = r2, !.sec = sec, !.id = id, !.time = t] = Read(r2, sec, id, t, st.name, st.out)
    <2> DEFINE y == st.name
               z == st.out
               s1 == Read(r2, st.sec, st.id, st.time, y, z)
               s2 == Read(r2, sec, st.id, st.time, y, z)
               s3 == Read(r2, sec, id, st.time, y, z)
    <2>1. [st EXCEPT !.res = r2] = s1
      BY <1>2 DEF Read
    <2>2. [s1 EXCEPT !.sec = sec] = s2
      BY DEF Read
    <2>3. [s2 EXCEPT !.id = id] = s3
      BY DEF Read
    <2>4. [s3 EXCEPT !.time = t] = Read(r2, sec, id, t, y, z)
      BY DEF Read
    <2>5. [st EXCEPT !.res = r2, !.sec = sec, !.id = id, !.time = t]
            = [[[[st EXCEPT !.res = r2] EXCEPT !.sec = sec] EXCEPT !.id = id] EXCEPT !.time = t]
      OBVIOUS
    <2> HIDE DEF s1, s2, s3, y, z
    <2>6. [st EXCEPT !.res = r2, !.sec = sec, !.id = id, !.time = t] = Read(r2, sec, id, t, y, z)
      BY <2>1, <2>2, <2>3, <2>4, <2>5
    <2> QED BY <2>6 DEF y, z
  <1> QED BY <1>1, <1>3, <1>4, <1>5 DEF LineBegin, r2, res, b, o, sec, id, t

LEMMA OutLine ==
  ASSUME NEW st \in ReadStates, NEW l \in LineSet, l.kind = "out", NEW q
  PROVE  TextLine(st, l, q) = LineOut(st, l)
  <1> DEFINE v == l.value
  <1>1. TextLine(st, l, q) = ReadOut(st, l)
    BY DEF TextLine
  <1>2. st = Read(st.res, st.sec, st.id, st.time, st.name, st.out)
    BY ReadIs
  <1>3. ReadOut(st, l) = IF st.sec # None /\ st.name # NotFollowing THEN [st EXCEPT !.out = v] ELSE st
    BY DEF ReadOut
  <1> HIDE DEF v
  <1>4. [st EXCEPT !.out = v] = Read(st.res, st.sec, st.id, st.time, st.name, v)
    BY <1>2 DEF Read
  <1> QED BY <1>1, <1>3, <1>4 DEF LineOut, v

LEMMA EndLine ==
  ASSUME NEW st \in ReadStates, NEW l \in LineSet, l.kind = "end", NEW q
  PROVE  TextLine(st, l, q) = LineEnd(st, l, Pending(st, q))
  <1> DEFINE p == Pending(st, q)
             f == Flushed(st, q)
             sec == l.sec
             id == l.id
             t == l.time
             e == IF p.begin[sec][id] # 0 THEN Entered(p.end, sec, id, t) ELSE p.end
             no == NotFollowing
             nil == Nothing
             s2 == IF st.sec = sec THEN None ELSE st.sec
             r2 == Result(p.begin, e, p.order, p.followed, p.matching)
  <1>1. TextLine(st, l, q) = ReadEnd(st, l, q)
    BY DEF TextLine
  <1>2. p \in Results /\ sec \in AB /\ id \in Ids
    BY PendingIs, LinesAre DEF AB
  <1>3. f = Read(p, st.sec, st.id, st.time, no, nil)
    BY FlushedIs
  <1>4. ReadEnd(st, l, q) = [f EXCEPT !.res.end[sec][id] = IF f.res.begin[sec][id] # 0 THEN t ELSE @,
                                      !.sec = IF @ = sec THEN None ELSE @]
    BY DEF ReadEnd
  <1> HIDE DEF p, f, sec, id, t, no, nil
  <1>5. p = Result(p.begin, p.end, p.order, p.followed, p.matching) /\ p.end \in Tables
    BY <1>2, ResultIs
  <1>6. f.res = p /\ f.sec = st.sec
    BY <1>3 DEF Read
  <1>7. [p.end EXCEPT ![sec][id] = IF p.begin[sec][id] # 0 THEN t ELSE p.end[sec][id]] = e
    <2>1. CASE p.begin[sec][id] # 0
      BY <2>1 DEF Entered
    <2>2. CASE p.begin[sec][id] = 0
      BY <1>2, <1>5, <2>2 DEF Tables
    <2> QED BY <2>1, <2>2
  <1> HIDE DEF e, s2
  <1>8. ReadEnd(st, l, q) = [f EXCEPT !.res = [p EXCEPT !.end = e], !.sec = s2]
    <2>1. ReadEnd(st, l, q) = [f EXCEPT !.res = [p EXCEPT !.end = [p.end EXCEPT ![sec][id] = IF p.begin[sec][id] # 0 THEN t ELSE p.end[sec][id]]],
                                        !.sec = IF f.sec = sec THEN None ELSE f.sec]
      BY <1>3, <1>4, <1>6, <1>5 DEF Read, Result
    <2> QED BY <1>6, <1>7, <2>1 DEF s2
  <1>9. [p EXCEPT !.end = e] = r2
    BY <1>5 DEF Result
  <1> HIDE DEF r2
  <1>10. ReadEnd(st, l, q) = Read(r2, s2, st.id, st.time, no, nil)
    BY <1>3, <1>8, <1>9 DEF Read
  <1> QED BY <1>1, <1>10 DEF LineEnd, r2, e, s2, p, sec, id, t, no, nil

LEMMA MarkerLine ==
  ASSUME NEW st \in ReadStates, NEW l \in LineSet, l.kind = "marker", NEW q
  PROVE  /\ TextLine(st, l, q) = LineMarker(st, l, Pending(st, q), q)
         /\ TextName(l.src) \in Names /\ TextName(l.src) # NotFollowing
  <1> DEFINE p == Pending(st, q)
             f == Flushed(st, q)
             name == TextName(l.src)
             m == Matched(p, name)
             no == NotFollowing
             nil == Nothing
  <1>1. TextLine(st, l, q) = ReadMarker(st, l, q)
    BY DEF TextLine
  <1>2. name \in Names /\ name # NotFollowing
    <2>1. l.src.ns = Root /\ l.src.cmd \in Commands
      BY LinesAre DEF Srcs
    <2> QED BY <2>1 DEF TextName, Names, NotFollowing
  <1>3. f = Read(p, st.sec, st.id, st.time, no, nil) /\ p \in Results
    BY FlushedIs, PendingIs
  <1>4. ReadMarker(st, l, q) = IF st.sec = None THEN st
                               ELSE IF ~Wanted(q, name) THEN f ELSE [f EXCEPT !.res = Matched(f.res, name), !.name = name]
    BY DEF ReadMarker, Follows
  <1> HIDE DEF p, f, name, no, nil
  <1>5. f.res = p
    BY <1>3 DEF Read
  <1> HIDE DEF m
  <1>6. [f EXCEPT !.res = m, !.name = name] = Read(m, st.sec, st.id, st.time, name, nil)
    <2> DEFINE f1 == Read(m, st.sec, st.id, st.time, no, nil)
    <2>1. [f EXCEPT !.res = m] = f1
      BY <1>3 DEF Read
    <2>2. [f1 EXCEPT !.name = name] = Read(m, st.sec, st.id, st.time, name, nil)
      BY DEF Read
    <2>3. [f EXCEPT !.res = m, !.name = name] = [[f EXCEPT !.res = m] EXCEPT !.name = name]
      OBVIOUS
    <2> HIDE DEF f1
    <2> QED BY <2>1, <2>2, <2>3
  <1>7. m = Result(p.begin, p.end, p.order, p.followed, p.matching \cup {name})
    BY <1>2, <1>3, MatchedIs DEF m
  <1>8. ReadMarker(st, l, q) = IF st.sec = None THEN st
                               ELSE IF ~Wanted(q, name) THEN f ELSE [f EXCEPT !.res = m, !.name = name]
    BY <1>4, <1>5 DEF m
  <1>9. TextLine(st, l, q) = IF st.sec = None THEN st
                             ELSE IF ~Wanted(q, name) THEN Read(p, st.sec, st.id, st.time, no, nil)
                             ELSE Read(Result(p.begin, p.end, p.order, p.followed, p.matching \cup {name}),
                                       st.sec, st.id, st.time, name, nil)
    BY <1>1, <1>3, <1>6, <1>7, <1>8
  <1> QED BY <1>2, <1>9 DEF LineMarker, p, name, no, nil

LEMMA TextLineType ==
  ASSUME NEW st \in ReadStates, NEW l \in LineSet, NEW q
  PROVE  TextLine(st, l, q) \in ReadStates
  <1> DEFINE p == Pending(st, q)
             res == st.res
  <1>1. /\ res \in Results /\ st.sec \in AB \cup {None} /\ st.id \in Ids /\ st.time \in Nat
        /\ st.name \in Names \cup {NotFollowing} /\ st.out \in Outs /\ p \in Results /\ Nothing \in Outs
    BY ReadIs, PendingIs DEF Outs
  <1> HIDE DEF p, res
  <1>2. /\ res.begin \in Tables /\ res.end \in Tables /\ res.order \in Orders
        /\ res.followed \in Seq(Samples) /\ res.matching \in SUBSET Names
        /\ p.begin \in Tables /\ p.end \in Tables /\ p.order \in Orders
        /\ p.followed \in Seq(Samples) /\ p.matching \in SUBSET Names
    BY <1>1, ResultIs
  <1>3. CASE l.kind = "begin"
    <2> DEFINE r2 == Result(Entered(res.begin, l.sec, l.id, l.time), res.end, Ordered(res.order, l.sec, l.id), res.followed, res.matching)
    <2>1. l.sec \in AB /\ l.id \in Ids /\ l.time \in Nat
      BY <1>3, LinesAre DEF AB, Times
    <2>2. Entered(res.begin, l.sec, l.id, l.time) \in Tables /\ Ordered(res.order, l.sec, l.id) \in Orders
      BY <1>2, <2>1, EnteredIs, OrderedIs
    <2>3. r2 \in Results
      BY <1>2, <2>2, ResultType
    <2>4. TextLine(st, l, q) = IF st.sec # None THEN st ELSE Read(r2, l.sec, l.id, l.time, st.name, st.out)
      BY <1>3, BeginLine DEF LineBegin, res
    <2> HIDE DEF r2
    <2>5. Read(r2, l.sec, l.id, l.time, st.name, st.out) \in ReadStates
      <3>1. l.sec \in AB \cup {None}
        BY <2>1
      <3> QED BY <1>1, <2>1, <2>3, <3>1, ReadType
    <2> QED BY <2>4, <2>5
  <1>4. CASE l.kind = "end"
    <2> DEFINE e == IF p.begin[l.sec][l.id] # 0 THEN Entered(p.end, l.sec, l.id, l.time) ELSE p.end
               r2 == Result(p.begin, e, p.order, p.followed, p.matching)
               s2 == IF st.sec = l.sec THEN None ELSE st.sec
    <2>1. l.sec \in AB /\ l.id \in Ids /\ l.time \in Nat
      BY <1>4, LinesAre DEF AB, Times
    <2>2. e \in Tables
      BY <1>2, <2>1, EnteredIs
    <2>3. r2 \in Results
      <3> HIDE DEF e
      <3> QED BY <1>2, <2>2, ResultType
    <2>4. TextLine(st, l, q) = Read(r2, s2, st.id, st.time, NotFollowing, Nothing)
      BY <1>4, EndLine DEF LineEnd, p
    <2>5. s2 \in AB \cup {None}
      BY <1>1
    <2> HIDE DEF r2, s2
    <2>6. Read(r2, s2, st.id, st.time, NotFollowing, Nothing) \in ReadStates
      <3>1. NotFollowing \in Names \cup {NotFollowing}
        OBVIOUS
      <3> QED BY <1>1, <2>3, <2>5, <3>1, ReadType
    <2> QED BY <2>4, <2>6
  <1>5. CASE l.kind = "marker"
    <2> DEFINE name == TextName(l.src)
               r2 == Result(p.begin, p.end, p.order, p.followed, p.matching \cup {name})
    <2>1. name \in Names
      BY <1>5, MarkerLine
    <2>2. r2 \in Results
      <3>1. p.matching \cup {name} \in SUBSET Names
        BY <1>2, <2>1
      <3> QED BY <1>2, <3>1, ResultType
    <2>3. TextLine(st, l, q) = IF st.sec = None THEN st
                               ELSE IF ~Wanted(q, name) THEN Read(p, st.sec, st.id, st.time, NotFollowing, Nothing)
                               ELSE Read(r2, st.sec, st.id, st.time, name, Nothing)
      BY <1>5, MarkerLine DEF LineMarker, p
    <2> HIDE DEF r2, name
    <2>4. Read(p, st.sec, st.id, st.time, NotFollowing, Nothing) \in ReadStates
      BY <1>1, ReadType
    <2>5. Read(r2, st.sec, st.id, st.time, name, Nothing) \in ReadStates
      BY <1>1, <2>1, <2>2, ReadType
    <2> QED BY <2>3, <2>4, <2>5
  <1>6. CASE l.kind = "out"
    <2>1. l.value \in Outs
      BY <1>6, LinesAre
    <2>2. TextLine(st, l, q) = IF st.sec # None /\ st.name # NotFollowing THEN Read(res, st.sec, st.id, st.time, st.name, l.value) ELSE st
      BY <1>6, OutLine DEF LineOut, res
    <2>3. Read(res, st.sec, st.id, st.time, st.name, l.value) \in ReadStates
      BY <1>1, <2>1, ReadType
    <2> QED BY <2>2, <2>3
  <1> QED BY <1>3, <1>4, <1>5, <1>6, LinesAre

LEMMA Reading0Type ==
  Reading0 \in ReadStates /\ Reading0 = Read(NoResult, None, 0, 0, NotFollowing, Nothing)
  <1>1. Reading0 = Read(NoResult, None, 0, 0, NotFollowing, Nothing)
    BY DEF Reading0, Read
  <1>2. 0 \in Ids /\ Nothing \in Outs
    BY CaptureAssumption DEF Ids, Outs
  <1> QED BY <1>1, <1>2, NoResultType, ReadType

LEMMA TextSteps ==
  ASSUME NEW q
  PROVE  /\ ReadOf(q, <<>>) = Reading0
         /\ \A p \in Seq(LineSet) : ReadOf(q, p) \in ReadStates
         /\ \A p \in Seq(LineSet), x \in LineSet : ReadOf(q, Append(p, x)) = TextLine(ReadOf(q, p), x, q)
  <1> DEFINE H == [w \in LineSet \X ReadStates |-> TextLine(w[2], w[1], q)]
  <1>1. Foldable(LineSet, ReadStates, Reading0, H)
    <2>1. H \in [LineSet \X ReadStates -> ReadStates]
      BY TextLineType
    <2> HIDE DEF H
    <2> QED BY <2>1, Reading0Type DEF Foldable
  <1>2. \A x \in LineSet, v \in ReadStates : H[<<x, v>>] = TextLine(v, x, q)
    OBVIOUS
  <1> HIDE DEF H
  <1>3. ASSUME NEW p \in Seq(LineSet)
        PROVE  ReadOf(q, p) = Fold(H, Reading0, p)
    <2> DEFINE Body(g) == [s \in SUBSET DOMAIN p |-> IF s = {} THEN Reading0 ELSE TextLine(g[s \ {Max(s)}], p[Max(s)], q)]
               iter == CHOOSE g : g = Body(g)
    <2>1. ReadOf(q, p) = iter[DOMAIN p]
      BY DEF ReadOf, FoldLeft, MapThenFoldSet
    <2>2. \E g : g = Body(g)
      <3>1. PICK g : FoldsByIndex(g, p, LineSet, ReadStates, Reading0, H)
        BY <1>1, FoldByIndex
      <3>2. g = [s \in SUBSET DOMAIN p |-> g[s]] /\ g[{}] = Reading0
        BY <3>1 DEF FoldsByIndex
      <3>3. \A s \in SUBSET DOMAIN p : s # {} => g[s] = TextLine(g[s \ {Max(s)}], p[Max(s)], q)
        BY <1>2, <3>1 DEF FoldsByIndex
      <3> QED BY <3>2, <3>3
    <2>3. iter = Body(iter)
      BY <2>2
    <2>4. iter[{}] = Reading0
      BY <2>3
    <2>5. ASSUME NEW s \in SUBSET DOMAIN p, s # {}
          PROVE  p[Max(s)] \in LineSet /\ iter[s] = TextLine(iter[s \ {Max(s)}], p[Max(s)], q)
      <3>1. Max(s) \in DOMAIN p
        BY <2>5, MaxOfFinite, LenProperties
      <3>2. p[Max(s)] \in LineSet
        BY <3>1
      <3> QED BY <2>3, <2>5, <3>2
    <2> HIDE DEF iter
    <2>6. ByIndex(iter, p, Reading0, ReadStates, H)
      BY <1>2, <2>4, <2>5 DEF ByIndex
    <2> QED BY <1>1, <2>1, <2>6, FoldByIndex
  <1>4. <<>> \in Seq(LineSet)
    BY EmptySeq
  <1>5. ReadOf(q, <<>>) = Reading0
    <2>1. PICK e \in Seq(LineSet) : e = <<>>
      BY <1>4
    <2>2. Fold(H, Reading0, <<>>) = Reading0
      BY <1>1, FoldSteps
    <2>3. ReadOf(q, e) = Fold(H, Reading0, e)
      BY <1>3
    <2> QED BY <2>1, <2>2, <2>3
  <1>6. \A p \in Seq(LineSet) : ReadOf(q, p) \in ReadStates
    BY <1>1, <1>3, FoldSteps
  <1>7. ASSUME NEW p \in Seq(LineSet), NEW x \in LineSet
        PROVE  ReadOf(q, Append(p, x)) = TextLine(ReadOf(q, p), x, q)
    <2> DEFINE a == Append(p, x)
    <2>1. a \in Seq(LineSet)
      BY AppendProperties
    <2>2. Fold(H, Reading0, a) = H[<<x, Fold(H, Reading0, p)>>]
      BY <1>1, FoldSteps
    <2> HIDE DEF a
    <2>3. ReadOf(q, a) = Fold(H, Reading0, a) /\ ReadOf(q, p) = Fold(H, Reading0, p)
      BY <1>3, <2>1
    <2> QED BY <1>2, <1>6, <2>2, <2>3 DEF a
  <1> QED BY <1>5, <1>6, <1>7

\* Samples without their times, in which the files differ.
Notime(x)  == [x EXCEPT !.time = 0]
Untimed(f) == [k \in DOMAIN f |-> Notime(f[k])]

LEMMA NotimeIs ==
  ASSUME NEW x \in Samples
  PROVE  Notime(x) \in Samples
  BY DEF Notime, Samples

LEMMA UntimedIs ==
  ASSUME NEW f \in Seq(Samples)
  PROVE  /\ Untimed(f) \in Seq(Samples) /\ (f = <<>> => Untimed(f) = <<>>)
         /\ \A x \in Samples : Untimed(Append(f, x)) = Append(Untimed(f), Notime(x))
  <1> DEFINE m == Len(f)
             c == Untimed(f)
  <1>1. m \in Nat /\ DOMAIN f = 1 .. m /\ \A k \in 1 .. m : f[k] \in Samples
    BY LenProperties, ElementOfSeq
  <1>2. c \in [1 .. m -> Samples] /\ \A k \in 1 .. m : c[k] = Notime(f[k])
    BY <1>1, NotimeIs DEF Untimed
  <1> HIDE DEF c
  <1>3. c \in Seq(Samples) /\ Len(c) = m
    <2> HIDE DEF m
    <2> QED BY <1>1, <1>2, SeqDef, LenProperties
  <1>4. ASSUME f = <<>> PROVE c = <<>>
    <2>1. Len(f) = 0
      BY <1>4
    <2> QED BY <1>3, <2>1, EmptySeq
  <1>5. ASSUME NEW x \in Samples
        PROVE  Untimed(Append(f, x)) = Append(c, Notime(x))
    <2> DEFINE a == Append(f, x)
               y == Notime(x)
               b == Append(c, y)
               p == Untimed(a)
    <2>1. a \in Seq(Samples) /\ Len(a) = m + 1 /\ a[m + 1] = x /\ (\A k \in 1 .. m : a[k] = f[k]) /\ DOMAIN a = 1 .. m + 1
      BY AppendProperties, LenProperties
    <2>2. y \in Samples
      BY NotimeIs
    <2> HIDE DEF m, a
    <2>3. \A k \in 1 .. m + 1 : a[k] \in Samples
      BY <2>1, ElementOfSeq
    <2>4. p \in [1 .. m + 1 -> Samples] /\ \A k \in 1 .. m + 1 : p[k] = Notime(a[k])
      BY <2>1, <2>3, NotimeIs DEF Untimed
    <2> HIDE DEF p
    <2>5. p \in Seq(Samples) /\ Len(p) = m + 1
      BY <1>1, <2>4, SeqDef, LenProperties
    <2>6. b \in Seq(Samples) /\ Len(b) = m + 1 /\ b[m + 1] = y /\ \A k \in 1 .. m : b[k] = c[k]
      <3> HIDE DEF y
      <3> QED BY <1>3, <2>2, AppendProperties
    <2> HIDE DEF b
    <2>7. \A k \in 1 .. m + 1 : p[k] = b[k]
      <3> SUFFICES ASSUME NEW k \in 1 .. m + 1 PROVE p[k] = b[k]
        OBVIOUS
      <3>1. CASE k \in 1 .. m
        BY <1>2, <2>1, <2>4, <2>6, <3>1
      <3>2. CASE k = m + 1
        BY <1>1, <2>1, <2>4, <2>6, <3>2
      <3> QED BY <1>1, <3>1, <3>2
    <2>8. p = b
      BY <2>5, <2>6, <2>7, SeqEqual
    <2> QED BY <2>8 DEF p, a, b
  <1> QED BY <1>3, <1>4, <1>5 DEF c

\* A value added to both leaves them the same but for the time.
LEMMA GrownSame ==
  ASSUME NEW f \in Seq(Samples), NEW g \in Seq(Samples), Untimed(f) = Untimed(g), NEW q, NEW name \in Names,
         NEW sec, NEW id \in Ids, NEW t \in Nat, NEW u \in Nat, NEW v \in Outs
  PROVE  Untimed(Grown(f, q, name, sec, id, t, v)) = Untimed(Grown(g, q, name, sec, id, u, v))
  <1> DEFINE w == Extracted(name[1], v)
             x == SampleOf(name, id, t, w, v)
             y == SampleOf(name, id, u, w, v)
             skip == ~ShouldTrackSection(q.type, sec) \/ w = Absent
  <1>1. w \in Values
    BY DEF Names, Values
  <1>2. Grown(f, q, name, sec, id, t, v) = (IF skip THEN f ELSE Append(f, x)) /\ Grown(g, q, name, sec, id, u, v) = (IF skip THEN g ELSE Append(g, y))
    BY DEF Grown
  <1> HIDE DEF w, skip
  <1>3. x \in Samples /\ y \in Samples
    BY <1>1 DEF Samples, SampleOf
  <1>4. Notime(x) = Notime(y)
    BY DEF Notime, SampleOf
  <1> HIDE DEF x, y
  <1>5. Untimed(Append(f, x)) = Untimed(Append(g, y))
    <2>1. Untimed(Append(f, x)) = Append(Untimed(f), Notime(x))
      BY <1>3, UntimedIs
    <2>2. Untimed(Append(g, y)) = Append(Untimed(g), Notime(y))
      BY <1>3, UntimedIs
    <2> QED BY <1>4, <2>1, <2>2
  <1> QED BY <1>2, <1>5

\* What one value more makes of the samples.
LEMMA GrownBy ==
  ASSUME NEW f \in Seq(Samples), NEW q, NEW name \in Names, NEW sec, NEW id \in Ids, NEW t \in Nat, NEW v \in Outs
  PROVE  \/ Grown(f, q, name, sec, id, t, v) = f
         \/ \E x \in Samples : Untimed(Grown(f, q, name, sec, id, t, v)) = Append(Untimed(f), x)
  <1> DEFINE w == Extracted(name[1], v)
             x == SampleOf(name, id, t, w, v)
  <1>1. w \in Values
    BY DEF Names, Values
  <1>2. x \in Samples
    BY <1>1 DEF Samples, SampleOf
  <1>3. Grown(f, q, name, sec, id, t, v) \in {f, Append(f, x)}
    BY DEF Grown
  <1> HIDE DEF x
  <1>4. Untimed(Append(f, x)) = Append(Untimed(f), Notime(x)) /\ Notime(x) \in Samples
    BY <1>2, UntimedIs, NotimeIs
  <1> QED BY <1>3, <1>4

SameTables(a, b) == a.begin = b.begin /\ a.end = b.end /\ a.order = b.order

\* What a command of a section does to the parser of the text file.
LEMMA CollectReads ==
  ASSUME CaptureInv, NEW src \in Srcs, NEW v \in Outs, NEW q, ReadOf(q, lines).sec # None
  PROVE  LET st == ReadOf(q, lines)
             T  == ReadOf(q, lines \o Shown(src, v))
             p  == Pending(st, q)
             name == <<src.cmd>>
         IN  /\ st \in ReadStates /\ T \in ReadStates /\ T.sec = st.sec /\ T.id = st.id /\ SameTables(T.res, st.res)
             /\ T.res.followed = p.followed /\ T.time = st.time
             /\ Wanted(q, name) => T.res.matching = p.matching \cup {name} /\ T.name = name /\ T.out = v
             /\ ~Wanted(q, name) => T.res.matching = p.matching /\ T.name = NotFollowing
  <1> DEFINE st == ReadOf(q, lines)
             m == Marker(src)
             o == Out(v)
             p == Pending(st, q)
             name == <<src.cmd>>
             T1 == TextLine(st, m, q)
             T2 == TextLine(T1, o, q)
             r2 == Result(p.begin, p.end, p.order, p.followed, p.matching \cup {name})
  <1>1. m \in LineSet /\ o \in LineSet /\ lines \in Seq(LineSet) /\ Append(lines, m) \in Seq(LineSet)
    BY ShownLines, AppendProperties DEF CaptureInv, TypeInv
  <1>2. m.kind = "marker" /\ m.src = src /\ o.kind = "out" /\ o.value = v /\ TextName(m.src) = name
    BY DEF Marker, Out, TextName, Srcs
  <1>3. lines \o Shown(src, v) = IF v = Nothing THEN Append(lines, m) ELSE Append(Append(lines, m), o)
    BY ShownLines
  <1> HIDE DEF m, o
  <1>4. st \in ReadStates /\ ReadOf(q, Append(lines, m)) = T1 /\ ReadOf(q, Append(Append(lines, m), o)) = T2
    BY <1>1, TextSteps
  <1>5. ReadOf(q, lines \o Shown(src, v)) = IF v = Nothing THEN T1 ELSE T2
    BY <1>3, <1>4
  <1>6. T1 = LineMarker(st, m, p, q) /\ name \in Names /\ name # NotFollowing
    BY <1>1, <1>2, <1>4, MarkerLine
  <1>7. T1 \in ReadStates
    BY <1>1, <1>4, TextLineType
  <1>8. T2 = LineOut(T1, o)
    <2> HIDE DEF T1
    <2> QED BY <1>1, <1>2, <1>7, OutLine
  <1>9. st.sec # None
    OBVIOUS
  <1> HIDE DEF st, name, T1, T2
  <1>10. T1 = IF ~Wanted(q, name) THEN Read(p, st.sec, st.id, st.time, NotFollowing, Nothing)
              ELSE Read(r2, st.sec, st.id, st.time, name, Nothing)
    BY <1>2, <1>6, <1>9 DEF LineMarker
  <1>11. p \in Results /\ SameTables(p, st.res)
    BY <1>4, PendingIs DEF SameTables
  <1> HIDE DEF p
  <1>12. p.begin \in Tables /\ p.end \in Tables /\ p.order \in Orders /\ p.followed \in Seq(Samples) /\ p.matching \in SUBSET Names
    BY <1>11, ResultIs
  <1>13. /\ r2 \in Results /\ r2.begin = p.begin /\ r2.end = p.end /\ r2.order = p.order
         /\ r2.followed = p.followed /\ r2.matching = p.matching \cup {name}
    <2>1. p.matching \cup {name} \in SUBSET Names
      BY <1>6, <1>12
    <2> QED BY <1>12, <2>1, ResultType
  <1> HIDE DEF r2
  <1>14. st.sec \in AB \cup {None} /\ st.id \in Ids /\ st.time \in Nat /\ Nothing \in Outs
    BY <1>4, ReadIs DEF Outs
  <1> DEFINE T == ReadOf(q, lines \o Shown(src, v))
  <1> HIDE DEF T
  <1>15. CASE ~Wanted(q, name)
    <2>1. /\ T1.res = p /\ T1.sec = st.sec /\ T1.id = st.id /\ T1.time = st.time /\ T1.name = NotFollowing
      BY <1>10, <1>15 DEF Read
    <2>2. T2 = T1
      BY <1>8, <2>1 DEF LineOut
    <2>3. T = T1
      BY <1>5, <2>2 DEF T
    <2> QED BY <1>4, <1>7, <1>11, <1>15, <2>1, <2>3 DEF SameTables, T, st, p, name
  <1>16. CASE Wanted(q, name)
    <2>1. /\ T1.res = r2 /\ T1.sec = st.sec /\ T1.id = st.id /\ T1.time = st.time /\ T1.name = name /\ T1.out = Nothing
      BY <1>10, <1>16 DEF Read
    <2>2. T2 = Read(r2, st.sec, st.id, st.time, name, v)
      BY <1>2, <1>6, <1>8, <1>9, <2>1 DEF LineOut
    <2>3. /\ T2 \in ReadStates /\ T2.res = r2 /\ T2.sec = st.sec /\ T2.id = st.id /\ T2.time = st.time /\ T2.name = name /\ T2.out = v
      <3>1. name \in Names \cup {NotFollowing}
        BY <1>6
      <3>2. T2 \in ReadStates
        BY <1>13, <1>14, <2>2, <3>1, ReadType
      <3> QED BY <2>2, <3>2 DEF Read
    <2>4. /\ T \in ReadStates /\ T.res = r2 /\ T.sec = st.sec /\ T.id = st.id /\ T.time = st.time /\ T.name = name /\ T.out = v
      BY <1>5, <1>7, <2>1, <2>3 DEF T
    <2>5. SameTables(r2, st.res)
      BY <1>11, <1>13 DEF SameTables
    <2> QED BY <1>4, <1>13, <1>16, <2>4, <2>5 DEF T, st, p, name
  <1> QED BY <1>15, <1>16 DEF T, st, p, name

\* The parser of the text file has read what that of the CBOR file has, but for
\* the output it still keeps.
Following(st, res, sec, n, q) ==
    /\ st.sec = (IF sec \in AB THEN sec ELSE None)
    /\ sec \in AB => st.id = n
    /\ st.name # NotFollowing => sec \in AB
    /\ st.res.matching = res.matching
    /\ Untimed(Pending(st, q).followed) = Untimed(res.followed)

FollowInv == run = 1 => \A q \in Qs : Following(ReadOf(q, lines), CBOROf(q, recs), section, seq, q)

LEMMA InitFollow ==
  ASSUME Init
  PROVE  FollowInv
  <1>1. recs = <<>> /\ lines = <<>> /\ section = "init" /\ section \notin AB
    BY DEF Init, CaptureInit, AB
  <1>2. ASSUME NEW q PROVE Following(ReadOf(q, lines), CBOROf(q, recs), section, seq, q)
    <2>1. ReadOf(q, lines) = Reading0 /\ CBOROf(q, recs) = NoResult
      BY <1>1, TextSteps, CBORSteps
    <2>2. /\ Reading0.res = NoResult /\ Reading0.sec = None /\ Reading0.name = NotFollowing
      BY DEF Reading0
    <2>3. Pending(Reading0, q) = NoResult
      BY <2>2 DEF Pending
    <2> QED BY <1>1, <2>1, <2>2, <2>3 DEF Following
  <1> QED BY <1>2 DEF FollowInv

\* A sample of a section adds the same to both.
LEMMA CollectFollowed ==
  ASSUME CaptureInv, NEW src \in Srcs, NEW v \in Outs, Collects(src, v), section \in AB, NEW q,
         Following(ReadOf(q, lines), CBOROf(q, recs), section, seq, q)
  PROVE  Following(ReadOf(q, lines \o Shown(src, v)), CBOROf(q, recs'), section, seq, q)
  <1> DEFINE st == ReadOf(q, lines)
             T == ReadOf(q, lines \o Shown(src, v))
             p == Pending(st, q)
             name == <<src.cmd>>
             R == CBOROf(q, recs)
             R2 == CBOROf(q, recs')
             r == Added(src, v)
             w == Wanted(q, name)
  <1>1. recs \in Seq(RecSet) /\ r \in RecSet /\ recs' = Append(recs, r)
    BY DEF Collects, CaptureInv, TypeInv
  <1>2. r.cmd = src.cmd /\ r.out = v /\ r.sec = section /\ r.seq = seq /\ r.time = clock
    BY DEF Added
  <1>3. R \in Results /\ R2 = ValueSample(R, r, q)
    <2> HIDE DEF r
    <2> QED BY <1>1, CBORSteps
  <1> HIDE DEF r, R2, R
  <1>4. R2 = Sampled(R, r, q)
    <2>1. r.sec # "init"
      BY <1>2 DEF AB
    <2> QED BY <1>1, <1>3, <2>1, ValueSampleIs
  <1>5. /\ R2.followed = (IF w THEN Grown(R.followed, q, name, section, seq, clock, v) ELSE R.followed)
        /\ R2.matching = (IF w THEN R.matching \cup {name} ELSE R.matching)
    BY <1>2, <1>4 DEF Sampled, Result
  <1>6. /\ st.sec = section /\ st.id = seq /\ st.res.matching = R.matching
        /\ Untimed(p.followed) = Untimed(R.followed)
    BY DEF Following, R
  <1>7. section # None /\ name \in Names /\ name # NotFollowing /\ seq \in Ids /\ clock \in Nat
    <2>1. src.cmd \in Commands
      BY DEF Srcs
    <2> QED BY <2>1 DEF AB, None, Names, NotFollowing, CaptureInv, TypeInv, Times
  <1>8. /\ st \in ReadStates /\ T \in ReadStates /\ T.sec = st.sec /\ T.id = st.id
        /\ T.res.followed = p.followed /\ T.time = st.time
        /\ w => T.res.matching = p.matching \cup {name} /\ T.name = name /\ T.out = v
        /\ ~w => T.res.matching = p.matching /\ T.name = NotFollowing
    BY <1>6, <1>7, CollectReads
  <1> HIDE DEF st, T
  <1>9. p \in Results /\ p.matching = st.res.matching
    BY <1>8, PendingIs
  <1> HIDE DEF p
  <1>10. p.followed \in Seq(Samples) /\ R.followed \in Seq(Samples) /\ T.time \in Nat
    BY <1>3, <1>8, <1>9, ResultIs, ReadIs
  <1>11. Pending(T, q).followed = IF w THEN Grown(p.followed, q, name, section, seq, T.time, v) ELSE p.followed
    <2>1. Pending(T, q).followed = IF T.name = NotFollowing THEN T.res.followed
                                   ELSE Grown(T.res.followed, q, T.name, T.sec, T.id, T.time, T.out)
      BY <1>8, PendingIs
    <2>2. CASE w
      BY <1>6, <1>7, <1>8, <2>1, <2>2
    <2>3. CASE ~w
      BY <1>8, <2>1, <2>3
    <2> QED BY <2>2, <2>3
  <1> HIDE DEF w, name
  <1>12. Untimed(Pending(T, q).followed) = Untimed(R2.followed)
    <2>1. CASE w
      <3>1. Untimed(Grown(p.followed, q, name, section, seq, T.time, v)) = Untimed(Grown(R.followed, q, name, section, seq, clock, v))
        BY <1>6, <1>7, <1>10, GrownSame
      <3> QED BY <1>5, <1>11, <2>1, <3>1
    <2>2. CASE ~w
      BY <1>5, <1>6, <1>11, <2>2
    <2> QED BY <2>1, <2>2
  <1>13. T.res.matching = R2.matching
    BY <1>5, <1>6, <1>8, <1>9
  <1>14. Following(T, R2, section, seq, q)
    BY <1>6, <1>8, <1>12, <1>13 DEF Following
  <1> QED BY <1>14 DEF T, R2

\* Commands of the init section are neither's.
LEMMA CollectIgnored ==
  ASSUME CaptureInv, NEW src \in Srcs, NEW v \in Outs, Collects(src, v), section \notin AB, NEW q,
         ReadOf(q, lines).sec = None
  PROVE  ReadOf(q, lines \o Shown(src, v)) = ReadOf(q, lines) /\ CBOROf(q, recs') = CBOROf(q, recs)
  <1> DEFINE st == ReadOf(q, lines)
             m == Marker(src)
             o == Out(v)
             r == Added(src, v)
  <1>1. CBOROf(q, recs') = CBOROf(q, recs)
    <2>1. recs \in Seq(RecSet) /\ r \in RecSet /\ recs' = Append(recs, r)
      BY DEF Collects, CaptureInv, TypeInv
    <2>2. r.sec = "init"
      BY DEF Added, Collects, Sections, AB
    <2> HIDE DEF r
    <2>3. CBOROf(q, recs) \in Results /\ CBOROf(q, recs') = ValueSample(CBOROf(q, recs), r, q)
      BY <2>1, CBORSteps
    <2> QED BY <2>1, <2>2, <2>3, ValueSampleIs
  <1>2. m \in LineSet /\ o \in LineSet /\ lines \in Seq(LineSet) /\ Append(lines, m) \in Seq(LineSet)
    BY ShownLines, AppendProperties DEF CaptureInv, TypeInv
  <1>3. m.kind = "marker" /\ o.kind = "out"
    BY DEF Marker, Out
  <1>4. lines \o Shown(src, v) = IF v = Nothing THEN Append(lines, m) ELSE Append(Append(lines, m), o)
    BY ShownLines
  <1>5. st.sec = None
    OBVIOUS
  <1> HIDE DEF m, o
  <1>6. st \in ReadStates /\ ReadOf(q, Append(lines, m)) = TextLine(st, m, q)
    BY <1>2, TextSteps
  <1>7. ReadOf(q, Append(Append(lines, m), o)) = TextLine(ReadOf(q, Append(lines, m)), o, q)
    BY <1>2, TextSteps
  <1> HIDE DEF st
  <1>8. TextLine(st, m, q) = st
    BY <1>2, <1>3, <1>5, <1>6, MarkerLine DEF LineMarker
  <1>9. TextLine(st, o, q) = st
    BY <1>2, <1>3, <1>5, <1>6, OutLine DEF LineOut
  <1>10. ReadOf(q, lines \o Shown(src, v)) = st
    BY <1>4, <1>6, <1>7, <1>8, <1>9
  <1> QED BY <1>1, <1>10 DEF st

\* What the markers of sections do to the parser of the text file.
LEMMA BeginReads ==
  ASSUME CaptureInv, BeginSection, run = 1, NEW q, ReadOf(q, lines).sec = None
  PROVE  LET st == ReadOf(q, lines)
             T  == ReadOf(q, lines')
         IN  /\ st \in ReadStates /\ T \in ReadStates /\ T.sec = next /\ T.id = seq /\ T.time = clock
             /\ T.name = st.name /\ T.out = st.out
             /\ T.res.begin = Entered(st.res.begin, next, seq, clock) /\ T.res.end = st.res.end
             /\ T.res.order = Ordered(st.res.order, next, seq)
             /\ T.res.followed = st.res.followed /\ T.res.matching = st.res.matching
  <1> DEFINE st == ReadOf(q, lines)
             l == Begin(next)
             b == Entered(st.res.begin, l.sec, l.id, l.time)
             o == Ordered(st.res.order, l.sec, l.id)
             r2 == Result(b, st.res.end, o, st.res.followed, st.res.matching)
  <1>1. lines' = lines \o <<l>>
    BY DEF BeginSection, Printed
  <1>2. l \in LineSet /\ l.kind = "begin" /\ lines \in Seq(LineSet) /\ lines \o <<l>> = Append(lines, l)
    BY MarkedLines, LinesGrow DEF Begin, CaptureInv, TypeInv
  <1>3. l.sec = next /\ l.id = seq /\ l.time = clock
    BY DEF Begin
  <1> HIDE DEF l
  <1>4. st \in ReadStates /\ ReadOf(q, lines') = TextLine(st, l, q) /\ st.sec = None
    BY <1>1, <1>2, TextSteps
  <1> HIDE DEF st
  <1>5. TextLine(st, l, q) = Read(r2, l.sec, l.id, l.time, st.name, st.out) /\ TextLine(st, l, q) \in ReadStates
    BY <1>2, <1>4, BeginLine, TextLineType DEF LineBegin
  <1>6. r2.begin = b /\ r2.end = st.res.end /\ r2.order = o /\ r2.followed = st.res.followed /\ r2.matching = st.res.matching
    BY DEF Result
  <1> HIDE DEF r2, b, o
  <1> DEFINE T == ReadOf(q, lines')
  <1>7. T = Read(r2, l.sec, l.id, l.time, st.name, st.out) /\ T \in ReadStates
    BY <1>4, <1>5
  <1> HIDE DEF T
  <1>8. T.res = r2 /\ T.sec = next /\ T.id = seq /\ T.time = clock /\ T.name = st.name /\ T.out = st.out
    BY <1>3, <1>7 DEF Read
  <1> QED BY <1>3, <1>4, <1>6, <1>7, <1>8 DEF T, st, b, o

LEMMA EndReads ==
  ASSUME CaptureInv, EndSection, run = 1, section \in AB, NEW q, ReadOf(q, lines).sec = section
  PROVE  LET st == ReadOf(q, lines)
             T  == ReadOf(q, lines')
             p  == Pending(st, q)
             t  == IF section = "A" THEN now ELSE clock
         IN  /\ st \in ReadStates /\ T \in ReadStates /\ T.sec = None /\ T.name = NotFollowing
             /\ T.res.begin = st.res.begin /\ T.res.order = st.res.order
             /\ T.res.end = IF st.res.begin[section][seq] # 0 THEN Entered(st.res.end, section, seq, t) ELSE st.res.end
             /\ T.res.followed = p.followed /\ T.res.matching = p.matching
  <1> DEFINE st == ReadOf(q, lines)
             l == End(section)
             p == Pending(st, q)
             t == IF section = "A" THEN now ELSE clock
             e == IF p.begin[l.sec][l.id] # 0 THEN Entered(p.end, l.sec, l.id, l.time) ELSE p.end
             r2 == Result(p.begin, e, p.order, p.followed, p.matching)
  <1>1. lines' = lines \o <<l>>
    <2>1. section # "init"
      BY DEF AB
    <2> QED BY <2>1 DEF EndSection, Printed
  <1>2. l \in LineSet /\ l.kind = "end" /\ lines \in Seq(LineSet) /\ lines \o <<l>> = Append(lines, l)
    BY MarkedLines, LinesGrow DEF End, CaptureInv, TypeInv, AB
  <1>3. l.sec = section /\ l.id = seq /\ l.time = t
    BY DEF End
  <1> HIDE DEF l, t
  <1>4. st \in ReadStates /\ ReadOf(q, lines') = TextLine(st, l, q) /\ st.sec = section
    BY <1>1, <1>2, TextSteps
  <1> HIDE DEF st
  <1>5. p \in Results /\ SameTables(p, st.res)
    BY <1>4, PendingIs DEF SameTables
  <1>6. TextLine(st, l, q) = Read(r2, None, st.id, st.time, NotFollowing, Nothing) /\ TextLine(st, l, q) \in ReadStates
    BY <1>2, <1>3, <1>4, EndLine, TextLineType DEF LineEnd
  <1> HIDE DEF p
  <1>7. r2.begin = p.begin /\ r2.end = e /\ r2.order = p.order /\ r2.followed = p.followed /\ r2.matching = p.matching
    BY DEF Result
  <1> HIDE DEF r2
  <1> DEFINE T == ReadOf(q, lines')
  <1>8. T = Read(r2, None, st.id, st.time, NotFollowing, Nothing) /\ T \in ReadStates
    BY <1>4, <1>6
  <1> HIDE DEF T
  <1>9. T.res = r2 /\ T.sec = None /\ T.name = NotFollowing
    BY <1>8 DEF Read
  <1> QED BY <1>3, <1>4, <1>5, <1>7, <1>8, <1>9 DEF T, st, p, t, SameTables

LEMMA NextFollow ==
  ASSUME RootOnly, CaptureInv, FollowInv, [Next]_vars
  PROVE  FollowInv'
  <1>1. CASE Collect
    <2>1. PICK src \in Srcs, v \in Outs : Collects(src, v)
      BY <1>1, CollectAdds
    <2>2. UNCHANGED <<run, section, seq>> /\ lines' = IF run = 1 THEN lines \o Shown(src, v) ELSE lines
      BY <2>1 DEF Collects
    <2>3. ASSUME run = 1, NEW q \in Qs
          PROVE  Following(ReadOf(q, lines'), CBOROf(q, recs'), section, seq, q)
      <3>1. Following(ReadOf(q, lines), CBOROf(q, recs), section, seq, q)
        BY <2>3 DEF FollowInv
      <3>2. lines' = lines \o Shown(src, v)
        BY <2>2, <2>3
      <3>3. CASE section \in AB
        BY <2>1, <3>1, <3>2, <3>3, CollectFollowed
      <3>4. CASE section \notin AB
        <4>1. ReadOf(q, lines).sec = None
          BY <3>1, <3>4 DEF Following
        <4> QED BY <2>1, <3>1, <3>2, <3>4, <4>1, CollectIgnored
      <3> QED BY <3>3, <3>4
    <2> QED BY <2>2, <2>3 DEF FollowInv
  <1>2. CASE BeginSection
    <2>1. UNCHANGED <<run, recs, seq>> /\ section = None /\ section' = next /\ next \in AB
      BY <1>2 DEF BeginSection, CaptureInv, TypeInv, AB
    <2>2. ASSUME run = 1, NEW q \in Qs
          PROVE  Following(ReadOf(q, lines'), CBOROf(q, recs), next, seq, q)
      <3> DEFINE st == ReadOf(q, lines)
                 T  == ReadOf(q, lines')
                 R  == CBOROf(q, recs)
      <3>1. Following(st, R, section, seq, q)
        BY <2>2 DEF FollowInv
      <3>2. section \notin AB
        BY <2>1 DEF AB, None
      <3>3. st.sec = None /\ st.name = NotFollowing /\ st.res.matching = R.matching
            /\ Untimed(Pending(st, q).followed) = Untimed(R.followed)
        <4> HIDE DEF st, R
        <4> QED BY <3>1, <3>2 DEF Following
      <3>4. /\ T.sec = next /\ T.id = seq /\ T.name = st.name
            /\ T.res.followed = st.res.followed /\ T.res.matching = st.res.matching
        BY <1>2, <2>2, <3>3, BeginReads
      <3> HIDE DEF st, T, R
      <3>5. Pending(T, q) = T.res /\ Pending(st, q) = st.res
        BY <3>3, <3>4 DEF Pending
      <3>6. Following(T, R, next, seq, q)
        BY <2>1, <3>3, <3>4, <3>5 DEF Following
      <3> QED BY <3>6 DEF T, R
    <2> QED BY <2>1, <2>2 DEF FollowInv
  <1>3. CASE EndSection
    <2>1. UNCHANGED <<run, recs>> /\ section' = None /\ section # None /\ section \in Sections /\ lines \in Seq(LineSet)
          /\ lines' = IF run = 1 THEN lines \o (IF section = "init" THEN <<>> ELSE <<End(section)>>) ELSE lines
      BY <1>3 DEF EndSection, Printed, CaptureInv, TypeInv
    <2>2. None \notin AB
      BY DEF None, AB
    <2>3. ASSUME run = 1, NEW q \in Qs, NEW n
          PROVE  Following(ReadOf(q, lines'), CBOROf(q, recs), None, n, q)
      <3> DEFINE st == ReadOf(q, lines)
                 T  == ReadOf(q, lines')
                 R  == CBOROf(q, recs)
                 p  == Pending(st, q)
      <3>1. Following(st, R, section, seq, q)
        BY <2>3 DEF FollowInv
      <3>2. CASE section = "init"
        <4>1. section \notin AB
          BY <3>2 DEF AB
        <4>2. lines' = lines
          <5>1. lines' = lines \o <<>>
            BY <2>1, <2>3, <3>2
          <5> QED BY <2>1, <5>1, ConcatEmptySeq
        <4> HIDE DEF st, R
        <4>3. Following(st, R, None, n, q)
          BY <2>2, <3>1, <4>1 DEF Following
        <4> QED BY <4>2, <4>3 DEF st, R
      <3>3. CASE section \in AB
        <4>1. st.sec = section /\ st.res.matching = R.matching /\ Untimed(p.followed) = Untimed(R.followed)
          <5> HIDE DEF st, R
          <5> QED BY <3>1, <3>3 DEF Following
        <4>2. /\ st \in ReadStates /\ T.sec = None /\ T.name = NotFollowing
              /\ T.res.followed = p.followed /\ T.res.matching = p.matching
          BY <1>3, <2>3, <3>3, <4>1, EndReads
        <4> HIDE DEF st, T, R
        <4>3. p.matching = st.res.matching
          BY <4>2, PendingIs
        <4> HIDE DEF p
        <4>4. Pending(T, q) = T.res
          BY <4>2 DEF Pending
        <4>5. Following(T, R, None, n, q)
          BY <2>2, <4>1, <4>2, <4>3, <4>4 DEF Following
        <4> QED BY <4>5 DEF T, R
      <3> QED BY <2>1, <3>2, <3>3 DEF Sections, AB
    <2> QED BY <2>1, <2>3 DEF FollowInv
  <1>4. CASE Restart
    <2>1. run' # 1
      BY <1>4 DEF Restart, CaptureInv, TypeInv, Times
    <2> QED BY <2>1 DEF FollowInv
  <1>5. CASE UNCHANGED <<run, recs, lines, section, seq>>
    BY <1>5 DEF FollowInv
  <1>6. HostStep \/ UNCHANGED vars => UNCHANGED <<run, recs, lines, section, seq>>
    BY DEF HostStep, vars, captureVars
  <1> QED BY <1>1, <1>2, <1>3, <1>4, <1>5, <1>6 DEF Next, CaptureNext

-----------------------------------------------------------------------------
(* The samples of /proc/stat without a value, which only -command has.      *)

\* The sample that WithOutput adds, when there is no value.
Valueless(res, r) ==
    Result(res.begin, res.end, res.order, Append(res.followed, SampleOf(<<r.cmd>>, r.seq, r.time, 0, r.out)), res.matching)

LEMMA CBORSampleIs ==
  ASSUME NEW res \in Results, NEW r \in RecSet, NEW q
  PROVE  \/ CBORSample(res, r, q) = ValueSample(res, r, q)
         \/ /\ q.mode = "command" /\ "stat" \in q.cmds /\ r.cmd = "stat" /\ Extracted(r.cmd, r.out) = Absent
            /\ CBORSample(res, r, q) = Valueless(ValueSample(res, r, q), r)
  <1> DEFINE name == <<r.cmd>>
             z == Matched(Indexed(res, r), name)
             x == SampleOf(name, r.seq, r.time, 0, r.out)
             extra == q.mode = "command" /\ r.cmd = "stat" /\ ShouldTrackSection(q.type, r.sec)
                        /\ Extracted(r.cmd, r.out) = Absent
  <1>1. CASE r.sec = "init" \/ ~Wanted(q, name)
    BY <1>1 DEF CBORSample, ValueSample
  <1>2. CASE r.sec # "init" /\ Wanted(q, name)
    <2>1. name[1] = r.cmd
      OBVIOUS
    <2>2. CBORSample(res, r, q) = WithOutput(z, q, name, r)
      BY <1>2 DEF CBORSample
    <2>3. ValueSample(res, r, q) = WithSample(z, q, name, r.sec, r.seq, r.time, r.out)
      BY <1>2 DEF ValueSample
    <2>4. "stat" \in q.cmds \/ r.cmd # "stat"
      BY <1>2, <2>1 DEF Wanted
    <2>5. WithOutput(z, q, name, r) = IF extra THEN [z EXCEPT !.followed = Append(@, x)]
                                      ELSE WithSample(z, q, name, r.sec, r.seq, r.time, r.out)
      BY DEF WithOutput
    <2>6. Extracted(r.cmd, r.out) = Absent => WithSample(z, q, name, r.sec, r.seq, r.time, r.out) = z
      BY <2>1 DEF WithSample
    <2> HIDE DEF z
    <2>7. CASE ~extra
      BY <2>2, <2>3, <2>5, <2>7
    <2>8. CASE extra
      <3>1. ValueSample(res, r, q) = z
        BY <2>3, <2>6, <2>8
      <3>2. z \in Results
        BY <1>2, <3>1, ValueSampleIs, SampledType, RecordIs
      <3> DEFINE f == z.followed
                 a == Append(f, x)
      <3>3. CBORSample(res, r, q) = [z EXCEPT !.followed = a]
        BY <2>2, <2>5, <2>8
      <3> HIDE DEF a
      <3>4. [z EXCEPT !.followed = a] = Result(z.begin, z.end, z.order, a, z.matching)
        BY <3>2 DEF Results, Result
      <3>5. CBORSample(res, r, q) = Valueless(ValueSample(res, r, q), r)
        BY <3>1, <3>3, <3>4 DEF Valueless, a
      <3> QED BY <2>4, <2>8, <3>5
    <2> QED BY <2>7, <2>8
  <1> QED BY <1>1, <1>2

LEMMA ValuelessType ==
  ASSUME NEW res \in Results, NEW r \in RecSet
  PROVE  /\ Valueless(res, r) \in Results
         /\ Valueless(res, r).begin = res.begin /\ Valueless(res, r).end = res.end /\ Valueless(res, r).order = res.order
         /\ Valueless(res, r).matching = res.matching
         /\ Valueless(res, r).followed = Append(res.followed, SampleOf(<<r.cmd>>, r.seq, r.time, 0, r.out))
         /\ SampleOf(<<r.cmd>>, r.seq, r.time, 0, r.out) \in Samples
  <1> DEFINE x == SampleOf(<<r.cmd>>, r.seq, r.time, 0, r.out)
             a == Append(res.followed, x)
  <1>1. x \in Samples
    BY RecordIs DEF Samples, SampleOf, Values
  <1> HIDE DEF x
  <1>2. /\ res.begin \in Tables /\ res.end \in Tables /\ res.order \in Orders
        /\ res.followed \in Seq(Samples) /\ res.matching \in SUBSET Names
    BY ResultIs
  <1>3. a \in Seq(Samples)
    BY <1>1, <1>2, AppendProperties
  <1>4. Valueless(res, r) = Result(res.begin, res.end, res.order, a, res.matching)
    BY DEF Valueless, x
  <1> HIDE DEF a
  <1> DEFINE y == Result(res.begin, res.end, res.order, a, res.matching)
  <1>5. /\ y \in Results /\ y.begin = res.begin /\ y.end = res.end /\ y.order = res.order
        /\ y.followed = a /\ y.matching = res.matching
    BY <1>2, <1>3, ResultType
  <1> HIDE DEF y
  <1> QED BY <1>1, <1>4, <1>5 DEF a, x, y

LEMMA ValueSampleType ==
  ASSUME NEW res \in Results, NEW r \in RecSet, NEW q
  PROVE  ValueSample(res, r, q) \in Results
  BY ValueSampleIs, SampledType, RecordIs

LEMMA CBORSampleType ==
  ASSUME NEW res \in Results, NEW r \in RecSet, NEW q
  PROVE  CBORSample(res, r, q) \in Results
  <1>1. ValueSample(res, r, q) \in Results
    BY ValueSampleType
  <1>2. Valueless(ValueSample(res, r, q), r) \in Results
    BY <1>1, ValuelessType
  <1> QED BY <1>1, <1>2, CBORSampleIs

\* The parser of the CBOR file after the records p.
FullOf(q, p) == FoldLeft(LAMBDA res, s : CBORSample(res, s, q), NoResult, p)

LEMMA FullSteps ==
  ASSUME NEW q
  PROVE  /\ FullOf(q, <<>>) = NoResult
         /\ \A p \in Seq(RecSet) : FullOf(q, p) \in Results
         /\ \A p \in Seq(RecSet), x \in RecSet : FullOf(q, Append(p, x)) = CBORSample(FullOf(q, p), x, q)
  <1> DEFINE H == [w \in RecSet \X Results |-> CBORSample(w[2], w[1], q)]
  <1>1. Foldable(RecSet, Results, NoResult, H)
    <2>1. ASSUME NEW x \in RecSet, NEW v \in Results PROVE CBORSample(v, x, q) \in Results
      BY CBORSampleType
    <2>2. H \in [RecSet \X Results -> Results]
      BY <2>1
    <2> HIDE DEF H
    <2> QED BY <2>2, NoResultType DEF Foldable
  <1>2. \A x \in RecSet, v \in Results : H[<<x, v>>] = CBORSample(v, x, q)
    OBVIOUS
  <1> HIDE DEF H
  <1>3. ASSUME NEW p \in Seq(RecSet)
        PROVE  FullOf(q, p) = Fold(H, NoResult, p)
    <2> DEFINE Body(g) == [s \in SUBSET DOMAIN p |-> IF s = {} THEN NoResult ELSE CBORSample(g[s \ {Max(s)}], p[Max(s)], q)]
               iter == CHOOSE g : g = Body(g)
    <2>1. FullOf(q, p) = iter[DOMAIN p]
      BY DEF FullOf, FoldLeft, MapThenFoldSet
    <2>2. \E g : g = Body(g)
      <3>1. PICK g : FoldsByIndex(g, p, RecSet, Results, NoResult, H)
        BY <1>1, FoldByIndex
      <3>2. g = [s \in SUBSET DOMAIN p |-> g[s]] /\ g[{}] = NoResult
        BY <3>1 DEF FoldsByIndex
      <3>3. \A s \in SUBSET DOMAIN p : s # {} => g[s] = CBORSample(g[s \ {Max(s)}], p[Max(s)], q)
        BY <1>2, <3>1 DEF FoldsByIndex
      <3> QED BY <3>2, <3>3
    <2>3. iter = Body(iter)
      BY <2>2
    <2>4. iter[{}] = NoResult
      BY <2>3
    <2>5. ASSUME NEW s \in SUBSET DOMAIN p, s # {}
          PROVE  p[Max(s)] \in RecSet /\ iter[s] = CBORSample(iter[s \ {Max(s)}], p[Max(s)], q)
      <3>1. Max(s) \in DOMAIN p
        BY <2>5, MaxOfFinite, LenProperties
      <3>2. p[Max(s)] \in RecSet
        BY <3>1
      <3> QED BY <2>3, <2>5, <3>2
    <2> HIDE DEF iter
    <2>6. ByIndex(iter, p, NoResult, Results, H)
      BY <1>2, <2>4, <2>5 DEF ByIndex
    <2> QED BY <1>1, <2>1, <2>6, FoldByIndex
  <1>4. <<>> \in Seq(RecSet)
    BY EmptySeq
  <1>5. FullOf(q, <<>>) = NoResult
    <2>1. PICK e \in Seq(RecSet) : e = <<>>
      BY <1>4
    <2>2. Fold(H, NoResult, <<>>) = NoResult
      BY <1>1, FoldSteps
    <2>3. FullOf(q, e) = Fold(H, NoResult, e)
      BY <1>3
    <2> QED BY <2>1, <2>2, <2>3
  <1>6. \A p \in Seq(RecSet) : FullOf(q, p) \in Results
    BY <1>1, <1>3, FoldSteps
  <1>7. ASSUME NEW p \in Seq(RecSet), NEW x \in RecSet
        PROVE  FullOf(q, Append(p, x)) = CBORSample(FullOf(q, p), x, q)
    <2> DEFINE a == Append(p, x)
    <2>1. a \in Seq(RecSet)
      BY AppendProperties
    <2>2. Fold(H, NoResult, a) = H[<<x, Fold(H, NoResult, p)>>]
      BY <1>1, FoldSteps
    <2> HIDE DEF a
    <2>3. FullOf(q, a) = Fold(H, NoResult, a) /\ FullOf(q, p) = Fold(H, NoResult, p)
      BY <1>3, <2>1
    <2> QED BY <1>2, <1>6, <2>2, <2>3 DEF a
  <1> QED BY <1>5, <1>6, <1>7

\* A sample is kept if it has a value.
WithValue(s, x) == IF x.out # Nothing THEN Append(s, x) ELSE s

LEMMA WithValueType ==
  ASSUME NEW x \in Samples, NEW s \in Seq(Samples)
  PROVE  WithValue(s, x) \in Seq(Samples)
  BY AppendProperties DEF WithValue

LEMMA ValuedSteps ==
  /\ Valued(<<>>) = <<>>
  /\ \A p \in Seq(Samples) : Valued(p) \in Seq(Samples)
  /\ \A p \in Seq(Samples), x \in Samples :
        Valued(Append(p, x)) = WithValue(Valued(p), x)
  <1> DEFINE H == [z \in Samples \X Seq(Samples) |-> WithValue(z[2], z[1])]
  <1>1. Foldable(Samples, Seq(Samples), <<>>, H)
    <2>1. H \in [Samples \X Seq(Samples) -> Seq(Samples)]
      BY WithValueType
    <2> HIDE DEF H
    <2> QED BY <2>1, EmptySeq DEF Foldable
  <1>2. \A x \in Samples, v \in Seq(Samples) : H[<<x, v>>] = WithValue(v, x)
    OBVIOUS
  <1> HIDE DEF H
  <1>3. ASSUME NEW p \in Seq(Samples)
        PROVE  Valued(p) = Fold(H, <<>>, p)
    <2> DEFINE Body(g) == [s \in SUBSET DOMAIN p |-> IF s = {} THEN <<>> ELSE WithValue(g[s \ {Max(s)}], p[Max(s)])]
               iter == CHOOSE g : g = Body(g)
    <2>1. Valued(p) = iter[DOMAIN p]
      BY DEF Valued, WithValue, FoldLeft, MapThenFoldSet
    <2>2. \E g : g = Body(g)
      <3>1. PICK g : FoldsByIndex(g, p, Samples, Seq(Samples), <<>>, H)
        BY <1>1, FoldByIndex
      <3>2. g = [s \in SUBSET DOMAIN p |-> g[s]] /\ g[{}] = <<>>
        BY <3>1 DEF FoldsByIndex
      <3>3. \A s \in SUBSET DOMAIN p : s # {} => g[s] = WithValue(g[s \ {Max(s)}], p[Max(s)])
        BY <1>2, <3>1 DEF FoldsByIndex
      <3> QED BY <3>2, <3>3
    <2>3. iter = Body(iter)
      BY <2>2
    <2>4. iter[{}] = <<>>
      BY <2>3
    <2>5. ASSUME NEW s \in SUBSET DOMAIN p, s # {}
          PROVE  p[Max(s)] \in Samples /\ iter[s] = WithValue(iter[s \ {Max(s)}], p[Max(s)])
      <3>1. Max(s) \in DOMAIN p
        BY <2>5, MaxOfFinite, LenProperties
      <3>2. p[Max(s)] \in Samples
        BY <3>1
      <3> QED BY <2>3, <2>5, <3>2
    <2> HIDE DEF iter
    <2>6. ByIndex(iter, p, <<>>, Seq(Samples), H)
      BY <1>2, <2>4, <2>5 DEF ByIndex
    <2> QED BY <1>1, <2>1, <2>6, FoldByIndex
  <1>4. <<>> \in Seq(Samples)
    BY EmptySeq
  <1>5. Valued(<<>>) = <<>>
    <2>1. PICK e \in Seq(Samples) : e = <<>>
      BY <1>4
    <2>2. Fold(H, <<>>, <<>>) = <<>>
      BY <1>1, FoldSteps
    <2>3. Valued(e) = Fold(H, <<>>, e)
      BY <1>3
    <2> QED BY <2>1, <2>2, <2>3
  <1>6. \A p \in Seq(Samples) : Valued(p) \in Seq(Samples)
    BY <1>1, <1>3, FoldSteps
  <1>7. ASSUME NEW p \in Seq(Samples), NEW x \in Samples
        PROVE  Valued(Append(p, x)) = WithValue(Valued(p), x)
    <2> DEFINE a == Append(p, x)
    <2>1. a \in Seq(Samples)
      BY AppendProperties
    <2>2. Fold(H, <<>>, a) = H[<<x, Fold(H, <<>>, p)>>]
      BY <1>1, FoldSteps
    <2> HIDE DEF a
    <2>3. Valued(a) = Fold(H, <<>>, a) /\ Valued(p) = Fold(H, <<>>, p)
      BY <1>3, <2>1
    <2> QED BY <1>2, <1>6, <2>2, <2>3 DEF a
  <1> QED BY <1>5, <1>6, <1>7

\* The number in /proc/stat is there if it was read.
NumberRead(r) == r.cmd = "stat" /\ r.out # Nothing => r.out[1] \in Nat

StatInv == \A k \in 1 .. Len(recs) : NumberRead(recs[k])

LEMMA InitStat ==
  ASSUME Init
  PROVE  StatInv
  BY DEF Init, CaptureInit, StatInv

LEMMA NextStat ==
  ASSUME CaptureInv, StatInv, [Next]_vars
  PROVE  StatInv'
  <1>1. ASSUME Collect PROVE StatInv'
    <2>1. PICK src \in Srcs, v \in Outs : Collects(src, v)
      BY <1>1, CollectAdds
    <2> DEFINE r == Added(src, v)
               n == Len(recs)
    <2>2. recs \in Seq(RecSet) /\ r \in RecSet /\ recs' = Append(recs, r)
      BY <2>1 DEF Collects, CaptureInv, TypeInv
    <2>3. NumberRead(r)
      <3>1. v \in {Output(src), Nothing} /\ r.cmd = src.cmd /\ r.out = v
        BY <2>1 DEF Collects, Added
      <3>2. src.cmd = "stat" => Output(src)[1] = clock
        BY DEF Output
      <3>3. clock \in Nat
        BY DEF CaptureInv, TypeInv, Times
      <3> HIDE DEF r
      <3> QED BY <3>1, <3>2, <3>3 DEF NumberRead
    <2> HIDE DEF r
    <2>4. Len(recs') = n + 1 /\ recs'[n + 1] = r /\ \A k \in 1 .. n : recs'[k] = recs[k]
      BY <2>2, AppendProperties
    <2>5. n \in Nat
      BY <2>2, LenProperties
    <2> HIDE DEF n
    <2> SUFFICES ASSUME NEW k \in 1 .. n + 1 PROVE NumberRead(recs'[k])
      BY <2>4 DEF StatInv, NumberRead
    <2>6. CASE k \in 1 .. n
      BY <2>4, <2>6 DEF StatInv, n
    <2>7. CASE k = n + 1
      BY <2>3, <2>4, <2>7
    <2> QED BY <2>5, <2>6, <2>7
  <1>2. CASE UNCHANGED recs
    BY <1>2 DEF StatInv, NumberRead
  <1>3. BeginSection \/ EndSection \/ Restart \/ HostStep \/ UNCHANGED vars => UNCHANGED recs
    BY DEF BeginSection, EndSection, Restart, HostStep, vars, captureVars
  <1> QED BY <1>1, <1>2, <1>3 DEF Next, CaptureNext

\* The result a has the samples of b, and others without a value.
ValuedAs(a, b) == SameTables(a, b) /\ a.matching = b.matching /\ Valued(a.followed) = b.followed

LEMMA ValuedGrows ==
  ASSUME NEW f \in Seq(Samples), NEW q, NEW name \in Names, NEW sec, NEW id \in Ids, NEW time \in Nat, NEW v \in Outs
  PROVE  Valued(Grown(f, q, name, sec, id, time, v)) = Grown(Valued(f), q, name, sec, id, time, v)
  <1> DEFINE e == Extracted(name[1], v)
             x == SampleOf(name, id, time, e, v)
             skip == ~ShouldTrackSection(q.type, sec) \/ e = Absent
  <1>1. /\ Grown(f, q, name, sec, id, time, v) = IF skip THEN f ELSE Append(f, x)
        /\ Grown(Valued(f), q, name, sec, id, time, v) = IF skip THEN Valued(f) ELSE Append(Valued(f), x)
    BY DEF Grown
  <1>2. e \in Values
    BY DEF Names, Values
  <1>3. v = Nothing => skip
    BY DEF Extracted
  <1>4. x \in Samples /\ x.out = v
    <2> HIDE DEF e
    <2> QED BY <1>2 DEF Samples, SampleOf
  <1> HIDE DEF x, e, skip
  <1>5. Valued(Append(f, x)) = WithValue(Valued(f), x)
    BY <1>4, ValuedSteps
  <1> QED BY <1>1, <1>3, <1>4, <1>5 DEF WithValue

LEMMA ValuedStep ==
  ASSUME NEW a \in Results, NEW b \in Results, ValuedAs(a, b), NEW r \in RecSet, NumberRead(r), NEW q
  PROVE  ValuedAs(CBORSample(a, r, q), ValueSample(b, r, q))
  <1> DEFINE name == <<r.cmd>>
             c == ValueSample(a, r, q)
             d == ValueSample(b, r, q)
  <1>1. a.begin = b.begin /\ a.end = b.end /\ a.order = b.order /\ a.matching = b.matching /\ Valued(a.followed) = b.followed
    BY DEF ValuedAs, SameTables
  <1>2. a.followed \in Seq(Samples)
    BY ResultIs
  <1>3. ValuedAs(c, d)
    <2>1. CASE r.sec = "init"
      <3>1. c = a /\ d = b
        BY <2>1, ValueSampleIs
      <3> QED BY <3>1
    <2>2. CASE r.sec # "init"
      <3>1. c = Sampled(a, r, q) /\ d = Sampled(b, r, q)
        BY <2>2, ValueSampleIs
      <3> DEFINE g == Grown(a.followed, q, name, r.sec, r.seq, r.time, r.out)
                 h == Grown(b.followed, q, name, r.sec, r.seq, r.time, r.out)
      <3>2. /\ c.begin = d.begin /\ c.end = d.end /\ c.order = d.order /\ c.matching = d.matching
            /\ c.followed = (IF Wanted(q, name) THEN g ELSE a.followed)
            /\ d.followed = (IF Wanted(q, name) THEN h ELSE b.followed)
        BY <1>1, <3>1 DEF Sampled, Result
      <3>3. Valued(g) = h
        BY <1>1, <1>2, RecordIs, ValuedGrows
      <3> HIDE DEF c, d, g, h
      <3>4. Valued(c.followed) = d.followed
        BY <1>1, <3>2, <3>3
      <3> QED BY <3>2, <3>4 DEF ValuedAs, SameTables
    <2> QED BY <2>1, <2>2
  <1>4. c \in Results
    BY ValueSampleType
  <1> DEFINE y == CBORSample(a, r, q)
  <1>5. y = c \/ (r.cmd = "stat" /\ Extracted(r.cmd, r.out) = Absent /\ y = Valueless(c, r))
    BY CBORSampleIs
  <1> HIDE DEF c, d, y
  <1>6. CASE y = c
    BY <1>3, <1>6 DEF y, d
  <1>7. CASE r.cmd = "stat" /\ Extracted(r.cmd, r.out) = Absent /\ y = Valueless(c, r)
    <2> DEFINE x == SampleOf(<<r.cmd>>, r.seq, r.time, 0, r.out)
    <2>1. r.out = Nothing
      <3>1. r.out # Nothing => Extracted(r.cmd, r.out) = r.out[1]
        BY <1>7 DEF Extracted
      <3> QED BY <1>7, <3>1 DEF NumberRead, Absent
    <2>2. x.out = Nothing
      BY <2>1 DEF SampleOf
    <2> HIDE DEF x
    <2>3. /\ y.begin = c.begin /\ y.end = c.end /\ y.order = c.order /\ y.matching = c.matching
          /\ y.followed = Append(c.followed, x) /\ x \in Samples
      BY <1>4, <1>7, ValuelessType DEF x
    <2>4. c.followed \in Seq(Samples)
      BY <1>4, ResultIs
    <2>5. Valued(y.followed) = Valued(c.followed)
      BY <2>2, <2>3, <2>4, ValuedSteps DEF WithValue
    <2>6. ValuedAs(y, d)
      BY <1>3, <2>3, <2>5 DEF ValuedAs, SameTables
    <2> QED BY <2>6 DEF y, d
  <1> QED BY <1>5, <1>6, <1>7

LEMMA ValuedOf ==
  ASSUME NEW q, NEW p \in Seq(RecSet), \A k \in 1 .. Len(p) : NumberRead(p[k])
  PROVE  ValuedAs(FullOf(q, p), CBOROf(q, p))
  <1> DEFINE T == {m \in Nat : \A a \in Seq(RecSet) : Len(a) = m /\ (\A k \in 1 .. Len(a) : NumberRead(a[k])) =>
                                   ValuedAs(FullOf(q, a), CBOROf(q, a))}
  <1>1. 0 \in T
    <2> SUFFICES ASSUME NEW a \in Seq(RecSet), Len(a) = 0 PROVE ValuedAs(FullOf(q, a), CBOROf(q, a))
      OBVIOUS
    <2>1. a = <<>>
      BY EmptySeq
    <2>2. CBOROf(q, <<>>) = NoResult /\ FullOf(q, <<>>) = NoResult /\ NoResult.followed = <<>>
      BY CBORSteps, FullSteps DEF NoResult
    <2>3. ValuedAs(NoResult, NoResult)
      BY <2>2, ValuedSteps DEF ValuedAs, SameTables
    <2> QED BY <2>1, <2>2, <2>3
  <1>2. ASSUME NEW m \in T PROVE m + 1 \in T
    <2>1. m \in Nat
      OBVIOUS
    <2>2. \A a \in Seq(RecSet) : Len(a) = m /\ (\A k \in 1 .. Len(a) : NumberRead(a[k])) => ValuedAs(FullOf(q, a), CBOROf(q, a))
      OBVIOUS
    <2> HIDE DEF T
    <2>3. ASSUME NEW a \in Seq(RecSet), Len(a) = m + 1, \A k \in 1 .. Len(a) : NumberRead(a[k])
          PROVE  ValuedAs(FullOf(q, a), CBOROf(q, a))
      <3>1. PICK b \in Seq(RecSet), x \in RecSet : /\ a = Append(b, x) /\ Len(b) = m /\ a[m + 1] = x
                                                   /\ \A k \in 1 .. m : a[k] = b[k]
        BY <2>1, <2>3, Longer
      <3>2. NumberRead(x)
        BY <2>1, <2>3, <3>1
      <3>3. \A k \in 1 .. Len(b) : NumberRead(b[k])
        <4> SUFFICES ASSUME NEW k \in 1 .. m PROVE NumberRead(b[k])
          BY <3>1
        <4>1. k \in 1 .. m + 1
          BY <2>1
        <4>2. NumberRead(a[k]) /\ a[k] = b[k]
          BY <2>3, <3>1, <4>1
        <4> QED BY <4>2
      <3> DEFINE c == FullOf(q, b)
                 d == CBOROf(q, b)
      <3>4. ValuedAs(c, d) /\ c \in Results /\ d \in Results
        BY <2>2, <3>1, <3>3, CBORSteps, FullSteps
      <3>5. FullOf(q, a) = CBORSample(c, x, q) /\ CBOROf(q, a) = ValueSample(d, x, q)
        BY <3>1, CBORSteps, FullSteps
      <3> HIDE DEF c, d
      <3>6. ValuedAs(CBORSample(c, x, q), ValueSample(d, x, q))
        BY <3>2, <3>4, ValuedStep
      <3> QED BY <3>5, <3>6
    <2> QED BY <2>1, <2>3 DEF T
  <1>3. T = Nat
    <2>1. T \in SUBSET Nat
      OBVIOUS
    <2> HIDE DEF T
    <2> QED BY <1>1, <1>2, <2>1, NatSetInduction
  <1>4. Len(p) \in T
    BY <1>3, LenProperties
  <1> QED BY <1>4

\* Whatever does not ask for the values of /proc/stat has none.
LEMMA SameOf ==
  ASSUME NEW q, q.mode # "command" \/ "stat" \notin q.cmds, NEW p \in Seq(RecSet)
  PROVE  FullOf(q, p) = CBOROf(q, p)
  <1> DEFINE T == {m \in Nat : \A a \in Seq(RecSet) : Len(a) = m => FullOf(q, a) = CBOROf(q, a)}
  <1>1. 0 \in T
    <2> SUFFICES ASSUME NEW a \in Seq(RecSet), Len(a) = 0 PROVE FullOf(q, a) = CBOROf(q, a)
      OBVIOUS
    <2>1. a = <<>>
      BY EmptySeq
    <2>2. CBOROf(q, <<>>) = NoResult /\ FullOf(q, <<>>) = NoResult
      BY CBORSteps, FullSteps
    <2> QED BY <2>1, <2>2
  <1>2. ASSUME NEW m \in T PROVE m + 1 \in T
    <2>1. m \in Nat
      OBVIOUS
    <2>2. \A a \in Seq(RecSet) : Len(a) = m => FullOf(q, a) = CBOROf(q, a)
      OBVIOUS
    <2> HIDE DEF T
    <2>3. ASSUME NEW a \in Seq(RecSet), Len(a) = m + 1 PROVE FullOf(q, a) = CBOROf(q, a)
      <3>1. PICK b \in Seq(RecSet), x \in RecSet : a = Append(b, x) /\ Len(b) = m
        BY <2>1, <2>3, Longer
      <3> DEFINE c == FullOf(q, b)
                 d == CBOROf(q, b)
      <3>2. c = d /\ c \in Results
        BY <2>2, <3>1, FullSteps
      <3>3. FullOf(q, a) = CBORSample(c, x, q) /\ CBOROf(q, a) = ValueSample(d, x, q)
        BY <3>1, CBORSteps, FullSteps
      <3> HIDE DEF c, d
      <3>4. CBORSample(c, x, q) = ValueSample(c, x, q)
        BY <3>2, CBORSampleIs
      <3> QED BY <3>2, <3>3, <3>4
    <2> QED BY <2>1, <2>3 DEF T
  <1>3. T = Nat
    <2>1. T \in SUBSET Nat
      OBVIOUS
    <2> HIDE DEF T
    <2> QED BY <1>1, <1>2, <2>1, NatSetInduction
  <1>4. Len(p) \in T
    BY <1>3, LenProperties
  <1> QED BY <1>4

\* A sequence is a prefix of itself and of one with an element more.
LEMMA PrefixIs ==
  ASSUME NEW S, NEW s \in Seq(S)
  PROVE  /\ IsPrefix(s, s) /\ Len(s) \in Nat
         /\ \A x \in S : IsPrefix(s, Append(s, x)) /\ Len(Append(s, x)) = Len(s) + 1
  <1>1. Len(s) \in Nat /\ SubSeq(s, 1, Len(s)) = s
    BY LenProperties, SubSeqFull
  <1>2. ASSUME NEW x \in S PROVE IsPrefix(s, Append(s, x)) /\ Len(Append(s, x)) = Len(s) + 1
    <2> DEFINE a == Append(s, x)
               n == Len(s)
               b == SubSeq(a, 1, n)
    <2>1. a \in Seq(S) /\ Len(a) = n + 1 /\ \A i \in 1 .. n : a[i] = s[i]
      BY AppendProperties
    <2> HIDE DEF a, n
    <2>2. n \in Nat /\ \A i \in 1 .. n : a[i] \in S
      BY <1>1, <2>1, ElementOfSeq DEF n
    <2>3. /\ b \in Seq(S) /\ Len(b) = IF 1 <= n THEN n - 1 + 1 ELSE 0
          /\ \A i \in 1 .. n - 1 + 1 : b[i] = a[1 + i - 1]
      BY <2>2, SubSeqProperties
    <2> HIDE DEF b
    <2>4. Len(b) = n /\ \A i \in 1 .. n : b[i] = s[i]
      BY <2>1, <2>2, <2>3
    <2>5. b = s
      BY <2>3, <2>4, SeqEqual DEF n
    <2> QED BY <1>1, <2>1, <2>2, <2>5 DEF IsPrefix, b, a, n
  <1> QED BY <1>1, <1>2 DEF IsPrefix

LEMMA FollowedHold ==
  ASSUME CaptureInv, StatInv, FollowInv
  PROVE  SameFollowed
  <1> DEFINE Agree(text, cbor) == IsPrefix(text, cbor) /\ Len(cbor) <= Len(text) + (IF section = None THEN 0 ELSE 1)
  <1>1. ASSUME run = 1, NEW q \in Qs
        PROVE  Agree(Untimed(ReadOf(q, lines).res.followed), Untimed(CBOROf(q, recs).followed))
    <2> DEFINE st == ReadOf(q, lines)
               f  == st.res.followed
               g  == Pending(st, q).followed
               r  == CBOROf(q, recs).followed
    <2>1. st \in ReadStates
      BY TextSteps DEF CaptureInv, TypeInv
    <2>2. /\ st.name # NotFollowing => section \in AB
          /\ Untimed(g) = Untimed(r)
      BY <1>1 DEF FollowInv, Following
    <2> HIDE DEF st
    <2>3. f \in Seq(Samples) /\ st.name \in Names \cup {NotFollowing} /\ st.id \in Ids /\ st.time \in Nat /\ st.out \in Outs
      BY <2>1, ReadIs, ResultIs
    <2>4. g = IF st.name = NotFollowing THEN f ELSE Grown(f, q, st.name, st.sec, st.id, st.time, st.out)
      BY <2>1, PendingIs
    <2> HIDE DEF f, g, r
    <2> DEFINE u == Untimed(f)
               w == Untimed(r)
    <2>5. u \in Seq(Samples)
      BY <2>3, UntimedIs
    <2>6. w = u \/ (section # None /\ \E x \in Samples : w = Append(u, x))
      <3>1. CASE st.name = NotFollowing
        BY <2>2, <2>4, <3>1
      <3>2. CASE st.name # NotFollowing
        <4>1. section # None
          BY <2>2, <3>2 DEF AB, None
        <4>2. g = f \/ \E x \in Samples : Untimed(g) = Append(u, x)
          <5> DEFINE name == st.name
                     id == st.id
                     t == st.time
                     v == st.out
          <5>1. name \in Names /\ id \in Ids /\ t \in Nat /\ v \in Outs
            BY <2>3, <3>2
          <5>2. g = Grown(f, q, name, st.sec, id, t, v)
            BY <2>4, <3>2
          <5> HIDE DEF name, id, t, v, u
          <5>3. Grown(f, q, name, st.sec, id, t, v) = f \/ \E x \in Samples : Untimed(Grown(f, q, name, st.sec, id, t, v)) = Append(Untimed(f), x)
            BY <2>3, <5>1, GrownBy
          <5> QED BY <5>2, <5>3 DEF u
        <4> QED BY <2>2, <4>1, <4>2
      <3> QED BY <3>1, <3>2
    <2> HIDE DEF u, w
    <2>7. Agree(u, w)
      <3>1. CASE w = u
        BY <2>5, <3>1, PrefixIs
      <3>2. CASE section # None /\ \E x \in Samples : w = Append(u, x)
        BY <2>5, <3>2, PrefixIs
      <3> QED BY <2>6, <3>1, <3>2
    <2> HIDE DEF Agree
    <2> QED BY <2>7 DEF u, w, f, r, st
  <1>2. ASSUME run = 1, NEW cmd \in Commands, NEW type \in SectionTypes
        PROVE  LET NoTimes(f) == [k \in DOMAIN f |-> [f[k] EXCEPT !.time = 0]]
                   all  == ParseCBORFile(Asked("command", {cmd}, type)).followed
                   text == NoTimes(ParseTextFile(Asked("command", {cmd}, type)).followed)
                   cbor == NoTimes(Valued(all))
               IN  Agree(text, cbor) /\ (cmd # "stat" => Valued(all) = all)
    <2> DEFINE q == Asked("command", {cmd}, type)
               all == FullOf(q, recs).followed
               r   == CBOROf(q, recs).followed
    <2>1. q \in Qs /\ (cmd # "stat" => "stat" \notin q.cmds)
      BY DEF Qs, Asked
    <2>2. recs \in Seq(RecSet)
      BY DEF CaptureInv, TypeInv
    <2>3. ParseTextFile(q) = ReadOf(q, lines).res /\ ParseCBORFile(q) = FullOf(q, recs)
      BY DEF ParseTextFile, ParseCBORFile, ReadOf, FullOf
    <2>4. Valued(all) = r
      BY <2>2, ValuedOf DEF StatInv, ValuedAs
    <2>5. cmd # "stat" => all = r
      BY <2>1, <2>2, SameOf
    <2> HIDE DEF q
    <2>6. Agree(Untimed(ReadOf(q, lines).res.followed), Untimed(r))
      BY <1>1, <1>2, <2>1
    <2> HIDE DEF r, Agree
    <2>7. Agree(Untimed(ParseTextFile(q).followed), Untimed(Valued(ParseCBORFile(q).followed)))
      BY <2>3, <2>4, <2>6 DEF all
    <2>8. cmd # "stat" => Valued(ParseCBORFile(q).followed) = ParseCBORFile(q).followed
      BY <2>3, <2>4, <2>5 DEF all
    <2> QED BY <2>7, <2>8 DEF q, Untimed, Notime
  <1> QED BY <1>2 DEF SameFollowed

\* In a run without -n, the values of a command that are read from the text
\* file are those read from the CBOR file, in the same intervals, but for the
\* last one while a section is being written (parseTextFile, parseCBORFile).
\* Of /proc/stat alone the CBOR file has samples without a value besides.
THEOREM FollowedAreSame ==
  ASSUME RootOnly
  PROVE  Spec => []SameFollowed
  <1>1. Init => CaptureInv /\ StatInv /\ FollowInv
    BY InitCapture, InitStat, InitFollow
  <1>2. CaptureInv /\ StatInv /\ FollowInv /\ [Next]_vars => (CaptureInv /\ StatInv /\ FollowInv)'
    BY NextCapture, NextStat, NextFollow
  <1>3. CaptureInv /\ StatInv /\ FollowInv => SameFollowed
    BY FollowedHold
  <1> QED BY <1>1, <1>2, <1>3, PTL DEF Spec

-----------------------------------------------------------------------------
(* The tables of sections.                                                 *)

\* A section that the run has begun, in interval n of section s, before nx.
Started(sec, id, s, nx, n) ==
    id < n \/ (id = n /\ (s = sec \/ (sec = "A" /\ nx = "B")))

\* The text file has begun it, and has listed it; so it has what the CBOR file has.
Begun(t, c, s, nx, n) ==
    /\ \A sec \in AB, id \in Ids : /\ t.begin[sec][id] # 0 => Started(sec, id, s, nx, n)
                                   /\ c.begin[sec][id] # 0 => t.begin[sec][id] # 0
    /\ \A sec \in AB : \A k \in 1 .. Len(t.order[sec]) : t.begin[sec][t.order[sec][k]] # 0

\* Times of a section that has ended.
Within(t, c, sec, id) ==
    /\ c.begin[sec][id] # 0
    /\ t.begin[sec][id] <= c.begin[sec][id] /\ t.begin[sec][id] <= t.end[sec][id]
    /\ c.begin[sec][id] <= c.end[sec][id] /\ (sec = "B" => c.end[sec][id] <= t.end[sec][id])

Ended(t, c, s, n) ==
    \A sec \in AB, id \in Ids : t.begin[sec][id] # 0 /\ ~(s = sec /\ id = n) => Within(t, c, sec, id)

\* The section that is being written is listed in the CBOR file with its first
\* sample.
SameOrder(t, c, s, n) ==
    IF s \in AB /\ c.begin[s][n] = 0 THEN t.order = Ordered(c.order, s, n) ELSE t.order = c.order

Open(t, c, s, n, w, k, left) ==
    s \in AB =>
        /\ t.begin[s][n] # 0 /\ t.begin[s][n] <= w /\ w <= k
        /\ c.begin[s][n] = 0 => left # <<>>
        /\ c.begin[s][n] # 0 => t.begin[s][n] <= c.begin[s][n] /\ c.begin[s][n] <= c.end[s][n] /\ c.end[s][n] < k

SectionsAre(t, c, s, nx, n, w, k, left) ==
    /\ (s \in AB => nx = s) /\ (s = "init" => nx = "A")
    /\ Begun(t, c, s, nx, n) /\ Ended(t, c, s, n) /\ SameOrder(t, c, s, n) /\ Open(t, c, s, n, w, k, left)

\* Any command will do.
NoCommand == Asked("command", {}, "both")

SectionInv ==
    run = 1 => SectionsAre(ReadOf(NoCommand, lines).res, CBOROf(NoCommand, recs), section, next, seq, now, clock, todo)

LEMMA TablesMatter ==
  ASSUME NEW t, NEW u, SameTables(t, u), NEW c, NEW d, SameTables(c, d), NEW s, NEW nx, NEW n, NEW w, NEW k, NEW left,
         SectionsAre(u, d, s, nx, n, w, k, left)
  PROVE  SectionsAre(t, c, s, nx, n, w, k, left)
  BY DEF SameTables, SectionsAre, Begun, Ended, Within, SameOrder, Open

LEMMA EntriesAre ==
  ASSUME NEW t \in Tables, NEW sec \in AB, NEW id \in Ids
  PROVE  t[sec][id] \in Nat
  BY DEF Tables

\* A section begins.
LEMMA BeginKeeps ==
  ASSUME NEW t \in Results, NEW c \in Results, NEW nx \in AB, NEW n \in Ids, NEW w \in Times, NEW k \in Times, NEW left, NEW left2,
         SectionsAre(t, c, None, nx, n, w, k, left), left2 # <<>>,
         NEW T, T.begin = Entered(t.begin, nx, n, k), T.end = t.end, T.order = Ordered(t.order, nx, n)
  PROVE  SectionsAre(T, c, nx, nx, n, k + 1, k + 1, left2)
  <1> DEFINE tb == t.begin
             cb == c.begin
             Tb == T.begin
  <1>1. tb \in Tables /\ cb \in Tables /\ t.order \in Orders /\ c.order \in Orders /\ t.end \in Tables /\ c.end \in Tables
    BY ResultIs
  <1>2. k \in Nat /\ k # 0
    BY DEF Times
  <1>3. \A sec \in AB, id \in Ids : Tb[sec][id] = IF sec = nx /\ id = n THEN k ELSE tb[sec][id]
    BY <1>1, <1>2, EnteredIs
  <1>4. None \notin AB /\ "init" \notin AB /\ n \in Nat
    BY DEF AB, None, Ids
  <1>5. tb[nx][n] = 0 /\ cb[nx][n] = 0
    <2>1. ~Started(nx, n, None, nx, n)
      BY <1>4 DEF Started, AB, None
    <2> QED BY <1>1, <2>1, EntriesAre DEF SectionsAre, Begun
  <1>6. Begun(T, c, nx, nx, n)
    <2>1. ASSUME NEW sec \in AB, NEW id \in Ids
          PROVE  (Tb[sec][id] # 0 => Started(sec, id, nx, nx, n)) /\ (cb[sec][id] # 0 => Tb[sec][id] # 0)
      <3>1. /\ tb[sec][id] # 0 => Started(sec, id, None, nx, n)
            /\ cb[sec][id] # 0 => tb[sec][id] # 0
        BY DEF SectionsAre, Begun
      <3>2. Started(sec, id, None, nx, n) => Started(sec, id, nx, nx, n)
        BY <1>4 DEF Started
      <3>3. Started(nx, n, nx, nx, n)
        BY DEF Started
      <3> QED BY <1>2, <1>3, <1>5, <3>1, <3>2, <3>3
    <2>2. ASSUME NEW sec \in AB, NEW j \in 1 .. Len(T.order[sec])
          PROVE  Tb[sec][T.order[sec][j]] # 0
      <3> DEFINE o == t.order[sec]
                 a == Append(o, n)
      <3>1. o \in Seq(Ids) /\ Len(o) \in Nat
        BY <1>1, LenProperties DEF Orders
      <3>2. T.order[sec] = IF sec = nx THEN a ELSE o
        BY <1>1, OrderedIs
      <3>3. \A i \in 1 .. Len(o) : tb[sec][o[i]] # 0 /\ o[i] \in Ids
        BY <3>1, ElementOfSeq DEF SectionsAre, Begun
      <3>4. Len(a) = Len(o) + 1 /\ a[Len(o) + 1] = n /\ \A i \in 1 .. Len(o) : a[i] = o[i]
        BY <3>1, AppendProperties
      <3> HIDE DEF a, o
      <3>5. CASE j \in 1 .. Len(o) /\ T.order[sec][j] = o[j]
        BY <1>2, <1>3, <3>3, <3>5
      <3>6. CASE sec = nx /\ T.order[sec][j] = n
        BY <1>2, <1>3, <3>6
      <3> QED BY <3>1, <3>2, <3>4, <3>5, <3>6
    <2> QED BY <2>1, <2>2 DEF Begun
  <1>7. Ended(T, c, nx, n)
    <2> SUFFICES ASSUME NEW sec \in AB, NEW id \in Ids, Tb[sec][id] # 0, ~(nx = sec /\ id = n) PROVE Within(T, c, sec, id)
      BY DEF Ended
    <2>1. Tb[sec][id] = tb[sec][id]
      BY <1>3
    <2>2. Within(t, c, sec, id)
      BY <1>4, <2>1 DEF SectionsAre, Ended
    <2> QED BY <2>1, <2>2 DEF Within
  <1>8. SameOrder(T, c, nx, n)
    <2>1. t.order = c.order
      BY <1>4 DEF SectionsAre, SameOrder
    <2> QED BY <1>5, <2>1 DEF SameOrder
  <1>9. Open(T, c, nx, n, k + 1, k + 1, left2)
    BY <1>2, <1>3, <1>5 DEF Open
  <1> QED BY <1>4, <1>6, <1>7, <1>8, <1>9 DEF SectionsAre

\* A sample of the section comes to the CBOR file.
LEMMA SampleKeeps ==
  ASSUME NEW t \in Results, NEW c \in Results, NEW s \in AB, NEW nx, NEW n \in Ids, NEW w \in Times, NEW k \in Times, NEW left, NEW left2,
         SectionsAre(t, c, s, nx, n, w, k, left),
         NEW d,
         d.begin = IF c.begin[s][n] = 0 THEN Entered(c.begin, s, n, k) ELSE c.begin,
         d.order = IF c.begin[s][n] = 0 THEN Ordered(c.order, s, n) ELSE c.order,
         d.end = Entered(c.end, s, n, k)
  PROVE  SectionsAre(t, d, s, nx, n, w, k + 1, left2)
  <1> DEFINE tb == t.begin
             cb == c.begin
             ce == c.end
  <1>1. tb \in Tables /\ cb \in Tables /\ t.order \in Orders /\ c.order \in Orders /\ t.end \in Tables /\ ce \in Tables
    BY ResultIs
  <1>2. k \in Nat /\ k # 0 /\ w \in Nat
    BY DEF Times
  <1>3. \A sec \in AB, id \in Ids : /\ d.begin[sec][id] = IF sec = s /\ id = n /\ cb[s][n] = 0 THEN k ELSE cb[sec][id]
                                    /\ d.end[sec][id] = IF sec = s /\ id = n THEN k ELSE ce[sec][id]
    <2> HIDE DEF cb, ce
    <2>1. d.begin = (IF cb[s][n] = 0 THEN Entered(cb, s, n, k) ELSE cb) /\ d.end = Entered(ce, s, n, k)
      BY DEF cb, ce
    <2>2. \A sec \in AB, id \in Ids : /\ Entered(cb, s, n, k)[sec][id] = IF sec = s /\ id = n THEN k ELSE cb[sec][id]
                                      /\ Entered(ce, s, n, k)[sec][id] = IF sec = s /\ id = n THEN k ELSE ce[sec][id]
      BY <1>1, <1>2, EnteredIs
    <2> QED BY <2>1, <2>2
  <1>4. /\ tb[s][n] # 0 /\ tb[s][n] <= w /\ w <= k
        /\ cb[s][n] # 0 => tb[s][n] <= cb[s][n] /\ cb[s][n] <= ce[s][n] /\ ce[s][n] < k
    BY DEF SectionsAre, Open
  <1>5. tb[s][n] \in Nat /\ cb[s][n] \in Nat /\ ce[s][n] \in Nat
    BY <1>1, EntriesAre
  <1>6. Begun(t, d, s, nx, n)
    BY <1>3, <1>4 DEF SectionsAre, Begun
  <1>7. Ended(t, d, s, n)
    BY <1>3 DEF SectionsAre, Ended, Within
  <1>8. SameOrder(t, d, s, n)
    <2>1. d.begin[s][n] # 0
      BY <1>2, <1>3
    <2> QED BY <2>1 DEF SectionsAre, SameOrder
  <1>9. Open(t, d, s, n, w, k + 1, left2)
    BY <1>2, <1>3, <1>4, <1>5 DEF Open
  <1> QED BY <1>6, <1>7, <1>8, <1>9 DEF SectionsAre

\* The section ends, with the script's time if it is an A section.
LEMMA EndKeeps ==
  ASSUME NEW t \in Results, NEW c \in Results, NEW s \in AB, NEW nx, NEW n \in Ids, NEW w \in Times, NEW k \in Times, NEW left,
         SectionsAre(t, c, s, nx, n, w, k, left), left = <<>>,
         NEW nx2, NEW n2, (s = "A" /\ nx2 = "B" /\ n2 = n) \/ (s = "B" /\ n2 = n + 1), NEW left2,
         NEW T, T.begin = t.begin, T.order = t.order,
         T.end = IF t.begin[s][n] # 0 THEN Entered(t.end, s, n, IF s = "A" THEN w ELSE k) ELSE t.end
  PROVE  SectionsAre(T, c, None, nx2, n2, w, k + 1, left2)
  <1> DEFINE tb == t.begin
             cb == c.begin
             ce == c.end
             e  == IF s = "A" THEN w ELSE k
  <1>1. tb \in Tables /\ cb \in Tables /\ t.order \in Orders /\ c.order \in Orders /\ t.end \in Tables /\ ce \in Tables
    BY ResultIs
  <1>2. k \in Nat /\ w \in Nat /\ e \in Nat /\ n \in Nat
    BY DEF Times, Ids
  <1>3. /\ tb[s][n] # 0 /\ tb[s][n] <= w /\ w <= k /\ cb[s][n] # 0
        /\ tb[s][n] <= cb[s][n] /\ cb[s][n] <= ce[s][n] /\ ce[s][n] < k
    BY DEF SectionsAre, Open
  <1>4. tb[s][n] \in Nat /\ cb[s][n] \in Nat /\ ce[s][n] \in Nat
    BY <1>1, EntriesAre
  <1>5. \A sec \in AB, id \in Ids : T.end[sec][id] = IF sec = s /\ id = n THEN e ELSE t.end[sec][id]
    <2>1. T.end = Entered(t.end, s, n, e)
      BY <1>3
    <2> HIDE DEF e
    <2> DEFINE te == t.end
    <2>2. te \in Tables
      BY <1>1
    <2> HIDE DEF te
    <2>3. \A sec \in AB, id \in Ids : Entered(te, s, n, e)[sec][id] = IF sec = s /\ id = n THEN e ELSE te[sec][id]
      <3>1. e \in Nat
        BY <1>2
      <3>2. s \in AB /\ n \in Ids
        OBVIOUS
      <3>3. Entered(te, s, n, e) \in Tables
        BY <2>2, <3>1, <3>2, EnteredIs
      <3> QED BY <2>2, <3>1, <3>2, EnteredIs
    <2> QED BY <2>1, <2>3 DEF te
  <1>6. None \notin AB /\ None # "init"
    BY DEF AB, None
  <1>7. Begun(T, c, None, nx2, n2)
    <2>1. ASSUME NEW sec \in AB, NEW id \in Ids, Started(sec, id, s, nx, n) PROVE Started(sec, id, None, nx2, n2)
      <3>1. id \in Nat /\ (s = "A" => nx = "A")
        BY DEF Ids, SectionsAre
      <3> QED BY <1>2, <2>1, <3>1 DEF Started, AB
    <2> QED BY <2>1 DEF SectionsAre, Begun
  <1>8. Ended(T, c, None, n2)
    <2> SUFFICES ASSUME NEW sec \in AB, NEW id \in Ids, tb[sec][id] # 0 PROVE Within(T, c, sec, id)
      BY DEF Ended
    <2>1. CASE sec = s /\ id = n
      <3>1. T.end[sec][id] = e
        BY <1>5, <2>1
      <3>2. e >= w /\ (sec = "B" => e = k)
        BY <1>2, <1>3, <2>1
      <3> HIDE DEF e
      <3> QED BY <1>2, <1>3, <1>4, <2>1, <3>1, <3>2 DEF Within
    <2>2. CASE ~(sec = s /\ id = n)
      <3>1. Within(t, c, sec, id)
        BY <2>2 DEF SectionsAre, Ended
      <3> QED BY <1>5, <2>2, <3>1 DEF Within
    <2> QED BY <2>1, <2>2
  <1>9. SameOrder(T, c, None, n2)
    BY <1>3, <1>6 DEF SectionsAre, SameOrder
  <1> QED BY <1>6, <1>7, <1>8, <1>9 DEF SectionsAre, Open

LEMMA NoCommandIs ==
  NoCommand \in Qs
  BY DEF NoCommand, Asked, Qs, SectionTypes

LEMMA InitSections ==
  ASSUME Init
  PROVE  SectionInv
  <1>1. recs = <<>> /\ lines = <<>> /\ section = "init" /\ next = "A" /\ section \notin AB
    BY DEF Init, CaptureInit, AB
  <1>2. ReadOf(NoCommand, lines) = Reading0 /\ CBOROf(NoCommand, recs) = NoResult
    BY <1>1, TextSteps, CBORSteps
  <1>3. Reading0.res = NoResult
    BY DEF Reading0
  <1>4. /\ \A sec \in AB, id \in Ids : NoResult.begin[sec][id] = 0
        /\ \A sec \in AB : NoResult.order[sec] = <<>>
    BY DEF NoResult, AB
  <1>5. Len(<<>>) = 0
    OBVIOUS
  <1>6. Begun(NoResult, NoResult, section, next, seq)
    BY <1>4, <1>5 DEF Begun
  <1>7. Ended(NoResult, NoResult, section, seq)
    BY <1>4 DEF Ended
  <1>8. SectionsAre(NoResult, NoResult, section, next, seq, now, clock, todo)
    BY <1>1, <1>6, <1>7 DEF SectionsAre, SameOrder, Open
  <1> QED BY <1>2, <1>3, <1>8 DEF SectionInv

\* The sample of a command of a section.
LEMMA CollectTables ==
  ASSUME CaptureInv, NEW src \in Srcs, NEW v \in Outs, Collects(src, v), section \in AB
  PROVE  LET c == CBOROf(NoCommand, recs)
             d == CBOROf(NoCommand, recs')
         IN  /\ d.begin = IF c.begin[section][seq] = 0 THEN Entered(c.begin, section, seq, clock) ELSE c.begin
             /\ d.order = IF c.begin[section][seq] = 0 THEN Ordered(c.order, section, seq) ELSE c.order
             /\ d.end = Entered(c.end, section, seq, clock)
  <1> DEFINE c == CBOROf(NoCommand, recs)
             r == Added(src, v)
             d == CBOROf(NoCommand, recs')
  <1>1. recs \in Seq(RecSet) /\ r \in RecSet /\ recs' = Append(recs, r)
    BY DEF Collects, CaptureInv, TypeInv
  <1>2. r.sec = section /\ r.seq = seq /\ r.time = clock /\ r.sec # "init"
    BY DEF Added, AB
  <1> HIDE DEF r
  <1>3. c \in Results /\ d = ValueSample(c, r, NoCommand)
    BY <1>1, CBORSteps
  <1> HIDE DEF c, d
  <1>4. d = Sampled(c, r, NoCommand)
    BY <1>1, <1>2, <1>3, ValueSampleIs
  <1>5. /\ d.begin = (IF c.begin[section][seq] = 0 THEN Entered(c.begin, section, seq, clock) ELSE c.begin)
        /\ d.order = (IF c.begin[section][seq] = 0 THEN Ordered(c.order, section, seq) ELSE c.order)
        /\ d.end = Entered(c.end, section, seq, clock)
    BY <1>2, <1>4 DEF Sampled, Result
  <1> QED BY <1>5 DEF c, d

LEMMA NextSections ==
  ASSUME RootOnly, CaptureInv, FollowInv, SectionInv, [Next]_vars
  PROVE  SectionInv'
  <1> DEFINE st == ReadOf(NoCommand, lines)
             T  == ReadOf(NoCommand, lines')
             c  == CBOROf(NoCommand, recs)
             d  == CBOROf(NoCommand, recs')
             t  == st.res
  <1>1. st \in ReadStates /\ c \in Results /\ t \in Results
    BY TextSteps, CBORSteps, ReadIs DEF CaptureInv, TypeInv
  <1>2. ASSUME run = 1
        PROVE  /\ st.sec = (IF section \in AB THEN section ELSE None)
               /\ SectionsAre(t, c, section, next, seq, now, clock, todo)
    BY <1>2, NoCommandIs DEF FollowInv, Following, SectionInv
  <1>3. SectionInv' <=> (run' = 1 => SectionsAre(T.res, d, section', next', seq', now', clock', todo'))
    BY DEF SectionInv
  <1>4. seq \in Ids /\ now \in Times /\ clock \in Times /\ section \in AB \cup {"init", None} /\ next \in AB /\ lines \in Seq(LineSet)
    BY DEF CaptureInv, TypeInv, Sections, AB
  <1>5. None \notin AB /\ "init" \notin AB /\ None # "init"
    BY DEF AB, None
  <1>6. CASE Collect
    <2>1. PICK src \in Srcs, v \in Outs : Collects(src, v)
      BY <1>6, CollectAdds
    <2>2. UNCHANGED <<run, section, seq, next, now>> /\ clock' = clock + 1 /\ section \in Sections
          /\ lines' = IF run = 1 THEN lines \o Shown(src, v) ELSE lines
      BY <2>1 DEF Collects
    <2> SUFFICES ASSUME run = 1 PROVE SectionsAre(T.res, d, section, next, seq, now, clock + 1, todo')
      BY <1>3, <2>2
    <2>3. lines' = lines \o Shown(src, v)
      BY <2>2
    <2>4. CASE section \in AB
      <3>1. st.sec # None
        BY <1>2, <1>5, <2>4
      <3>2. SameTables(T.res, t)
        BY <2>1, <2>3, <3>1, CollectReads
      <3>3. /\ d.begin = IF c.begin[section][seq] = 0 THEN Entered(c.begin, section, seq, clock) ELSE c.begin
            /\ d.order = IF c.begin[section][seq] = 0 THEN Ordered(c.order, section, seq) ELSE c.order
            /\ d.end = Entered(c.end, section, seq, clock)
        BY <2>1, <2>4, CollectTables
      <3>4. SectionsAre(t, c, section, next, seq, now, clock, todo)
        BY <1>2
      <3> DEFINE left == todo'
                 left0 == todo
                 u == T.res
      <3> HIDE DEF st, T, c, d, t, left, left0, u
      <3>5. SectionsAre(t, d, section, next, seq, now, clock + 1, left)
        BY <1>1, <1>4, <2>4, <3>3, <3>4, SampleKeeps
      <3>6. SameTables(d, d)
        BY DEF SameTables
      <3>7. SectionsAre(u, d, section, next, seq, now, clock + 1, left)
        BY <3>2, <3>5, <3>6, TablesMatter DEF u
      <3> QED BY <3>7 DEF u, left
    <2>5. CASE section \notin AB
      <3>1. st.sec = None
        BY <1>2, <2>5
      <3>2. T = st /\ d = c
        BY <2>1, <2>3, <2>5, <3>1, CollectIgnored
      <3>3. SectionsAre(t, c, section, next, seq, now, clock, todo)
        BY <1>2
      <3> HIDE DEF st, T, c, d
      <3>4. SectionsAre(t, c, section, next, seq, now, clock + 1, todo')
        BY <2>5, <3>3 DEF SectionsAre, Open
      <3> QED BY <3>2, <3>4
    <2> QED BY <2>4, <2>5
  <1>7. CASE BeginSection
    <2>1. /\ UNCHANGED <<run, recs, seq, next>> /\ section = None /\ section' = next
          /\ clock' = clock + 1 /\ now' = clock + 1 /\ todo' = Sources(next)
      BY <1>7 DEF BeginSection
    <2>2. todo' # <<>>
      BY <1>4, <2>1, SourcesAre DEF Sections, AB
    <2> SUFFICES ASSUME run = 1 PROVE SectionsAre(T.res, d, next, next, seq, clock + 1, clock + 1, todo')
      BY <1>3, <2>1
    <2>3. st.sec = None /\ SectionsAre(t, c, None, next, seq, now, clock, todo)
      BY <1>2, <1>5, <2>1
    <2>4. T.res.begin = Entered(t.begin, next, seq, clock) /\ T.res.end = t.end /\ T.res.order = Ordered(t.order, next, seq)
      BY <1>7, <2>3, BeginReads
    <2>5. d = c
      BY <2>1
    <2> DEFINE left == todo'
               left0 == todo
               u == T.res
    <2>6. u.begin = Entered(t.begin, next, seq, clock) /\ u.end = t.end /\ u.order = Ordered(t.order, next, seq) /\ left # <<>>
      BY <2>2, <2>4
    <2> HIDE DEF st, T, c, d, t, left, left0, u
    <2>7. SectionsAre(u, c, next, next, seq, clock + 1, clock + 1, left)
      <3>1. SectionsAre(t, c, None, next, seq, now, clock, left0)
        BY <2>3 DEF left0
      <3> QED BY <1>1, <1>4, <2>6, <3>1, BeginKeeps
    <2> QED BY <2>5, <2>7 DEF u, left
  <1>8. CASE EndSection
    <2>1. /\ UNCHANGED <<run, recs, now>> /\ section' = None /\ section # None /\ todo = <<>> /\ clock' = clock + 1
          /\ seq' = IF section = "B" THEN seq + 1 ELSE seq
          /\ section \in {"init", "A"} => next' = IF section = "init" THEN "A" ELSE "B"
          /\ lines' = IF run = 1 THEN lines \o (IF section = "init" THEN <<>> ELSE <<End(section)>>) ELSE lines
      BY <1>8 DEF EndSection, Printed
    <2> SUFFICES ASSUME run = 1 PROVE SectionsAre(T.res, c, None, next', seq', now, clock + 1, todo')
      BY <1>3, <2>1
    <2>2. SectionsAre(t, c, section, next, seq, now, clock, todo)
      BY <1>2
    <2>3. CASE section = "init"
      <3>1. lines' = lines
        <4>1. lines' = lines \o <<>>
          BY <2>1, <2>3
        <4> QED BY <1>4, <4>1, ConcatEmptySeq
      <3>2. T = st /\ next' = next /\ seq' = seq
        BY <2>1, <2>2, <2>3, <3>1 DEF SectionsAre
      <3> HIDE DEF st, T, c
      <3>3. Begun(t, c, None, next, seq)
        <4>1. ASSUME NEW sec \in AB, NEW id, Started(sec, id, section, next, seq) PROVE Started(sec, id, None, next, seq)
          BY <1>5, <2>3, <4>1 DEF Started
        <4> QED BY <2>2, <4>1 DEF SectionsAre, Begun
      <3>4. Ended(t, c, None, seq) /\ SameOrder(t, c, None, seq)
        BY <1>5, <2>2, <2>3 DEF SectionsAre, Ended, SameOrder
      <3>5. SectionsAre(t, c, None, next, seq, now, clock + 1, todo')
        BY <1>5, <3>3, <3>4 DEF SectionsAre, Open
      <3> QED BY <3>2, <3>5
    <2>4. CASE section \in AB
      <3>1. st.sec = section
        BY <1>2, <2>4
      <3>2. /\ T.res.begin = t.begin /\ T.res.order = t.order
            /\ T.res.end = IF t.begin[section][seq] # 0
                           THEN Entered(t.end, section, seq, IF section = "A" THEN now ELSE clock) ELSE t.end
        BY <1>8, <2>4, <3>1, EndReads
      <3> DEFINE u == T.res
                 left == todo'
                 left0 == todo
                 nx2 == next'
                 n2 == seq'
      <3>3. (section = "A" /\ nx2 = "B" /\ n2 = seq) \/ (section = "B" /\ n2 = seq + 1)
        BY <2>1, <2>4 DEF AB
      <3>4. left0 = <<>> /\ SectionsAre(t, c, section, next, seq, now, clock, left0)
        BY <2>1, <2>2
      <3>5. /\ u.begin = t.begin /\ u.order = t.order
            /\ u.end = IF t.begin[section][seq] # 0
                       THEN Entered(t.end, section, seq, IF section = "A" THEN now ELSE clock) ELSE t.end
        BY <3>2
      <3> HIDE DEF st, T, c, d, t, left, left0, u, nx2, n2
      <3>6. SectionsAre(u, c, None, nx2, n2, now, clock + 1, left)
        BY <1>1, <1>4, <2>4, <3>3, <3>4, <3>5, EndKeeps
      <3> QED BY <3>6 DEF u, nx2, n2, left
    <2> QED BY <1>4, <2>1, <2>3, <2>4
  <1>9. CASE Restart
    <2>1. run' # 1
      BY <1>9 DEF Restart, CaptureInv, TypeInv, Times
    <2> QED BY <2>1 DEF SectionInv
  <1>10. CASE UNCHANGED <<run, recs, lines, section, seq, next, now, clock, todo>>
    BY <1>10 DEF SectionInv
  <1>11. HostStep \/ UNCHANGED vars => UNCHANGED <<run, recs, lines, section, seq, next, now, clock, todo>>
    BY DEF HostStep, vars, captureVars
  <1> QED BY <1>6, <1>7, <1>8, <1>9, <1>10, <1>11 DEF Next, CaptureNext

LEMMA SectionsHold ==
  ASSUME CaptureInv, SectionInv
  PROVE  SameSections
  <1> DEFINE t == ReadOf(NoCommand, lines).res
             c == CBOROf(NoCommand, recs)
  <1>1. ParseTextFile(NoCommand) = t /\ ParseCBORFile(NoCommand) = c
    <2>1. ParseTextFile(NoCommand) = t /\ ParseCBORFile(NoCommand) = FullOf(NoCommand, recs)
      BY DEF ParseTextFile, ParseCBORFile, ReadOf, FullOf
    <2>2. recs \in Seq(RecSet) /\ "stat" \notin NoCommand.cmds
      BY DEF CaptureInv, TypeInv, NoCommand, Asked
    <2> QED BY <2>1, <2>2, SameOf
  <1>2. t \in Results
    BY TextSteps, ReadIs DEF CaptureInv, TypeInv
  <1> HIDE DEF t, c
  <1>3. ASSUME run = 1, section = None
        PROVE  /\ t.order = c.order
               /\ \A sec \in AB : \A id \in ToSet(t.order[sec]) : Within(t, c, sec, id)
    <2>1. SectionsAre(t, c, None, next, seq, now, clock, todo)
      BY <1>3 DEF SectionInv, t, c
    <2>2. None \notin AB
      BY DEF None, AB
    <2>3. t.order = c.order
      BY <2>1, <2>2 DEF SectionsAre, SameOrder
    <2>4. ASSUME NEW sec \in AB, NEW id \in ToSet(t.order[sec]) PROVE Within(t, c, sec, id)
      <3> DEFINE o == t.order[sec]
      <3>1. o \in Seq(Ids)
        BY <1>2, ResultIs DEF Orders
      <3>2. PICK k \in 1 .. Len(o) : id = o[k]
        <4> HIDE DEF o
        <4>1. id \in ToSet(o)
          BY DEF o
        <4> QED BY <3>1, <4>1, LenProperties DEF ToSet
      <3>3. id \in Ids
        BY <3>1, <3>2, ElementOfSeq
      <3>4. t.begin[sec][id] # 0
        BY <2>1, <3>2 DEF SectionsAre, Begun
      <3> QED BY <2>1, <2>2, <3>3, <3>4 DEF SectionsAre, Ended
    <2> QED BY <2>3, <2>4
  <1> QED BY <1>1, <1>3 DEF SameSections, NoCommand, Within, AB

\* In a run without -n, both files list the same sections in the same order,
\* none of them ends before it begins, and a B section of the CBOR file lies
\* within its markers in the text file (parseTextFile, parseCBORFile).
THEOREM SectionsAreSame ==
  ASSUME RootOnly
  PROVE  Spec => []SameSections
  <1>1. Init => CaptureInv /\ FollowInv /\ SectionInv
    BY InitCapture, InitFollow, InitSections
  <1>2. CaptureInv /\ FollowInv /\ SectionInv /\ [Next]_vars => (CaptureInv /\ FollowInv /\ SectionInv)'
    BY NextCapture, NextFollow, NextSections
  <1>3. CaptureInv /\ SectionInv => SameSections
    BY SectionsHold
  <1> QED BY <1>1, <1>2, <1>3, PTL DEF Spec

-----------------------------------------------------------------------------
(* The times of sections.                                                  *)

\* The intervals that have a section of type sec.
Due(sec, id) == sec = "A" => id % 3 = 0

\* Record k is of interval id, in a section of type sec.
IsOf(q, k, sec, id) == k \in 1 .. Len(q) /\ q[k].sec = sec /\ q[k].seq = id

\* No run begins between two records.
OneRun(q, j, k) == \A i \in j .. k : q[i].sec # "init"

\* Within a run intervals follow each other, and each has the sections that are due.
RunsAre(q) ==
    /\ \A j, k \in 1 .. Len(q) : j < k /\ OneRun(q, j, k) => q[j].seq <= q[k].seq
    /\ \A k \in 1 .. Len(q) : q[k].sec \in AB =>
          /\ Due(q[k].sec, q[k].seq)
          /\ \A id \in Ids : id < q[k].seq /\ Due(q[k].sec, id) =>
                \E j \in 1 .. Len(q) : j < k /\ IsOf(q, j, q[k].sec, id) /\ OneRun(q, j, k)

\* So it is of the run that is being written, up to its interval n.
RunIs(q, nx, n) ==
    /\ \A k \in 1 .. Len(q) : OneRun(q, k, Len(q)) => q[k].seq <= n
    /\ \A sec \in AB, id \in Ids : Due(sec, id) /\ (id < n \/ (id = n /\ sec = "A" /\ nx = "B")) =>
          \E j \in 1 .. Len(q) : IsOf(q, j, sec, id) /\ OneRun(q, j, Len(q))

\* The order of the sections; one that has been collected has a record.
TurnsAre(q, s, nx, n, left) ==
    /\ (s \in AB => nx = s) /\ (s = "init" => nx = "A" /\ n = 0) /\ (nx = "A" => n % 3 = 0)
    /\ s # None /\ left = <<>> => IsOf(q, Len(q), s, n)

RunInv ==
    /\ TurnsAre(recs, section, next, seq, todo) /\ RunsAre(recs)
    /\ section # "init" => RunIs(recs, next, seq)

LEMMA Appended ==
  ASSUME NEW q \in Seq(RecSet), NEW r \in RecSet
  PROVE  /\ Len(q) \in Nat /\ Len(Append(q, r)) = Len(q) + 1 /\ Append(q, r)[Len(q) + 1] = r
         /\ \A k \in 1 .. Len(q) : Append(q, r)[k] = q[k] /\ q[k] \in RecSet
         /\ \A j, k \in 1 .. Len(q) : OneRun(Append(q, r), j, k) <=> OneRun(q, j, k)
         /\ \A j \in 1 .. Len(q) : OneRun(Append(q, r), j, Len(q) + 1) <=> OneRun(q, j, Len(q)) /\ r.sec # "init"
         /\ OneRun(Append(q, r), Len(q) + 1, Len(q) + 1) <=> r.sec # "init"
         /\ \A k \in 1 .. Len(q) : \A sec, id : IsOf(Append(q, r), k, sec, id) <=> IsOf(q, k, sec, id)
  <1> DEFINE m == Len(q)
             a == Append(q, r)
  <1>1. m \in Nat /\ Len(a) = m + 1 /\ a[m + 1] = r /\ \A k \in 1 .. m : a[k] = q[k] /\ q[k] \in RecSet
    BY AppendProperties, LenProperties, ElementOfSeq
  <1> HIDE DEF m, a
  <1>2. \A j, k \in 1 .. m : OneRun(a, j, k) <=> OneRun(q, j, k)
    BY <1>1 DEF OneRun
  <1>3. \A j \in 1 .. m : OneRun(a, j, m + 1) <=> OneRun(q, j, m) /\ r.sec # "init"
    <2> SUFFICES ASSUME NEW j \in 1 .. m PROVE OneRun(a, j, m + 1) <=> OneRun(q, j, m) /\ r.sec # "init"
      OBVIOUS
    <2>1. \A i : i \in j .. m + 1 <=> (i \in j .. m \/ i = m + 1)
      BY <1>1
    <2>2. \A i \in j .. m : a[i] = q[i]
      BY <1>1
    <2> QED BY <1>1, <2>1, <2>2 DEF OneRun
  <1>4. OneRun(a, m + 1, m + 1) <=> r.sec # "init"
    <2>1. \A i : i \in m + 1 .. m + 1 <=> i = m + 1
      BY <1>1
    <2> QED BY <1>1, <2>1 DEF OneRun
  <1>5. \A k \in 1 .. m : \A sec, id : IsOf(a, k, sec, id) <=> IsOf(q, k, sec, id)
    BY <1>1 DEF IsOf, m
  <1> QED BY <1>1, <1>2, <1>3, <1>4, <1>5 DEF m, a

\* A record of the interval n, or of the init section, is added.
LEMMA RunsGrow ==
  ASSUME NEW q \in Seq(RecSet), NEW r \in RecSet, RunsAre(q), NEW nx, NEW n \in Ids,
         r.sec \in AB => RunIs(q, nx, n) /\ r.seq = n /\ Due(r.sec, n)
  PROVE  RunsAre(Append(q, r)) /\ (r.sec \in AB => RunIs(Append(q, r), nx, n))
  <1> DEFINE m == Len(q)
             a == Append(q, r)
  <1>1. /\ m \in Nat /\ Len(a) = m + 1 /\ a[m + 1] = r
        /\ \A k \in 1 .. m : a[k] = q[k] /\ q[k] \in RecSet
        /\ \A j, k \in 1 .. m : OneRun(a, j, k) <=> OneRun(q, j, k)
        /\ \A j \in 1 .. m : OneRun(a, j, m + 1) <=> OneRun(q, j, m) /\ r.sec # "init"
        /\ OneRun(a, m + 1, m + 1) <=> r.sec # "init"
        /\ \A k \in 1 .. m : \A sec, id : IsOf(a, k, sec, id) <=> IsOf(q, k, sec, id)
    BY Appended
  <1> HIDE DEF m, a
  <1>2. r.sec \in AB \/ r.sec = "init"
    BY RecordIs
  <1>3. "init" \notin AB /\ n \in Nat
    BY DEF AB, Ids
  <1>4. ASSUME NEW j \in 1 .. m + 1, NEW k \in 1 .. m + 1, j < k, OneRun(a, j, k)
        PROVE  a[j].seq <= a[k].seq
    <2>1. CASE k \in 1 .. m
      BY <1>1, <1>4, <2>1 DEF RunsAre, m
    <2>2. CASE k = m + 1
      <3>1. j \in 1 .. m
        BY <1>1, <1>4, <2>2
      <3>2. OneRun(q, j, m) /\ r.sec # "init"
        BY <1>1, <1>4, <2>2, <3>1
      <3>3. q[j].seq <= n /\ r.seq = n
        BY <1>2, <3>1, <3>2 DEF RunIs, m
      <3> QED BY <1>1, <2>2, <3>1, <3>3
    <2> QED BY <1>1, <2>1, <2>2
  <1>5. ASSUME NEW k \in 1 .. m + 1, a[k].sec \in AB
        PROVE  /\ Due(a[k].sec, a[k].seq)
               /\ \A id \in Ids : id < a[k].seq /\ Due(a[k].sec, id) =>
                     \E j \in 1 .. m + 1 : j < k /\ IsOf(a, j, a[k].sec, id) /\ OneRun(a, j, k)
    <2>1. CASE k \in 1 .. m
      <3>1. a[k] = q[k]
        BY <1>1, <2>1
      <3>2. Due(q[k].sec, q[k].seq)
        BY <1>5, <2>1, <3>1 DEF RunsAre, m
      <3>3. ASSUME NEW id \in Ids, id < q[k].seq, Due(q[k].sec, id)
            PROVE  \E j \in 1 .. m + 1 : j < k /\ IsOf(a, j, q[k].sec, id) /\ OneRun(a, j, k)
        <4>1. PICK j \in 1 .. m : j < k /\ IsOf(q, j, q[k].sec, id) /\ OneRun(q, j, k)
          BY <1>5, <2>1, <3>1, <3>3 DEF RunsAre, m
        <4>2. j \in 1 .. m + 1 /\ IsOf(a, j, q[k].sec, id) /\ OneRun(a, j, k)
          BY <1>1, <2>1, <4>1
        <4> QED BY <4>1, <4>2
      <3> QED BY <3>1, <3>2, <3>3
    <2>2. CASE k = m + 1
      <3>1. a[k] = r /\ r.sec \in AB /\ r.sec # "init"
        BY <1>1, <1>3, <1>5, <2>2
      <3>2. Due(r.sec, r.seq)
        BY <3>1
      <3>3. ASSUME NEW id \in Ids, id < r.seq, Due(r.sec, id)
            PROVE  \E j \in 1 .. m + 1 : j < k /\ IsOf(a, j, r.sec, id) /\ OneRun(a, j, k)
        <4>1. PICK j \in 1 .. m : IsOf(q, j, r.sec, id) /\ OneRun(q, j, m)
          BY <3>1, <3>3 DEF RunIs, m
        <4>2. j \in 1 .. m + 1 /\ j < k /\ IsOf(a, j, r.sec, id) /\ OneRun(a, j, k)
          BY <1>1, <2>2, <3>1, <4>1
        <4> QED BY <4>2
      <3> QED BY <3>1, <3>2, <3>3
    <2> QED BY <1>1, <2>1, <2>2
  <1>6. RunsAre(a)
    BY <1>1, <1>4, <1>5 DEF RunsAre
  <1>7. ASSUME r.sec \in AB PROVE RunIs(a, nx, n)
    <2>1. r.sec # "init" /\ RunIs(q, nx, n) /\ r.seq = n
      BY <1>3, <1>7
    <2>2. ASSUME NEW k \in 1 .. m + 1, OneRun(a, k, m + 1) PROVE a[k].seq <= n
      <3>1. CASE k \in 1 .. m
        BY <1>1, <2>1, <2>2, <3>1 DEF RunIs, m
      <3>2. CASE k = m + 1
        BY <1>1, <1>3, <2>1, <3>2
      <3> QED BY <1>1, <3>1, <3>2
    <2>3. ASSUME NEW sec \in AB, NEW id \in Ids, Due(sec, id), id < n \/ (id = n /\ sec = "A" /\ nx = "B")
          PROVE  \E j \in 1 .. m + 1 : IsOf(a, j, sec, id) /\ OneRun(a, j, m + 1)
      <3>1. PICK j \in 1 .. m : IsOf(q, j, sec, id) /\ OneRun(q, j, m)
        BY <2>1, <2>3 DEF RunIs, m
      <3>2. j \in 1 .. m + 1 /\ IsOf(a, j, sec, id) /\ OneRun(a, j, m + 1)
        BY <1>1, <2>1, <3>1
      <3> QED BY <3>2
    <2> QED BY <1>1, <2>2, <2>3 DEF RunIs
  <1> QED BY <1>6, <1>7 DEF a

LEMMA InitRuns ==
  ASSUME RootOnly, Init
  PROVE  RunInv
  <1>1. recs = <<>> /\ Len(recs) = 0 /\ section = "init" /\ next = "A" /\ seq = 0 /\ todo = Sources("init") /\ section \notin AB
    BY DEF Init, CaptureInit, AB
  <1>2. todo # <<>>
    BY <1>1, SourcesAre DEF Sections
  <1>3. TurnsAre(recs, section, next, seq, todo)
    BY <1>1, <1>2 DEF TurnsAre
  <1>4. RunsAre(recs)
    BY <1>1 DEF RunsAre
  <1> QED BY <1>1, <1>3, <1>4 DEF RunInv

LEMMA NextRuns ==
  ASSUME RootOnly, CaptureInv, RunInv, [Next]_vars
  PROVE  RunInv'
  <1>1. /\ TurnsAre(recs, section, next, seq, todo) /\ RunsAre(recs)
        /\ section # "init" => RunIs(recs, next, seq)
    BY DEF RunInv
  <1>2. None \notin AB /\ "init" \notin AB /\ None # "init" /\ "A" \in AB /\ "B" \in AB /\ "A" # "B"
    BY DEF AB, None
  <1>3. /\ seq \in Ids /\ seq \in Nat /\ recs \in Seq(RecSet) /\ section \in AB \cup {"init", None} /\ next \in AB
        /\ Len(recs) \in Nat /\ \A k \in 1 .. Len(recs) : recs[k] \in RecSet
    BY LenProperties, ElementOfSeq DEF CaptureInv, TypeInv, Ids, Sections, AB
  <1>4. RunInv' <=> /\ TurnsAre(recs', section', next', seq', todo') /\ RunsAre(recs')
                    /\ section' # "init" => RunIs(recs', next', seq')
    BY DEF RunInv
  <1>5. CASE Collect
    <2>1. PICK src \in Srcs, v \in Outs : Collects(src, v)
      BY <1>5, CollectAdds
    <2> DEFINE r == Added(src, v)
               a == Append(recs, r)
    <2>2. UNCHANGED <<section, seq, next>> /\ section \in Sections /\ recs' = a /\ r \in RecSet
      BY <2>1 DEF Collects
    <2>3. r.sec = section /\ r.seq = seq
      BY DEF Added
    <2>4. section = "init" \/ section \in AB
      BY <2>2 DEF Sections, AB
    <2> HIDE DEF r
    <2>5. /\ section \in AB => next = section /\ (next = "A" => seq % 3 = 0)
      BY <1>1 DEF TurnsAre
    <2>6. r.sec \in AB => RunIs(recs, next, seq) /\ r.seq = seq /\ Due(r.sec, seq)
      BY <1>1, <1>2, <2>3, <2>5 DEF Due
    <2>7. RunsAre(a) /\ (r.sec \in AB => RunIs(a, next, seq))
      <3> HIDE DEF a
      <3> QED BY <1>1, <1>3, <2>2, <2>6, RunsGrow DEF a
    <2>8. IsOf(a, Len(a), section, seq)
      <3>1. Len(recs) \in Nat /\ Len(a) = Len(recs) + 1 /\ a[Len(recs) + 1] = r
        BY <1>3, <2>2, Appended
      <3> HIDE DEF a
      <3> QED BY <2>3, <3>1 DEF IsOf
    <2> HIDE DEF a
    <2>9. TurnsAre(a, section, next, seq, todo')
      BY <1>1, <2>8 DEF TurnsAre
    <2> QED BY <1>2, <1>4, <2>2, <2>3, <2>4, <2>7, <2>9
  <1>6. CASE BeginSection
    <2>1. UNCHANGED <<recs, seq, next>> /\ section = None /\ section' = next /\ todo' = Sources(next)
      BY <1>6 DEF BeginSection
    <2>2. todo' # <<>>
      BY <1>3, <2>1, SourcesAre DEF Sections, AB
    <2>3. TurnsAre(recs, next, next, seq, todo')
      BY <1>1, <1>2, <1>3, <2>2 DEF TurnsAre
    <2> QED BY <1>1, <1>2, <1>4, <2>1, <2>3
  <1>7. CASE EndSection
    <2>1. /\ UNCHANGED <<recs, todo>> /\ section # None /\ todo = <<>> /\ section' = None
          /\ seq' = IF section = "B" THEN seq + 1 ELSE seq
          /\ next' = CASE section = "init" -> "A"
                       [] section = "A"    -> "B"
                       [] section = "B"    -> IF seq' % 3 = 0 THEN "A" ELSE "B"
      BY <1>7 DEF EndSection
    <2> DEFINE m == Len(recs)
               n2 == seq'
               nx2 == next'
    <2>2. IsOf(recs, m, section, seq)
      BY <1>1, <2>1 DEF TurnsAre
    <2>3. m \in 1 .. Len(recs) /\ recs[m].sec = section /\ recs[m].seq = seq
      BY <2>2 DEF IsOf
    <2>4. OneRun(recs, m, m) <=> section # "init"
      <3>1. \A i : i \in m .. m <=> i = m
        BY <1>3
      <3> QED BY <2>3, <3>1 DEF OneRun
    <2>5. CASE section = "init"
      <3>1. n2 = seq /\ nx2 = "A" /\ seq = 0
        BY <1>1, <2>1, <2>5 DEF TurnsAre
      <3>2. \A k \in 1 .. Len(recs) : ~OneRun(recs, k, m)
        BY <1>3, <2>3, <2>5 DEF OneRun
      <3>3. RunIs(recs, nx2, n2)
        <4>1. \A id \in Ids : ~(id < 0)
          BY DEF Ids
        <4> QED BY <1>2, <3>1, <3>2, <4>1 DEF RunIs, m
      <3>4. TurnsAre(recs, None, nx2, n2, todo')
        BY <1>2, <3>1 DEF TurnsAre
      <3> QED BY <1>1, <1>4, <2>1, <3>3, <3>4
    <2>6. CASE section = "A"
      <3>1. n2 = seq /\ nx2 = "B" /\ section # "init"
        BY <2>1, <2>6
      <3>2. RunIs(recs, nx2, n2)
        <4>1. RunIs(recs, next, seq)
          BY <1>1, <3>1
        <4>2. ASSUME NEW sec \in AB, NEW id \in Ids, Due(sec, id), id < seq \/ (id = seq /\ sec = "A" /\ nx2 = "B")
              PROVE  \E j \in 1 .. Len(recs) : IsOf(recs, j, sec, id) /\ OneRun(recs, j, Len(recs))
          <5>1. CASE id < seq
            BY <4>1, <4>2, <5>1 DEF RunIs
          <5>2. CASE id = seq /\ sec = "A"
            BY <2>2, <2>3, <2>4, <2>6, <3>1, <5>2 DEF m
          <5> QED BY <4>2, <5>1, <5>2
        <4> HIDE DEF nx2, n2
        <4> QED BY <3>1, <4>1, <4>2 DEF RunIs
      <3>3. TurnsAre(recs, None, nx2, n2, todo')
        BY <1>2, <3>1 DEF TurnsAre
      <3> QED BY <1>1, <1>4, <2>1, <3>2, <3>3
    <2>7. CASE section = "B"
      <3>1. n2 = seq + 1 /\ nx2 = (IF n2 % 3 = 0 THEN "A" ELSE "B") /\ section # "init" /\ next = "B"
        <4>1. section # "init" /\ section # "A" /\ section \in AB
          BY <1>2, <2>7
        <4> QED BY <1>1, <2>1, <2>7, <4>1 DEF TurnsAre
      <3> HIDE DEF n2, nx2
      <3>2. RunIs(recs, nx2, n2)
        <4>1. RunIs(recs, next, seq)
          BY <1>1, <3>1
        <4>2. ASSUME NEW k \in 1 .. Len(recs), OneRun(recs, k, Len(recs)) PROVE recs[k].seq <= n2
          <5>1. recs[k].seq <= seq /\ recs[k].seq \in Nat
            <6>1. recs[k].seq <= seq
              BY <4>1, <4>2 DEF RunIs
            <6>2. recs[k].seq \in Ids
              BY <1>3, RecordIs
            <6> QED BY <6>1, <6>2 DEF Ids
          <5> QED BY <1>3, <3>1, <5>1
        <4>3. ASSUME NEW sec \in AB, NEW id \in Ids, Due(sec, id), id < n2 \/ (id = n2 /\ sec = "A" /\ nx2 = "B")
              PROVE  \E j \in 1 .. Len(recs) : IsOf(recs, j, sec, id) /\ OneRun(recs, j, Len(recs))
          <5>1. CASE id < seq \/ (id = seq /\ sec = "A")
            BY <3>1, <4>1, <4>3, <5>1 DEF RunIs
          <5>2. CASE id = seq /\ sec = "B"
            BY <2>2, <2>3, <2>4, <2>7, <3>1, <5>2 DEF m
          <5>3. ~(id = n2 /\ sec = "A" /\ nx2 = "B")
            BY <3>1, <4>3 DEF Due
          <5>4. id < n2 => id < seq \/ id = seq
            BY <1>3, <3>1 DEF Ids
          <5> QED BY <4>3, <5>1, <5>2, <5>3, <5>4 DEF AB
        <4> QED BY <4>2, <4>3 DEF RunIs
      <3>3. TurnsAre(recs, None, nx2, n2, todo')
        BY <1>2, <3>1 DEF TurnsAre
      <3>4. nx2 = next' /\ n2 = seq'
        BY DEF nx2, n2
      <3> QED BY <1>1, <1>4, <2>1, <3>2, <3>3, <3>4
    <2> QED BY <1>3, <2>1, <2>5, <2>6, <2>7 DEF AB
  <1>8. CASE Restart
    <2>1. UNCHANGED recs /\ section' = "init" /\ next' = "A" /\ seq' = 0 /\ todo' = Sources("init")
      BY <1>8 DEF Restart
    <2>2. todo' # <<>>
      BY <2>1, SourcesAre DEF Sections
    <2>3. TurnsAre(recs, "init", "A", 0, todo')
      BY <1>2, <2>2 DEF TurnsAre
    <2> QED BY <1>1, <1>4, <2>1, <2>3
  <1>9. CASE UNCHANGED <<recs, section, seq, next, todo>>
    BY <1>9 DEF RunInv
  <1>10. HostStep \/ UNCHANGED vars => UNCHANGED <<recs, section, seq, next, todo>>
    BY DEF HostStep, vars, captureVars
  <1> QED BY <1>5, <1>6, <1>7, <1>8, <1>9, <1>10 DEF Next, CaptureNext

\* The list of sections is in the order in which they begin.
Ascending(b, o) ==
    /\ \A i \in 1 .. Len(o) : b[o[i]] # 0
    /\ \A i, j \in 1 .. Len(o) : i < j => b[o[i]] < b[o[j]]
    /\ \A id \in Ids : b[id] # 0 => \E i \in 1 .. Len(o) : o[i] = id

\* A section begins with its first record and ends with its last, of any run.
Tabled(c, q) ==
    /\ \A k \in 1 .. Len(q) : q[k].sec \in AB =>
          /\ c.begin[q[k].sec][q[k].seq] # 0 /\ c.begin[q[k].sec][q[k].seq] <= q[k].time
          /\ q[k].time <= c.end[q[k].sec][q[k].seq]
    /\ \A sec \in AB, id \in Ids : c.begin[sec][id] # 0 =>
          /\ \E k \in 1 .. Len(q) : IsOf(q, k, sec, id) /\ q[k].time = c.begin[sec][id]
          /\ \E k \in 1 .. Len(q) : IsOf(q, k, sec, id) /\ q[k].time = c.end[sec][id]
    /\ \A sec \in AB : Ascending(c.begin[sec], c.order[sec])

TabledInv == Tabled(CBOROf(NoCommand, recs), recs)

LEMMA InitTabled ==
  ASSUME Init
  PROVE  TabledInv
  <1>1. recs = <<>> /\ Len(recs) = 0
    BY DEF Init, CaptureInit
  <1>2. CBOROf(NoCommand, recs) = NoResult
    BY <1>1, CBORSteps
  <1>3. /\ \A sec \in AB, id \in Ids : NoResult.begin[sec][id] = 0
        /\ \A sec \in AB : NoResult.order[sec] = <<>>
    BY DEF NoResult, AB
  <1>4. Len(<<>>) = 0
    OBVIOUS
  <1>5. \A sec \in AB : Ascending(NoResult.begin[sec], NoResult.order[sec])
    BY <1>3, <1>4 DEF Ascending
  <1> QED BY <1>1, <1>2, <1>3, <1>5 DEF TabledInv, Tabled

\* All is before t; b2 differs from b in that id begins at t.
Before(b, t) == \A i \in Ids : b[i] \in Nat /\ b[i] < t
BeginsAt(b2, b, id, t) == \A i \in Ids : b2[i] = IF i = id THEN t ELSE b[i]

\* A section that begins now comes last.
LEMMA AscendingGrows ==
  ASSUME NEW b, NEW o \in Seq(Ids), Ascending(b, o), NEW id \in Ids, NEW t \in Nat, t # 0, NEW b2,
         Before(b, t), b[id] = 0, BeginsAt(b2, b, id, t)
  PROVE  Ascending(b2, Append(o, id))
  <1> DEFINE m == Len(o)
             a == Append(o, id)
  <1>1. /\ m \in Nat /\ Len(a) = m + 1 /\ a[m + 1] = id
        /\ \A i \in 1 .. m : a[i] = o[i] /\ o[i] \in Ids
    BY AppendProperties, LenProperties, ElementOfSeq
  <1> HIDE DEF m, a
  <1>2. \A i \in 1 .. m : b[o[i]] # 0 /\ o[i] # id /\ b2[o[i]] = b[o[i]] /\ b[o[i]] < t
    BY <1>1 DEF Ascending, m, Before, BeginsAt
  <1>3. b2[id] = t
    BY DEF BeginsAt
  <1>4. \A i \in 1 .. m + 1 : b2[a[i]] # 0
    BY <1>1, <1>2, <1>3
  <1>5. ASSUME NEW i \in 1 .. m + 1, NEW j \in 1 .. m + 1, i < j PROVE b2[a[i]] < b2[a[j]]
    <2>1. i \in 1 .. m
      BY <1>1, <1>5
    <2>2. CASE j \in 1 .. m
      BY <1>1, <1>2, <1>5, <2>1, <2>2 DEF Ascending, m
    <2>3. CASE j = m + 1
      BY <1>1, <1>2, <1>3, <2>1, <2>3
    <2> QED BY <1>1, <2>2, <2>3
  <1>6. ASSUME NEW i \in Ids, b2[i] # 0 PROVE \E j \in 1 .. m + 1 : a[j] = i
    <2>1. CASE i = id
      BY <1>1, <2>1
    <2>2. CASE i # id
      <3>1. PICK j \in 1 .. m : o[j] = i
        BY <1>6, <2>2 DEF Ascending, m, BeginsAt
      <3> QED BY <1>1, <3>1
    <2> QED BY <2>1, <2>2
  <1> QED BY <1>1, <1>4, <1>5, <1>6 DEF Ascending, a

\* A record later than all.
LEMMA TabledGrows ==
  ASSUME NEW q \in Seq(RecSet), NEW r \in RecSet, r.sec \in AB, NEW c \in Results, Tabled(c, q),
         \A k \in 1 .. Len(q) : q[k].time < r.time, NEW d,
         d.begin = IF c.begin[r.sec][r.seq] = 0 THEN Entered(c.begin, r.sec, r.seq, r.time) ELSE c.begin,
         d.order = IF c.begin[r.sec][r.seq] = 0 THEN Ordered(c.order, r.sec, r.seq) ELSE c.order,
         d.end = Entered(c.end, r.sec, r.seq, r.time)
  PROVE  Tabled(d, Append(q, r))
  <1> DEFINE m == Len(q)
             a == Append(q, r)
             s == r.sec
             n == r.seq
             t == r.time
             cb == c.begin
             ce == c.end
  <1>1. /\ m \in Nat /\ Len(a) = m + 1 /\ a[m + 1] = r
        /\ \A k \in 1 .. m : a[k] = q[k] /\ q[k] \in RecSet
        /\ \A k \in 1 .. m : \A sec, id : IsOf(a, k, sec, id) <=> IsOf(q, k, sec, id)
    BY Appended
  <1>2. s \in AB /\ n \in Ids /\ t \in Nat /\ t # 0
    BY RecordIs DEF Times
  <1>3. cb \in Tables /\ ce \in Tables /\ c.order \in Orders
    BY ResultIs
  <1>4. \A k \in 1 .. m : q[k].time \in Nat /\ q[k].time < t /\ q[k].seq \in Ids
    BY <1>1, RecordIs
  <1>5. /\ d.begin = IF cb[s][n] = 0 THEN Entered(cb, s, n, t) ELSE cb
        /\ d.end = Entered(ce, s, n, t)
        /\ d.order = IF cb[s][n] = 0 THEN Ordered(c.order, s, n) ELSE c.order
    OBVIOUS
  <1>6. a[m + 1].sec = s /\ a[m + 1].seq = n /\ a[m + 1].time = t
    BY <1>1
  <1> HIDE DEF m, a, s, n, t, cb, ce
  <1>7. \A sec \in AB, id \in Ids : /\ cb[sec][id] \in Nat /\ ce[sec][id] \in Nat
    BY <1>3, EntriesAre
  <1>8. \A sec \in AB, id \in Ids : /\ d.begin[sec][id] = IF sec = s /\ id = n /\ cb[s][n] = 0 THEN t ELSE cb[sec][id]
                                    /\ d.end[sec][id] = IF sec = s /\ id = n THEN t ELSE ce[sec][id]
    <2>1. \A sec \in AB, id \in Ids : /\ Entered(cb, s, n, t)[sec][id] = IF sec = s /\ id = n THEN t ELSE cb[sec][id]
                                      /\ Entered(ce, s, n, t)[sec][id] = IF sec = s /\ id = n THEN t ELSE ce[sec][id]
      <3>1. s \in AB /\ n \in Ids /\ t \in Nat
        BY <1>2
      <3>2. cb \in Tables /\ ce \in Tables
        BY <1>3
      <3>3. Entered(cb, s, n, t) \in Tables /\ Entered(ce, s, n, t) \in Tables
        BY <3>1, <3>2, EnteredIs
      <3>4. \A sec \in AB, id \in Ids : Entered(cb, s, n, t)[sec][id] = IF sec = s /\ id = n THEN t ELSE cb[sec][id]
        BY <3>1, <3>2, EnteredIs
      <3>5. \A sec \in AB, id \in Ids : Entered(ce, s, n, t)[sec][id] = IF sec = s /\ id = n THEN t ELSE ce[sec][id]
        BY <3>1, <3>2, EnteredIs
      <3> QED BY <3>4, <3>5
    <2> QED BY <1>5, <2>1
  <1>9. ASSUME NEW sec \in AB, NEW id \in Ids, cb[sec][id] # 0
        PROVE  /\ \E k \in 1 .. m : IsOf(q, k, sec, id) /\ q[k].time = cb[sec][id]
               /\ \E k \in 1 .. m : IsOf(q, k, sec, id) /\ q[k].time = ce[sec][id]
    BY <1>9 DEF Tabled, m, cb, ce
  <1>10. \A sec \in AB, id \in Ids : cb[sec][id] < t
    BY <1>2, <1>4, <1>9
  <1>11. ASSUME NEW k \in 1 .. m + 1, a[k].sec \in AB
         PROVE  /\ d.begin[a[k].sec][a[k].seq] # 0 /\ d.begin[a[k].sec][a[k].seq] <= a[k].time
                /\ a[k].time <= d.end[a[k].sec][a[k].seq]
    <2>1. CASE k \in 1 .. m
      <3> DEFINE sec == q[k].sec
                 id  == q[k].seq
                 u   == q[k].time
      <3>1. a[k].sec = sec /\ a[k].seq = id /\ a[k].time = u
        BY <1>1, <2>1
      <3>2. cb[sec][id] # 0 /\ cb[sec][id] <= u /\ u <= ce[sec][id]
        BY <1>11, <2>1, <3>1 DEF Tabled, m, cb, ce
      <3>3. sec \in AB /\ id \in Ids /\ u \in Nat /\ u < t
        BY <1>4, <1>11, <2>1, <3>1
      <3> HIDE DEF sec, id, u
      <3>4. d.begin[sec][id] = cb[sec][id] /\ d.end[sec][id] \in {t, ce[sec][id]}
        BY <1>8, <3>2, <3>3
      <3> QED BY <1>2, <3>1, <3>2, <3>3, <3>4
    <2>2. CASE k = m + 1
      <3>1. a[k].sec = s /\ a[k].seq = n /\ a[k].time = t
        BY <1>6, <2>2
      <3>2. d.end[s][n] = t /\ d.begin[s][n] = IF cb[s][n] = 0 THEN t ELSE cb[s][n]
        BY <1>2, <1>8
      <3> QED BY <1>2, <1>7, <1>10, <3>1, <3>2
    <2> QED BY <1>1, <2>1, <2>2
  <1>12. ASSUME NEW sec \in AB, NEW id \in Ids, d.begin[sec][id] # 0
         PROVE  /\ \E k \in 1 .. m + 1 : IsOf(a, k, sec, id) /\ a[k].time = d.begin[sec][id]
                /\ \E k \in 1 .. m + 1 : IsOf(a, k, sec, id) /\ a[k].time = d.end[sec][id]
    <2>1. \A k \in 1 .. m : IsOf(q, k, sec, id) => k \in 1 .. m + 1 /\ IsOf(a, k, sec, id) /\ a[k].time = q[k].time
      BY <1>1
    <2>2. m + 1 \in 1 .. m + 1 /\ IsOf(a, m + 1, s, n) /\ a[m + 1].time = t
      BY <1>1, <1>6 DEF IsOf
    <2>3. CASE sec = s /\ id = n /\ cb[s][n] = 0
      BY <1>8, <2>2, <2>3
    <2>4. CASE cb[sec][id] # 0 /\ ~(sec = s /\ id = n)
      BY <1>8, <1>9, <2>1, <2>4
    <2>5. CASE cb[sec][id] # 0 /\ sec = s /\ id = n
      BY <1>8, <1>9, <2>1, <2>2, <2>5
    <2>6. d.begin[sec][id] = IF sec = s /\ id = n /\ cb[s][n] = 0 THEN t ELSE cb[sec][id]
      BY <1>8
    <2> QED BY <1>12, <2>3, <2>4, <2>5, <2>6
  <1>13. ASSUME NEW sec \in AB PROVE Ascending(d.begin[sec], d.order[sec])
    <2> DEFINE b == cb[sec]
               b2 == d.begin[sec]
               o == c.order[sec]
    <2>1. Ascending(b, o) /\ o \in Seq(Ids)
      BY <1>3 DEF Tabled, Orders, cb
    <2>2. \A i \in Ids : b[i] \in Nat /\ b[i] < t
      BY <1>7, <1>10
    <2>3. \A i \in Ids : b2[i] = IF sec = s /\ i = n /\ cb[s][n] = 0 THEN t ELSE b[i]
      BY <1>8
    <2>4. d.order[sec] = IF cb[s][n] = 0 /\ sec = s THEN Append(o, n) ELSE o
      <3>1. Ordered(c.order, s, n)[sec] = IF sec = s THEN Append(o, n) ELSE o
        BY <1>2, <1>3, OrderedIs
      <3> QED BY <1>5, <3>1
    <2>5. CASE sec = s /\ cb[s][n] = 0
      <3>1. b[n] = 0 /\ (\A i \in Ids : b2[i] = IF i = n THEN t ELSE b[i]) /\ d.order[sec] = Append(o, n)
        BY <2>3, <2>4, <2>5
      <3> HIDE DEF b, b2, o
      <3>2. Ascending(b2, Append(o, n))
        <4>1. o \in Seq(Ids) /\ Ascending(b, o) /\ n \in Ids /\ t \in Nat /\ t # 0 /\ b[n] = 0
          BY <1>2, <2>1, <3>1
        <4>2. Before(b, t) /\ BeginsAt(b2, b, n, t)
          BY <2>2, <3>1 DEF Before, BeginsAt
        <4> QED BY <4>1, <4>2, AscendingGrows
      <3> QED BY <3>1, <3>2 DEF b2
    <2>6. CASE ~(sec = s /\ cb[s][n] = 0)
      <3>1. (\A i \in Ids : b2[i] = b[i]) /\ d.order[sec] = o
        BY <2>3, <2>4, <2>6
      <3>2. \A i \in 1 .. Len(o) : o[i] \in Ids
        BY <2>1, ElementOfSeq
      <3> HIDE DEF b, b2, o
      <3>3. Ascending(b2, o)
        BY <2>1, <3>1, <3>2 DEF Ascending
      <3> QED BY <3>1, <3>3 DEF b2
    <2> QED BY <2>5, <2>6
  <1>14. Tabled(d, a)
    BY <1>1, <1>11, <1>12, <1>13 DEF Tabled
  <1> QED BY <1>14 DEF a

LEMMA NextTabled ==
  ASSUME CaptureInv, TabledInv, [Next]_vars
  PROVE  TabledInv'
  <1>1. CASE Collect
    <2>1. PICK src \in Srcs, v \in Outs : Collects(src, v)
      BY <1>1, CollectAdds
    <2> DEFINE r == Added(src, v)
               c == CBOROf(NoCommand, recs)
               d == CBOROf(NoCommand, recs')
    <2>2. recs \in Seq(RecSet) /\ r \in RecSet /\ recs' = Append(recs, r) /\ section \in Sections
      BY <2>1 DEF Collects, CaptureInv, TypeInv
    <2>3. r.sec = section /\ r.seq = seq /\ r.time = clock
      BY DEF Added
    <2>4. c \in Results /\ d = ValueSample(c, r, NoCommand) /\ Tabled(c, recs)
      <3> HIDE DEF r
      <3> QED BY <2>2, CBORSteps DEF TabledInv
    <2>5. \A k \in 1 .. Len(recs) : recs[k].time < r.time
      BY <2>3 DEF CaptureInv, RecordInv
    <2> SUFFICES Tabled(d, recs')
      BY DEF TabledInv
    <2>6. CASE section \in AB
      <3>1. /\ d.begin = IF c.begin[section][seq] = 0 THEN Entered(c.begin, section, seq, clock) ELSE c.begin
            /\ d.order = IF c.begin[section][seq] = 0 THEN Ordered(c.order, section, seq) ELSE c.order
            /\ d.end = Entered(c.end, section, seq, clock)
        BY <2>1, <2>6, CollectTables
      <3> HIDE DEF r, c, d
      <3>2. /\ d.begin = IF c.begin[r.sec][r.seq] = 0 THEN Entered(c.begin, r.sec, r.seq, r.time) ELSE c.begin
            /\ d.order = IF c.begin[r.sec][r.seq] = 0 THEN Ordered(c.order, r.sec, r.seq) ELSE c.order
            /\ d.end = Entered(c.end, r.sec, r.seq, r.time)
        BY <2>3, <3>1
      <3>3. r.sec \in AB
        BY <2>3, <2>6
      <3>4. Tabled(d, Append(recs, r))
        BY <2>2, <2>4, <2>5, <3>2, <3>3, TabledGrows
      <3> QED BY <2>2, <3>4
    <2>7. CASE section = "init"
      <3> HIDE DEF r, c, d
      <3>1. d = c
        BY <2>2, <2>3, <2>4, <2>7, ValueSampleIs
      <3> DEFINE a == Append(recs, r)
                 m == Len(recs)
      <3>2. /\ m \in Nat /\ Len(a) = m + 1 /\ a[m + 1] = r
            /\ \A k \in 1 .. m : a[k] = recs[k]
            /\ \A k \in 1 .. m : \A sec, id : IsOf(a, k, sec, id) <=> IsOf(recs, k, sec, id)
        BY <2>2, Appended
      <3>3. r.sec \notin AB
        BY <2>3, <2>7 DEF AB
      <3> HIDE DEF a, m
      <3>4. ASSUME NEW k \in 1 .. m + 1, a[k].sec \in AB
            PROVE  k \in 1 .. m /\ a[k] = recs[k]
        BY <3>2, <3>3, <3>4
      <3>5. \A k \in 1 .. m : k \in 1 .. m + 1
        BY <3>2
      <3>6. Tabled(c, a)
        <4>1. \A k \in 1 .. m + 1 : a[k].sec \in AB =>
                /\ c.begin[a[k].sec][a[k].seq] # 0 /\ c.begin[a[k].sec][a[k].seq] <= a[k].time
                /\ a[k].time <= c.end[a[k].sec][a[k].seq]
          BY <2>4, <3>4 DEF Tabled, m
        <4>2. ASSUME NEW sec \in AB, NEW id \in Ids, c.begin[sec][id] # 0
              PROVE  /\ \E k \in 1 .. m + 1 : IsOf(a, k, sec, id) /\ a[k].time = c.begin[sec][id]
                     /\ \E k \in 1 .. m + 1 : IsOf(a, k, sec, id) /\ a[k].time = c.end[sec][id]
          <5>1. /\ \E k \in 1 .. m : IsOf(recs, k, sec, id) /\ recs[k].time = c.begin[sec][id]
                /\ \E k \in 1 .. m : IsOf(recs, k, sec, id) /\ recs[k].time = c.end[sec][id]
            BY <2>4, <4>2 DEF Tabled, m
          <5> QED BY <3>2, <3>5, <5>1
        <4> QED BY <2>4, <3>2, <4>1, <4>2 DEF Tabled
      <3> QED BY <2>2, <3>1, <3>6 DEF a
    <2> QED BY <2>2, <2>6, <2>7 DEF Sections, AB
  <1>2. CASE UNCHANGED recs
    BY <1>2 DEF TabledInv
  <1>3. BeginSection \/ EndSection \/ Restart \/ HostStep \/ UNCHANGED vars => UNCHANGED recs
    BY DEF BeginSection, EndSection, Restart, HostStep, vars, captureVars
  <1> QED BY <1>1, <1>2, <1>3 DEF Next, CaptureNext

Later(q) == \A j, k \in 1 .. Len(q) : j < k => q[j].time < q[k].time

LEMMA TimesOrder ==
  ASSUME NEW q \in Seq(RecSet), Later(q)
  PROVE  /\ Len(q) \in Nat /\ \A k \in 1 .. Len(q) : q[k].time \in Nat /\ q[k].seq \in Ids
         /\ \A j, k \in 1 .. Len(q) : /\ q[j].time <= q[k].time => j <= k
                                      /\ q[j].time < q[k].time => j < k
  <1>1. Len(q) \in Nat /\ \A k \in 1 .. Len(q) : q[k].time \in Nat /\ q[k].seq \in Ids
    BY LenProperties, ElementOfSeq, RecordIs
  <1>2. \A j, k \in 1 .. Len(q) : j < k \/ j = k \/ k < j
    BY <1>1
  <1> QED BY <1>1, <1>2 DEF Later

\* A section whose records are of one run has its times to itself.
LEMMA OwnTimes ==
  ASSUME NEW q \in Seq(RecSet), Later(q), RunsAre(q), NEW sec, NEW id \in Ids, NEW f, NEW l,
         IsOf(q, f, sec, id), IsOf(q, l, sec, id), OneRun(q, f, l) \/ f = l,
         NEW k \in 1 .. Len(q), q[f].time <= q[k].time, q[k].time <= q[l].time
  PROVE  q[k].seq = id
  <1>1. f \in 1 .. Len(q) /\ l \in 1 .. Len(q) /\ q[f].seq = id /\ q[l].seq = id
    BY DEF IsOf
  <1>2. f <= k /\ k <= l
    BY <1>1, TimesOrder
  <1>3. CASE f = k \/ k = l
    BY <1>1, <1>3
  <1>4. CASE f < k /\ k < l
    <2>1. OneRun(q, f, l)
      BY <1>1, <1>4
    <2>2. OneRun(q, f, k) /\ OneRun(q, k, l)
      BY <1>1, <1>4, <2>1 DEF OneRun
    <2>3. id <= q[k].seq /\ q[k].seq <= id
      BY <1>1, <1>4, <2>2 DEF RunsAre
    <2> QED BY <2>3, TimesOrder DEF Ids
  <1> QED BY <1>1, <1>2, <1>3, <1>4

\* A section with one record has the time to the next one for itself.
LEMMA AboutTimes ==
  ASSUME NEW q \in Seq(RecSet), Later(q), RunsAre(q), NEW c \in Results, Tabled(c, q), NEW sec \in AB,
         NEW i \in 1 .. Len(c.order[sec]), i + 1 \in 1 .. Len(c.order[sec]),
         c.end[sec][c.order[sec][i]] = c.begin[sec][c.order[sec][i]],
         NEW k \in 1 .. Len(q), q[k].sec = sec,
         c.begin[sec][c.order[sec][i]] <= q[k].time, q[k].time < c.begin[sec][c.order[sec][i + 1]]
  PROVE  q[k].seq = c.order[sec][i]
  <1> DEFINE o   == c.order[sec]
             b   == c.begin[sec]
             id  == o[i]
             id2 == o[i + 1]
             id3 == q[k].seq
  <1>1. o \in Seq(Ids) /\ Len(o) \in Nat /\ (\A j \in 1 .. Len(o) : o[j] \in Ids) /\ \A j \in Ids : b[j] \in Nat
    BY ResultIs, LenProperties, ElementOfSeq, EntriesAre DEF Orders
  <1>2. Ascending(b, o)
    BY DEF Tabled
  <1>a. i \in 1 .. Len(o) /\ i + 1 \in 1 .. Len(o) /\ i < i + 1
    BY <1>1
  <1>b. id \in Ids
    BY <1>1, <1>a
  <1>c. id2 \in Ids
    BY <1>1, <1>a
  <1>d. id3 \in Ids
    BY TimesOrder
  <1>e. b[o[i]] # 0 /\ b[o[i + 1]] # 0 /\ b[o[i]] < b[o[i + 1]]
    <2> HIDE DEF b, o, id, id2, id3
    <2> QED BY <1>2, <1>a DEF Ascending
  <1>3. id \in Ids /\ id2 \in Ids /\ id3 \in Ids /\ b[id] # 0 /\ b[id2] # 0 /\ b[id] < b[id2]
    BY <1>b, <1>c, <1>d, <1>e
  <1>4. PICK f \in 1 .. Len(q) : IsOf(q, f, sec, id) /\ q[f].time = b[id]
    BY <1>3 DEF Tabled
  <1>5. PICK f2 \in 1 .. Len(q) : IsOf(q, f2, sec, id2) /\ q[f2].time = b[id2]
    BY <1>3 DEF Tabled
  <1>6. b[id3] # 0 /\ b[id3] <= q[k].time
    BY DEF Tabled
  <1>7. PICK f3 \in 1 .. Len(q) : IsOf(q, f3, sec, id3) /\ q[f3].time = b[id3]
    BY <1>3, <1>6 DEF Tabled
  <1>8. \A j \in 1 .. Len(q) : IsOf(q, j, sec, id) => j = f
    <2> SUFFICES ASSUME NEW j \in 1 .. Len(q), IsOf(q, j, sec, id) PROVE j = f
      OBVIOUS
    <2>1. b[id] <= q[j].time /\ q[j].time <= c.end[sec][id]
      BY DEF Tabled, IsOf
    <2>2. q[j].time = q[f].time
      BY <1>1, <1>3, <1>4, <2>1, TimesOrder
    <2>3. j <= f /\ f <= j
      BY <2>2, TimesOrder
    <2> QED BY <2>3
  <1>9. b[id] <= q[k].time /\ q[k].time < b[id2]
    OBVIOUS
  <1>10. q[f].sec = sec /\ q[f].seq = id /\ q[f2].sec = sec /\ q[f2].seq = id2 /\ q[f3].sec = sec /\ q[f3].seq = id3 /\ IsOf(q, k, sec, id3)
    BY <1>4, <1>5, <1>7 DEF IsOf
  <1>11. PICK p \in 1 .. Len(o) : o[p] = id3
    BY <1>2, <1>3, <1>6 DEF Ascending
  <1>f. b[id] \in Nat /\ b[id2] \in Nat /\ b[id3] \in Nat
    BY <1>1, <1>b, <1>c, <1>d
  <1>g. id \in Nat /\ id2 \in Nat /\ id3 \in Nat
    BY <1>b, <1>c, <1>d DEF Ids
  <1>h. q[k].time \in Nat
    BY TimesOrder
  <1>12. q[k].sec = sec /\ q[k].time \in Nat /\ b[id] \in Nat /\ b[id2] \in Nat /\ b[id3] \in Nat /\ id \in Nat /\ id2 \in Nat /\ id3 \in Nat
    BY <1>f, <1>g, <1>h
  <1>n. b[id3] < b[id2] /\ ~(b[id2] < b[id3]) /\ b[id2] # b[id3]
    <2> DEFINE x == b[id3]
               y == q[k].time
               z == b[id2]
    <2>1. x \in Nat /\ y \in Nat /\ z \in Nat
      BY <1>f, <1>h
    <2>2. x <= y
      BY <1>6
    <2>3. y < z
      BY <1>9
    <2> HIDE DEF x, y, z
    <2>4. x < z /\ ~(z < x) /\ z # x
      BY <2>1, <2>2, <2>3
    <2> QED BY <2>4 DEF x, z
  <1> SUFFICES ASSUME id3 # id PROVE FALSE
    OBVIOUS
  <1> HIDE DEF b, o, id, id2, id3
  <1>13. b[id3] < b[id]
    <2>1. ~(i + 1 <= p)
      <3> SUFFICES ASSUME i + 1 <= p PROVE FALSE
        OBVIOUS
      <3>1. CASE i + 1 = p
        <4>1. b[id2] = b[id3]
          BY <1>11, <3>1 DEF id2, o
        <4> QED BY <1>n, <4>1
      <3>2. CASE i + 1 < p
        <4>1. b[id2] < b[id3]
          BY <1>2, <1>11, <3>2 DEF Ascending, id2, o
        <4> QED BY <1>n, <4>1
      <3>3. i \in Nat /\ p \in Nat
        BY <1>1, <1>a
      <3> QED BY <3>1, <3>2, <3>3
    <2>2. p # i
      BY <1>11 DEF id
    <2>3. p < i
      BY <1>1, <2>1, <2>2
    <2> QED BY <1>2, <1>11, <2>3 DEF Ascending, id, o
  <1>14. f < k /\ k < f2 /\ f3 < f
    <2>1. k # f
      BY <1>10 DEF id3
    <2>2. f <= k /\ k < f2 /\ f3 < f
      BY <1>4, <1>5, <1>7, <1>9, <1>13, TimesOrder
    <2> QED BY <2>1, <2>2
  <1>15. Due(sec, id) /\ Due(sec, id2)
    BY <1>10 DEF RunsAre
  <1>16. CASE id < id3
    <2>1. \E j \in 1 .. Len(q) : j < f3 /\ IsOf(q, j, sec, id)
      BY <1>3, <1>10, <1>15, <1>16 DEF RunsAre
    <2>2. f < f3
      BY <1>8, <2>1
    <2> QED BY <1>14, <2>2
  <1>17. CASE id3 < id /\ id2 < id
    <2>1. PICK j \in 1 .. Len(q) : j < f /\ IsOf(q, j, sec, id2)
      BY <1>3, <1>10, <1>15, <1>17 DEF RunsAre
    <2>2. q[j].time < q[f].time
      BY <2>1 DEF Later
    <2>3. b[id2] <= q[j].time
      BY <2>1 DEF Tabled, IsOf, b
    <2>4. q[j].time \in Nat
      BY TimesOrder
    <2> QED BY <1>3, <1>4, <1>12, <2>2, <2>3, <2>4
  <1>18. CASE id3 < id /\ id < id2
    <2>1. PICK j \in 1 .. Len(q) : j < f2 /\ IsOf(q, j, sec, id) /\ OneRun(q, j, f2)
      BY <1>3, <1>10, <1>15, <1>18 DEF RunsAre
    <2>2. j = f
      BY <1>8, <2>1
    <2>3. OneRun(q, f, k)
      BY <1>14, <2>1, <2>2 DEF OneRun
    <2>4. q[f].seq <= q[k].seq
      BY <1>14, <2>3 DEF RunsAre
    <2> QED BY <1>10, <1>12, <1>18, <2>4 DEF id3
  <1>19. id2 # id
    BY <1>3, <1>12
  <1> QED BY <1>12, <1>16, <1>17, <1>18, <1>19

\* The row of the i-th section of the list.
RowOf(row, b, e, o, i) ==
    /\ row.id = o[i] /\ o[i] \in Ids /\ row.begin = b[o[i]] /\ b[o[i]] \in Nat /\ b[o[i]] # 0 /\ e[o[i]] \in Nat
    /\ row.about <=> e[o[i]] = b[o[i]] /\ i + 1 \in 1 .. Len(o)
    /\ row.about => b[o[i + 1]] \in Nat /\ row.begin + row.duration = b[o[i + 1]] /\ b[o[i]] < b[o[i + 1]]
    /\ ~row.about => row.begin + row.duration = e[o[i]]

\* A time a row covers.
Covers(row, t) ==
    /\ t >= row.begin
    /\ IF row.about THEN t < row.begin + row.duration ELSE t <= row.begin + row.duration

LEMMA RowIs ==
  ASSUME NEW q \in Seq(RecSet), NEW c \in Results, Tabled(c, q), NEW sec \in AB, NEW i \in 1 .. Len(c.order[sec])
  PROVE  RowOf(Row(c, sec, c.order[sec], i), c.begin[sec], c.end[sec], c.order[sec], i)
  <1> DEFINE o   == c.order[sec]
             b   == c.begin[sec]
             e   == c.end[sec]
             m   == Len(o)
             row == Row(c, sec, o, i)
  <1>1. o \in Seq(Ids) /\ m \in Nat /\ \A j \in 1 .. m : o[j] \in Ids
    BY ResultIs, LenProperties, ElementOfSeq DEF Orders
  <1>2. \A j \in Ids : b[j] \in Nat /\ e[j] \in Nat
    BY ResultIs, EntriesAre
  <1>3. Ascending(b, o)
    BY DEF Tabled
  <1>4. row.id = o[i] /\ row.begin = b[o[i]] /\ (row.about <=> e[o[i]] = b[o[i]] /\ i < m)
    BY DEF Row
  <1>5. row.duration = CASE e[o[i]] = 0 -> None
                         [] row.about   -> b[o[i + 1]] - b[o[i]]
                         [] OTHER       -> e[o[i]] - b[o[i]]
    BY DEF Row
  <1>6. i \in 1 .. m /\ o[i] \in Ids
    BY <1>1
  <1>7. b[o[i]] # 0
    <2> HIDE DEF b, o
    <2> QED BY <1>3, <1>6 DEF Ascending, m
  <1>8. e[o[i]] # 0
    <2>1. PICK k \in 1 .. Len(q) : IsOf(q, k, sec, o[i]) /\ q[k].time = b[o[i]]
      BY <1>6, <1>7 DEF Tabled
    <2>2. b[o[i]] <= e[o[i]]
      BY <2>1 DEF Tabled, IsOf
    <2> QED
      <3> DEFINE x == b[o[i]]
                 y == e[o[i]]
      <3>1. x \in Nat /\ y \in Nat
        BY <1>2, <1>6
      <3>2. x # 0 /\ x <= y
        BY <1>7, <2>2
      <3> HIDE DEF x, y
      <3>3. y # 0
        BY <3>1, <3>2
      <3> QED BY <3>3 DEF y
  <1> HIDE DEF o, b, e, m, row
  <1>9. b[o[i]] \in Nat /\ e[o[i]] \in Nat
    BY <1>2, <1>6
  <1>10. i < m <=> i + 1 \in 1 .. m
    BY <1>1, <1>6
  <1>11. row.about => b[o[i + 1]] \in Nat /\ row.begin + row.duration = b[o[i + 1]] /\ b[o[i]] < b[o[i + 1]]
    <2> SUFFICES ASSUME row.about PROVE b[o[i + 1]] \in Nat /\ row.begin + row.duration = b[o[i + 1]] /\ b[o[i]] < b[o[i + 1]]
      OBVIOUS
    <2>1. i + 1 \in 1 .. m /\ i < i + 1
      BY <1>1, <1>4, <1>6, <1>10
    <2>2. b[o[i + 1]] \in Nat
      BY <1>1, <1>2, <2>1
    <2>3. b[o[i]] < b[o[i + 1]]
      BY <1>3, <1>6, <2>1 DEF Ascending, m
    <2>4. row.duration = b[o[i + 1]] - b[o[i]]
      BY <1>5, <1>8
    <2> QED BY <1>4, <1>9, <2>2, <2>3, <2>4
  <1>12. ~row.about => row.begin + row.duration = e[o[i]]
    <2> SUFFICES ASSUME ~row.about PROVE row.begin + row.duration = e[o[i]]
      OBVIOUS
    <2>1. row.duration = e[o[i]] - b[o[i]]
      BY <1>5, <1>8
    <2> QED BY <1>4, <1>9, <2>1
  <1>13. RowOf(row, b, e, o, i)
    BY <1>4, <1>6, <1>7, <1>9, <1>10, <1>11, <1>12 DEF RowOf, m
  <1> QED BY <1>13 DEF row, b, e, o

\* A row covers the records of its section ...
LEMMA RowCovers ==
  ASSUME NEW q \in Seq(RecSet), NEW c \in Results, Tabled(c, q), NEW sec \in AB, NEW i, NEW row,
         RowOf(row, c.begin[sec], c.end[sec], c.order[sec], i), NEW k, IsOf(q, k, sec, row.id)
  PROVE  Covers(row, q[k].time)
  <1> DEFINE b == c.begin[sec]
             e == c.end[sec]
             o == c.order[sec]
             t == q[k].time
             x == b[o[i]]
             y == e[o[i]]
             z == b[o[i + 1]]
             u == row.begin + row.duration
  <1>1. k \in 1 .. Len(q) /\ q[k].sec = sec /\ q[k].seq = row.id
    BY DEF IsOf
  <1>2. x <= t /\ t <= y
    BY <1>1 DEF Tabled, RowOf
  <1>3. t \in Nat
    BY <1>1, ElementOfSeq, RecordIs
  <1>4. /\ row.begin = x /\ x \in Nat /\ y \in Nat /\ (row.about => y = x /\ z \in Nat /\ u = z /\ x < z)
        /\ ~row.about => u = y
    BY DEF RowOf
  <1> HIDE DEF t, x, y, z, u
  <1>5. t >= x /\ (row.about => t < u) /\ (~row.about => t <= u)
    BY <1>2, <1>3, <1>4
  <1> QED BY <1>4, <1>5 DEF Covers, t, u

\* ... and those alone, when they are of one run.
LEMMA RowIsOwn ==
  ASSUME NEW q \in Seq(RecSet), Later(q), RunsAre(q), NEW c \in Results, Tabled(c, q), NEW sec \in AB,
         NEW i \in 1 .. Len(c.order[sec]), NEW row, RowOf(row, c.begin[sec], c.end[sec], c.order[sec], i),
         \A j, l : IsOf(q, j, sec, row.id) /\ IsOf(q, l, sec, row.id) /\ j < l => OneRun(q, j, l),
         NEW k \in 1 .. Len(q), q[k].sec = sec, Covers(row, q[k].time)
  PROVE  q[k].seq = row.id
  <1> DEFINE b  == c.begin[sec]
             e  == c.end[sec]
             o  == c.order[sec]
             id == row.id
  <1>1. id = o[i] /\ id \in Ids /\ row.begin = b[id] /\ b[id] \in Nat /\ b[id] # 0 /\ e[id] \in Nat
    BY DEF RowOf
  <1>2. q[k].time \in Nat
    BY TimesOrder
  <1>3. b[id] <= q[k].time
    BY <1>1, <1>2 DEF Covers
  <1>4. CASE row.about
    <2>1. e[o[i]] = b[o[i]] /\ i + 1 \in 1 .. Len(o) /\ row.begin + row.duration = b[o[i + 1]]
      BY <1>4 DEF RowOf
    <2>2. q[k].time < b[o[i + 1]]
      BY <1>4, <2>1 DEF Covers
    <2>3. b[o[i]] <= q[k].time
      BY <1>1, <1>3
    <2>4. q[k].seq = o[i]
      BY <2>1, <2>2, <2>3, AboutTimes
    <2> QED BY <1>1, <2>4
  <1>5. CASE ~row.about
    <2>1. row.begin + row.duration = e[id]
      BY <1>1, <1>5 DEF RowOf
    <2>2. q[k].time <= e[id]
      BY <1>5, <2>1 DEF Covers
    <2>3. PICK f \in 1 .. Len(q) : IsOf(q, f, sec, id) /\ q[f].time = b[id]
      BY <1>1 DEF Tabled
    <2>4. PICK l \in 1 .. Len(q) : IsOf(q, l, sec, id) /\ q[l].time = e[id]
      BY <1>1 DEF Tabled
    <2>5. q[f].time <= q[k].time /\ q[k].time <= q[l].time
      BY <1>3, <2>2, <2>3, <2>4
    <2>6. f <= k /\ k <= l
      BY <2>5, TimesOrder
    <2>7. f < l \/ f = l
      BY <2>6
    <2>8. OneRun(q, f, l) \/ f = l
      BY <2>3, <2>4, <2>7
    <2>9. q[k].seq = id
      <3> HIDE DEF id
      <3> QED BY <1>1, <2>3, <2>4, <2>5, <2>8, OwnTimes
    <2> QED BY <2>9
  <1> QED BY <1>4, <1>5

\* The rows of the list are those of the sections that begin in the window.
LEMMA ListingIs ==
  ASSUME NEW c \in Results, NEW sec \in AB, NEW from
  PROVE  \A row : row \in Listing(c, sec, [from |-> from, to |-> 0]) <=>
            \E i \in 1 .. Len(c.order[sec]) : /\ row = Row(c, sec, c.order[sec], i)
                                              /\ from # 0 => c.begin[sec][c.order[sec][i]] >= from
  <1> DEFINE o == c.order[sec]
  <1>1. DOMAIN o = 1 .. Len(o)
    BY ResultIs, LenProperties DEF Orders
  <1>2. \A t : InTimeRange(t, [from |-> from, to |-> 0]) <=> (from # 0 => t >= from)
    BY DEF InTimeRange
  <1> QED BY <1>1, <1>2 DEF Listing

\* The property, of one list of sections.
ListIs(c, q, sec) ==
    LET L == Listing(c, sec, [from |-> 0, to |-> 0])
    IN  /\ \A k \in 1 .. Len(q) : q[k].sec = sec => \E row \in L : row.id = q[k].seq
        /\ \A row \in L :
              /\ \E k \in 1 .. Len(q) : IsOf(q, k, sec, row.id)
              /\ \A k : IsOf(q, k, sec, row.id) => Covers(row, q[k].time)
              /\ (\A j, l : IsOf(q, j, sec, row.id) /\ IsOf(q, l, sec, row.id) /\ j < l => OneRun(q, j, l)) =>
                    \A k \in 1 .. Len(q) : q[k].sec = sec /\ Covers(row, q[k].time) => q[k].seq = row.id
        /\ \A from \in Nat : \A row :
              row \in Listing(c, sec, [from |-> from, to |-> 0]) <=> row \in L /\ row.begin >= from

LEMMA ListHolds ==
  ASSUME NEW q \in Seq(RecSet), Later(q), RunsAre(q), NEW c \in Results, Tabled(c, q), NEW sec \in AB
  PROVE  ListIs(c, q, sec)
  <1> DEFINE L == Listing(c, sec, [from |-> 0, to |-> 0])
             o == c.order[sec]
             b == c.begin[sec]
             e == c.end[sec]
             R(i) == Row(c, sec, o, i)
  <1>1. \A row : row \in L <=> \E i \in 1 .. Len(o) : row = R(i)
    BY ListingIs
  <1>2. \A i \in 1 .. Len(o) : RowOf(R(i), b, e, o, i)
    BY RowIs
  <1>3. ASSUME NEW from \in Nat, NEW row
        PROVE  row \in Listing(c, sec, [from |-> from, to |-> 0]) <=> row \in L /\ row.begin >= from
    <2>1. row \in Listing(c, sec, [from |-> from, to |-> 0]) <=>
             \E i \in 1 .. Len(o) : row = R(i) /\ (from # 0 => b[o[i]] >= from)
      BY ListingIs
    <2>2. \A i \in 1 .. Len(o) : (from # 0 => b[o[i]] >= from) <=> R(i).begin >= from
      <3> SUFFICES ASSUME NEW i \in 1 .. Len(o) PROVE (from # 0 => b[o[i]] >= from) <=> R(i).begin >= from
        OBVIOUS
      <3>1. R(i).begin = b[o[i]] /\ b[o[i]] \in Nat
        BY <1>2 DEF RowOf
      <3> DEFINE x == b[o[i]]
                 y == R(i).begin
      <3>2. y = x /\ x \in Nat
        BY <3>1
      <3> HIDE DEF x, y
      <3>3. (from # 0 => x >= from) <=> y >= from
        BY <3>2
      <3> QED BY <3>3 DEF x, y
    <2> HIDE DEF L, R, b, o
    <2> QED BY <1>1, <2>1, <2>2
  <1>4. ASSUME NEW k \in 1 .. Len(q), q[k].sec = sec PROVE \E row \in L : row.id = q[k].seq
    <2>1. b[q[k].seq] # 0 /\ q[k].seq \in Ids
      BY <1>4, TimesOrder DEF Tabled
    <2>2. Ascending(b, o)
      BY DEF Tabled
    <2>3. PICK i \in 1 .. Len(o) : o[i] = q[k].seq
      <3> HIDE DEF b, o
      <3> QED BY <2>1, <2>2 DEF Ascending
    <2>4. R(i).id = o[i]
      BY <1>2 DEF RowOf
    <2> HIDE DEF L, R, o
    <2> QED BY <1>1, <2>3, <2>4
  <1>5. ASSUME NEW row \in L
        PROVE  /\ \E k \in 1 .. Len(q) : IsOf(q, k, sec, row.id)
               /\ \A k : IsOf(q, k, sec, row.id) => Covers(row, q[k].time)
               /\ (\A j, l : IsOf(q, j, sec, row.id) /\ IsOf(q, l, sec, row.id) /\ j < l => OneRun(q, j, l)) =>
                     \A k \in 1 .. Len(q) : q[k].sec = sec /\ Covers(row, q[k].time) => q[k].seq = row.id
    <2>1. PICK i \in 1 .. Len(o) : row = R(i)
      BY <1>1
    <2>2. RowOf(row, b, e, o, i)
      BY <1>2, <2>1
    <2>3. row.id \in Ids /\ b[row.id] # 0
      BY <2>2 DEF RowOf
    <2>4. \E k \in 1 .. Len(q) : IsOf(q, k, sec, row.id)
      BY <2>3 DEF Tabled
    <2>5. \A k : IsOf(q, k, sec, row.id) => Covers(row, q[k].time)
      BY <2>2, RowCovers
    <2>6. (\A j, l : IsOf(q, j, sec, row.id) /\ IsOf(q, l, sec, row.id) /\ j < l => OneRun(q, j, l)) =>
             \A k \in 1 .. Len(q) : q[k].sec = sec /\ Covers(row, q[k].time) => q[k].seq = row.id
      BY <2>1, <2>2, RowIsOwn
    <2> QED BY <2>4, <2>5, <2>6
  <1> HIDE DEF L
  <1>6. ListIs(c, q, sec)
    BY <1>3, <1>4, <1>5 DEF ListIs, L
  <1> QED BY <1>6

LEMMA ListedHold ==
  ASSUME CaptureInv, RunInv, TabledInv
  PROVE  ListedTimes
  <1> DEFINE c       == CBOROf(NoCommand, recs)
             All     == [from |-> 0, to |-> 0]
             Of(s, id)   == {k \in DOMAIN recs : recs[k].sec = s /\ recs[k].seq = id}
             In(s, row)  == {k \in DOMAIN recs : recs[k].sec = s /\ recs[k].time >= row.begin
                                /\ (IF row.about THEN recs[k].time < row.begin + row.duration
                                    ELSE recs[k].time <= row.begin + row.duration)}
             Runs(s, id) == {k \in Of(s, id) : \E j \in Of(s, id) : j < k /\ \E i \in j .. k : recs[i].sec = "init"}
  <1>1. ParseCBORFile(Asked("command", {}, "both")) = c
    <2>1. ParseCBORFile(NoCommand) = FullOf(NoCommand, recs)
      BY DEF ParseCBORFile, FullOf
    <2>2. recs \in Seq(RecSet) /\ "stat" \notin NoCommand.cmds
      BY DEF CaptureInv, TypeInv, NoCommand, Asked
    <2>3. ParseCBORFile(NoCommand) = c
      BY <2>1, <2>2, SameOf
    <2> QED BY <2>3 DEF NoCommand
  <1>2. recs \in Seq(RecSet) /\ c \in Results /\ Tabled(c, recs) /\ RunsAre(recs)
    BY CBORSteps DEF CaptureInv, TypeInv, TabledInv, RunInv
  <1>3. Later(recs)
    BY DEF CaptureInv, PairInv, Later
  <1>4. DOMAIN recs = 1 .. Len(recs)
    BY <1>2, LenProperties
  <1> HIDE DEF c
  <1>5. ASSUME NEW sec \in AB PROVE ListIs(c, recs, sec)
    BY <1>2, <1>3, ListHolds
  <1>6. ASSUME NEW sec \in AB
        PROVE  /\ {row.id : row \in Listing(c, sec, All)} = {recs[k].seq : k \in {j \in DOMAIN recs : recs[j].sec = sec}}
               /\ \A row \in Listing(c, sec, All) :
                      IF Runs(sec, row.id) = {} THEN In(sec, row) = Of(sec, row.id)
                      ELSE ~row.about => Of(sec, row.id) \subseteq In(sec, row)
               /\ \A from \in {0} \cup {recs[k].time : k \in DOMAIN recs} :
                      Listing(c, sec, [All EXCEPT !.from = from]) = {row \in Listing(c, sec, All) : row.begin >= from}
    <2> DEFINE L == Listing(c, sec, All)
    <2>1. ListIs(c, recs, sec)
      BY <1>5
    <2>2. \A k \in 1 .. Len(recs) : recs[k].sec = sec => \E row \in L : row.id = recs[k].seq
      BY <2>1 DEF ListIs
    <2>3. \A row \in L :
              /\ \E k \in 1 .. Len(recs) : IsOf(recs, k, sec, row.id)
              /\ \A k : IsOf(recs, k, sec, row.id) => Covers(row, recs[k].time)
              /\ (\A j, l : IsOf(recs, j, sec, row.id) /\ IsOf(recs, l, sec, row.id) /\ j < l => OneRun(recs, j, l)) =>
                    \A k \in 1 .. Len(recs) : recs[k].sec = sec /\ Covers(row, recs[k].time) => recs[k].seq = row.id
      BY <2>1 DEF ListIs
    <2>4. \A from \in Nat : \A row :
              row \in Listing(c, sec, [from |-> from, to |-> 0]) <=> row \in L /\ row.begin >= from
      BY <2>1 DEF ListIs
    <2>5. \A from \in {0} \cup {recs[k].time : k \in DOMAIN recs} :
              Listing(c, sec, [All EXCEPT !.from = from]) = {row \in L : row.begin >= from}
      <3> SUFFICES ASSUME NEW from \in {0} \cup {recs[k].time : k \in DOMAIN recs}
                   PROVE  Listing(c, sec, [All EXCEPT !.from = from]) = {row \in L : row.begin >= from}
        OBVIOUS
      <3>1. from \in Nat
        BY <1>2, <1>3, <1>4, TimesOrder
      <3>2. [All EXCEPT !.from = from] = [from |-> from, to |-> 0]
        OBVIOUS
      <3> HIDE DEF L, All
      <3> QED BY <2>4, <3>1, <3>2
    <2> HIDE DEF L
    <2>6. {row.id : row \in L} = {recs[k].seq : k \in {j \in DOMAIN recs : recs[j].sec = sec}}
      <3>1. ASSUME NEW row \in L PROVE \E k \in DOMAIN recs : recs[k].sec = sec /\ row.id = recs[k].seq
        BY <1>4, <2>3 DEF IsOf
      <3>2. ASSUME NEW k \in DOMAIN recs, recs[k].sec = sec PROVE \E row \in L : row.id = recs[k].seq
        BY <1>4, <2>2, <3>2
      <3> QED BY <3>1, <3>2
    <2>7. ASSUME NEW row \in L
          PROVE  IF Runs(sec, row.id) = {} THEN In(sec, row) = Of(sec, row.id)
                 ELSE ~row.about => Of(sec, row.id) \subseteq In(sec, row)
      <3>1. \A k : k \in Of(sec, row.id) <=> IsOf(recs, k, sec, row.id)
        BY <1>4 DEF IsOf
      <3>2. \A k : k \in In(sec, row) <=> k \in 1 .. Len(recs) /\ recs[k].sec = sec /\ Covers(row, recs[k].time)
        BY <1>4 DEF Covers
      <3>3. Runs(sec, row.id) = {} =>
               \A j, l : IsOf(recs, j, sec, row.id) /\ IsOf(recs, l, sec, row.id) /\ j < l => OneRun(recs, j, l)
        <4> SUFFICES ASSUME Runs(sec, row.id) = {}, NEW j, NEW l, IsOf(recs, j, sec, row.id),
                            IsOf(recs, l, sec, row.id), j < l
                     PROVE  OneRun(recs, j, l)
          OBVIOUS
        <4>1. j \in Of(sec, row.id) /\ l \in Of(sec, row.id)
          BY <3>1
        <4>2. ~\E i \in j .. l : recs[i].sec = "init"
          <5> HIDE DEF Of
          <5> QED BY <4>1
        <4> QED BY <4>2 DEF OneRun
      <3>4. \A k : IsOf(recs, k, sec, row.id) => Covers(row, recs[k].time)
        BY <2>3
      <3>5. Of(sec, row.id) \subseteq In(sec, row)
        <4> HIDE DEF Of, In
        <4>1. \A k : IsOf(recs, k, sec, row.id) => k \in 1 .. Len(recs) /\ recs[k].sec = sec
          BY DEF IsOf
        <4> QED BY <3>1, <3>2, <3>4, <4>1
      <3>6. ASSUME Runs(sec, row.id) = {} PROVE In(sec, row) \subseteq Of(sec, row.id)
        <4>1. \A k \in 1 .. Len(recs) : recs[k].sec = sec /\ Covers(row, recs[k].time) => recs[k].seq = row.id
          BY <2>3, <3>3, <3>6
        <4>2. \A k \in 1 .. Len(recs) : recs[k].sec = sec /\ recs[k].seq = row.id => IsOf(recs, k, sec, row.id)
          BY DEF IsOf
        <4> HIDE DEF Of, In
        <4> QED BY <3>1, <3>2, <4>1, <4>2
      <3>7. CASE Runs(sec, row.id) = {}
        <4>1. In(sec, row) \subseteq Of(sec, row.id)
          BY <3>6, <3>7
        <4> HIDE DEF Of, In, Runs
        <4>2. In(sec, row) = Of(sec, row.id)
          BY <3>5, <4>1
        <4> QED BY <3>7, <4>2
      <3>8. CASE Runs(sec, row.id) # {}
        <4> HIDE DEF Of, In, Runs
        <4> QED BY <3>5, <3>8
      <3> QED BY <3>7, <3>8
    <2> QED BY <2>5, <2>6, <2>7 DEF L
  <1> QED BY <1>1, <1>6 DEF ListedTimes, AB

\* The samples of a section are all within the time it is listed with, and,
\* unless it has those of two runs, which share their numbers, no other's of its
\* type are; a window hides sections and does not change them (main.go:733).
THEOREM TimesAreListed ==
  ASSUME RootOnly
  PROVE  Spec => []ListedTimes
  <1>1. Init => CaptureInv /\ RunInv /\ TabledInv
    BY InitCapture, InitRuns, InitTabled
  <1>2. CaptureInv /\ RunInv /\ TabledInv /\ [Next]_vars => (CaptureInv /\ RunInv /\ TabledInv)'
    BY NextCapture, NextRuns, NextTabled
  <1>3. CaptureInv /\ RunInv /\ TabledInv => ListedTimes
    BY ListedHold
  <1> QED BY <1>1, <1>2, <1>3, PTL DEF Spec

-----------------------------------------------------------------------------
(* What changes in a window.                                               *)

LEMMA KeptType ==
  ASSUME NEW x \in Samples, NEW s \in Seq(Samples), NEW name, NEW w
  PROVE  Kept(s, x, name, w) \in Seq(Samples)
  BY AppendProperties DEF Kept

LEMMA WindowSteps ==
  ASSUME NEW name, NEW w
  PROVE  /\ InWindow(<<>>, name, w) = <<>>
         /\ \A p \in Seq(Samples) : InWindow(p, name, w) \in Seq(Samples)
         /\ \A p \in Seq(Samples), x \in Samples :
               InWindow(Append(p, x), name, w) = Kept(InWindow(p, name, w), x, name, w)
  <1> DEFINE H == [z \in Samples \X Seq(Samples) |-> Kept(z[2], z[1], name, w)]
  <1>1. Foldable(Samples, Seq(Samples), <<>>, H)
    <2>1. H \in [Samples \X Seq(Samples) -> Seq(Samples)]
      BY KeptType
    <2> HIDE DEF H
    <2> QED BY <2>1, EmptySeq DEF Foldable
  <1>2. \A x \in Samples, v \in Seq(Samples) : H[<<x, v>>] = Kept(v, x, name, w)
    OBVIOUS
  <1> HIDE DEF H
  <1>3. ASSUME NEW p \in Seq(Samples)
        PROVE  InWindow(p, name, w) = Fold(H, <<>>, p)
    <2> DEFINE Body(g) == [s \in SUBSET DOMAIN p |-> IF s = {} THEN <<>> ELSE Kept(g[s \ {Max(s)}], p[Max(s)], name, w)]
               iter == CHOOSE g : g = Body(g)
    <2>1. InWindow(p, name, w) = iter[DOMAIN p]
      BY DEF InWindow, FoldLeft, MapThenFoldSet
    <2>2. \E g : g = Body(g)
      <3>1. PICK g : FoldsByIndex(g, p, Samples, Seq(Samples), <<>>, H)
        BY <1>1, FoldByIndex
      <3>2. g = [s \in SUBSET DOMAIN p |-> g[s]] /\ g[{}] = <<>>
        BY <3>1 DEF FoldsByIndex
      <3>3. \A s \in SUBSET DOMAIN p : s # {} => g[s] = Kept(g[s \ {Max(s)}], p[Max(s)], name, w)
        BY <1>2, <3>1 DEF FoldsByIndex
      <3> QED BY <3>2, <3>3
    <2>3. iter = Body(iter)
      BY <2>2
    <2>4. iter[{}] = <<>>
      BY <2>3
    <2>5. ASSUME NEW s \in SUBSET DOMAIN p, s # {}
          PROVE  p[Max(s)] \in Samples /\ iter[s] = Kept(iter[s \ {Max(s)}], p[Max(s)], name, w)
      <3>1. Max(s) \in DOMAIN p
        BY <2>5, MaxOfFinite, LenProperties
      <3>2. p[Max(s)] \in Samples
        BY <3>1
      <3> QED BY <2>3, <2>5, <3>2
    <2> HIDE DEF iter
    <2>6. ByIndex(iter, p, <<>>, Seq(Samples), H)
      BY <1>2, <2>4, <2>5 DEF ByIndex
    <2> QED BY <1>1, <2>1, <2>6, FoldByIndex
  <1>4. <<>> \in Seq(Samples)
    BY EmptySeq
  <1>5. InWindow(<<>>, name, w) = <<>>
    <2>1. PICK e \in Seq(Samples) : e = <<>>
      BY <1>4
    <2>2. Fold(H, <<>>, <<>>) = <<>>
      BY <1>1, FoldSteps
    <2>3. InWindow(e, name, w) = Fold(H, <<>>, e)
      BY <1>3
    <2> QED BY <2>1, <2>2, <2>3
  <1>6. \A p \in Seq(Samples) : InWindow(p, name, w) \in Seq(Samples)
    BY <1>1, <1>3, FoldSteps
  <1>7. ASSUME NEW p \in Seq(Samples), NEW x \in Samples
        PROVE  InWindow(Append(p, x), name, w) = Kept(InWindow(p, name, w), x, name, w)
    <2> DEFINE a == Append(p, x)
    <2>1. a \in Seq(Samples)
      BY AppendProperties
    <2>2. Fold(H, <<>>, a) = H[<<x, Fold(H, <<>>, p)>>]
      BY <1>1, FoldSteps
    <2> HIDE DEF a
    <2>3. InWindow(a, name, w) = Fold(H, <<>>, a) /\ InWindow(p, name, w) = Fold(H, <<>>, p)
      BY <1>3, <2>1
    <2> QED BY <1>2, <1>6, <2>2, <2>3 DEF a
  <1> QED BY <1>5, <1>6, <1>7

\* Two lists of samples that differ in nothing but their times, and in those
\* not as far as the window goes.
Paired(f, g, w) ==
    /\ Len(f) = Len(g)
    /\ \A k \in 1 .. Len(f) : /\ f[k].name = g[k].name /\ f[k].value = g[k].value
                              /\ InTimeRange(f[k].time, w) <=> InTimeRange(g[k].time, w)

SameValues(a, b) == Len(a) = Len(b) /\ \A i \in 1 .. Len(a) : a[i].value = b[i].value

\* What is selected of them has the same values.
LEMMA PairedWindows ==
  ASSUME NEW f \in Seq(Samples), NEW g \in Seq(Samples), NEW w, Paired(f, g, w), NEW name
  PROVE  SameValues(InWindow(f, name, w), InWindow(g, name, w))
  <1> DEFINE T == {m \in Nat : \A a, b \in Seq(Samples) : Len(a) = m /\ Paired(a, b, w) =>
                       SameValues(InWindow(a, name, w), InWindow(b, name, w))}
  <1>1. 0 \in T
    <2> SUFFICES ASSUME NEW a \in Seq(Samples), NEW b \in Seq(Samples), Len(a) = 0, Paired(a, b, w)
                 PROVE  SameValues(InWindow(a, name, w), InWindow(b, name, w))
      OBVIOUS
    <2>1. a = <<>> /\ b = <<>>
      BY EmptySeq DEF Paired
    <2>2. InWindow(<<>>, name, w) = <<>> /\ Len(<<>>) = 0
      BY WindowSteps
    <2> QED BY <2>1, <2>2 DEF SameValues
  <1>2. ASSUME NEW m \in T PROVE m + 1 \in T
    <2>1. m \in Nat
      OBVIOUS
    <2>2. \A a, b \in Seq(Samples) : Len(a) = m /\ Paired(a, b, w) =>
             SameValues(InWindow(a, name, w), InWindow(b, name, w))
      OBVIOUS
    <2> HIDE DEF T
    <2>3. ASSUME NEW a \in Seq(Samples), NEW b \in Seq(Samples), Len(a) = m + 1, Paired(a, b, w)
          PROVE  SameValues(InWindow(a, name, w), InWindow(b, name, w))
      <3>1. PICK p \in Seq(Samples), x \in Samples :
               a = Append(p, x) /\ Len(p) = m /\ a[m + 1] = x /\ \A k \in 1 .. m : a[k] = p[k]
        BY <2>1, <2>3, Longer
      <3>2. Len(b) = m + 1
        BY <2>3 DEF Paired
      <3>3. PICK r \in Seq(Samples), y \in Samples :
               b = Append(r, y) /\ Len(r) = m /\ b[m + 1] = y /\ \A k \in 1 .. m : b[k] = r[k]
        BY <2>1, <3>2, Longer
      <3>4. /\ x.name = y.name /\ x.value = y.value
            /\ InTimeRange(x.time, w) <=> InTimeRange(y.time, w)
        <4>1. m + 1 \in 1 .. Len(a)
          BY <2>1, <2>3
        <4> QED BY <2>3, <3>1, <3>3, <4>1 DEF Paired
      <3>5. Paired(p, r, w)
        <4>1. \A k \in 1 .. m : k \in 1 .. Len(a)
          BY <2>1, <2>3
        <4> QED BY <2>3, <3>1, <3>3, <4>1 DEF Paired
      <3> DEFINE c == InWindow(p, name, w)
                 d == InWindow(r, name, w)
      <3>6. SameValues(c, d)
        BY <2>2, <3>1, <3>5
      <3>7. InWindow(a, name, w) = Kept(c, x, name, w) /\ InWindow(b, name, w) = Kept(d, y, name, w)
        BY <3>1, <3>3, WindowSteps
      <3>8. c \in Seq(Samples) /\ d \in Seq(Samples)
        BY WindowSteps
      <3> HIDE DEF c, d
      <3>9. SameValues(Append(c, x), Append(d, y))
        <4> DEFINE n == Len(c)
                   u == Append(c, x)
                   v == Append(d, y)
        <4>1. n \in Nat /\ Len(d) = n
          BY <3>6, <3>8, LenProperties DEF SameValues
        <4>2. Len(u) = n + 1 /\ u[n + 1] = x /\ \A k \in 1 .. n : u[k] = c[k]
          BY <3>8, AppendProperties
        <4>3. Len(v) = n + 1 /\ v[n + 1] = y /\ \A k \in 1 .. n : v[k] = d[k]
          BY <3>8, <4>1, AppendProperties
        <4>4. \A k \in 1 .. n : c[k].value = d[k].value
          BY <3>6 DEF SameValues
        <4> HIDE DEF n, u, v
        <4>5. \A k \in 1 .. n + 1 : u[k].value = v[k].value
          <5> SUFFICES ASSUME NEW k \in 1 .. n + 1 PROVE u[k].value = v[k].value
            OBVIOUS
          <5>1. CASE k \in 1 .. n
            BY <4>2, <4>3, <4>4, <5>1
          <5>2. CASE k = n + 1
            BY <3>4, <4>2, <4>3, <5>2
          <5> QED BY <4>1, <5>1, <5>2
        <4>6. SameValues(u, v)
          BY <4>2, <4>3, <4>5 DEF SameValues
        <4> QED BY <4>6 DEF u, v
      <3> DEFINE in == x.name = name /\ InTimeRange(x.time, w)
      <3>10. Kept(c, x, name, w) = (IF in THEN Append(c, x) ELSE c) /\ Kept(d, y, name, w) = (IF in THEN Append(d, y) ELSE d)
        BY <3>4 DEF Kept
      <3> HIDE DEF in
      <3> QED BY <3>6, <3>7, <3>9, <3>10
    <2> QED BY <2>1, <2>3 DEF T
  <1>3. T = Nat
    <2>1. T \in SUBSET Nat
      OBVIOUS
    <2> HIDE DEF T
    <2> QED BY <1>1, <1>2, <2>1, NatSetInduction
  <1>4. Len(f) \in T
    BY <1>3, LenProperties
  <1> QED BY <1>4

\* The samples that are selected are those of the command in the window.
Selected(s, f, name, w) ==
    /\ \A i \in 1 .. Len(s) : \E k \in 1 .. Len(f) : s[i] = f[k] /\ f[k].name = name /\ InTimeRange(f[k].time, w)
    /\ \A k \in 1 .. Len(f) : f[k].name = name /\ InTimeRange(f[k].time, w) => \E i \in 1 .. Len(s) : s[i] = f[k]

LEMMA WindowSelects ==
  ASSUME NEW f \in Seq(Samples), NEW name, NEW w
  PROVE  Selected(InWindow(f, name, w), f, name, w)
  <1> DEFINE T == {m \in Nat : \A a \in Seq(Samples) : Len(a) = m => Selected(InWindow(a, name, w), a, name, w)}
  <1>1. 0 \in T
    <2> SUFFICES ASSUME NEW a \in Seq(Samples), Len(a) = 0 PROVE Selected(InWindow(a, name, w), a, name, w)
      OBVIOUS
    <2>1. a = <<>>
      BY EmptySeq
    <2>2. InWindow(<<>>, name, w) = <<>> /\ Len(<<>>) = 0
      BY WindowSteps
    <2> QED BY <2>1, <2>2 DEF Selected
  <1>2. ASSUME NEW m \in T PROVE m + 1 \in T
    <2>1. m \in Nat
      OBVIOUS
    <2>2. \A a \in Seq(Samples) : Len(a) = m => Selected(InWindow(a, name, w), a, name, w)
      OBVIOUS
    <2> HIDE DEF T
    <2>3. ASSUME NEW a \in Seq(Samples), Len(a) = m + 1
          PROVE  Selected(InWindow(a, name, w), a, name, w)
      <3>1. PICK p \in Seq(Samples), x \in Samples :
               a = Append(p, x) /\ Len(p) = m /\ a[m + 1] = x /\ \A k \in 1 .. m : a[k] = p[k]
        BY <2>1, <2>3, Longer
      <3> DEFINE c == InWindow(p, name, w)
                 n == Len(c)
                 s == InWindow(a, name, w)
                 in == x.name = name /\ InTimeRange(x.time, w)
      <3>2. Selected(c, p, name, w)
        BY <2>2, <3>1
      <3>3. c \in Seq(Samples) /\ n \in Nat /\ s = IF in THEN Append(c, x) ELSE c
        <4>1. c \in Seq(Samples)
          BY WindowSteps
        <4>2. n \in Nat
          <5> HIDE DEF c
          <5> QED BY <4>1, LenProperties
        <4>3. s = Kept(c, x, name, w)
          BY <3>1, WindowSteps
        <4> QED BY <4>1, <4>2, <4>3 DEF Kept
      <3> HIDE DEF c, s
      <3>4. \A k \in 1 .. m + 1 : k \in 1 .. m \/ k = m + 1
        BY <2>1
      <3>5. \A k \in 1 .. m : k \in 1 .. m + 1
        BY <2>1
      <3>6. m + 1 \in 1 .. m + 1
        BY <2>1
      <3>7. CASE in
        <4>1. Len(s) = n + 1 /\ s[n + 1] = x /\ \A i \in 1 .. n : s[i] = c[i]
          BY <3>3, <3>7, AppendProperties
        <4> HIDE DEF n
        <4>2. \A i \in 1 .. n + 1 : i \in 1 .. n \/ i = n + 1
          BY <3>3
        <4>3. n + 1 \in 1 .. n + 1 /\ \A i \in 1 .. n : i \in 1 .. n + 1
          BY <3>3
        <4>4. ASSUME NEW i \in 1 .. n + 1
              PROVE  \E k \in 1 .. m + 1 : s[i] = a[k] /\ a[k].name = name /\ InTimeRange(a[k].time, w)
          <5>1. CASE i = n + 1
            BY <3>1, <3>6, <3>7, <4>1, <5>1
          <5>2. CASE i \in 1 .. n
            <6>1. PICK k \in 1 .. m : c[i] = p[k] /\ p[k].name = name /\ InTimeRange(p[k].time, w)
              BY <3>1, <3>2, <5>2 DEF Selected, n
            <6> QED BY <3>1, <3>5, <4>1, <5>2, <6>1
          <5> QED BY <4>2, <5>1, <5>2
        <4>5. ASSUME NEW k \in 1 .. m + 1, a[k].name = name, InTimeRange(a[k].time, w)
              PROVE  \E i \in 1 .. n + 1 : s[i] = a[k]
          <5>1. CASE k = m + 1
            BY <3>1, <4>1, <4>3, <5>1
          <5>2. CASE k \in 1 .. m
            <6>1. PICK i \in 1 .. n : c[i] = p[k]
              BY <3>1, <3>2, <4>5, <5>2 DEF Selected, n
            <6> QED BY <3>1, <4>1, <4>3, <5>2, <6>1
          <5> QED BY <3>4, <5>1, <5>2
        <4>6. Selected(s, a, name, w)
          BY <2>3, <4>1, <4>4, <4>5 DEF Selected
        <4> QED BY <4>6 DEF s
      <3>8. CASE ~in
        <4>1. s = c
          BY <3>3, <3>8
        <4>2. ASSUME NEW i \in 1 .. n
              PROVE  \E k \in 1 .. m + 1 : c[i] = a[k] /\ a[k].name = name /\ InTimeRange(a[k].time, w)
          <5>1. PICK k \in 1 .. m : c[i] = p[k] /\ p[k].name = name /\ InTimeRange(p[k].time, w)
            BY <3>1, <3>2 DEF Selected
          <5> QED BY <3>1, <3>5, <5>1
        <4>3. ASSUME NEW k \in 1 .. m + 1, a[k].name = name, InTimeRange(a[k].time, w)
              PROVE  \E i \in 1 .. n : c[i] = a[k]
          <5>1. k # m + 1
            BY <3>1, <3>8, <4>3
          <5>2. k \in 1 .. m
            BY <3>4, <5>1
          <5> QED BY <3>1, <3>2, <4>3, <5>2 DEF Selected
        <4>4. Selected(c, a, name, w)
          BY <2>3, <4>2, <4>3 DEF Selected
        <4> QED BY <4>1, <4>4 DEF s
      <3> QED BY <3>7, <3>8
    <2> QED BY <2>1, <2>3 DEF T
  <1>3. T = Nat
    <2>1. T \in SUBSET Nat
      OBVIOUS
    <2> HIDE DEF T
    <2> QED BY <1>1, <1>2, <2>1, NatSetInduction
  <1>4. Len(f) \in T
    BY <1>3, LenProperties
  <1> QED BY <1>4

\* Two neighbours differ if any two do.
Changes(s) == \E i \in 2 .. Len(s) : s[i].value # s[i - 1].value

LEMMA Neighbours ==
  ASSUME NEW s \in Seq(Samples)
  PROVE  Changes(s) <=> \E i, j \in 1 .. Len(s) : s[i].value # s[j].value
  <1> DEFINE m == Len(s)
  <1>1. m \in Nat
    BY LenProperties
  <1>2. ASSUME Changes(s) PROVE \E i, j \in 1 .. m : s[i].value # s[j].value
    <2>1. PICK i \in 2 .. m : s[i].value # s[i - 1].value
      BY <1>2 DEF Changes
    <2>2. i \in 1 .. m /\ i - 1 \in 1 .. m
      BY <1>1
    <2> QED BY <2>1, <2>2
  <1>3. ASSUME ~Changes(s) PROVE ~\E i, j \in 1 .. m : s[i].value # s[j].value
    <2> DEFINE T == {i \in Nat : i + 1 \in 1 .. m => s[i + 1].value = s[1].value}
    <2> HIDE DEF m
    <2>1. 0 \in T
      OBVIOUS
    <2>2. ASSUME NEW i \in T PROVE i + 1 \in T
      <3>1. i \in Nat /\ (i + 1 \in 1 .. m => s[i + 1].value = s[1].value)
        OBVIOUS
      <3> HIDE DEF T
      <3>2. ASSUME i + 1 + 1 \in 1 .. m PROVE s[i + 1 + 1].value = s[1].value
        <4>1. i + 1 \in 1 .. m /\ i + 1 + 1 \in 2 .. m /\ (i + 1 + 1) - 1 = i + 1
          BY <1>1, <3>1, <3>2
        <4>2. s[i + 1 + 1].value = s[i + 1].value
          <5>1. s[i + 1 + 1].value = s[(i + 1 + 1) - 1].value
            BY <1>3, <4>1 DEF Changes, m
          <5> QED BY <4>1, <5>1
        <4> QED BY <3>1, <4>1, <4>2
      <3> QED BY <3>1, <3>2 DEF T
    <2>3. T = Nat
      <3>1. T \in SUBSET Nat
        OBVIOUS
      <3> HIDE DEF T
      <3> QED BY <2>1, <2>2, <3>1, NatSetInduction
    <2>4. \A i \in 1 .. m : s[i].value = s[1].value
      <3> SUFFICES ASSUME NEW i \in 1 .. m PROVE s[i].value = s[1].value
        OBVIOUS
      <3>1. i - 1 \in Nat /\ (i - 1) + 1 = i
        BY <1>1
      <3>2. i - 1 \in T
        BY <2>3, <3>1
      <3> QED BY <3>1, <3>2
    <2> HIDE DEF T
    <2> QED BY <2>4
  <1> QED BY <1>2, <1>3

\* A command that has a sample is counted.
NamesIn(res) == \A k \in 1 .. Len(res.followed) : res.followed[k].name \in res.matching

LEMMA SampledNames ==
  ASSUME NEW res \in Results, NamesIn(res), NEW r \in RecSet, NEW q
  PROVE  NamesIn(ValueSample(res, r, q))
  <1> DEFINE f == res.followed
             name == <<r.cmd>>
             w == Wanted(q, name)
             d == Sampled(res, r, q)
             g == Grown(f, q, name, r.sec, r.seq, r.time, r.out)
             x == SampleOf(name, r.seq, r.time, Extracted(name[1], r.out), r.out)
  <1>1. f \in Seq(Samples) /\ Len(f) \in Nat
    BY ResultIs, LenProperties
  <1>2. ValueSample(res, r, q) = IF r.sec = "init" THEN res ELSE d
    BY ValueSampleIs
  <1>3. d.followed = (IF w THEN g ELSE f) /\ d.matching = (IF w THEN res.matching \cup {name} ELSE res.matching)
    BY DEF Sampled, Result
  <1>4. x \in Samples
    <2>1. Extracted(name[1], r.out) \in Values
      <3>1. name[1] = r.cmd
        OBVIOUS
      <3>2. r.cmd \in Commands /\ r.out \in Outs
        BY RecordIs
      <3> HIDE DEF name
      <3> QED BY <3>1, <3>2 DEF Values
    <2> QED BY <2>1, RecordIs DEF Samples, SampleOf
  <1>5. g = f \/ g = Append(f, x)
    BY DEF Grown
  <1>6. x.name = name
    BY DEF SampleOf
  <1> HIDE DEF x, name, w, d
  <1>7. \A k \in 1 .. Len(f) : f[k].name \in res.matching
    BY DEF NamesIn
  <1> HIDE DEF f, g
  <1>8. ASSUME w PROVE \A k \in 1 .. Len(g) : g[k].name \in res.matching \cup {name}
    <2>1. CASE g = f
      BY <1>7, <2>1
    <2>2. CASE g = Append(f, x)
      <3>1. Len(g) = Len(f) + 1 /\ g[Len(f) + 1] = x /\ \A k \in 1 .. Len(f) : g[k] = f[k]
        BY <1>1, <1>4, <2>2, AppendProperties
      <3> SUFFICES ASSUME NEW k \in 1 .. Len(f) + 1 PROVE g[k].name \in res.matching \cup {name}
        BY <3>1
      <3>2. CASE k \in 1 .. Len(f)
        BY <1>7, <3>1, <3>2
      <3>3. CASE k = Len(f) + 1
        BY <1>6, <3>1, <3>3
      <3> QED BY <1>1, <3>2, <3>3
    <2> QED BY <1>5, <2>1, <2>2
  <1>9. NamesIn(d)
    <2>1. CASE w
      BY <1>3, <1>8, <2>1 DEF NamesIn
    <2>2. CASE ~w
      BY <1>3, <1>7, <2>2 DEF NamesIn
    <2> QED BY <2>1, <2>2
  <1> QED BY <1>2, <1>9

LEMMA NamesCounted ==
  ASSUME NEW q, NEW p \in Seq(RecSet)
  PROVE  NamesIn(CBOROf(q, p))
  <1> DEFINE T == {m \in Nat : \A a \in Seq(RecSet) : Len(a) = m => NamesIn(CBOROf(q, a))}
  <1>1. 0 \in T
    <2> SUFFICES ASSUME NEW a \in Seq(RecSet), Len(a) = 0 PROVE NamesIn(CBOROf(q, a))
      OBVIOUS
    <2>1. a = <<>>
      BY EmptySeq
    <2>2. CBOROf(q, <<>>) = NoResult /\ NoResult.followed = <<>> /\ Len(<<>>) = 0
      BY CBORSteps DEF NoResult
    <2> QED BY <2>1, <2>2 DEF NamesIn
  <1>2. ASSUME NEW m \in T PROVE m + 1 \in T
    <2>1. m \in Nat
      OBVIOUS
    <2>2. \A a \in Seq(RecSet) : Len(a) = m => NamesIn(CBOROf(q, a))
      OBVIOUS
    <2> HIDE DEF T
    <2>3. ASSUME NEW a \in Seq(RecSet), Len(a) = m + 1 PROVE NamesIn(CBOROf(q, a))
      <3>1. PICK b \in Seq(RecSet), x \in RecSet : a = Append(b, x) /\ Len(b) = m
        BY <2>1, <2>3, Longer
      <3>2. NamesIn(CBOROf(q, b)) /\ CBOROf(q, b) \in Results
        BY <2>2, <3>1, CBORSteps
      <3>3. CBOROf(q, a) = ValueSample(CBOROf(q, b), x, q)
        BY <3>1, CBORSteps
      <3> DEFINE c == CBOROf(q, b)
      <3> HIDE DEF c
      <3>4. NamesIn(ValueSample(c, x, q))
        BY <3>2, SampledNames DEF c
      <3> QED BY <3>3, <3>4 DEF c
    <2> QED BY <2>1, <2>3 DEF T
  <1>3. T = Nat
    <2>1. T \in SUBSET Nat
      OBVIOUS
    <2> HIDE DEF T
    <2> QED BY <1>1, <1>2, <2>1, NatSetInduction
  <1>4. Len(p) \in T
    BY <1>3, LenProperties
  <1> QED BY <1>4

\* No section of the text file begins between the two times of a sample: b has
\* the begins, g and f the samples of the text and the CBOR file.
Aligned(b, g, f, t) ==
    /\ Len(g) = Len(f)
    /\ \A k \in 1 .. Len(f) :
          /\ g[k].time < t /\ f[k].time < t
          /\ \A sec \in AB, id \in Ids : b[sec][id] <= g[k].time <=> b[sec][id] <= f[k].time

\* All sections have begun before t, and none since the one that is open.
SoFar(st, t) ==
    /\ \A sec \in AB, id \in Ids : st.res.begin[sec][id] < t
    /\ st.sec # None => st.time < t /\ \A sec \in AB, id \in Ids : st.res.begin[sec][id] <= st.time

Timely(q, ls, rs, t) ==
    /\ SoFar(ReadOf(q, ls), t)
    /\ Aligned(ReadOf(q, ls).res.begin, Pending(ReadOf(q, ls), q).followed, CBOROf(q, rs).followed, t)

TimesInv == run = 1 => \A q \in Qs : Timely(q, lines, recs, clock)

LEMMA InitTimes ==
  ASSUME Init
  PROVE  TimesInv
  <1>1. recs = <<>> /\ lines = <<>> /\ clock = 1
    BY DEF Init, CaptureInit
  <1>2. ASSUME NEW q PROVE Timely(q, lines, recs, clock)
    <2>1. ReadOf(q, lines) = Reading0 /\ CBOROf(q, recs) = NoResult
      BY <1>1, TextSteps, CBORSteps
    <2>2. /\ Reading0.res = NoResult /\ Reading0.sec = None /\ Reading0.name = NotFollowing
      BY DEF Reading0
    <2>3. Pending(Reading0, q) = NoResult
      BY <2>2 DEF Pending
    <2>4. NoResult.followed = <<>> /\ Len(<<>>) = 0 /\ \A sec \in AB, id \in Ids : NoResult.begin[sec][id] = 0
      BY DEF NoResult, AB
    <2>5. SoFar(Reading0, 1)
      BY <2>2, <2>4 DEF SoFar
    <2>6. Aligned(NoResult.begin, NoResult.followed, NoResult.followed, 1)
      BY <2>4 DEF Aligned
    <2> QED BY <1>1, <2>1, <2>2, <2>3, <2>5, <2>6 DEF Timely
  <1> QED BY <1>2 DEF TimesInv

\* Time passes.
LEMMA AlignedLater ==
  ASSUME NEW b, NEW g \in Seq(Samples), NEW f \in Seq(Samples), NEW t \in Nat, Aligned(b, g, f, t)
  PROVE  Aligned(b, g, f, t + 1)
  <1>1. \A k \in 1 .. Len(f) : f[k].time \in Nat /\ g[k].time \in Nat
    <2>1. \A x \in Samples : x.time \in Nat
      BY DEF Samples
    <2>2. Len(g) = Len(f)
      BY DEF Aligned
    <2> QED BY <2>1, <2>2, ElementOfSeq
  <1> QED BY <1>1 DEF Aligned

\* A sample that both have now, when all sections have begun.
LEMMA AlignedGrows ==
  ASSUME NEW b, NEW g \in Seq(Samples), NEW f \in Seq(Samples), NEW t \in Nat, Aligned(b, g, f, t),
         \A sec \in AB, id \in Ids : b[sec][id] \in Nat,
         NEW u \in Nat, u < t, \A sec \in AB, id \in Ids : b[sec][id] <= u,
         NEW q, NEW name \in Names, NEW sec, NEW id \in Ids, NEW v \in Outs
  PROVE  Aligned(b, Grown(g, q, name, sec, id, u, v), Grown(f, q, name, sec, id, t, v), t + 1)
  <1> DEFINE e == Extracted(name[1], v)
             x == SampleOf(name, id, u, e, v)
             y == SampleOf(name, id, t, e, v)
             skip == ~ShouldTrackSection(q.type, sec) \/ e = Absent
  <1>1. e \in Values
    BY DEF Names, Values
  <1>2. Grown(g, q, name, sec, id, u, v) = (IF skip THEN g ELSE Append(g, x)) /\ Grown(f, q, name, sec, id, t, v) = (IF skip THEN f ELSE Append(f, y))
    BY DEF Grown
  <1>3. Aligned(b, g, f, t + 1)
    BY AlignedLater
  <1> HIDE DEF e, skip
  <1>4. x \in Samples /\ y \in Samples /\ x.time = u /\ y.time = t
    BY <1>1 DEF Samples, SampleOf
  <1> HIDE DEF x, y
  <1> DEFINE m == Len(f)
             c == Append(g, x)
             d == Append(f, y)
  <1>5. m \in Nat /\ Len(g) = m
    BY LenProperties DEF Aligned
  <1>6. Len(c) = m + 1 /\ c[m + 1] = x /\ \A k \in 1 .. m : c[k] = g[k]
    BY <1>4, <1>5, AppendProperties
  <1>7. Len(d) = m + 1 /\ d[m + 1] = y /\ \A k \in 1 .. m : d[k] = f[k]
    BY <1>4, <1>5, AppendProperties
  <1>8. \A k \in 1 .. m : /\ g[k].time < t + 1 /\ f[k].time < t + 1
                          /\ \A s \in AB, i \in Ids : b[s][i] <= g[k].time <=> b[s][i] <= f[k].time
    BY <1>3 DEF Aligned
  <1> HIDE DEF m, c, d
  <1>9. u < t + 1 /\ t < t + 1
    OBVIOUS
  <1>10. \A s \in AB, i \in Ids : b[s][i] <= u /\ b[s][i] <= t
    <2> SUFFICES ASSUME NEW s \in AB, NEW i \in Ids PROVE b[s][i] <= u /\ b[s][i] <= t
      OBVIOUS
    <2> DEFINE z == b[s][i]
    <2>1. z \in Nat /\ z <= u
      OBVIOUS
    <2> HIDE DEF z
    <2>2. z <= t
      BY <2>1
    <2> QED BY <2>1, <2>2 DEF z
  <1>11. ASSUME NEW k \in 1 .. m + 1
         PROVE  /\ c[k].time < t + 1 /\ d[k].time < t + 1
                /\ \A s \in AB, i \in Ids : b[s][i] <= c[k].time <=> b[s][i] <= d[k].time
    <2>1. CASE k \in 1 .. m
      BY <1>6, <1>7, <1>8, <2>1
    <2>2. CASE k = m + 1
      BY <1>4, <1>6, <1>7, <1>9, <1>10, <2>2
    <2> QED BY <1>5, <2>1, <2>2
  <1>12. Aligned(b, c, d, t + 1)
    BY <1>6, <1>7, <1>11 DEF Aligned
  <1> QED BY <1>2, <1>3, <1>12 DEF c, d

\* A section that begins now begins after both times of each sample.
LEMMA AlignedBegins ==
  ASSUME NEW b \in Tables, NEW g \in Seq(Samples), NEW f \in Seq(Samples), NEW t \in Nat, Aligned(b, g, f, t),
         NEW sec \in AB, NEW id \in Ids
  PROVE  Aligned(Entered(b, sec, id, t), g, f, t + 1)
  <1> DEFINE b2 == Entered(b, sec, id, t)
  <1>1. \A s \in AB, i \in Ids : b2[s][i] = t \/ b2[s][i] = b[s][i]
    BY EnteredIs
  <1>2. Aligned(b, g, f, t + 1)
    BY AlignedLater
  <1>3. \A k \in 1 .. Len(f) : f[k].time \in Nat /\ g[k].time \in Nat
    <2>1. \A x \in Samples : x.time \in Nat
      BY DEF Samples
    <2>2. Len(g) = Len(f)
      BY DEF Aligned
    <2> QED BY <2>1, <2>2, ElementOfSeq
  <1> HIDE DEF b2
  <1>4. ASSUME NEW k \in 1 .. Len(f), NEW s \in AB, NEW i \in Ids
        PROVE  b2[s][i] <= g[k].time <=> b2[s][i] <= f[k].time
    <2>1. CASE b2[s][i] = t
      <3>1. g[k].time < t /\ f[k].time < t
        BY DEF Aligned
      <3> DEFINE x == g[k].time
                 y == f[k].time
      <3>2. x \in Nat /\ y \in Nat /\ x < t /\ y < t
        BY <1>3, <3>1
      <3> HIDE DEF x, y
      <3>3. ~(t <= x) /\ ~(t <= y)
        BY <3>2
      <3> QED BY <2>1, <3>3 DEF x, y
    <2>2. CASE b2[s][i] = b[s][i]
      BY <2>2 DEF Aligned
    <2> QED BY <1>1, <2>1, <2>2
  <1>5. Aligned(b2, g, f, t + 1)
    BY <1>2, <1>4 DEF Aligned
  <1> QED BY <1>5 DEF b2

LEMMA SoFarLater ==
  ASSUME NEW st \in ReadStates, NEW t \in Nat, SoFar(st, t)
  PROVE  SoFar(st, t + 1)
  <1>1. \A sec \in AB, id \in Ids : st.res.begin[sec][id] \in Nat
    BY ReadIs, ResultIs, EntriesAre
  <1>2. st.time \in Nat
    BY ReadIs
  <1>3. \A x \in Nat : x < t => x < t + 1
    OBVIOUS
  <1> QED BY <1>1, <1>2, <1>3 DEF SoFar

LEMMA CollectTimes ==
  ASSUME CaptureInv, NEW src \in Srcs, NEW v \in Outs, Collects(src, v), section \in AB, NEW q,
         Following(ReadOf(q, lines), CBOROf(q, recs), section, seq, q), Timely(q, lines, recs, clock)
  PROVE  Timely(q, lines \o Shown(src, v), recs', clock + 1)
  <1> DEFINE st == ReadOf(q, lines)
             T == ReadOf(q, lines \o Shown(src, v))
             p == Pending(st, q)
             name == <<src.cmd>>
             R == CBOROf(q, recs)
             R2 == CBOROf(q, recs')
             r == Added(src, v)
             w == Wanted(q, name)
  <1>1. recs \in Seq(RecSet) /\ r \in RecSet /\ recs' = Append(recs, r)
    BY DEF Collects, CaptureInv, TypeInv
  <1>2. r.cmd = src.cmd /\ r.out = v /\ r.sec = section /\ r.seq = seq /\ r.time = clock
    BY DEF Added
  <1>3. R \in Results /\ R2 = ValueSample(R, r, q)
    <2> HIDE DEF r
    <2> QED BY <1>1, CBORSteps
  <1>4. SoFar(st, clock) /\ Aligned(st.res.begin, p.followed, R.followed, clock)
    BY DEF Timely
  <1>5. st.sec = section /\ st.id = seq
    BY DEF Following
  <1> HIDE DEF r, R2, R
  <1>6. R2 = Sampled(R, r, q)
    <2>1. r.sec # "init"
      BY <1>2 DEF AB
    <2> QED BY <1>1, <1>3, <2>1, ValueSampleIs
  <1>7. R2.followed = (IF w THEN Grown(R.followed, q, name, section, seq, clock, v) ELSE R.followed)
    BY <1>2, <1>6 DEF Sampled, Result
  <1>8. section # None /\ name \in Names /\ name # NotFollowing /\ seq \in Ids /\ clock \in Nat
    <2>1. src.cmd \in Commands
      BY DEF Srcs
    <2> QED BY <2>1 DEF AB, None, Names, NotFollowing, CaptureInv, TypeInv, Times
  <1>9. /\ st \in ReadStates /\ T \in ReadStates /\ T.sec = st.sec /\ T.id = st.id /\ SameTables(T.res, st.res)
        /\ T.res.followed = p.followed /\ T.time = st.time
        /\ w => T.name = name /\ T.out = v
        /\ ~w => T.name = NotFollowing
    BY <1>5, <1>8, CollectReads
  <1> HIDE DEF st, T
  <1>10. p \in Results /\ p.followed \in Seq(Samples)
    BY <1>9, PendingIs, ResultIs
  <1> HIDE DEF p
  <1>11. R.followed \in Seq(Samples) /\ st.time \in Nat /\ st.res.begin \in Tables
    BY <1>3, <1>9, ResultIs, ReadIs
  <1>12. Pending(T, q).followed = IF w THEN Grown(p.followed, q, name, section, seq, st.time, v) ELSE p.followed
    <2>1. Pending(T, q).followed = IF T.name = NotFollowing THEN T.res.followed
                                   ELSE Grown(T.res.followed, q, T.name, T.sec, T.id, T.time, T.out)
      BY <1>9, PendingIs
    <2>2. CASE w
      BY <1>5, <1>8, <1>9, <2>1, <2>2
    <2>3. CASE ~w
      BY <1>9, <2>1, <2>3
    <2> QED BY <2>2, <2>3
  <1> HIDE DEF w, name
  <1>13. T.res.begin = st.res.begin
    BY <1>9 DEF SameTables
  <1>14. st.time < clock /\ \A sec \in AB, id \in Ids : st.res.begin[sec][id] <= st.time
    BY <1>4, <1>5, <1>8 DEF SoFar
  <1>15. \A sec \in AB, id \in Ids : st.res.begin[sec][id] \in Nat
    BY <1>11, EntriesAre
  <1>16. SoFar(T, clock + 1)
    <2>1. SoFar(st, clock + 1)
      BY <1>4, <1>8, <1>9, SoFarLater
    <2> QED BY <1>9, <1>13, <2>1 DEF SoFar
  <1>17. Aligned(st.res.begin, Pending(T, q).followed, R2.followed, clock + 1)
    <2> DEFINE b == st.res.begin
               g == p.followed
               f == R.followed
               u == st.time
               t == clock
    <2>1. /\ g \in Seq(Samples) /\ f \in Seq(Samples) /\ t \in Nat /\ u \in Nat /\ u < t /\ Aligned(b, g, f, t)
          /\ \A sec \in AB, id \in Ids : b[sec][id] \in Nat
          /\ \A sec \in AB, id \in Ids : b[sec][id] <= u
      BY <1>4, <1>8, <1>10, <1>11, <1>14, <1>15
    <2>2. CASE w
      <3>1. R2.followed = Grown(f, q, name, section, seq, t, v) /\ Pending(T, q).followed = Grown(g, q, name, section, seq, u, v)
        BY <1>7, <1>12, <2>2
      <3> HIDE DEF b, g, f, u, t
      <3>2. Aligned(b, Grown(g, q, name, section, seq, u, v), Grown(f, q, name, section, seq, t, v), t + 1)
        BY <1>8, <2>1, AlignedGrows
      <3> QED BY <3>1, <3>2 DEF b, t
    <2>3. CASE ~w
      <3>1. R2.followed = f /\ Pending(T, q).followed = g
        BY <1>7, <1>12, <2>3
      <3> HIDE DEF b, g, f, u, t
      <3>2. Aligned(b, g, f, t + 1)
        BY <2>1, AlignedLater
      <3> QED BY <3>1, <3>2 DEF b, t
    <2> QED BY <2>2, <2>3
  <1>18. Timely(q, lines \o Shown(src, v), recs', clock + 1)
    BY <1>13, <1>16, <1>17 DEF Timely, T, R2
  <1> QED BY <1>18

\* Nothing is read; time passes.
LEMMA TimelyLater ==
  ASSUME CaptureInv, NEW q, Timely(q, lines, recs, clock)
  PROVE  Timely(q, lines, recs, clock + 1)
  <1> DEFINE st == ReadOf(q, lines)
             g == Pending(st, q).followed
             f == CBOROf(q, recs).followed
             b == st.res.begin
  <1>1. st \in ReadStates /\ clock \in Nat
    BY TextSteps DEF CaptureInv, TypeInv, Times
  <1>2. f \in Seq(Samples)
    BY CBORSteps, ResultIs DEF CaptureInv, TypeInv
  <1>3. SoFar(st, clock) /\ Aligned(b, g, f, clock)
    BY DEF Timely
  <1> HIDE DEF st
  <1>4. g \in Seq(Samples)
    BY <1>1, PendingIs, ResultIs
  <1> HIDE DEF f, g, b
  <1>5. SoFar(st, clock + 1)
    BY <1>1, <1>3, SoFarLater
  <1>6. Aligned(b, g, f, clock + 1)
    BY <1>1, <1>2, <1>3, <1>4, AlignedLater
  <1> QED BY <1>5, <1>6 DEF Timely, st, g, f, b

LEMMA NextTimes ==
  ASSUME RootOnly, CaptureInv, FollowInv, TimesInv, [Next]_vars
  PROVE  TimesInv'
  <1>1. TimesInv' <=> (run' = 1 => \A q \in Qs : Timely(q, lines', recs', clock'))
    BY DEF TimesInv
  <1>2. ASSUME run = 1, NEW q \in Qs
        PROVE  Timely(q, lines, recs, clock) /\ Following(ReadOf(q, lines), CBOROf(q, recs), section, seq, q)
    BY <1>2 DEF TimesInv, FollowInv
  <1>3. CASE Collect
    <2>1. PICK src \in Srcs, v \in Outs : Collects(src, v)
      BY <1>3, CollectAdds
    <2>2. run' = run /\ clock' = clock + 1 /\ lines' = IF run = 1 THEN lines \o Shown(src, v) ELSE lines
      BY <2>1 DEF Collects
    <2>3. ASSUME run = 1, NEW q \in Qs PROVE Timely(q, lines', recs', clock + 1)
      <3>1. lines' = lines \o Shown(src, v)
        BY <2>2, <2>3
      <3>2. CASE section \in AB
        BY <1>2, <2>1, <2>3, <3>1, <3>2, CollectTimes
      <3>3. CASE section \notin AB
        <4>1. ReadOf(q, lines).sec = None
          BY <1>2, <2>3, <3>3 DEF Following
        <4>2. ReadOf(q, lines') = ReadOf(q, lines) /\ CBOROf(q, recs') = CBOROf(q, recs)
          BY <2>1, <3>1, <3>3, <4>1, CollectIgnored
        <4>3. Timely(q, lines, recs, clock + 1)
          BY <1>2, <2>3, TimelyLater
        <4> QED BY <4>2, <4>3 DEF Timely
      <3> QED BY <3>2, <3>3
    <2> QED BY <1>1, <2>2, <2>3
  <1>4. CASE BeginSection
    <2>1. UNCHANGED <<run, recs, seq>> /\ section = None /\ clock' = clock + 1 /\ next \in AB /\ seq \in Ids /\ clock \in Nat
      BY <1>4 DEF BeginSection, CaptureInv, TypeInv, AB, Ids, Times
    <2>2. ASSUME run = 1, NEW q \in Qs PROVE Timely(q, lines', recs, clock + 1)
      <3> DEFINE st == ReadOf(q, lines)
                 T  == ReadOf(q, lines')
                 R  == CBOROf(q, recs)
                 g  == Pending(st, q).followed
      <3>1. Following(st, R, section, seq, q) /\ SoFar(st, clock) /\ Aligned(st.res.begin, g, R.followed, clock)
        BY <1>2, <2>2 DEF Timely
      <3>2. section \notin AB
        BY <2>1 DEF AB, None
      <3>3. st.sec = None /\ st.name = NotFollowing
        <4> HIDE DEF st, R
        <4> QED BY <3>1, <3>2 DEF Following
      <3>4. /\ st \in ReadStates /\ T.sec = next /\ T.time = clock /\ T.name = st.name
            /\ T.res.begin = Entered(st.res.begin, next, seq, clock) /\ T.res.followed = st.res.followed
        BY <1>4, <2>2, <3>3, BeginReads
      <3>5. R.followed \in Seq(Samples)
        BY CBORSteps, ResultIs DEF CaptureInv, TypeInv
      <3> HIDE DEF st, T, R
      <3>6. Pending(T, q) = T.res /\ Pending(st, q) = st.res
        BY <3>3, <3>4 DEF Pending
      <3>7. g \in Seq(Samples) /\ Pending(T, q).followed = g /\ st.res.begin \in Tables
        BY <3>4, <3>6, ReadIs, ResultIs
      <3> DEFINE b == st.res.begin
                 f == R.followed
                 b2 == Entered(b, next, seq, clock)
      <3> HIDE DEF g, b, f
      <3>8. Aligned(b2, g, f, clock + 1)
        BY <2>1, <3>1, <3>5, <3>7, AlignedBegins DEF b, f
      <3>9. \A s \in AB, i \in Ids : b2[s][i] = clock \/ b2[s][i] = b[s][i]
        <4>1. b \in Tables
          BY <3>7 DEF b
        <4>2. \A s \in AB, i \in Ids : b2[s][i] = IF s = next /\ i = seq THEN clock ELSE b[s][i]
          BY <2>1, <4>1, EnteredIs
        <4> HIDE DEF b2
        <4> QED BY <4>2
      <3>10. \A s \in AB, i \in Ids : b[s][i] \in Nat /\ b[s][i] < clock
        BY <3>1, <3>7, EntriesAre DEF SoFar, b
      <3> HIDE DEF b2
      <3>11. \A s \in AB, i \in Ids : b2[s][i] <= clock /\ b2[s][i] < clock + 1
        BY <2>1, <3>9, <3>10
      <3>12. clock < clock + 1
        BY <2>1
      <3>13. T.res.begin = b2
        BY <3>4 DEF b2, b
      <3>14. SoFar(T, clock + 1)
        BY <3>4, <3>11, <3>12, <3>13 DEF SoFar
      <3> QED BY <3>7, <3>8, <3>13, <3>14 DEF Timely, T, R, f
    <2> QED BY <1>1, <2>1, <2>2
  <1>5. CASE EndSection
    <2>1. UNCHANGED <<run, recs>> /\ clock' = clock + 1 /\ section # None /\ section \in Sections /\ lines \in Seq(LineSet)
          /\ lines' = IF run = 1 THEN lines \o (IF section = "init" THEN <<>> ELSE <<End(section)>>) ELSE lines
      BY <1>5 DEF EndSection, Printed, CaptureInv, TypeInv
    <2>2. ASSUME run = 1, NEW q \in Qs PROVE Timely(q, lines', recs, clock + 1)
      <3>1. Timely(q, lines, recs, clock + 1)
        BY <1>2, <2>2, TimelyLater
      <3>2. CASE section = "init"
        <4>1. lines' = lines
          <5>1. lines' = lines \o <<>>
            BY <2>1, <2>2, <3>2
          <5> QED BY <2>1, <5>1, ConcatEmptySeq
        <4> QED BY <3>1, <4>1
      <3>3. CASE section \in AB
        <4> DEFINE st == ReadOf(q, lines)
                   T  == ReadOf(q, lines')
        <4>1. st.sec = section
          BY <1>2, <2>2, <3>3 DEF Following
        <4>2. /\ T.sec = None /\ T.name = NotFollowing
              /\ T.res.begin = st.res.begin /\ T.res.followed = Pending(st, q).followed
          BY <1>5, <2>2, <3>3, <4>1, EndReads
        <4>3. SoFar(st, clock + 1) /\ Aligned(st.res.begin, Pending(st, q).followed, CBOROf(q, recs).followed, clock + 1)
          BY <3>1 DEF Timely
        <4> HIDE DEF st, T
        <4>4. Pending(T, q) = T.res
          BY <4>2 DEF Pending
        <4>5. SoFar(T, clock + 1)
          BY <4>2, <4>3 DEF SoFar
        <4> QED BY <4>2, <4>3, <4>4, <4>5 DEF Timely, T
      <3> QED BY <2>1, <3>2, <3>3 DEF Sections, AB
    <2> QED BY <1>1, <2>1, <2>2
  <1>6. CASE Restart
    <2>1. run' # 1
      BY <1>6 DEF Restart, CaptureInv, TypeInv, Times
    <2> QED BY <1>1, <2>1
  <1>7. CASE UNCHANGED <<run, recs, lines, clock>>
    BY <1>7 DEF TimesInv
  <1>8. HostStep \/ UNCHANGED vars => UNCHANGED <<run, recs, lines, clock>>
    BY DEF HostStep, vars, captureVars
  <1> QED BY <1>3, <1>4, <1>5, <1>6, <1>7, <1>8 DEF Next, CaptureNext

\* What -changing says of a command.
ChangeOf(name, s) ==
    [name |-> name, samples |-> Len(s), change |-> Last(s).value - s[1].value, span |-> Last(s).time - s[1].time]

NoSpan(x) == [x EXCEPT !.span = 0]

LEMMA ChangingIs ==
  ASSUME NEW res, NEW w
  PROVE  Changing(res, w) = {ChangeOf(n, InWindow(res.followed, n, w)) :
                                n \in {i \in res.matching : Changes(InWindow(res.followed, i, w))}}
  BY DEF Changing, ChangeOf, Changes

LEMMA SameChange ==
  ASSUME NEW a \in Seq(Samples), NEW b \in Seq(Samples), SameValues(a, b), NEW name
  PROVE  /\ Changes(a) <=> Changes(b)
         /\ Changes(a) => NoSpan(ChangeOf(name, a)) = NoSpan(ChangeOf(name, b))
  <1> DEFINE m == Len(a)
  <1>1. m \in Nat /\ Len(b) = m /\ \A i \in 1 .. m : a[i].value = b[i].value
    BY LenProperties DEF SameValues
  <1>2. Changes(a) <=> \E i, j \in 1 .. m : a[i].value # a[j].value
    BY Neighbours
  <1>3. Changes(b) <=> \E i, j \in 1 .. m : b[i].value # b[j].value
    BY <1>1, Neighbours
  <1>4. ASSUME Changes(a) PROVE NoSpan(ChangeOf(name, a)) = NoSpan(ChangeOf(name, b))
    <2> HIDE DEF m
    <2>1. 1 \in 1 .. m /\ m \in 1 .. m
      BY <1>1, <1>2, <1>4
    <2>2. a[1].value = b[1].value /\ a[m].value = b[m].value
      BY <1>1, <2>1
    <2>3. Last(a) = a[m] /\ Last(b) = b[m]
      BY <1>1 DEF Last, m
    <2>4. Len(a) = Len(b)
      BY <1>1 DEF m
    <2> QED BY <2>2, <2>3, <2>4 DEF NoSpan, ChangeOf
  <1> HIDE DEF m
  <1> QED BY <1>1, <1>2, <1>3, <1>4

\* Both lists change by the same.
LEMMA SameChanges ==
  ASSUME NEW t \in Results, NEW c \in Results, t.matching = c.matching, NEW w, Paired(t.followed, c.followed, w)
  PROVE  Amounts(Changing(t, w)) = Amounts(Changing(c, w))
  <1> DEFINE M    == t.matching
             S(n) == InWindow(t.followed, n, w)
             U(n) == InWindow(c.followed, n, w)
  <1>1. t.followed \in Seq(Samples) /\ c.followed \in Seq(Samples)
    BY ResultIs
  <1>2. ASSUME NEW n
        PROVE  (Changes(S(n)) <=> Changes(U(n))) /\ (Changes(S(n)) => NoSpan(ChangeOf(n, S(n))) = NoSpan(ChangeOf(n, U(n))))
    <2> DEFINE s == S(n)
               u == U(n)
    <2>1. s \in Seq(Samples) /\ u \in Seq(Samples)
      BY <1>1, WindowSteps
    <2>2. SameValues(s, u)
      BY <1>1, PairedWindows
    <2> HIDE DEF s, u
    <2>3. (Changes(s) <=> Changes(u)) /\ (Changes(s) => NoSpan(ChangeOf(n, s)) = NoSpan(ChangeOf(n, u)))
      BY <2>1, <2>2, SameChange
    <2> QED BY <2>3 DEF s, u
  <1>3. Changing(t, w) = {ChangeOf(n, S(n)) : n \in {i \in M : Changes(S(i))}}
    BY ChangingIs
  <1>4. Changing(c, w) = {ChangeOf(n, U(n)) : n \in {i \in M : Changes(U(i))}}
    BY ChangingIs
  <1> HIDE DEF S, U, M
  <1>5. ASSUME NEW x \in Changing(t, w) PROVE \E y \in Changing(c, w) : NoSpan(x) = NoSpan(y)
    <2>1. PICK n \in M : Changes(S(n)) /\ x = ChangeOf(n, S(n))
      BY <1>3
    <2> QED BY <1>2, <1>4, <2>1
  <1>6. ASSUME NEW y \in Changing(c, w) PROVE \E x \in Changing(t, w) : NoSpan(x) = NoSpan(y)
    <2>1. PICK n \in M : Changes(U(n)) /\ y = ChangeOf(n, U(n))
      BY <1>4
    <2> QED BY <1>2, <1>3, <2>1
  <1>7. \A rows : Amounts(rows) = {NoSpan(x) : x \in rows}
    BY DEF Amounts, NoSpan
  <1>8. {NoSpan(x) : x \in Changing(t, w)} = {NoSpan(x) : x \in Changing(c, w)}
    BY <1>5, <1>6
  <1>9. Amounts(Changing(t, w)) = {NoSpan(x) : x \in Changing(t, w)}
    BY <1>7
  <1>10. Amounts(Changing(c, w)) = {NoSpan(x) : x \in Changing(c, w)}
    BY <1>7
  <1> QED BY <1>8, <1>9, <1>10

\* The commands are those with two values that differ.
LEMMA ChangingNames ==
  ASSUME NEW c \in Results, NamesIn(c), NEW w
  PROVE  {x.name : x \in Changing(c, w)} = Varying(c, w)
  <1> DEFINE f    == c.followed
             U(n) == InWindow(f, n, w)
             Differ(y, z) == z.name = y.name /\ z.value # y.value /\ InTimeRange(y.time, w) /\ InTimeRange(z.time, w)
  <1>1. f \in Seq(Samples)
    BY ResultIs
  <1>2. \A y : y \in ToSet(f) <=> \E k \in 1 .. Len(f) : y = f[k]
    <2> HIDE DEF f
    <2> QED BY <1>1, LenProperties DEF ToSet
  <1>3. Changing(c, w) = {ChangeOf(n, U(n)) : n \in {i \in c.matching : Changes(U(i))}}
    BY ChangingIs
  <1>4. \A n, s : ChangeOf(n, s).name = n
    BY DEF ChangeOf
  <1>5. \A n : {x.name : x \in Changing(c, w)} = {i \in c.matching : Changes(U(i))}
    <2> HIDE DEF U
    <2> QED BY <1>3, <1>4
  <1>6. \A k \in 1 .. Len(f) : f[k].name \in c.matching
    BY DEF NamesIn
  <1> HIDE DEF f
  <1>7. ASSUME NEW n
        PROVE  U(n) \in Seq(Samples) /\ Selected(U(n), f, n, w)
    BY <1>1, WindowSteps, WindowSelects
  <1> HIDE DEF U
  <1>8. ASSUME NEW n, Changes(U(n)) PROVE \E y, z \in ToSet(f) : y.name = n /\ Differ(y, z)
    <2>1. PICK i \in 1 .. Len(U(n)), j \in 1 .. Len(U(n)) : U(n)[i].value # U(n)[j].value
      BY <1>7, <1>8, Neighbours
    <2>2. PICK k \in 1 .. Len(f) : U(n)[i] = f[k] /\ f[k].name = n /\ InTimeRange(f[k].time, w)
      BY <1>7 DEF Selected
    <2>3. PICK l \in 1 .. Len(f) : U(n)[j] = f[l] /\ f[l].name = n /\ InTimeRange(f[l].time, w)
      BY <1>7 DEF Selected
    <2>4. f[k] \in ToSet(f) /\ f[l] \in ToSet(f)
      BY <1>2
    <2>5. Differ(f[k], f[l])
      BY <2>1, <2>2, <2>3
    <2> HIDE DEF Differ
    <2> QED BY <2>2, <2>4, <2>5
  <1>9. ASSUME NEW y \in ToSet(f), NEW z \in ToSet(f), Differ(y, z)
        PROVE  y.name \in c.matching /\ Changes(U(y.name))
    <2>1. PICK k \in 1 .. Len(f) : y = f[k]
      BY <1>2
    <2>2. PICK l \in 1 .. Len(f) : z = f[l]
      BY <1>2
    <2> DEFINE n == y.name
    <2>3. f[k].name = n /\ f[l].name = n /\ InTimeRange(f[k].time, w) /\ InTimeRange(f[l].time, w) /\ f[k].value # f[l].value
      BY <1>9, <2>1, <2>2
    <2> HIDE DEF n
    <2>4. PICK i \in 1 .. Len(U(n)) : U(n)[i] = f[k]
      BY <1>7, <2>3 DEF Selected
    <2>5. PICK j \in 1 .. Len(U(n)) : U(n)[j] = f[l]
      BY <1>7, <2>3 DEF Selected
    <2>6. Changes(U(n))
      BY <1>7, <2>3, <2>4, <2>5, Neighbours
    <2>7. n \in c.matching
      BY <1>6, <2>3
    <2> QED BY <2>6, <2>7 DEF n
  <1> DEFINE D == {y \in ToSet(f) : \E z \in ToSet(f) : Differ(y, z)}
  <1>10. ASSUME NEW n, n \in {i \in c.matching : Changes(U(i))} PROVE \E y \in D : y.name = n
    <2> HIDE DEF Differ
    <2> QED BY <1>8, <1>10
  <1>11. ASSUME NEW y \in D PROVE y.name \in {i \in c.matching : Changes(U(i))}
    <2> HIDE DEF Differ
    <2> QED BY <1>9
  <1>12. {x.name : x \in D} = {i \in c.matching : Changes(U(i))}
    <2> HIDE DEF D
    <2> QED BY <1>10, <1>11
  <1>13. Varying(c, w) = {x.name : x \in D}
    <2> DEFINE inside == {x \in ToSet(f) : InTimeRange(x.time, w)}
    <2>1. \A y : y \in D <=> y \in inside /\ \E z \in inside : z.name = y.name /\ z.value # y.value
      OBVIOUS
    <2>2. D = {y \in inside : \E z \in inside : z.name = y.name /\ z.value # y.value}
      <3> HIDE DEF D, inside
      <3>1. \A y : y \in D <=> y \in {x \in inside : \E z \in inside : z.name = x.name /\ z.value # x.value}
        BY <2>1
      <3> QED BY <3>1
    <2>3. Varying(c, w) = {x.name : x \in {y \in inside : \E z \in inside : z.name = y.name /\ z.value # y.value}}
      BY DEF Varying, f
    <2> HIDE DEF D, inside
    <2> QED BY <2>2, <2>3
  <1> QED BY <1>5, <1>12, <1>13

LEMMA ChangingHold ==
  ASSUME CaptureInv, FollowInv, TimesInv
  PROVE  SameChanging
  <1>1. ASSUME run = 1, section = None, NEW q \in Qs
        PROVE  LET t == ReadOf(q, lines).res
                   c == CBOROf(q, recs)
               IN  /\ t.matching = c.matching
                   /\ \A w \in Uncut(t) : /\ Amounts(Changing(t, w)) = Amounts(Changing(c, w))
                                          /\ {x.name : x \in Changing(c, w)} = Varying(c, w)
    <2> DEFINE st == ReadOf(q, lines)
               t  == st.res
               c  == CBOROf(q, recs)
               f  == t.followed
               g  == c.followed
    <2>1. st \in ReadStates /\ c \in Results /\ NamesIn(c)
      BY TextSteps, CBORSteps, NamesCounted DEF CaptureInv, TypeInv
    <2>2. Following(st, c, section, seq, q) /\ Timely(q, lines, recs, clock)
      BY <1>1 DEF FollowInv, TimesInv
    <2>3. section \notin AB
      BY <1>1 DEF AB, None
    <2>4. Aligned(t.begin, Pending(st, q).followed, g, clock)
      BY <2>2 DEF Timely
    <2> HIDE DEF st, c
    <2>5. t.matching = c.matching /\ st.name = NotFollowing /\ Untimed(Pending(st, q).followed) = Untimed(g)
      BY <2>2, <2>3 DEF Following
    <2>6. Pending(st, q) = t
      BY <2>5 DEF Pending
    <2>7. t \in Results /\ f \in Seq(Samples) /\ g \in Seq(Samples) /\ t.begin \in Tables
      BY <2>1, ReadIs, ResultIs
    <2> HIDE DEF t
    <2>8. Untimed(f) = Untimed(g) /\ Aligned(t.begin, f, g, clock)
      BY <2>4, <2>5, <2>6
    <2> HIDE DEF f, g
    <2>9. Len(f) = Len(g) /\ Len(f) \in Nat /\ DOMAIN f = 1 .. Len(f) /\ DOMAIN g = 1 .. Len(f)
      BY <2>7, <2>8, LenProperties DEF Aligned
    <2>10. \A k \in 1 .. Len(f) : f[k] \in Samples /\ g[k] \in Samples
      BY <2>7, <2>9, ElementOfSeq
    <2>11. ASSUME NEW k \in 1 .. Len(f) PROVE f[k].name = g[k].name /\ f[k].value = g[k].value
      <3>1. Notime(f[k]) = Notime(g[k])
        <4>1. Untimed(f)[k] = Notime(f[k]) /\ Untimed(g)[k] = Notime(g[k])
          BY <2>9 DEF Untimed
        <4> QED BY <2>8, <4>1
      <3>2. \A x \in Samples : Notime(x).name = x.name /\ Notime(x).value = x.value
        BY DEF Samples, Notime
      <3> QED BY <2>10, <3>1, <3>2
    <2>12. \A k \in 1 .. Len(f) : f[k].time \in Nat /\ g[k].time \in Nat
      <3>1. \A x \in Samples : x.time \in Nat
        BY DEF Samples
      <3> QED BY <2>10, <3>1
    <2>13. \A x \in Starts(t) : x \in Nat /\ \A k \in 1 .. Len(f) : x <= f[k].time <=> x <= g[k].time
      <3>1. \A sec \in AB, id \in Ids : t.begin[sec][id] \in Nat
        BY <2>7, EntriesAre
      <3>2. \A sec \in AB, id \in Ids : \A k \in 1 .. Len(f) : t.begin[sec][id] <= f[k].time <=> t.begin[sec][id] <= g[k].time
        BY <2>8, <2>9 DEF Aligned
      <3> QED BY <3>1, <3>2 DEF Starts, AB
    <2>14. ASSUME NEW w \in Uncut(t)
           PROVE  Paired(f, g, w)
      <3> DEFINE from == w.from
                 to   == w.to
                 B    == Starts(t)
      <3>0. from \in B /\ to \in {0} \cup {x - 1 : x \in B \ {0}}
        BY DEF Uncut
      <3> HIDE DEF from, to, B
      <3>1. ASSUME NEW k \in 1 .. Len(f) PROVE InTimeRange(f[k].time, w) <=> InTimeRange(g[k].time, w)
        <4> DEFINE x == f[k].time
                   y == g[k].time
        <4>1. x \in Nat /\ y \in Nat /\ from \in Nat /\ (from <= x <=> from <= y)
          BY <2>12, <2>13, <3>0 DEF B
        <4>2. PICK s \in Nat : (to = 0 \/ to = s - 1) /\ (s <= x <=> s <= y)
          <5>1. CASE to = 0
            <6>1. 0 <= x /\ 0 <= y
              BY <4>1
            <6> QED BY <5>1, <6>1
          <5>2. CASE to # 0
            <6>1. PICK z \in B : to = z - 1
              BY <3>0, <5>2
            <6> QED BY <2>13, <6>1 DEF B
          <5> QED BY <5>1, <5>2
        <4>3. InTimeRange(x, w) <=> (from # 0 => x >= from) /\ (to # 0 => x <= to)
          BY DEF InTimeRange, from, to
        <4>4. InTimeRange(y, w) <=> (from # 0 => y >= from) /\ (to # 0 => y <= to)
          BY DEF InTimeRange, from, to
        <4> HIDE DEF x, y
        <4>5. x >= from <=> y >= from
          BY <4>1
        <4>6. to # 0 => (x <= to <=> y <= to)
          BY <4>1, <4>2
        <4>7. InTimeRange(x, w) <=> InTimeRange(y, w)
          BY <4>3, <4>4, <4>5, <4>6
        <4> QED BY <4>7 DEF x, y
      <3> QED BY <2>9, <2>11, <3>1 DEF Paired
    <2>15. ASSUME NEW w \in Uncut(t)
           PROVE  /\ Amounts(Changing(t, w)) = Amounts(Changing(c, w))
                  /\ {x.name : x \in Changing(c, w)} = Varying(c, w)
      <3>1. Paired(t.followed, c.followed, w)
        BY <2>14 DEF f, g
      <3>2. Amounts(Changing(t, w)) = Amounts(Changing(c, w))
        BY <2>1, <2>5, <2>7, <3>1, SameChanges
      <3>3. {x.name : x \in Changing(c, w)} = Varying(c, w)
        BY <2>1, ChangingNames
      <3> QED BY <3>2, <3>3
    <2> QED BY <2>5, <2>15 DEF t, c, st
  <1>2. ASSUME run = 1, section = None,
               NEW cmds \in {{"dev"}, {"dev", "softnet"}}, NEW type \in SectionTypes
        PROVE  LET text == ParseTextFile(Asked("changing", cmds, type))
                   cbor == ParseCBORFile(Asked("changing", cmds, type))
               IN  /\ text.matching = cbor.matching
                   /\ \A w \in Uncut(text) :
                          /\ Amounts(Changing(text, w)) = Amounts(Changing(cbor, w))
                          /\ {x.name : x \in Changing(cbor, w)} = Varying(cbor, w)
    <2> DEFINE q == Asked("changing", cmds, type)
    <2>1. q \in Qs
      BY DEF Qs, Asked, Commands
    <2>2. ParseTextFile(q) = ReadOf(q, lines).res /\ ParseCBORFile(q) = CBOROf(q, recs)
      <3>1. ParseTextFile(q) = ReadOf(q, lines).res /\ ParseCBORFile(q) = FullOf(q, recs)
        BY DEF ParseTextFile, ParseCBORFile, ReadOf, FullOf
      <3>2. recs \in Seq(RecSet) /\ q.mode # "command"
        BY DEF CaptureInv, TypeInv, Asked
      <3> QED BY <3>1, <3>2, SameOf
    <2> HIDE DEF q
    <2> QED BY <1>1, <1>2, <2>1, <2>2 DEF q
  <1> QED BY <1>2 DEF SameChanging

\* In a run without -n, in any window that does not cut a section, both files
\* list the same commands as changing, by the same amount, out of as many: those
\* with two values that differ (analyzeChangingCommands, parseTextFile,
\* parseCBORFile).
THEOREM ChangesAreSame ==
  ASSUME RootOnly
  PROVE  Spec => []SameChanging
  <1>1. Init => CaptureInv /\ FollowInv /\ TimesInv
    BY InitCapture, InitFollow, InitTimes
  <1>2. CaptureInv /\ FollowInv /\ TimesInv /\ [Next]_vars => (CaptureInv /\ FollowInv /\ TimesInv)'
    BY NextCapture, NextFollow, NextTimes
  <1>3. CaptureInv /\ FollowInv /\ TimesInv => SameChanging
    BY ChangingHold
  <1> QED BY <1>1, <1>2, <1>3, PTL DEF Spec
=============================================================================
