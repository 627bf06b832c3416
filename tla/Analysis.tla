------------------------------ MODULE Analysis ------------------------------
(***************************************************************************)
(* The analyzer's readers (cmd/msu), over the captures of module Capture:  *)
(* parseTextFile and parseCBORFile (main.go), which index the sections of  *)
(* a capture and follow commands; collectMSUSnapshots and its CBOR twin    *)
(* (cpu_compare.go), which feed the charts; and the packet rates that      *)
(* processNetDevSnapshots (net_dev.go) makes of two snapshots.             *)
(*                                                                         *)
(* The readers are pure: capture |-> result.  They are loops over records  *)
(* or lines, and here folds with the loop's body as an operator.           *)
(***************************************************************************)
EXTENDS Capture

vars == captureVars

Ids == 0 .. MaxSeq

\* -section-type.
SectionTypes == {"A", "B", "both"}

ShouldTrackSection(type, sec) == type \in {"A", "B"} => sec = type

\* What is asked for: values of one command (-command), or of those whose names
\* contain a pattern (-changing), here those in cmds.
Asked(mode, cmds, type) == [mode |-> mode, cmds |-> cmds, type |-> type]

\* How the text file names a command; a CBOR sample has the name without the
\* namespace.
TextName(src) == IF src.ns = Root THEN <<src.cmd>> ELSE <<src.cmd, src.ns>>

\* -command is the whole name.
Wanted(q, name) == name[1] \in q.cmds /\ (q.mode = "command" => Len(name) = 1)

\* extractValue: the number in the output that the patterns pick, the packets
\* of an interface in /proc/net/dev.  Absent if the command failed, or does not
\* list the interface.
Watched == CHOOSE i \in Ifaces : TRUE
Extracted(cmd, out) ==
    IF out = Nothing THEN Absent ELSE IF cmd = "dev" THEN out[1][Watched] ELSE out[1]

\* parseResult; matching has the commands counted by -changing.
NoResult ==
    [begin |-> [sec \in {"A", "B"} |-> [id \in Ids |-> 0]],   \* 0: no such section
     end   |-> [sec \in {"A", "B"} |-> [id \in Ids |-> 0]],
     order |-> [sec \in {"A", "B"} |-> <<>>],
     followed |-> <<>>, matching |-> {}]

\* A sample of a command: the value in its output, and the output.
SampleOf(name, id, time, value, out) ==
    [name |-> name, id |-> id, time |-> time, value |-> value, out |-> out]

\* A value of a command in a section is a sample of it.
WithSample(res, q, name, sec, id, time, out) ==
    LET v == Extracted(name[1], out)
    IN  IF ~ShouldTrackSection(q.type, sec) \/ v = Absent THEN res
        ELSE [res EXCEPT !.followed = Append(@, SampleOf(name, id, time, v, out))]

-----------------------------------------------------------------------------
(* parseCBORFile, without the init samples, which are printed as they are.  *)

\* Mutation of Indexed: it is forgotten that the section was seen.
Indexed_NotSeen(res, s) ==
    [res EXCEPT !.begin[s.sec][s.seq] = s.time, !.order[s.sec] = Append(@, s.seq),
                !.end[s.sec][s.seq] = s.time]

\* The first sample of a section opens it, every sample moves its end.
Indexed(res, s) ==
    LET new == res.begin[s.sec][s.seq] = 0
    IN  [res EXCEPT !.begin[s.sec][s.seq] = IF new THEN s.time ELSE @,
                    !.order[s.sec] = IF new THEN Append(@, s.seq) ELSE @,
                    !.end[s.sec][s.seq] = s.time]

\* Every command that matches is counted, with a value or without.
Matched(res, name) == [res EXCEPT !.matching = @ \cup {name}]

\* What -command asks of a sample, besides its value: one of /proc/stat counts
\* without a value, which is then 0; it is there for its output.
WithOutput(res, q, name, s) ==
    IF q.mode = "command" /\ s.cmd = "stat" /\ ShouldTrackSection(q.type, s.sec)
         /\ Extracted(s.cmd, s.out) = Absent
    THEN [res EXCEPT !.followed = Append(@, SampleOf(name, s.seq, s.time, 0, s.out))]
    ELSE WithSample(res, q, name, s.sec, s.seq, s.time, s.out)

\* Mutation of CBORSample: a command of another type of section is not counted.
CBORSample_CountTracked(res, s, q) ==
    LET name == <<s.cmd>>
    IN  IF s.sec = "init" THEN res
        ELSE IF ~Wanted(q, name) \/ ~ShouldTrackSection(q.type, s.sec) THEN Indexed(res, s)
        ELSE WithOutput(Matched(Indexed(res, s), name), q, name, s)

CBORSample(res, s, q) ==
    LET name == <<s.cmd>>
    IN  IF s.sec = "init" THEN res
        ELSE IF ~Wanted(q, name) THEN Indexed(res, s)
        ELSE WithOutput(Matched(Indexed(res, s), name), q, name, s)

ParseCBORFile(q) == FoldLeft(LAMBDA res, s : CBORSample(res, s, q), NoResult, recs)

-----------------------------------------------------------------------------
(* parseTextFile: an automaton that reads lines.  sec, id and time are      *)
(* those of the section it is in; name is the command it follows, whose     *)
(* output it keeps until the next marker or the end of the section.         *)

NotFollowing == <<>>
Reading0 == [res |-> NoResult, sec |-> None, id |-> 0, time |-> 0, name |-> NotFollowing, out |-> Nothing]

\* The output that is kept goes to the result, under the time of the section
\* (flushChangingCmds, and the same for -command).
Flushed(st, q) ==
    [st EXCEPT !.res = IF st.name = NotFollowing THEN @
                       ELSE WithSample(@, q, st.name, st.sec, st.id, st.time, st.out),
               !.name = NotFollowing, !.out = Nothing]

\* A section that begins within another is ignored.
ReadBegin(st, l) ==
    IF st.sec # None THEN st
    ELSE [st EXCEPT !.res.begin[l.sec][l.id] = l.time,
                    !.res.order[l.sec] = Append(@, l.id),
                    !.sec = l.sec, !.id = l.id, !.time = l.time]

\* An end marker is believed for its own section, whichever one is open; it
\* leaves only a section of its type.
ReadEnd(st, l, q) ==
    LET f == Flushed(st, q)
    IN  [f EXCEPT !.res.end[l.sec][l.id] = IF f.res.begin[l.sec][l.id] # 0 THEN l.time ELSE @,
                  !.sec = IF @ = l.sec THEN None ELSE @]

Follows(st, l, q) ==
    IF ~Wanted(q, TextName(l.src)) THEN st
    ELSE [st EXCEPT !.res = Matched(@, TextName(l.src)), !.name = TextName(l.src)]

\* Mutation of ReadMarker: the output before the marker is dropped.
ReadMarker_NoFlush(st, l, q) ==
    IF st.sec = None THEN st
    ELSE Follows([st EXCEPT !.name = NotFollowing, !.out = Nothing], l, q)

ReadMarker(st, l, q) ==
    IF st.sec = None THEN st ELSE Follows(Flushed(st, q), l, q)

ReadOut(st, l) ==
    IF st.sec # None /\ st.name # NotFollowing THEN [st EXCEPT !.out = l.value] ELSE st

TextLine(st, l, q) ==
    CASE l.kind = "begin"  -> ReadBegin(st, l)
      [] l.kind = "end"    -> ReadEnd(st, l, q)
      [] l.kind = "marker" -> ReadMarker(st, l, q)
      [] l.kind = "out"    -> ReadOut(st, l)

\* What is kept at the end of the file is not flushed.
ParseTextFile(q) == FoldLeft(LAMBDA st, l : TextLine(st, l, q), Reading0, lines).res

-----------------------------------------------------------------------------
(* What main prints of a result, for a window -from, -to (0: no bound).     *)

InTimeRange(t, w) == (w.from # 0 => t >= w.from) /\ (w.to # 0 => t <= w.to)

\* The samples of a command in the window, in order.
Kept(s, x, name, w) == IF x.name = name /\ InTimeRange(x.time, w) THEN Append(s, x) ELSE s

InWindow(samples, name, w) == FoldLeft(LAMBDA s, x : Kept(s, x, name, w), <<>>, samples)

\* analyzeChangingCommands, of the samples in the window: total change, and
\* the time it took.
Changing(res, w) ==
    LET SamplesOf(name) == InWindow(res.followed, name, w)
        Result(name, s) == [name |-> name, samples |-> Len(s), change |-> Last(s).value - s[1].value,
                            span |-> Last(s).time - s[1].time]
    IN  {Result(name, SamplesOf(name)) :
            name \in {n \in res.matching :
                         \E i \in 2 .. Len(SamplesOf(n)) : SamplesOf(n)[i].value # SamplesOf(n)[i - 1].value}}

\* A row of the list of sections.  A section with one time takes as long as it
\* is to the next one, about.
Row(res, sec, order, i) ==
    LET begin == res.begin[sec][order[i]]
        end   == res.end[sec][order[i]]
        about == end = begin /\ i < Len(order)
    IN  [no |-> i - 1, id |-> order[i], begin |-> begin, about |-> about,
         duration |-> CASE end = 0 -> None
                        [] about   -> res.begin[sec][order[i + 1]] - begin
                        [] OTHER   -> end - begin]

\* Mutation of Listing: the window is applied first.
Listing_FilterFirst(res, sec, w) ==
    LET order == SelectSeq(res.order[sec], LAMBDA id : InTimeRange(res.begin[sec][id], w))
    IN  {Row(res, sec, order, i) : i \in DOMAIN order}

\* The window applies to the time a section begins.
Listing(res, sec, w) ==
    {Row(res, sec, res.order[sec], i) :
        i \in {j \in DOMAIN res.order[sec] : InTimeRange(res.begin[sec][res.order[sec][j]], w)}}

-----------------------------------------------------------------------------
(* Snapshots for the charts.                                               *)

\* collectMSUSnapshotsCBOR: every sample of the command, of any section, run
\* and namespace.  "at" is the record, for the properties.
Numbered(q) == [k \in DOMAIN q |-> [at |-> k, rec |-> q[k]]]

AddSnapshot(snaps, x, cmd) ==
    IF x.rec.cmd = cmd THEN Append(snaps, [at |-> x.at, time |-> x.rec.time, out |-> x.rec.out]) ELSE snaps

CBORSnapshots(cmd) == FoldLeft(LAMBDA snaps, x : AddSnapshot(snaps, x, cmd), <<>>, Numbered(recs))

\* collectMSUSnapshots: the automaton of parseTextFile without its sections.
\* Whatever ends a command's output is preceded by an empty line, so even a
\* command that failed leaves a snapshot, unless the file ends there.  A
\* snapshot has the time at which its section begins.
Scanning0 == [snaps |-> <<>>, time |-> 0, inSection |-> FALSE, active |-> FALSE, out |-> Nothing]

Snapped(st) ==
    [st EXCEPT !.snaps = IF st.active THEN Append(@, [time |-> st.time, out |-> st.out]) ELSE @,
               !.active = FALSE, !.out = Nothing]

\* Mutation of ScanLine: the end of a section does not end the output.
ScanLine_NoEnd(st, l, cmd) ==
    CASE l.kind = "begin"  -> [Snapped(st) EXCEPT !.time = l.time, !.inSection = TRUE]
      [] l.kind = "end"    -> [st EXCEPT !.inSection = FALSE, !.active = FALSE]
      [] l.kind = "marker" -> IF st.inSection
                              THEN [Snapped(st) EXCEPT !.active = (TextName(l.src) = cmd)] ELSE st
      [] l.kind = "out"    -> IF st.active THEN [st EXCEPT !.out = l.value] ELSE st

ScanLine(st, l, cmd) ==
    CASE l.kind = "begin"  -> [Snapped(st) EXCEPT !.time = l.time, !.inSection = TRUE]
      [] l.kind = "end"    -> [Snapped(st) EXCEPT !.inSection = FALSE]
      [] l.kind = "marker" -> IF st.inSection
                              THEN [Snapped(st) EXCEPT !.active = (TextName(l.src) = cmd)] ELSE st
      [] l.kind = "out"    -> IF st.active THEN [st EXCEPT !.out = l.value] ELSE st

TextSnapshots(cmd) ==
    LET st == FoldLeft(LAMBDA x, l : ScanLine(x, l, <<cmd>>), Scanning0, lines)
    IN  IF st.out # Nothing THEN Snapped(st).snaps ELSE st.snaps

-----------------------------------------------------------------------------
(* processNetDevSnapshots.                                                 *)

\* Mutation of SafeU64Delta: the difference of unsigned numbers, here of
\* three bits.
SafeU64Delta_Wrap(curr, prev) == (curr - prev) % 8

SafeU64Delta(curr, prev) == IF curr >= prev THEN curr - prev ELSE 0

\* parseNetDev: the interfaces in the output.
Listed(out) == IF out # Nothing THEN {i \in Ifaces : out[1][i] # Absent} ELSE {}

\* What two snapshots in a row say of the interfaces in both.
PointsOf(prev, curr) ==
    {[at |-> curr.at, after |-> prev.at, iface |-> i, delta |-> SafeU64Delta(curr.out[1][i], prev.out[1][i])] :
        i \in IF curr.time > prev.time THEN Listed(prev.out) \cap Listed(curr.out) ELSE {}}

AllPoints(s) == UNION {PointsOf(s[k - 1], s[k]) : k \in 2 .. Len(s)}

\* Mutation of WithTraffic: traffic is looked for in the last point alone.
WithTraffic_Last(points) ==
    {p.iface : p \in {q \in points : q.delta > 0 /\ \A o \in points : o.at <= q.at}}

\* Interfaces without traffic are not charted.
WithTraffic(points) == {p.iface : p \in {q \in points : q.delta > 0}}

NetDevSeries ==
    LET points == AllPoints(CBORSnapshots("dev"))
        busy   == WithTraffic(points)
    IN  {p \in points : p.iface \in busy}

-----------------------------------------------------------------------------
(* The specification and its properties.                                   *)

Init == CaptureInit
Next == CaptureNext
Spec == Init /\ [][Next]_vars

\* The samples that have a value.  A command that failed printed nothing.
Valued(samples) == FoldLeft(LAMBDA s, x : IF x.out # Nothing THEN Append(s, x) ELSE s, <<>>, samples)

\* A text file and a CBOR file of the same run tell the same about a command:
\* the same values and outputs, in the same intervals, whatever the type of
\* section asked for (-command).  In the middle of a section the text file may
\* lack the last value.  "The same parseResult as parseTextFile" (main.go:404)
\* does not hold of /proc/stat: parseCBORFile has a sample, of value 0, for each
\* time that reading it failed, and parseTextFile has none.
SameFollowed ==
    run = 1 =>
        \A cmd \in Commands, type \in SectionTypes :
            LET Untimed(s) == [k \in DOMAIN s |-> [s[k] EXCEPT !.time = 0]]
                all  == ParseCBORFile(Asked("command", {cmd}, type)).followed
                text == Untimed(ParseTextFile(Asked("command", {cmd}, type)).followed)
                cbor == Untimed(Valued(all))
            IN  /\ IsPrefix(text, cbor)
                /\ Len(cbor) <= Len(text) + (IF section = None THEN 0 ELSE 1)
                /\ cmd # "stat" => Valued(all) = all

\* They list the same sections in the same order, none of them ends before it
\* begins, and a B section lies within the times that its markers have in the
\* text file (parseTextFile, parseCBORFile).  The end that the script prints
\* for an A section is older than most of its output.
SameSections ==
    run = 1 /\ section = None =>
        LET text == ParseTextFile(Asked("command", {}, "both"))
            cbor == ParseCBORFile(Asked("command", {}, "both"))
        IN  /\ text.order = cbor.order
            /\ \A sec \in {"A", "B"} : \A id \in ToSet(text.order[sec]) :
                   /\ text.begin[sec][id] <= cbor.begin[sec][id]
                   /\ text.begin[sec][id] <= text.end[sec][id]
                   /\ cbor.begin[sec][id] <= cbor.end[sec][id]
                   /\ sec = "B" => cbor.end[sec][id] <= text.end[sec][id]

\* The windows that do not cut a section: from the beginning of one, until before
\* another's.
Starts(res) == {res.begin[sec][id] : sec \in {"A", "B"}, id \in Ids}

Uncut(res) == [from: Starts(res), to: {0} \cup {t - 1 : t \in Starts(res) \ {0}}]

\* What a list of changing commands says, but for when.
Amounts(rows) == {[x EXCEPT !.span = 0] : x \in rows}

\* The commands with two values in the window that differ.
Varying(res, w) ==
    LET inside == {x \in ToSet(res.followed) : InTimeRange(x.time, w)}
    IN  {x.name : x \in {y \in inside : \E z \in inside : z.name = y.name /\ z.value # y.value}}

\* Both list the same commands as changing (-changing), by the same amount, out
\* of as many, in any window that does not cut a section: those with two values
\* that differ, whatever failed in between.  Only the time of the change is
\* another, since the text file has no time for a sample.
SameChanging ==
    run = 1 /\ section = None =>
        \A cmds \in {{"dev"}, {"dev", "softnet"}}, type \in SectionTypes :
            LET text == ParseTextFile(Asked("changing", cmds, type))
                cbor == ParseCBORFile(Asked("changing", cmds, type))
            IN  /\ text.matching = cbor.matching
                /\ \A w \in Uncut(text) :
                       /\ Amounts(Changing(text, w)) = Amounts(Changing(cbor, w))
                       /\ {x.name : x \in Changing(cbor, w)} = Varying(cbor, w)

\* The samples of a section are all within the time it is listed with, and,
\* unless it has those of two runs, which share their numbers, no other's of its
\* type are; a window hides sections and does not change them (main.go:733).
ListedTimes ==
    LET cbor == ParseCBORFile(Asked("command", {}, "both"))
        All  == [from |-> 0, to |-> 0]
    IN  section = None => \A sec \in {"A", "B"} :
            LET Of(id)   == {k \in DOMAIN recs : recs[k].sec = sec /\ recs[k].seq = id}
                In(row)  == {k \in DOMAIN recs : recs[k].sec = sec /\ recs[k].time >= row.begin
                                 /\ (IF row.about THEN recs[k].time < row.begin + row.duration
                                     ELSE recs[k].time <= row.begin + row.duration)}
                Runs(id) == {k \in Of(id) : \E j \in Of(id) : j < k /\ \E i \in j .. k : recs[i].sec = "init"}
            IN  /\ {row.id : row \in Listing(cbor, sec, All)} = {recs[k].seq : k \in {j \in DOMAIN recs : recs[j].sec = sec}}
                /\ \A row \in Listing(cbor, sec, All) :
                       IF Runs(row.id) = {} THEN In(row) = Of(row.id)
                       ELSE ~row.about => Of(row.id) \subseteq In(row)
                /\ \A from \in {0} \cup {recs[k].time : k \in DOMAIN recs} :
                       Listing(cbor, sec, [All EXCEPT !.from = from]) = {row \in Listing(cbor, sec, All) : row.begin >= from}

\* The charts of the two files difference the same outputs, failed commands
\* included, in the same order (collectMSUSnapshots, collectMSUSnapshotsCBOR).
\* When they were read differs: a text file tells only when their section began,
\* which is before they were read and after those of the section before.  So
\* the changes are the same, charted a little earlier, as rates over other
\* intervals.
SameSnapshots ==
    run = 1 /\ section = None =>
        \A cmd \in Commands \ {"lscpu"} :
            LET text == TextSnapshots(cmd)
                cbor == CBORSnapshots(cmd)
            IN  /\ Len(text) = Len(cbor)
                /\ \A k \in 1 .. Len(cbor) :
                       /\ text[k].out = cbor[k].out
                       /\ text[k].time < cbor[k].time
                       /\ k > 1 => cbor[k - 1].time < text[k].time

\* A charted rate never shows packets that were not there, whatever became of
\* the interface and its counters between two snapshots and across restarts
\* of the collector, which the counters outlive (safeU64Delta).
RatesAreReal ==
    \A p \in NetDevSeries :
        LET ns == recs[p.at].ns
        IN  p.delta <= truth[p.at][ns][p.iface] - truth[p.after][ns][p.iface]

\* Packets counted by an interface of the root namespace between two readings
\* of /proc/net/dev are charted, if both list it ("computes per-interface
\* rates from consecutive /proc/net/dev snapshots", net_dev.go:56).
TrafficCharted ==
    LET s    == CBORSnapshots("dev")
        root == {k \in DOMAIN s : recs[s[k].at].ns = Root}
    IN  \A j, k \in root :
            j < k /\ (\A m \in root : m <= j \/ k <= m) =>
                \A i \in Listed(s[j].out) \cap Listed(s[k].out) :
                    s[k].out[1][i] > s[j].out[1][i] =>
                        \E p \in NetDevSeries :
                            /\ p.iface = i /\ p.at = s[k].at
                            /\ p.delta = s[k].out[1][i] - s[j].out[1][i]
=============================================================================
