------------------------------ MODULE MsuStream ------------------------------
(***************************************************************************)
(* The CBOR v2 stream of package msuformat: a Writer (writer.go) appends   *)
(* records through a buffer to a file, several runs of the program append  *)
(* to the same file, and a Reader (reader.go) rebuilds the samples.  The   *)
(* process may die at any point and the machine may lose power.            *)
(*                                                                         *)
(* A record is one element of a sequence.  bufio.Writer cuts its output at *)
(* buffer boundaries, not at record boundaries, so the file can end in the *)
(* head of a record: the element Torn.                                     *)
(***************************************************************************)
EXTENDS Integers, SequencesExt

CONSTANTS
    Key,         \* (section, cmd, ns) tuples
    NoKey,       \* no tuple
    NotText,     \* tuples whose output is not valid UTF-8
    IdMod,       \* number of source IDs (2^16 in the program)
    MaxRuns,     \* bound: runs of the program on this file
    MaxSamples,  \* bound: samples accepted
    MaxBuf       \* bound: records in the buffer

ASSUME KeyAssumption == NoKey \notin Key /\ NotText \subseteq Key
ASSUME IdAssumption == IdMod \in Nat \ {0}
ASSUME StreamBounds == {MaxRuns, MaxSamples, MaxBuf} \subseteq Nat

Ids  == 0 .. IdMod - 1
NoId == IdMod

(* Records.  src and n of a sample are not in the record: they name the    *)
(* source it was written for and its place among the accepted samples.     *)
Header == [type |-> "header"]
Torn   == [type |-> "torn"]
SourceDef(id, k) == [type |-> "source", id |-> id, src |-> k]
Sample(id, k, n) == [type |-> "sample", id |-> id, src |-> k, n |-> n]

VARIABLES
    file,     \* records in the file
    synced,   \* number of records known to be on disk
    up,       \* a run of the program has the file open
    runs,     \* runs so far
    srcs,     \* Writer.srcs: the ID of each tuple, NoId when it has none
    nextID,   \* Writer.nextID
    buf,      \* records in bufio's buffer
    split,    \* the head of buf[1] is already in the file
    bad,      \* bufio's sticky write error
    cur,      \* the tuple whose definition was just written by WriteSample
    n,        \* history: samples accepted so far
    base,     \* history: samples accepted before this run
    acked,    \* history: samples accepted before a Flush that returned nil
    rd        \* the Reader: position, dictionary and what it returned

writerVars == <<up, runs, srcs, nextID, buf, split, bad, cur, n, base,
                acked>>
vars == <<file, synced, writerVars, rd>>

NoReader == [pc |-> "closed", pos |-> 0, dict |-> [id \in Ids |-> NoKey], out |-> <<>>]

Init ==
    /\ file = <<>> /\ synced = 0
    /\ up = FALSE /\ runs = 0
    /\ srcs = [k \in Key |-> NoId] /\ nextID = 0
    /\ buf = <<>> /\ split = FALSE /\ bad = FALSE /\ cur = NoKey
    /\ n = 0 /\ base = 0 /\ acked = {}
    /\ rd = NoReader

-----------------------------------------------------------------------------
(* bufio.Writer over the file.                                             *)

\* The file after the first m records of q, and the head of the next one if
\* part, were written to it.
FileAfter(q, m, part) ==
    IF m = 0 /\ split THEN file
    ELSE (IF split THEN Front(file) ELSE file)
            \o SubSeq(q, 1, m) \o (IF part THEN <<Torn>> ELSE <<>>)

\* Write: the record fits, or the buffer is written out and then the record
\* stays in it, is cut at the boundary, or is large enough to go straight on.
PutOK(rec) ==
    /\ ~bad
    /\ bad' = FALSE
    /\ \/ /\ Len(buf) < MaxBuf
          /\ buf' = Append(buf, rec)
          /\ UNCHANGED <<file, split>>
       \/ /\ buf # <<>>
          /\ \E part \in BOOLEAN :
                /\ file' = FileAfter(buf, Len(buf), part)
                /\ split' = part
          /\ buf' = <<rec>>
       \/ /\ file' = FileAfter(Append(buf, rec), Len(buf) + 1, FALSE)
          /\ buf' = <<>>
          /\ split' = FALSE

\* Writing the buffer out fails part of the way; from then on every Write
\* and every Flush returns the error.
WriteError(q) ==
    /\ ~bad
    /\ \E m \in 0 .. Len(q) - 1, part \in BOOLEAN : file' = FileAfter(q, m, part)
    /\ bad' = TRUE
    /\ buf' = <<>>
    /\ split' = FALSE

PutFails(rec) ==
    \/ WriteError(Append(buf, rec))
    \/ bad /\ UNCHANGED <<file, bad, buf, split>>

-----------------------------------------------------------------------------
(* The Writer.                                                             *)

\* Mutation of OpenRun: the dictionary outlives the run.
OpenRun_KeepDict ==
    /\ ~up
    /\ runs < MaxRuns
    /\ up' = TRUE
    /\ runs' = runs + 1
    /\ buf' = <<Header>>
    /\ split' = FALSE
    /\ bad' = FALSE
    /\ cur' = NoKey
    /\ base' = n
    /\ UNCHANGED <<file, synced, srcs, nextID, n, acked, rd>>

\* NewFileWriter and WriteHeader: O_APPEND, an empty dictionary, a header.
OpenRun ==
    /\ ~up
    /\ runs < MaxRuns
    /\ up' = TRUE
    /\ runs' = runs + 1
    /\ srcs' = [k \in Key |-> NoId]
    /\ nextID' = 0
    /\ buf' = <<Header>>
    /\ split' = FALSE
    /\ bad' = FALSE
    /\ cur' = NoKey
    /\ base' = n
    /\ UNCHANGED <<file, synced, n, acked, rd>>

\* Mutation of WriteSourceDef: nextID is wider than the ID of a record.
WriteSourceDef_Wide(k) ==
    /\ up /\ cur = NoKey
    /\ srcs[k] = NoId
    /\ n < MaxSamples
    /\ srcs' = [srcs EXCEPT ![k] = nextID]
    /\ nextID' = nextID + 1
    /\ \/ PutOK(SourceDef(nextID % IdMod, k)) /\ cur' = k
       \/ PutFails(SourceDef(nextID % IdMod, k)) /\ cur' = NoKey
    /\ UNCHANGED <<synced, up, runs, n, base, acked, rd>>

\* WriteSample on a new tuple: the ID is taken and registered first, then
\* the definition is written; an error there ends the call.
WriteSourceDef(k) ==
    /\ up /\ cur = NoKey
    /\ srcs[k] = NoId
    /\ n < MaxSamples
    /\ srcs' = [srcs EXCEPT ![k] = nextID]
    /\ nextID' = (nextID + 1) % IdMod
    /\ \/ PutOK(SourceDef(nextID, k)) /\ cur' = k
       \/ PutFails(SourceDef(nextID, k)) /\ cur' = NoKey
    /\ UNCHANGED <<synced, up, runs, n, base, acked, rd>>

\* Mutation of WriteSample: the dictionary's key leaves the namespace out, so
\* that a tuple takes the ID of another.
WriteSample_NoNS(k) ==
    /\ up /\ n < MaxSamples
    /\ cur \in {NoKey, k}
    /\ cur' = NoKey
    /\ \E other \in {j \in Key : srcs[j] # NoId} :
         LET rec == Sample(srcs[other], k, n + 1) IN
           \/ PutOK(rec) /\ n' = n + 1
           \/ PutFails(rec) /\ n' = n
    /\ UNCHANGED <<synced, up, runs, srcs, nextID, base, acked, rd>>

\* WriteSample, the sample itself.
WriteSample(k) ==
    /\ up /\ n < MaxSamples
    /\ srcs[k] # NoId
    /\ cur \in {NoKey, k}
    /\ cur' = NoKey
    /\ LET rec == Sample(srcs[k], k, n + 1) IN
         \/ PutOK(rec) /\ n' = n + 1
         \/ PutFails(rec) /\ n' = n
    /\ UNCHANGED <<synced, up, runs, srcs, nextID, base, acked, rd>>

\* Mutation of Flushed: no fsync.
Flushed_NoSync ==
    /\ ~bad
    /\ file' = FileAfter(buf, Len(buf), FALSE)
    /\ buf' = <<>>
    /\ split' = FALSE
    /\ acked' = acked \cup (base + 1 .. n)
    /\ UNCHANGED <<bad, synced>>

\* Flush: write the buffer out, then fsync.
Flushed ==
    /\ ~bad
    /\ file' = FileAfter(buf, Len(buf), FALSE)
    /\ synced' = Len(file')
    /\ buf' = <<>>
    /\ split' = FALSE
    /\ acked' = acked \cup (base + 1 .. n)
    /\ UNCHANGED bad

FlushFails ==
    /\ \/ buf # <<>> /\ WriteError(buf)
       \/ bad /\ UNCHANGED <<file, bad, buf, split>>
       \/ /\ ~bad
          /\ file' = FileAfter(buf, Len(buf), FALSE)   \* fsync fails
          /\ buf' = <<>>
          /\ split' = FALSE
          /\ UNCHANGED bad
    /\ UNCHANGED <<synced, acked>>

Flush ==
    /\ up /\ cur = NoKey
    /\ Flushed \/ FlushFails
    /\ UNCHANGED <<up, runs, srcs, nextID, cur, n, base, rd>>

\* Close flushes and closes the file; the program ends whatever it returns.
Close ==
    /\ up /\ cur = NoKey
    /\ Flushed \/ FlushFails
    /\ up' = FALSE
    /\ UNCHANGED <<runs, srcs, nextID, cur, n, base, rd>>

\* The process dies, or exits on an error without Close: the buffer is gone.
Lost ==
    /\ up' = FALSE
    /\ buf' = <<>>
    /\ split' = FALSE
    /\ bad' = FALSE
    /\ cur' = NoKey
    /\ UNCHANGED <<runs, srcs, nextID, n, base, acked>>

Crash == up /\ Lost /\ UNCHANGED <<file, synced, rd>>

\* The machine stops: of what was not synced, only a prefix is left.
PowerLoss ==
    /\ \E m \in synced .. Len(file) :
          \/ file' = SubSeq(file, 1, m)
          \/ m < Len(file) /\ file' = Append(SubSeq(file, 1, m), Torn)
    /\ Lost
    /\ rd' = NoReader
    /\ UNCHANGED synced

-----------------------------------------------------------------------------
(* The Reader, on a finished or a growing file.                            *)

OpenReader ==
    /\ rd.pc # "reading"
    /\ rd' = [NoReader EXCEPT !.pc = "first"]
    /\ UNCHANGED <<file, synced, writerVars>>

\* ReadHeader returns an error when there is no complete first record.
ReadHeader ==
    /\ rd.pc = "first"
    /\ rd' = IF file # <<>> /\ Head(file) = Header
             THEN [rd EXCEPT !.pc = "reading", !.pos = 1]
             ELSE [rd EXCEPT !.pc = "rejected"]
    /\ UNCHANGED <<file, synced, writerVars>>

AtRecord(type) ==
    rd.pc = "reading" /\ rd.pos < Len(file) /\ file[rd.pos + 1].type = type

\* (nil, nil): no more records, or a partial one at the end.
ReadEOF ==
    /\ rd.pc = "reading"
    /\ \/ rd.pos = Len(file)
       \/ AtRecord("torn") /\ rd.pos + 1 = Len(file)
    /\ rd' = [rd EXCEPT !.pc = "eof"]
    /\ UNCHANGED <<file, synced, writerVars>>

\* The head of a record followed by other records: the decoder takes bytes of
\* the next ones for the rest of it.  What it gets is malformed, or claims to
\* be longer than what is left of the file.
ReadTorn ==
    /\ AtRecord("torn") /\ rd.pos + 1 < Len(file)
    /\ \E pc \in {"failed", "eof"} : rd' = [rd EXCEPT !.pc = pc]
    /\ UNCHANGED <<file, synced, writerVars>>

ReadSourceDef ==
    /\ AtRecord("source")
    /\ LET def == file[rd.pos + 1] IN
         rd' = [rd EXCEPT !.pos = @ + 1, !.dict[def.id] = def.src]
    /\ UNCHANGED <<file, synced, writerVars>>

\* A sample whose ID is not defined, or whose output is not valid UTF-8 (the
\* encoder takes any string, the decoder refuses it), is an error.
ReadSample ==
    /\ AtRecord("sample")
    /\ LET s == file[rd.pos + 1] IN
         rd' = IF rd.dict[s.id] = NoKey \/ s.src \in NotText
               THEN [rd EXCEPT !.pc = "failed"]
               ELSE [rd EXCEPT !.pos = @ + 1,
                               !.out = Append(@, [src |-> rd.dict[s.id], n |-> s.n])]
    /\ UNCHANGED <<file, synced, writerVars>>

\* A later run's header resets the dictionary.
ReadNextHeader ==
    /\ AtRecord("header")
    /\ rd' = [rd EXCEPT !.pos = @ + 1, !.dict = NoReader.dict]
    /\ UNCHANGED <<file, synced, writerVars>>

WriterStep ==
    \/ OpenRun
    \/ \E k \in Key : WriteSourceDef(k) \/ WriteSample(k)
    \/ Flush \/ Close \/ Crash

ReaderStep ==
    \/ OpenReader \/ ReadHeader \/ ReadEOF \/ ReadTorn
    \/ ReadSourceDef \/ ReadSample \/ ReadNextHeader

Next == WriterStep \/ ReaderStep \/ PowerLoss

Spec == Init /\ [][Next]_vars

-----------------------------------------------------------------------------
(* Properties.                                                             *)

Records ==
    {Header, Torn} \cup {SourceDef(id, k) : id \in Ids, k \in Key}
        \cup {Sample(id, k, i) : id \in Ids, k \in Key, i \in 1 .. MaxSamples}

\* Every variable has its type.
TypeOK ==
    /\ \A i \in DOMAIN file : file[i] \in Records
    /\ \A i \in DOMAIN buf : buf[i] \in Records \ {Torn}
    /\ synced \in 0 .. Len(file)
    /\ {up, split, bad} \subseteq BOOLEAN
    /\ srcs \in [Key -> Ids \cup {NoId}] /\ nextID \in Ids
    /\ cur \in Key \cup {NoKey}
    /\ split => buf # <<>> /\ Last(file) = Torn
    /\ n \in 0 .. MaxSamples /\ base \in 0 .. n /\ acked \subseteq 1 .. n
    /\ rd.pos \in 0 .. Len(file) /\ rd.dict \in [Ids -> Key \cup {NoKey}]

\* The samples among the records of q, in order.
SamplesOf(q) ==
    LET upTo[i \in 0 .. Len(q)] ==
            IF i = 0 THEN <<>>
            ELSE IF q[i].type = "sample"
                 THEN Append(upTo[i - 1], [src |-> q[i].src, n |-> q[i].n])
                 ELSE upTo[i - 1]
    IN  upTo[Len(q)]

\* The stream implements the abstract log of samples: whatever was buffered,
\* cut, lost or restarted, the reader is given the samples that are in the
\* file, in order, each with the source it was written for.
Log == INSTANCE SampleLog WITH
    Source   <- Key,
    Serial   <- 1 .. MaxSamples,
    log      <- SamplesOf(file),
    buffered <- SamplesOf(buf),
    durable  <- Len(SamplesOf(SubSeq(file, 1, synced))),
    given    <- rd.out

ImplementsLog == Log!LogSpec

\* A sample accepted before a Flush that returned nil is in the file for good:
\* no crash, power loss, write error or later run removes it.
AckedSurvive ==
    \A i \in acked : \E j \in DOMAIN file :
        file[j].type = "sample" /\ file[j].n = i

\* "A truncated tail never leaves a dangling ID": the reader meets an error
\* only where a run was cut inside a record and a later run appended to it, or
\* at a sample that is not valid UTF-8.
FailsOnlyAtTear ==
    rd.pc = "failed" =>
        \/ rd.pos + 1 < Len(file) /\ file[rd.pos + 1] = Torn
        \/ file[rd.pos + 1] \in {Sample(id, k, i) : id \in Ids, k \in NotText, i \in 1 .. n}

\* "The same command in different network namespaces gets distinct IDs": a
\* sample is returned with the source it was written for.
RightSource ==
    \A i \in DOMAIN rd.out : \E j \in DOMAIN file :
        /\ file[j].type = "sample"
        /\ file[j].n = rd.out[i].n
        /\ file[j].src = rd.out[i].src

\* "The source dictionary is reset and reading continues transparently" when
\* the program was run several times against the same file.
ReadsAcrossRuns == rd.pc # "failed"
=============================================================================
