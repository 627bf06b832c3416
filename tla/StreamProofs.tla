---------------------------- MODULE StreamProofs ----------------------------
(***************************************************************************)
(* Proofs about the CBOR stream of module MsuStream.                       *)
(*                                                                         *)
(* First the stream as such: Stream is the file, without the head of the   *)
(* record that is cut at the buffer boundary, followed by the buffer.      *)
(* Accepting a record appends to it, a flush moves the border between file *)
(* and buffer, a failure cuts it.  StreamInv says of it that no sample has *)
(* an ID that is not defined before it in its run, that what was           *)
(* acknowledged is synced, and where the reader is.                        *)
(*                                                                         *)
(* Then the samples in it: the stream implements the log of samples of     *)
(* module SampleLog, as long as there are no more tuples than source IDs.  *)
(***************************************************************************)
EXTENDS MsuStream, FoldLemmas

\* What of the file the Writer will not take back: all of it but the head of
\* the record that is cut at the buffer boundary.
Whole == IF split THEN Front(file) ELSE file

\* What this run of the program has accepted after all that is in the file.
Stream == Whole \o buf

\* Among the first i records of q, the ID is defined in the run that the i-th
\* belongs to.
InRun(q, i, id) ==
    \E j \in 1 .. i :
        /\ q[j].type = "source" /\ q[j].id = id
        /\ \A l \in j .. i : q[l].type # "header"

\* No sample of q has an ID that is not defined before it in its run.
Closed(q) == \A i \in 1 .. Len(q) : q[i].type = "sample" => InRun(q, i - 1, q[i].id)

\* The samples of q have numbers up to m.
Numbered(q, m) == \A i \in 1 .. Len(q) : q[i].type = "sample" => q[i].n \in 1 .. m

\* One of the first k records of q is the i-th accepted sample.
Holds(q, k, i) == \E j \in 1 .. k : q[j].type = "sample" /\ q[j].n = i

WriterInv ==
    /\ file \in Seq(Records) /\ buf \in Seq(Records \ {Torn})
    /\ split => buf # <<>> /\ file # <<>> /\ Last(file) = Torn
    /\ up \in BOOLEAN /\ split \in BOOLEAN /\ bad \in BOOLEAN
    /\ bad \/ ~ up => buf = <<>> /\ ~ split
    /\ srcs \in [Key -> Ids \cup {NoId}] /\ nextID \in Ids
    /\ cur \in Key \cup {NoKey}
    /\ n \in 0 .. MaxSamples /\ base \in 0 .. n

SyncInv ==
    /\ synced \in 0 .. Len(Whole)
    /\ acked \subseteq 1 .. n
    /\ \A i \in acked : Holds(Stream, synced, i)
    /\ up /\ ~ bad => \A i \in base + 1 .. n : Holds(Stream, Len(Stream), i)

DictInv ==
    /\ Closed(Stream)
    /\ Numbered(Stream, n)
    /\ up /\ ~ bad => \A k \in Key : srcs[k] # NoId => InRun(Stream, Len(Stream), srcs[k])

Readers ==
    [pc : {"closed", "first", "reading", "rejected", "eof", "failed"}, pos : Nat,
     dict : [Ids -> Key \cup {NoKey}], out : Seq([src : Key, n : 1 .. MaxSamples])]

ReaderInv ==
    /\ rd \in Readers
    /\ rd.pos \in 0 .. Len(Whole)
    /\ rd.pc = "reading" => \A id \in Ids : InRun(Stream, rd.pos, id) => rd.dict[id] # NoKey
    /\ rd.pc = "failed" =>
          /\ rd.pos + 1 \in 1 .. Len(Whole)
          /\ \/ Stream[rd.pos + 1] = Torn /\ rd.pos + 1 < Len(file)
             \/ Stream[rd.pos + 1].type = "sample" /\ Stream[rd.pos + 1].src \in NotText

StreamInv == WriterInv /\ SyncInv /\ DictInv /\ ReaderInv

-----------------------------------------------------------------------------
(* Records.                                                                *)

Tails == {<<>>, <<Torn>>}

LEMMA RecordKinds ==
  /\ Header \in Records \ {Torn} /\ Torn \in Records
  /\ \A id \in Ids, k \in Key : SourceDef(id, k) \in Records \ {Torn}
  /\ \A id \in Ids, k \in Key, i \in 1 .. MaxSamples : Sample(id, k, i) \in Records \ {Torn}
  /\ \A r \in Records : r.type = "torn" <=> r = Torn
  /\ \A r \in Records : r.type = "header" <=> r = Header
  /\ \A r \in Records : r.type = "source" => r.id \in Ids /\ r.src \in Key /\ r = SourceDef(r.id, r.src)
  /\ \A r \in Records : r.type = "sample" => r.id \in Ids /\ r.src \in Key /\ r.n \in 1 .. MaxSamples /\ r = Sample(r.id, r.src, r.n)
  <1>1. /\ Header.type = "header" /\ Torn.type = "torn"
        /\ \A id, k : SourceDef(id, k).type = "source" /\ SourceDef(id, k).id = id /\ SourceDef(id, k).src = k
        /\ \A id, k, i : Sample(id, k, i).type = "sample" /\ Sample(id, k, i).id = id
                         /\ Sample(id, k, i).src = k /\ Sample(id, k, i).n = i
    BY DEF Header, Torn, SourceDef, Sample
  <1>2. /\ Header \in Records /\ Torn \in Records
        /\ \A id \in Ids, k \in Key : SourceDef(id, k) \in Records
        /\ \A id \in Ids, k \in Key, i \in 1 .. MaxSamples : Sample(id, k, i) \in Records
    BY DEF Records
  <1>3. ASSUME NEW r \in Records
        PROVE  \/ r = Header
               \/ r = Torn
               \/ \E id \in Ids, k \in Key : r = SourceDef(id, k)
               \/ \E id \in Ids, k \in Key, i \in 1 .. MaxSamples : r = Sample(id, k, i)
    BY DEF Records
  <1>4. "header" # "torn" /\ "source" # "torn" /\ "sample" # "torn" /\ "header" # "source"
        /\ "header" # "sample" /\ "source" # "sample"
    OBVIOUS
  <1>5. ASSUME NEW r \in Records
        PROVE  /\ r.type = "torn" <=> r = Torn
               /\ r.type = "header" <=> r = Header
               /\ r.type = "source" => r.id \in Ids /\ r.src \in Key /\ r = SourceDef(r.id, r.src)
               /\ r.type = "sample" => r.id \in Ids /\ r.src \in Key /\ r.n \in 1 .. MaxSamples /\ r = Sample(r.id, r.src, r.n)
    BY <1>1, <1>3, <1>4
  <1>6. \A r \in Records : r.type # "torn" => r # Torn
    BY <1>5
  <1>7. /\ Header \in Records \ {Torn}
        /\ \A id \in Ids, k \in Key : SourceDef(id, k) \in Records \ {Torn}
        /\ \A id \in Ids, k \in Key, i \in 1 .. MaxSamples : Sample(id, k, i) \in Records \ {Torn}
    BY <1>1, <1>2, <1>4, <1>6
  <1> QED BY <1>2, <1>5, <1>7

LEMMA PrefixProperties ==
  ASSUME NEW S, NEW q \in Seq(S), NEW k \in 0 .. Len(q)
  PROVE  /\ SubSeq(q, 1, k) \in Seq(S) /\ Len(SubSeq(q, 1, k)) = k
         /\ \A i \in 1 .. k : SubSeq(q, 1, k)[i] = q[i]
  <1>1. Len(q) \in Nat /\ k \in Int /\ 1 \in Int
    BY LenProperties
  <1>2. \A i \in 1 .. k : q[i] \in S
    BY <1>1, ElementOfSeq
  <1>3. /\ SubSeq(q, 1, k) \in Seq(S)
        /\ Len(SubSeq(q, 1, k)) = IF 1 <= k THEN k - 1 + 1 ELSE 0
        /\ \A i \in 1 .. k - 1 + 1 : SubSeq(q, 1, k)[i] = q[1 + i - 1]
    BY <1>1, <1>2, SubSeqProperties
  <1>4. k - 1 + 1 = k /\ (~ (1 <= k) => k = 0) /\ \A i \in 1 .. k : 1 + i - 1 = i
    BY <1>1
  <1> QED BY <1>3, <1>4

LEMMA StreamView ==
  ASSUME WriterInv
  PROVE  /\ Whole \in Seq(Records) /\ Stream \in Seq(Records)
         /\ Len(Stream) = Len(Whole) + Len(buf)
         /\ \A i \in 1 .. Len(Whole) : Stream[i] = Whole[i] /\ file[i] = Whole[i]
         /\ \A i \in 1 .. Len(buf) : Stream[Len(Whole) + i] = buf[i]
         /\ IF split THEN Len(file) = Len(Whole) + 1 /\ file[Len(file)] = Torn /\ buf # <<>>
                     ELSE file = Whole
         /\ bad \/ ~ up => Stream = file
  <1>1. file \in Seq(Records) /\ buf \in Seq(Records) /\ Len(file) \in Nat /\ Len(buf) \in Nat
    <2>1. file \in Seq(Records) /\ buf \in Seq(Records)
      BY SeqMonotonic DEF WriterInv
    <2> QED BY <2>1, LenProperties
  <1>2. /\ Whole \in Seq(Records)
        /\ \A i \in 1 .. Len(Whole) : file[i] = Whole[i]
        /\ IF split THEN Len(file) = Len(Whole) + 1 /\ file[Len(file)] = Torn /\ buf # <<>>
                    ELSE file = Whole
    <2>1. CASE ~ split
      BY <1>1, <2>1 DEF Whole
    <2>2. CASE split
      <3>1. Len(file) > 0 /\ file[Len(file)] = Torn /\ buf # <<>>
        BY <1>1, <2>2, EmptySeq DEF WriterInv, Last
      <3>2. \A i \in 1 .. Len(file) - 1 : file[i] \in Records
        BY <1>1, ElementOfSeq
      <3>3. Whole = SubSeq(file, 1, Len(file) - 1)
        BY <2>2 DEF Whole, Front
      <3>4. Whole \in Seq(Records) /\ Len(Whole) = Len(file) - 1 /\ \A i \in 1 .. Len(file) - 1 : Whole[i] = file[i]
        <4>1. Len(file) - 1 \in 0 .. Len(file)
          BY <1>1, <3>1
        <4> QED BY <1>1, <3>3, <4>1, PrefixProperties
      <3> QED BY <1>1, <2>2, <3>1, <3>4
    <2> QED BY <2>1, <2>2 DEF WriterInv
  <1>3. Stream \in Seq(Records) /\ Len(Stream) = Len(Whole) + Len(buf)
        /\ \A i \in 1 .. Len(Whole) + Len(buf) : Stream[i] = IF i <= Len(Whole) THEN Whole[i] ELSE buf[i - Len(Whole)]
    BY <1>1, <1>2, ConcatProperties DEF Stream
  <1>4. Len(Whole) \in Nat
    BY <1>2, LenProperties
  <1>5. /\ \A i \in 1 .. Len(Whole) : Stream[i] = Whole[i]
        /\ \A i \in 1 .. Len(buf) : Stream[Len(Whole) + i] = buf[i]
    <2>1. \A i \in 1 .. Len(Whole) : i \in 1 .. Len(Whole) + Len(buf) /\ i <= Len(Whole)
      BY <1>1, <1>4
    <2>2. \A i \in 1 .. Len(buf) : /\ Len(Whole) + i \in 1 .. Len(Whole) + Len(buf)
                                   /\ ~ (Len(Whole) + i <= Len(Whole))
                                   /\ (Len(Whole) + i) - Len(Whole) = i
      BY <1>1, <1>4
    <2> HIDE DEF Stream, Whole
    <2> QED BY <1>3, <2>1, <2>2
  <1>6. bad \/ ~ up => Stream = file
    BY <1>1, ConcatEmptySeq DEF WriterInv, Stream, Whole
  <1> QED BY <1>2, <1>3, <1>5, <1>6

LEMMA FrontOfConcat ==
  ASSUME NEW S, NEW q \in Seq(S), NEW x \in S
  PROVE  q \o <<x>> \in Seq(S) /\ q \o <<x>> # <<>> /\ Front(q \o <<x>>) = q /\ Last(q \o <<x>>) = x
         /\ Len(q \o <<x>>) = Len(q) + 1
  <1>1. q \o <<x>> = Append(q, x)
    BY AppendIsConcat
  <1>2. /\ Append(q, x) \in Seq(S) /\ Append(q, x) # <<>> /\ Len(Append(q, x)) = Len(q) + 1
        /\ \A i \in 1 .. Len(q) : Append(q, x)[i] = q[i]
        /\ Append(q, x)[Len(q) + 1] = x
    BY AppendProperties
  <1>3. Len(q) \in Nat /\ Len(q) \in 0 .. Len(Append(q, x)) /\ Len(Append(q, x)) - 1 = Len(q)
    BY <1>2, LenProperties
  <1>4. /\ SubSeq(Append(q, x), 1, Len(q)) \in Seq(S) /\ Len(SubSeq(Append(q, x), 1, Len(q))) = Len(q)
        /\ \A i \in 1 .. Len(q) : SubSeq(Append(q, x), 1, Len(q))[i] = Append(q, x)[i]
    BY <1>2, <1>3, PrefixProperties
  <1>5. SubSeq(Append(q, x), 1, Len(q)) = q
    BY <1>2, <1>4, SeqEqual
  <1> QED BY <1>1, <1>2, <1>3, <1>5 DEF Front, Last

LEMMA FileAfterIs ==
  ASSUME WriterInv, NEW q \in Seq(Records), NEW m \in 0 .. Len(q), NEW part \in BOOLEAN
  PROVE  \E tail \in Tails :
            /\ FileAfter(q, m, part) = (Whole \o SubSeq(q, 1, m)) \o tail
            /\ tail = <<Torn>> <=> part \/ (m = 0 /\ split)
  <1>1. /\ Whole \in Seq(Records) /\ Torn \in Records /\ <<>> # <<Torn>>
        /\ SubSeq(q, 1, m) \in Seq(Records) /\ Whole \o SubSeq(q, 1, m) \in Seq(Records)
    <2>1. Whole \in Seq(Records) /\ Torn \in Records /\ SubSeq(q, 1, m) \in Seq(Records)
      BY StreamView, RecordKinds, PrefixProperties
    <2>2. <<>> # <<Torn>>
      OBVIOUS
    <2> QED BY <2>1, <2>2, ConcatProperties
  <1>2. CASE m = 0 /\ split
    <2>1. file \in Seq(Records) /\ file # <<>> /\ Last(file) = Torn
      BY <1>2 DEF WriterInv
    <2>2. Len(file) \in Nat \ {0}
      BY <2>1, EmptySeq
    <2>3. file = Whole \o <<Torn>>
      <3>1. Whole \o <<Torn>> \in Seq(Records) /\ Len(Whole \o <<Torn>>) = Len(Whole) + 1
            /\ Last(Whole \o <<Torn>>) = Torn
        BY <1>1, FrontOfConcat
      <3>2. Len(file) = Len(Whole) + 1 /\ Len(Whole) \in Nat
            /\ \A i \in 1 .. Len(Whole) : file[i] = Whole[i]
        BY <1>1, <1>2, StreamView, LenProperties
      <3>3. \A i \in 1 .. Len(Whole) : (Whole \o <<Torn>>)[i] = Whole[i]
        <4>1. Whole \o <<Torn>> = Append(Whole, Torn)
          BY <1>1, AppendIsConcat
        <4> QED BY <1>1, <4>1, AppendProperties
      <3>4. file[Len(file)] = (Whole \o <<Torn>>)[Len(file)]
        BY <2>1, <3>1, <3>2 DEF Last
      <3>5. \A i \in 1 .. Len(file) : i \in 1 .. Len(Whole) \/ i = Len(file)
        BY <3>2
      <3>6. \A i \in 1 .. Len(file) : file[i] = (Whole \o <<Torn>>)[i]
        BY <3>2, <3>3, <3>4, <3>5
      <3> QED BY <2>1, <3>1, <3>2, <3>6, SeqEqual
    <2>4. SubSeq(q, 1, m) = <<>>
      BY <1>2, SubSeqEmpty
    <2>5. Whole \o SubSeq(q, 1, m) = Whole
      BY <1>1, <2>4, ConcatEmptySeq
    <2>6. FileAfter(q, m, part) = file
      BY <1>2 DEF FileAfter
    <2> QED BY <1>2, <2>3, <2>5, <2>6 DEF Tails
  <1>3. CASE ~ (m = 0 /\ split)
    <2>1. FileAfter(q, m, part) = (Whole \o SubSeq(q, 1, m)) \o (IF part THEN <<Torn>> ELSE <<>>)
      BY <1>3 DEF FileAfter, Whole
    <2> QED BY <1>1, <1>3, <2>1 DEF Tails
  <1> QED BY <1>2, <1>3

\* What the steps that only add to the file and to the stream keep.
Grows ==
    /\ Len(Whole') \in Nat /\ Len(file') \in Nat
    /\ Len(Whole) <= Len(Whole') /\ Len(file) <= Len(file')
    /\ \A i \in 1 .. Len(Whole) : Stream'[i] = Stream[i]

\* A record that is accepted goes to the end of the stream, and some of what is
\* buffered goes to the file.
LEMMA PutOKStep ==
  ASSUME WriterInv, NEW rec \in Records \ {Torn}, PutOK(rec)
  PROVE  /\ file' \in Seq(Records) /\ buf' \in Seq(Records \ {Torn}) /\ split' \in BOOLEAN /\ bad' = FALSE
         /\ split' => buf' # <<>> /\ file' # <<>> /\ Last(file') = Torn
         /\ Stream' = Append(Stream, rec)
         /\ Grows
         /\ \E m \in 0 .. Len(buf) + 1 :
               /\ Whole' = Whole \o SubSeq(Append(buf, rec), 1, m)
               /\ buf' = SubSeq(Append(buf, rec), m + 1, Len(buf) + 1)
  <1> DEFINE q == Append(buf, rec)
  <1>1. /\ Whole \in Seq(Records) /\ Torn \in Records /\ rec \in Records /\ buf \in Seq(Records) /\ buf \in Seq(Records \ {Torn})
        /\ Len(buf) \in Nat /\ Len(Whole) \in Nat /\ file \in Seq(Records) /\ Len(file) \in Nat
    BY StreamView, RecordKinds, SeqMonotonic, LenProperties DEF WriterInv
  <1>2. /\ q \in Seq(Records) /\ q \in Seq(Records \ {Torn}) /\ Len(q) = Len(buf) + 1 /\ q # <<>>
        /\ q = buf \o <<rec>> /\ Front(q) = buf
        /\ SubSeq(q, 1, Len(buf)) = buf /\ SubSeq(q, Len(buf) + 1, Len(buf) + 1) = <<rec>>
    <2>1. /\ q \in Seq(Records) /\ q \in Seq(Records \ {Torn}) /\ Len(q) = Len(buf) + 1 /\ q # <<>>
          /\ q = buf \o <<rec>> /\ q[Len(buf) + 1] = rec
      BY <1>1, AppendProperties, AppendIsConcat
    <2>2. Front(q) = buf
      BY <1>1, <2>1, FrontOfConcat
    <2>3. SubSeq(q, 1, Len(buf)) = buf
      BY <1>1, <2>1, <2>2 DEF Front
    <2>4. SubSeq(q, Len(buf) + 1, Len(buf) + 1) = <<rec>>
      <3>1. Len(buf) + 1 \in 1 .. Len(q) /\ Len(buf) + 1 \in Len(buf) + 1 .. Len(q)
            /\ Len(buf) + 1 + 1 \in Int /\ Len(buf) + 1 < Len(buf) + 1 + 1
        BY <1>1, <2>1
      <3>2. SubSeq(q, Len(buf) + 1, Len(buf) + 1) = <<q[Len(buf) + 1]>> \o SubSeq(q, Len(buf) + 1 + 1, Len(buf) + 1)
        BY <2>1, <3>1, SubSeqRecursiveFirst
      <3>3. SubSeq(q, Len(buf) + 1 + 1, Len(buf) + 1) = <<>>
        BY <1>1, <3>1, SubSeqEmpty
      <3>4. <<q[Len(buf) + 1]>> \o <<>> = <<q[Len(buf) + 1]>>
        <4>1. <<rec>> \in Seq(Records)
          BY <1>1
        <4> QED BY <2>1, <4>1, ConcatEmptySeq
      <3> QED BY <2>1, <3>2, <3>3, <3>4
    <2> QED BY <2>1, <2>2, <2>3, <2>4
  <1> HIDE DEF q
  <1>3. /\ split' => buf' # <<>> /\ file' # <<>> /\ Last(file') = Torn
        /\ split' \in BOOLEAN /\ bad' = FALSE
        /\ \E m \in 0 .. Len(buf) + 1 :
              /\ Whole' = Whole \o SubSeq(q, 1, m)
              /\ buf' = SubSeq(q, m + 1, Len(buf) + 1)
              /\ \/ split' = split /\ file' = file
                 \/ m > 0 /\ file' \in Seq(Records) /\ Len(Whole') <= Len(file')
    <2>1. CASE /\ Len(buf) < MaxBuf
               /\ buf' = Append(buf, rec)
               /\ UNCHANGED <<file, split>>
      <3>1. Whole' = Whole
        BY <2>1 DEF Whole
      <3>2. SubSeq(q, 1, 0) = <<>> /\ Whole \o <<>> = Whole
        BY <1>1, SubSeqEmpty, ConcatEmptySeq
      <3>3. SubSeq(q, 0 + 1, Len(buf) + 1) = q
        <4>1. 0 + 1 = 1
          OBVIOUS
        <4>2. SubSeq(q, 1, Len(q)) = q
          BY <1>2, SubSeqFull
        <4> QED BY <1>2, <4>1, <4>2
      <3>4. buf' = q
        BY <2>1 DEF q
      <3>5. split' => file' # <<>> /\ Last(file') = Torn
        BY <2>1 DEF WriterInv, Last
      <3>6. 0 \in 0 .. Len(buf) + 1
        BY <1>1
      <3> QED BY <1>2, <2>1, <3>1, <3>2, <3>3, <3>4, <3>5, <3>6 DEF PutOK, WriterInv
    <2>2. ASSUME buf # <<>>, NEW part \in BOOLEAN, file' = FileAfter(buf, Len(buf), part),
                 split' = part, buf' = <<rec>>
          PROVE  <1>3!1 /\ <1>3!2 /\ <1>3!3
      <3>1. Len(buf) # 0 /\ Len(buf) \in 0 .. Len(buf)
        BY <1>1, <2>2, EmptySeq
      <3>2. PICK tail \in Tails : /\ file' = (Whole \o SubSeq(buf, 1, Len(buf))) \o tail
                                  /\ tail = <<Torn>> <=> part
        BY <1>1, <2>2, <3>1, FileAfterIs
      <3>3. SubSeq(buf, 1, Len(buf)) = buf /\ Whole \o buf \in Seq(Records)
        BY <1>1, SubSeqFull, ConcatProperties
      <3>4. Whole' = Whole \o buf /\ (split' => file' # <<>> /\ Last(file') = Torn)
             /\ file' \in Seq(Records) /\ Len(Whole') <= Len(file')
        <4>1. CASE part
          <5>1. file' = (Whole \o buf) \o <<Torn>>
            BY <3>2, <3>3, <4>1
          <5>2. Front(file') = Whole \o buf /\ file' # <<>> /\ Last(file') = Torn
                /\ file' \in Seq(Records) /\ Len(file') = Len(Whole \o buf) + 1 /\ Len(Whole \o buf) \in Nat
            BY <1>1, <3>3, <5>1, FrontOfConcat, LenProperties
          <5>3. Whole' = Front(file')
            BY <2>2, <4>1 DEF Whole
          <5>4. Len(Whole') <= Len(file')
            BY <5>2, <5>3
          <5> QED BY <2>2, <4>1, <5>2, <5>3, <5>4
        <4>2. CASE ~ part
          <5>1. file' = Whole \o buf
            BY <3>2, <3>3, <4>2, ConcatEmptySeq DEF Tails
          <5>2. Whole' = file' /\ Len(file') \in Nat
            BY <2>2, <3>3, <4>2, <5>1, LenProperties DEF Whole
          <5>3. Len(Whole') <= Len(file')
            BY <5>2
          <5> QED BY <2>2, <3>3, <4>2, <5>1, <5>2, <5>3
        <4> QED BY <4>1, <4>2
      <3>5. buf' # <<>>
        BY <2>2
      <3>6. Len(buf) \in 0 .. Len(buf) + 1 /\ Len(buf) > 0
        BY <1>1, <3>1
      <3>7. Whole' = Whole \o SubSeq(q, 1, Len(buf)) /\ buf' = SubSeq(q, Len(buf) + 1, Len(buf) + 1)
        BY <1>2, <2>2, <3>4
      <3> QED BY <2>2, <3>4, <3>5, <3>6, <3>7 DEF PutOK
    <2>3. CASE /\ file' = FileAfter(q, Len(buf) + 1, FALSE)
               /\ buf' = <<>>
               /\ split' = FALSE
      <3>1. Len(buf) + 1 \in 0 .. Len(q) /\ Len(buf) + 1 # 0 /\ Len(buf) + 1 > 0
        BY <1>1, <1>2
      <3>2. PICK tail \in Tails : /\ file' = (Whole \o SubSeq(q, 1, Len(buf) + 1)) \o tail
                                  /\ tail # <<Torn>>
        BY <1>2, <2>3, <3>1, FileAfterIs
      <3>3. Whole \o SubSeq(q, 1, Len(buf) + 1) \in Seq(Records)
        <4>1. SubSeq(q, 1, Len(buf) + 1) \in Seq(Records)
          BY <1>2, <3>1, PrefixProperties
        <4> QED BY <1>1, <4>1, ConcatProperties
      <3>4. file' = Whole \o SubSeq(q, 1, Len(buf) + 1)
        BY <3>2, <3>3, ConcatEmptySeq DEF Tails
      <3>5. Whole' = file'
        BY <2>3 DEF Whole
      <3>8. file' \in Seq(Records) /\ Len(Whole') <= Len(file')
        BY <3>3, <3>4, <3>5, LenProperties
      <3>6. SubSeq(q, Len(buf) + 1 + 1, Len(buf) + 1) = <<>>
        <4>1. Len(buf) + 1 + 1 \in Int /\ Len(buf) + 1 \in Int /\ Len(buf) + 1 < Len(buf) + 1 + 1
          BY <1>1
        <4> QED BY <4>1, SubSeqEmpty
      <3>7. Len(buf) + 1 \in 0 .. Len(buf) + 1
        BY <1>1
      <3> QED BY <2>3, <3>1, <3>4, <3>5, <3>6, <3>7, <3>8 DEF PutOK
    <2> QED BY <2>1, <2>2, <2>3 DEF PutOK, q
  <1>4. Stream' = Append(Stream, rec)
    <2>1. PICK m \in 0 .. Len(buf) + 1 : Whole' = Whole \o SubSeq(q, 1, m) /\ buf' = SubSeq(q, m + 1, Len(buf) + 1)
      BY <1>3
    <2>2. SubSeq(q, 1, m) \o SubSeq(q, m + 1, Len(buf) + 1) = q
      <3>1. 1 \in 1 .. Len(q) + 1 /\ m \in 1 - 1 .. Len(q) /\ Len(buf) + 1 \in m .. Len(q)
        BY <1>1, <1>2
      <3>2. SubSeq(q, 1, m) \o SubSeq(q, m + 1, Len(buf) + 1) = SubSeq(q, 1, Len(buf) + 1)
        BY <1>2, <3>1, ConcatAdjacentSubSeq
      <3> QED BY <1>2, <3>2, SubSeqFull
    <2>3. SubSeq(q, 1, m) \in Seq(Records) /\ SubSeq(q, m + 1, Len(buf) + 1) \in Seq(Records)
      <3>1. m \in 0 .. Len(q) /\ m + 1 \in Int /\ Len(buf) + 1 \in Int
        BY <1>1, <1>2
      <3>2. \A i \in m + 1 .. Len(buf) + 1 : i \in 1 .. Len(q)
        BY <1>1, <1>2
      <3>3. \A i \in m + 1 .. Len(buf) + 1 : q[i] \in Records
        BY <1>2, <3>2, ElementOfSeq
      <3> QED BY <1>2, <3>1, <3>3, PrefixProperties, SubSeqProperties
    <2>4. Stream' = Whole \o q
      <3>1. Stream' = (Whole \o SubSeq(q, 1, m)) \o SubSeq(q, m + 1, Len(buf) + 1)
        BY <2>1 DEF Stream
      <3>2. (Whole \o SubSeq(q, 1, m)) \o SubSeq(q, m + 1, Len(buf) + 1)
               = Whole \o (SubSeq(q, 1, m) \o SubSeq(q, m + 1, Len(buf) + 1))
        <4>1. \A s, t, u \in Seq(Records) : (s \o t) \o u = s \o (t \o u)
          BY ConcatAssociative
        <4> DEFINE s1 == SubSeq(q, 1, m)
                   s2 == SubSeq(q, m + 1, Len(buf) + 1)
        <4>2. s1 \in Seq(Records) /\ s2 \in Seq(Records)
          BY <2>3
        <4> HIDE DEF s1, s2
        <4>3. (Whole \o s1) \o s2 = Whole \o (s1 \o s2)
          BY <1>1, <4>1, <4>2
        <4> QED BY <4>3 DEF s1, s2
      <3> QED BY <2>2, <3>1, <3>2
    <2>5. Whole \o (buf \o <<rec>>) = (Whole \o buf) \o <<rec>>
      <3>1. <<rec>> \in Seq(Records)
        BY <1>1
      <3> QED BY <1>1, <3>1, ConcatAssociative
    <2>6. (Whole \o buf) \o <<rec>> = Append(Whole \o buf, rec)
      <3>1. Whole \o buf \in Seq(Records)
        BY <1>1, ConcatProperties
      <3> QED BY <1>1, <3>1, AppendIsConcat
    <2> QED BY <1>2, <2>4, <2>5, <2>6 DEF Stream
  <1>5. file' \in Seq(Records) /\ buf' \in Seq(Records \ {Torn}) /\ Len(Whole) <= Len(Whole') /\ Len(file) <= Len(file')
    <2>1. PICK m \in 0 .. Len(buf) + 1 :
                 /\ Whole' = Whole \o SubSeq(q, 1, m) /\ buf' = SubSeq(q, m + 1, Len(buf) + 1)
                 /\ \/ split' = split /\ file' = file
                    \/ m > 0 /\ file' \in Seq(Records) /\ Len(Whole') <= Len(file')
      BY <1>3
    <2>2. /\ SubSeq(q, 1, m) \in Seq(Records) /\ Len(SubSeq(q, 1, m)) = m
          /\ buf' \in Seq(Records \ {Torn})
      <3>1. m \in 0 .. Len(q) /\ m + 1 \in Int /\ Len(buf) + 1 \in Int
        BY <1>1, <1>2
      <3>2. \A i \in m + 1 .. Len(buf) + 1 : i \in 1 .. Len(q)
        BY <1>1, <1>2
      <3>3. \A i \in m + 1 .. Len(buf) + 1 : q[i] \in Records \ {Torn}
        BY <1>2, <3>2, ElementOfSeq
      <3>4. SubSeq(q, 1, m) \in Seq(Records) /\ Len(SubSeq(q, 1, m)) = m
        BY <1>2, <3>1, PrefixProperties
      <3>5. SubSeq(q, m + 1, Len(buf) + 1) \in Seq(Records \ {Torn})
        BY <3>1, <3>3, SubSeqProperties
      <3> QED BY <2>1, <3>4, <3>5
    <2>3. Whole' \in Seq(Records) /\ Len(Whole') = Len(Whole) + m
      BY <1>1, <2>1, <2>2, ConcatProperties
    <2>4. CASE split' = split /\ file' = file
      BY <1>1, <2>2, <2>3, <2>4
    <2>5. CASE m > 0 /\ file' \in Seq(Records) /\ Len(Whole') <= Len(file')
      <3>1. Len(file) <= Len(Whole) + 1 /\ Len(file') \in Nat
        BY <1>1, <2>5, StreamView, LenProperties
      <3> QED BY <1>1, <2>2, <2>3, <2>5, <3>1
    <2> QED BY <2>1, <2>4, <2>5
  <1>6. Grows
    <2>1. PICK m \in 0 .. Len(buf) + 1 : Whole' = Whole \o SubSeq(q, 1, m)
      BY <1>3
    <2>2. Whole' \in Seq(Records)
      <3>1. m \in 0 .. Len(q)
        BY <1>1, <1>2
      <3>2. SubSeq(q, 1, m) \in Seq(Records)
        BY <1>2, <3>1, PrefixProperties
      <3> QED BY <1>1, <2>1, <3>2, ConcatProperties
    <2>3. Len(Whole') \in Nat /\ Len(file') \in Nat
      BY <1>5, <2>2, LenProperties
    <2>4. Stream \in Seq(Records) /\ Len(Stream) \in Nat /\ Len(Whole) <= Len(Stream)
      BY <1>1, StreamView, LenProperties
    <2>5. \A i \in 1 .. Len(Stream) : Append(Stream, rec)[i] = Stream[i]
      BY <1>1, <2>4, AppendProperties
    <2>6. \A i \in 1 .. Len(Whole) : Stream'[i] = Stream[i]
      BY <1>1, <1>4, <2>4, <2>5
    <2> QED BY <1>5, <2>3, <2>6 DEF Grows
  <1> QED BY <1>3, <1>4, <1>5, <1>6 DEF q

LEMMA TailsOf ==
  ASSUME NEW q \in Seq(Records), NEW tail \in Tails
  PROVE  /\ q \o tail \in Seq(Records) /\ Len(q \o tail) \in {Len(q), Len(q) + 1}
         /\ \A i \in 1 .. Len(q) : (q \o tail)[i] = q[i]
         /\ \A i \in Len(q) + 1 .. Len(q \o tail) : (q \o tail)[i] = Torn
         /\ tail = <<Torn>> => Len(q \o tail) = Len(q) + 1
  <1>1. Torn \in Records /\ Len(q) \in Nat
    BY RecordKinds, LenProperties
  <1>2. CASE tail = <<>>
    BY <1>1, <1>2, ConcatEmptySeq
  <1>3. CASE tail = <<Torn>>
    <2>1. q \o tail = Append(q, Torn)
      BY <1>1, <1>3, AppendIsConcat
    <2>2. /\ Append(q, Torn) \in Seq(Records) /\ Len(Append(q, Torn)) = Len(q) + 1
          /\ \A i \in 1 .. Len(q) : Append(q, Torn)[i] = q[i]
          /\ Append(q, Torn)[Len(q) + 1] = Torn
      BY <1>1, AppendProperties
    <2>3. \A i \in Len(q) + 1 .. Len(q) + 1 : i = Len(q) + 1
      BY <1>1
    <2> QED BY <2>1, <2>2, <2>3
  <1> QED BY <1>2, <1>3 DEF Tails

LEMMA WrittenStep ==
  ASSUME WriterInv, file' = FileAfter(buf, Len(buf), FALSE), buf' = <<>>, split' = FALSE
  PROVE  /\ file' = Stream /\ Whole' = Stream /\ Stream' = Stream
         /\ file' \in Seq(Records) /\ Grows
  <1>1. /\ buf \in Seq(Records) /\ Len(buf) \in Nat /\ Len(buf) \in 0 .. Len(buf) /\ Len(Whole) \in Nat
        /\ Whole \in Seq(Records) /\ Stream \in Seq(Records) /\ Len(file) <= Len(Whole) + 1
        /\ Len(Stream) = Len(Whole) + Len(buf) /\ (~ split => file = Whole)
    BY StreamView, SeqMonotonic, LenProperties DEF WriterInv
  <1>2. Len(buf) = 0 => ~ split
    BY <1>1, StreamView, EmptySeq
  <1>3. PICK tail \in Tails : file' = (Whole \o SubSeq(buf, 1, Len(buf))) \o tail /\ tail # <<Torn>>
    BY <1>1, <1>2, FileAfterIs
  <1>4. file' = Stream
    <2>1. SubSeq(buf, 1, Len(buf)) = buf /\ Stream \o <<>> = Stream
      BY <1>1, SubSeqFull, ConcatEmptySeq
    <2> QED BY <1>3, <2>1 DEF Stream, Tails
  <1>5. Whole' = Stream /\ Stream' = Stream
    <2>1. Whole' = file'
      BY DEF Whole
    <2>2. Stream' = Whole' \o <<>>
      BY DEF Stream
    <2> QED BY <1>1, <1>4, <2>1, <2>2, ConcatEmptySeq
  <1>6. Grows
    <2>1. Len(file) <= Len(Stream)
      BY <1>1, <1>2
    <2>2. Len(Whole) <= Len(Stream) /\ Len(Stream) \in Nat
      BY <1>1
    <2>3. \A i \in 1 .. Len(Whole) : Stream'[i] = Stream[i]
      BY <1>5
    <2> QED BY <1>4, <1>5, <2>1, <2>2, <2>3 DEF Grows
  <1> QED BY <1>1, <1>4, <1>5, <1>6

\* A failed write, or the end of the process: of what is buffered, a prefix got
\* to the file.
Drops ==
    /\ buf' = <<>> /\ split' = FALSE
    /\ \E m \in 0 .. Len(buf), tail \in Tails :
          /\ file' = (Whole \o SubSeq(buf, 1, m)) \o tail
          /\ m = 0 /\ split => tail = <<Torn>>

LEMMA WriteErrorDrops ==
  ASSUME WriterInv
  PROVE  /\ \A rec \in Records \ {Torn} : PutFails(rec) => Drops /\ bad'
         /\ buf # <<>> /\ WriteError(buf) => Drops /\ bad'
         /\ bad /\ UNCHANGED <<file, bad, buf, split>> => Drops /\ bad'
         /\ UNCHANGED file /\ buf' = <<>> /\ split' = FALSE => Drops
  <1>1. /\ buf \in Seq(Records) /\ Len(buf) \in Nat /\ Whole \in Seq(Records)
        /\ IF split THEN buf # <<>> ELSE file = Whole
    BY StreamView, SeqMonotonic, LenProperties DEF WriterInv
  <1>2. ASSUME NEW m \in 0 .. Len(buf), NEW part \in BOOLEAN, file' = FileAfter(buf, m, part),
               buf' = <<>>, split' = FALSE
        PROVE  Drops
    BY <1>1, <1>2, FileAfterIs DEF Drops
  <1>3. ASSUME UNCHANGED file, buf' = <<>>, split' = FALSE
        PROVE  Drops
    <2>1. file = FileAfter(buf, 0, FALSE) \/ ~ split
      BY DEF FileAfter
    <2>2. CASE ~ split
      <3>1. Whole \o SubSeq(buf, 1, 0) = Whole /\ Whole \o <<>> = Whole
        BY <1>1, SubSeqEmpty, ConcatEmptySeq
      <3>2. file' = (Whole \o SubSeq(buf, 1, 0)) \o <<>>
        BY <1>1, <1>3, <2>2, <3>1
      <3>3. 0 \in 0 .. Len(buf) /\ <<>> \in Tails
        BY <1>1 DEF Tails
      <3> QED BY <1>3, <2>2, <3>2, <3>3 DEF Drops
    <2>3. CASE file = FileAfter(buf, 0, FALSE)
      <3>1. 0 \in 0 .. Len(buf)
        BY <1>1
      <3> QED BY <1>2, <1>3, <2>3, <3>1
    <2> QED BY <2>1, <2>2, <2>3
  <1>4. ASSUME bad, UNCHANGED <<file, bad, buf, split>>
        PROVE  Drops /\ bad'
    BY <1>3, <1>4 DEF WriterInv
  <1>5. ASSUME buf # <<>>, WriteError(buf)
        PROVE  Drops /\ bad'
    <2>1. PICK m \in 0 .. Len(buf) - 1, part \in BOOLEAN : file' = FileAfter(buf, m, part)
      BY <1>5 DEF WriteError
    <2>2. m \in 0 .. Len(buf)
      BY <1>1
    <2> QED BY <1>2, <1>5, <2>1, <2>2 DEF WriteError
  <1>6. ASSUME NEW rec \in Records \ {Torn}, WriteError(Append(buf, rec))
        PROVE  Drops /\ bad'
    <2> DEFINE q == Append(buf, rec)
    <2>1. q \in Seq(Records) /\ Len(q) = Len(buf) + 1 /\ \A i \in 1 .. Len(buf) : q[i] = buf[i]
      BY <1>1, AppendProperties
    <2>2. PICK m \in 0 .. Len(q) - 1, part \in BOOLEAN : file' = FileAfter(q, m, part)
      BY <1>6 DEF WriteError
    <2>3. m \in 0 .. Len(buf) /\ m \in 0 .. Len(q)
      BY <1>1, <2>1, <2>2
    <2>4. SubSeq(q, 1, m) = SubSeq(buf, 1, m)
      <3>1. /\ SubSeq(q, 1, m) \in Seq(Records) /\ Len(SubSeq(q, 1, m)) = m
            /\ \A i \in 1 .. m : SubSeq(q, 1, m)[i] = q[i]
        BY <2>1, <2>3, PrefixProperties
      <3>2. /\ SubSeq(buf, 1, m) \in Seq(Records) /\ Len(SubSeq(buf, 1, m)) = m
            /\ \A i \in 1 .. m : SubSeq(buf, 1, m)[i] = buf[i]
        BY <1>1, <2>3, PrefixProperties
      <3>3. \A i \in 1 .. m : i \in 1 .. Len(buf)
        BY <1>1, <2>3
      <3> HIDE DEF q
      <3>4. \A i \in 1 .. Len(SubSeq(q, 1, m)) : SubSeq(q, 1, m)[i] = SubSeq(buf, 1, m)[i]
        BY <2>1, <3>1, <3>2, <3>3
      <3> QED BY <3>1, <3>2, <3>4, SeqEqual
    <2>5. FileAfter(q, m, part) = FileAfter(buf, m, part)
      BY <2>4 DEF FileAfter
    <2> QED BY <1>2, <1>6, <2>2, <2>3, <2>5 DEF WriteError
  <1> QED BY <1>3, <1>4, <1>5, <1>6 DEF PutFails

LEMMA DropsStep ==
  ASSUME WriterInv, Drops
  PROVE  /\ file' \in Seq(Records) /\ Whole' = file' /\ Stream' = file' /\ Grows
         /\ \E k \in Len(Whole) .. Len(Stream) :
               /\ Len(file') \in {k, k + 1}
               /\ \A i \in 1 .. k : file'[i] = Stream[i]
               /\ \A i \in k + 1 .. Len(file') : file'[i] = Torn
  <1>1. PICK m \in 0 .. Len(buf), tail \in Tails :
             /\ file' = (Whole \o SubSeq(buf, 1, m)) \o tail
             /\ m = 0 /\ split => tail = <<Torn>>
    BY DEF Drops
  <1>2. /\ buf \in Seq(Records) /\ Len(buf) \in Nat /\ Whole \in Seq(Records) /\ Len(Whole) \in Nat
        /\ Stream \in Seq(Records) /\ Len(Stream) = Len(Whole) + Len(buf)
        /\ \A i \in 1 .. Len(Whole) : Stream[i] = Whole[i]
        /\ \A i \in 1 .. Len(buf) : Stream[Len(Whole) + i] = buf[i]
        /\ IF split THEN Len(file) = Len(Whole) + 1 ELSE file = Whole
    BY StreamView, SeqMonotonic, LenProperties DEF WriterInv
  <1>3. /\ SubSeq(buf, 1, m) \in Seq(Records) /\ Len(SubSeq(buf, 1, m)) = m
        /\ \A i \in 1 .. m : SubSeq(buf, 1, m)[i] = buf[i]
    BY <1>2, PrefixProperties
  <1> DEFINE w == Whole \o SubSeq(buf, 1, m)
  <1>4. /\ w \in Seq(Records) /\ Len(w) = Len(Whole) + m
        /\ \A i \in 1 .. Len(Whole) + m : w[i] = IF i <= Len(Whole) THEN Whole[i] ELSE SubSeq(buf, 1, m)[i - Len(Whole)]
    <2> DEFINE b == SubSeq(buf, 1, m)
    <2>1. b \in Seq(Records) /\ Len(b) = m
      BY <1>3
    <2> HIDE DEF b
    <2>2. /\ Whole \o b \in Seq(Records) /\ Len(Whole \o b) = Len(Whole) + m
          /\ \A i \in 1 .. Len(Whole) + m : (Whole \o b)[i] = IF i <= Len(Whole) THEN Whole[i] ELSE b[i - Len(Whole)]
      <3>1. /\ Whole \o b \in Seq(Records) /\ Len(Whole \o b) = Len(Whole) + Len(b)
            /\ \A i \in 1 .. Len(Whole) + Len(b) : (Whole \o b)[i] = IF i <= Len(Whole) THEN Whole[i] ELSE b[i - Len(Whole)]
        <4>1. Whole \in Seq(Records)
          BY <1>2
        <4> QED BY <2>1, <4>1, ConcatProperties
      <3> QED BY <2>1, <3>1
    <2> QED BY <2>2 DEF b
  <1>5. \A i \in 1 .. Len(w) : w[i] = Stream[i]
    <2>1. ASSUME NEW i \in 1 .. Len(w), i <= Len(Whole) PROVE w[i] = Stream[i]
      BY <1>2, <1>4, <2>1
    <2>2. ASSUME NEW i \in 1 .. Len(w), ~ (i <= Len(Whole)) PROVE w[i] = Stream[i]
      <3>1. i - Len(Whole) \in 1 .. m /\ i - Len(Whole) \in 1 .. Len(buf) /\ Len(Whole) + (i - Len(Whole)) = i
        BY <1>2, <1>4, <2>2
      <3>2. w[i] = buf[i - Len(Whole)]
        BY <1>3, <1>4, <2>2, <3>1
      <3> QED BY <1>2, <3>1, <3>2
    <2> QED BY <2>1, <2>2
  <1> HIDE DEF w
  <1>6. /\ file' \in Seq(Records) /\ Len(file') \in {Len(w), Len(w) + 1}
        /\ \A i \in 1 .. Len(w) : file'[i] = Stream[i]
        /\ \A i \in Len(w) + 1 .. Len(file') : file'[i] = Torn
        /\ tail = <<Torn>> => Len(file') = Len(w) + 1
    <2>1. file' = w \o tail
      BY <1>1 DEF w
    <2> QED BY <1>4, <1>5, <2>1, TailsOf
  <1>7. Len(w) \in Len(Whole) .. Len(Stream)
    BY <1>2, <1>4
  <1>8. Whole' = file' /\ Stream' = file'
    <2>1. Whole' = file'
      BY DEF Whole, Drops
    <2>2. Stream' = Whole' \o <<>>
      BY DEF Stream, Drops
    <2> QED BY <1>6, <2>1, <2>2, ConcatEmptySeq
  <1>9. Grows
    <2>1. Len(file) <= Len(file') /\ Len(Whole) <= Len(file')
      <3>1. Len(file) <= Len(w) \/ (Len(file) = Len(w) + 1 /\ Len(file') = Len(w) + 1)
        <4>1. CASE ~ split
          BY <1>2, <1>4, <4>1
        <4>2. CASE split /\ m = 0
          BY <1>1, <1>2, <1>4, <1>6, <4>2
        <4>3. CASE split /\ m # 0
          BY <1>2, <1>4, <4>3
        <4> QED BY <4>1, <4>2, <4>3
      <3>2. Len(w) \in Nat /\ Len(Whole) <= Len(w)
        BY <1>2, <1>4
      <3>3. Len(w) <= Len(file')
        BY <1>6, <3>2
      <3>4. Len(file') \in Nat
        BY <1>6, LenProperties
      <3>5. Len(file) \in Nat
        BY LenProperties DEF WriterInv
      <3> QED BY <1>2, <3>1, <3>2, <3>3, <3>4, <3>5
    <2>2. \A i \in 1 .. Len(Whole) : i \in 1 .. Len(w)
      BY <1>2, <1>4
    <2>3. Len(file') \in Nat
      BY <1>6, LenProperties
    <2> QED BY <1>6, <1>8, <2>1, <2>2, <2>3 DEF Grows
  <1> QED BY <1>6, <1>7, <1>8, <1>9

\* The power fails: the file is cut, and no more than what is not synced goes.
LEMMA PowerLossStep ==
  ASSUME WriterInv, synced \in 0 .. Len(Whole), PowerLoss
  PROVE  /\ file' \in Seq(Records) /\ Whole' = file' /\ Stream' = file'
         /\ \E k \in synced .. Len(Whole) :
               /\ Len(file') \in {k, k + 1}
               /\ \A i \in 1 .. k : file'[i] = Stream[i]
               /\ \A i \in k + 1 .. Len(file') : file'[i] = Torn
  <1>1. /\ file \in Seq(Records) /\ Len(file) \in Nat /\ Whole \in Seq(Records) /\ Len(Whole) \in Nat
        /\ Len(buf) \in Nat /\ Len(Stream) = Len(Whole) + Len(buf) /\ Torn \in Records
        /\ \A i \in 1 .. Len(Whole) : Stream[i] = Whole[i] /\ file[i] = Whole[i]
        /\ IF split THEN Len(file) = Len(Whole) + 1 /\ file[Len(file)] = Torn ELSE file = Whole
    BY StreamView, RecordKinds, LenProperties DEF WriterInv
  <1>2. PICK m \in synced .. Len(file), tail \in Tails :
             file' = SubSeq(file, 1, m) \o tail /\ (tail = <<Torn>> => m < Len(file))
    <2>1. PICK m \in synced .. Len(file) :
                 \/ file' = SubSeq(file, 1, m)
                 \/ m < Len(file) /\ file' = Append(SubSeq(file, 1, m), Torn)
      BY DEF PowerLoss
    <2>2. m \in 0 .. Len(file)
      BY <1>1
    <2>3. SubSeq(file, 1, m) \in Seq(Records)
      BY <1>1, <2>2, PrefixProperties
    <2>4. SubSeq(file, 1, m) = SubSeq(file, 1, m) \o <<>> /\ Append(SubSeq(file, 1, m), Torn) = SubSeq(file, 1, m) \o <<Torn>>
      BY <1>1, <2>3, ConcatEmptySeq, AppendIsConcat
    <2>5. <<>> # <<Torn>> /\ <<>> \in Tails /\ <<Torn>> \in Tails
      BY DEF Tails
    <2> QED BY <2>1, <2>4, <2>5
  <1> DEFINE w == SubSeq(file, 1, m)
  <1>3. /\ m \in 0 .. Len(file)
        /\ w \in Seq(Records) /\ Len(w) = m /\ \A i \in 1 .. m : w[i] = file[i]
    <2>1. m \in 0 .. Len(file)
      BY <1>1
    <2> QED BY <1>1, <2>1, PrefixProperties
  <1> HIDE DEF w
  <1>4. /\ file' \in Seq(Records) /\ Len(file') \in {m, m + 1}
        /\ \A i \in 1 .. m : file'[i] = file[i]
        /\ \A i \in m + 1 .. Len(file') : file'[i] = Torn
        /\ (tail # <<Torn>> => file' = w)
    <2>1. file' = w \o tail
      BY <1>2 DEF w
    <2>2. tail # <<Torn>> => w \o tail = w
      BY <1>3, ConcatEmptySeq DEF Tails
    <2> QED BY <1>3, <2>1, <2>2, TailsOf
  <1>5. Whole' = file' /\ Stream' = file'
    <2>1. Whole' = file'
      BY DEF Whole, PowerLoss, Lost
    <2>2. Stream' = Whole' \o <<>>
      BY DEF Stream, PowerLoss, Lost
    <2> QED BY <1>4, <2>1, <2>2, ConcatEmptySeq
  <1>6. CASE m <= Len(Whole)
    <2>1. m \in synced .. Len(Whole)
      BY <1>1, <1>3, <1>6
    <2>2. \A i \in 1 .. m : file'[i] = Stream[i]
      <3>1. \A i \in 1 .. m : i \in 1 .. Len(Whole)
        BY <1>1, <1>3, <1>6
      <3> QED BY <1>1, <1>4, <3>1
    <2> QED BY <1>4, <1>5, <2>1, <2>2
  <1>7. CASE ~ (m <= Len(Whole))
    <2>1. split /\ m = Len(file) /\ m = Len(Whole) + 1
      BY <1>1, <1>3, <1>7
    <2>2. tail # <<Torn>>
      BY <1>1, <1>2, <2>1
    <2>3. Len(file') = m /\ \A i \in 1 .. m : file'[i] = file[i]
      BY <1>2, <1>3, <1>4, <2>2
    <2>4. Len(Whole) \in synced .. Len(Whole) /\ Len(file') = Len(Whole) + 1
      BY <1>1, <2>1, <2>3
    <2>5. \A i \in 1 .. Len(Whole) : file'[i] = Stream[i]
      <3>1. \A i \in 1 .. Len(Whole) : i \in 1 .. m
        BY <1>1, <2>1
      <3> QED BY <1>1, <2>3, <3>1
    <2>6. \A i \in Len(Whole) + 1 .. Len(file') : file'[i] = Torn
      <3>1. \A i \in Len(Whole) + 1 .. Len(file') : i = Len(file) /\ i \in 1 .. m
        BY <1>1, <2>1, <2>4
      <3> QED BY <1>1, <2>1, <2>3, <3>1
    <2> QED BY <1>4, <1>5, <2>4, <2>5, <2>6
  <1> QED BY <1>6, <1>7

-----------------------------------------------------------------------------
(* Definitions and samples in a stream that grows, or that is cut.         *)

LEMMA Agree ==
  ASSUME NEW q, NEW p, NEW k \in Nat, \A i \in 1 .. k : p[i] = q[i]
  PROVE  /\ \A i \in 0 .. k : \A id : InRun(p, i, id) <=> InRun(q, i, id)
         /\ \A i \in 0 .. k : \A x : Holds(p, i, x) <=> Holds(q, i, x)
  <1>1. \A i \in 0 .. k : \A j \in 1 .. i : p[j] = q[j] /\ \A l \in j .. i : p[l] = q[l]
    OBVIOUS
  <1> QED BY <1>1 DEF InRun, Holds

LEMMA AppendClosed ==
  ASSUME NEW q \in Seq(Records), NEW r \in Records, Closed(q)
  PROVE  /\ (r.type = "sample" => InRun(q, Len(q), r.id)) => Closed(Append(q, r))
         /\ \A id : r.type # "header" /\ InRun(q, Len(q), id) => InRun(Append(q, r), Len(q) + 1, id)
         /\ r.type = "source" => InRun(Append(q, r), Len(q) + 1, r.id)
         /\ \A m, l \in Nat : Numbered(q, m) /\ m <= l /\ (r.type = "sample" => r.n \in 1 .. l) => Numbered(Append(q, r), l)
         /\ \A x : Holds(q, Len(q), x) => Holds(Append(q, r), Len(q) + 1, x)
         /\ r.type = "sample" => Holds(Append(q, r), Len(q) + 1, r.n)
  <1> DEFINE p == Append(q, r)
             k == Len(q)
  <1>1. k \in Nat /\ Len(p) = k + 1 /\ (\A i \in 1 .. k : p[i] = q[i]) /\ p[k + 1] = r
    BY LenProperties, AppendProperties
  <1> HIDE DEF p, k
  <1>2. \A i \in 0 .. k : \A id : InRun(p, i, id) <=> InRun(q, i, id)
    BY <1>1, Agree
  <1>3. \A i \in 1 .. k + 1 : i \in 1 .. k \/ i = k + 1
    BY <1>1
  <1>4. (r.type = "sample" => InRun(q, k, r.id)) => Closed(p)
    <2> SUFFICES ASSUME r.type = "sample" => InRun(q, k, r.id), NEW i \in 1 .. k + 1, p[i].type = "sample"
                 PROVE  InRun(p, i - 1, p[i].id)
      BY <1>1 DEF Closed
    <2>1. CASE i \in 1 .. k
      <3>1. i - 1 \in 0 .. k
        BY <1>1, <2>1
      <3>2. InRun(q, i - 1, q[i].id)
        BY <1>1, <2>1 DEF Closed, k
      <3> QED BY <1>1, <1>2, <2>1, <3>1, <3>2
    <2>2. CASE i = k + 1
      <3>1. i - 1 = k /\ k \in 0 .. k
        BY <1>1, <2>2
      <3> QED BY <1>1, <1>2, <2>2, <3>1
    <2> QED BY <1>3, <2>1, <2>2
  <1>5. ASSUME NEW id, r.type # "header", InRun(q, k, id) PROVE InRun(p, k + 1, id)
    <2>1. PICK j \in 1 .. k : q[j].type = "source" /\ q[j].id = id /\ \A l \in j .. k : q[l].type # "header"
      BY <1>5 DEF InRun
    <2>2. j \in 1 .. k + 1 /\ p[j] = q[j] /\ \A l \in j .. k + 1 : (l \in j .. k /\ p[l] = q[l]) \/ p[l] = r
      BY <1>1
    <2> QED BY <1>5, <2>1, <2>2 DEF InRun
  <1>6. ASSUME r.type = "source" PROVE InRun(p, k + 1, r.id)
    <2>1. k + 1 \in 1 .. k + 1 /\ \A l \in k + 1 .. k + 1 : l = k + 1
      BY <1>1
    <2>2. r.type # "header"
      BY <1>6
    <2> QED BY <1>1, <1>6, <2>1, <2>2 DEF InRun
  <1>7. ASSUME NEW m \in Nat, NEW l \in Nat, Numbered(q, m), m <= l, r.type = "sample" => r.n \in 1 .. l
        PROVE  Numbered(p, l)
    <2>1. \A x \in 1 .. m : x \in 1 .. l
      BY <1>7
    <2> QED BY <1>1, <1>3, <1>7, <2>1 DEF Numbered, k
  <1>8. ASSUME NEW x, Holds(q, k, x) PROVE Holds(p, k + 1, x)
    <2>1. \A j \in 1 .. k : j \in 1 .. k + 1
      BY <1>1
    <2> QED BY <1>1, <1>8, <2>1 DEF Holds
  <1>9. ASSUME r.type = "sample" PROVE Holds(p, k + 1, r.n)
    <2>1. k + 1 \in 1 .. k + 1
      BY <1>1
    <2> QED BY <1>1, <1>9, <2>1 DEF Holds
  <1> QED BY <1>4, <1>5, <1>6, <1>7, <1>8, <1>9 DEF p, k

LEMMA ClosedAt ==
  ASSUME NEW q, Closed(q), NEW p \in Nat, p + 1 \in 1 .. Len(q), q[p + 1].type = "sample"
  PROVE  InRun(q, p, q[p + 1].id)
  <1>1. (p + 1) - 1 = p
    OBVIOUS
  <1>2. \A i \in 1 .. Len(q) : q[i].type = "sample" => InRun(q, i - 1, q[i].id)
    BY DEF Closed
  <1>3. PICK i \in 1 .. Len(q) : i = p + 1
    OBVIOUS
  <1>4. InRun(q, i - 1, q[i].id) /\ i - 1 = p
    BY <1>1, <1>2, <1>3
  <1> QED BY <1>3, <1>4

LEMMA CutClosed ==
  ASSUME NEW q \in Seq(Records), NEW p \in Seq(Records), NEW k \in 0 .. Len(q),
         Len(p) \in {k, k + 1}, \A i \in 1 .. k : p[i] = q[i],
         \A i \in k + 1 .. Len(p) : p[i] = Torn
  PROVE  /\ Closed(q) => Closed(p)
         /\ \A m : Numbered(q, m) => Numbered(p, m)
  <1>1. k \in Nat /\ Len(q) \in Nat /\ \A i \in 1 .. k : i \in 1 .. Len(q)
    BY LenProperties
  <1>2. \A i \in 1 .. Len(p) : i \in 1 .. k \/ p[i] = Torn
    BY <1>1
  <1>3. Torn.type # "sample"
    BY DEF Torn
  <1>4. \A i \in 0 .. k : \A id : InRun(p, i, id) <=> InRun(q, i, id)
    BY <1>1, Agree
  <1>5. \A i \in 1 .. k : i - 1 \in 0 .. k
    BY <1>1
  <1>6. Closed(q) => Closed(p)
    BY <1>1, <1>2, <1>3, <1>4, <1>5 DEF Closed
  <1>7. ASSUME NEW m, Numbered(q, m) PROVE Numbered(p, m)
    BY <1>1, <1>2, <1>3, <1>7 DEF Numbered
  <1> QED BY <1>6, <1>7

-----------------------------------------------------------------------------
(* The invariant is inductive.                                             *)

LEMMA TypeOfInv ==
  ASSUME StreamInv
  PROVE  /\ file \in Seq(Records) /\ Len(file) \in Nat /\ Whole \in Seq(Records) /\ Len(Whole) \in Nat
         /\ Stream \in Seq(Records) /\ Len(Stream) \in Nat /\ Len(Whole) <= Len(Stream)
         /\ n \in Nat /\ base \in Nat /\ MaxSamples \in Nat /\ synced \in Nat
         /\ \A r \in Records \ {Torn} : r \in Records
         /\ bad \/ ~ up => Stream = file /\ Whole = file
  <1>1. /\ file \in Seq(Records) /\ Len(file) \in Nat /\ Whole \in Seq(Records) /\ Len(Whole) \in Nat
        /\ Stream \in Seq(Records) /\ Len(Stream) \in Nat /\ Len(Stream) = Len(Whole) + Len(buf) /\ Len(buf) \in Nat
        /\ bad \/ ~ up => Stream = file /\ Whole = file
    BY StreamView, LenProperties DEF StreamInv, WriterInv
  <1>2. MaxSamples \in Nat
    BY StreamBounds
  <1> QED BY <1>1, <1>2 DEF StreamInv, WriterInv, SyncInv

LEMMA GrowsReader ==
  ASSUME StreamInv, Grows, rd' = rd
  PROVE  ReaderInv'
  <1>1. rd.pos \in 0 .. Len(Whole) /\ rd.pos \in 0 .. Len(Whole')
    BY TypeOfInv DEF StreamInv, ReaderInv, Grows
  <1>2. \A i \in 0 .. Len(Whole) : \A id : InRun(Stream', i, id) <=> InRun(Stream, i, id)
    BY TypeOfInv, Agree DEF Grows
  <1>3. rd.pc = "reading" => \A id \in Ids : InRun(Stream', rd.pos, id) => rd.dict[id] # NoKey
    BY <1>1, <1>2 DEF StreamInv, ReaderInv
  <1>4. ASSUME rd.pc = "failed"
        PROVE  /\ rd.pos + 1 \in 1 .. Len(Whole')
               /\ \/ Stream'[rd.pos + 1] = Torn /\ rd.pos + 1 < Len(file')
                  \/ Stream'[rd.pos + 1].type = "sample" /\ Stream'[rd.pos + 1].src \in NotText
    <2>1. /\ rd.pos + 1 \in 1 .. Len(Whole)
          /\ \/ Stream[rd.pos + 1] = Torn /\ rd.pos + 1 < Len(file)
             \/ Stream[rd.pos + 1].type = "sample" /\ Stream[rd.pos + 1].src \in NotText
      BY <1>4 DEF StreamInv, ReaderInv
    <2>2. Stream'[rd.pos + 1] = Stream[rd.pos + 1] /\ rd.pos + 1 \in 1 .. Len(Whole')
          /\ (rd.pos + 1 < Len(file) => rd.pos + 1 < Len(file'))
      BY <2>1, TypeOfInv DEF Grows
    <2> QED BY <2>1, <2>2
  <1> QED BY <1>1, <1>3, <1>4 DEF StreamInv, ReaderInv

\* A record is accepted.
LEMMA PutInv ==
  ASSUME StreamInv, NEW rec \in Records \ {Torn}, PutOK(rec), up, up' = up,
         rec.type = "sample" => InRun(Stream, Len(Stream), rec.id) /\ rec.n = n + 1,
         rec.type = "source" \/ rec.type = "sample",
         n' = (IF rec.type = "sample" THEN n + 1 ELSE n), n' <= MaxSamples,
         base' = base, acked' = acked, synced' = synced, rd' = rd,
         srcs' \in [Key -> Ids \cup {NoId}], nextID' \in Ids, cur' \in Key \cup {NoKey},
         \A k \in Key : srcs'[k] # NoId => srcs[k] = srcs'[k] \/ (rec.type = "source" /\ rec.id = srcs'[k])
  PROVE  StreamInv'
  <1> DEFINE k == Len(Stream)
  <1>1. /\ file' \in Seq(Records) /\ buf' \in Seq(Records \ {Torn}) /\ split' \in BOOLEAN /\ bad' = FALSE
        /\ split' => buf' # <<>> /\ file' # <<>> /\ Last(file') = Torn
        /\ Stream' = Append(Stream, rec)
        /\ Grows
    BY PutOKStep DEF StreamInv
  <1>2. rec \in Records /\ Stream \in Seq(Records) /\ k \in Nat /\ n \in Nat /\ n' \in Nat /\ n <= n' /\ ~ bad
    BY TypeOfInv DEF PutOK
  <1>3. /\ Len(Stream') = k + 1 /\ \A i \in 1 .. k : Stream'[i] = Stream[i]
    BY <1>1, <1>2, AppendProperties
  <1>4. WriterInv'
    <2>1. n' \in 0 .. MaxSamples /\ base \in 0 .. n'
      BY <1>2, TypeOfInv DEF StreamInv, WriterInv
    <2> QED BY <1>1, <2>1 DEF StreamInv, WriterInv
  <1>5. SyncInv'
    <2>1. synced \in 0 .. Len(Whole')
      BY <1>1, TypeOfInv DEF Grows, StreamInv, SyncInv
    <2>2. acked \subseteq 1 .. n'
      BY <1>2 DEF StreamInv, SyncInv
    <2>3. \A i \in acked : Holds(Stream', synced, i)
      <3>1. synced \in 0 .. k
        BY TypeOfInv DEF StreamInv, SyncInv
      <3>2. \A x : Holds(Stream', synced, x) <=> Holds(Stream, synced, x)
        BY <1>2, <1>3, <3>1, Agree
      <3> QED BY <3>2 DEF StreamInv, SyncInv
    <2>4. \A i \in base + 1 .. n' : Holds(Stream', k + 1, i)
      <3>1. \A i \in base + 1 .. n : Holds(Stream, k, i)
        BY <1>2 DEF StreamInv, SyncInv
      <3>2. /\ \A x : Holds(Stream, k, x) => Holds(Stream', k + 1, x)
            /\ rec.type = "sample" => Holds(Stream', k + 1, rec.n)
        BY <1>1, <1>2, AppendClosed DEF StreamInv, DictInv
      <3>3. \A i \in base + 1 .. n' : i \in base + 1 .. n \/ (i = n + 1 /\ rec.type = "sample")
        BY <1>2, TypeOfInv
      <3> QED BY <3>1, <3>2, <3>3
    <2> QED BY <1>3, <2>1, <2>2, <2>3, <2>4 DEF SyncInv
  <1>6. DictInv'
    <2>1. Closed(Stream) /\ Numbered(Stream, n)
      BY DEF StreamInv, DictInv
    <2>2. Closed(Stream')
      BY <1>1, <1>2, <2>1, AppendClosed
    <2>3. Numbered(Stream', n')
      <3>1. rec.type = "sample" => rec.n \in 1 .. n'
        BY <1>2
      <3> QED BY <1>1, <1>2, <2>1, <3>1, AppendClosed
    <2>4. ASSUME NEW j \in Key, srcs'[j] # NoId PROVE InRun(Stream', k + 1, srcs'[j])
      <3>1. /\ \A id : rec.type # "header" /\ InRun(Stream, k, id) => InRun(Stream', k + 1, id)
            /\ rec.type = "source" => InRun(Stream', k + 1, rec.id)
        BY <1>1, <1>2, <2>1, AppendClosed
      <3>2. srcs[j] # NoId => InRun(Stream, k, srcs[j])
        BY <1>2 DEF StreamInv, DictInv
      <3>3. rec.type # "header"
        OBVIOUS
      <3> QED BY <2>4, <3>1, <3>2, <3>3
    <2> QED BY <1>3, <2>2, <2>3, <2>4 DEF DictInv
  <1>7. ReaderInv'
    BY <1>1, GrowsReader
  <1> QED BY <1>4, <1>5, <1>6, <1>7 DEF StreamInv

\* A failed write, or the end of the process.
LEMMA DropInv ==
  ASSUME StreamInv, Drops, bad' \/ ~ up', up' \in BOOLEAN, bad' \in BOOLEAN,
         srcs' \in [Key -> Ids \cup {NoId}], nextID' \in Ids, cur' \in Key \cup {NoKey},
         n' = n, base' = base, acked' = acked, synced' = synced, rd' = rd
  PROVE  StreamInv'
  <1>1. file' \in Seq(Records) /\ Whole' = file' /\ Stream' = file' /\ Grows /\ buf' = <<>> /\ split' = FALSE
    BY DropsStep DEF StreamInv, Drops
  <1>2. PICK k \in Len(Whole) .. Len(Stream) :
               /\ Len(file') \in {k, k + 1}
               /\ \A i \in 1 .. k : file'[i] = Stream[i]
               /\ \A i \in k + 1 .. Len(file') : file'[i] = Torn
    BY DropsStep DEF StreamInv
  <1>3. k \in 0 .. Len(Stream) /\ Stream \in Seq(Records) /\ synced \in 0 .. k /\ k \in Nat
    BY TypeOfInv DEF StreamInv, SyncInv
  <1>4. WriterInv'
    <2>1. buf' \in Seq(Records \ {Torn})
      BY <1>1, EmptySeq
    <2> QED BY <1>1, <2>1 DEF StreamInv, WriterInv
  <1>5. SyncInv'
    <2>1. synced \in 0 .. Len(Whole')
      BY <1>1, TypeOfInv DEF Grows, StreamInv, SyncInv
    <2>2. \A i \in acked : Holds(Stream', synced, i)
      BY <1>1, <1>2, <1>3, Agree DEF StreamInv, SyncInv
    <2> QED BY <2>1, <2>2 DEF StreamInv, SyncInv
  <1>6. DictInv'
    <2>1. Closed(Stream) /\ Numbered(Stream, n)
      BY DEF StreamInv, DictInv
    <2>2. Closed(Stream') /\ Numbered(Stream', n)
      BY <1>1, <1>2, <1>3, <2>1, CutClosed
    <2> QED BY <2>2 DEF DictInv
  <1>7. ReaderInv'
    BY <1>1, GrowsReader
  <1> QED BY <1>4, <1>5, <1>6, <1>7 DEF StreamInv

\* The buffer is written out: with or without an fsync that succeeds.
LEMMA WrittenInv ==
  ASSUME StreamInv, ~ bad, up, file' = FileAfter(buf, Len(buf), FALSE), buf' = <<>>, split' = FALSE,
         up' \in BOOLEAN, bad' = bad, srcs' = srcs, nextID' = nextID, cur' = cur,
         n' = n, base' = base, rd' = rd,
         \/ acked' = acked /\ synced' = synced
         \/ acked' = acked \cup (base + 1 .. n) /\ synced' = Len(file')
  PROVE  StreamInv'
  <1>1. file' = Stream /\ Whole' = Stream /\ Stream' = Stream /\ file' \in Seq(Records) /\ Grows
    BY WrittenStep DEF StreamInv
  <1>2. WriterInv'
    <2>1. buf' \in Seq(Records \ {Torn})
      BY EmptySeq
    <2> QED BY <1>1, <2>1 DEF StreamInv, WriterInv
  <1>3. SyncInv'
    <2>1. synced \in 0 .. Len(Stream) /\ Len(Stream) \in 0 .. Len(Stream) /\ base + 1 .. n \subseteq 1 .. n
      BY TypeOfInv DEF StreamInv, SyncInv
    <2>2. \A i \in base + 1 .. n : Holds(Stream, Len(Stream), i)
      BY DEF StreamInv, SyncInv
    <2>3. \A i \in acked : Holds(Stream, synced, i) /\ Holds(Stream, Len(Stream), i)
      <3>1. \A j \in 1 .. synced : j \in 1 .. Len(Stream)
        BY <2>1
      <3> QED BY <3>1 DEF StreamInv, SyncInv, Holds
    <2>4. acked \subseteq 1 .. n
      BY DEF StreamInv, SyncInv
    <2>5. CASE acked' = acked /\ synced' = synced
      BY <1>1, <2>1, <2>2, <2>3, <2>4, <2>5 DEF SyncInv
    <2>6. CASE acked' = acked \cup (base + 1 .. n) /\ synced' = Len(file')
      BY <1>1, <2>1, <2>2, <2>3, <2>4, <2>6 DEF SyncInv
    <2> QED BY <2>5, <2>6
  <1>4. DictInv'
    BY <1>1 DEF StreamInv, DictInv
  <1>5. ReaderInv'
    BY <1>1, GrowsReader
  <1> QED BY <1>2, <1>3, <1>4, <1>5 DEF StreamInv

LEMMA OpenRunInv ==
  ASSUME StreamInv, OpenRun
  PROVE  StreamInv'
  <1>1. /\ file' = file /\ synced' = synced /\ n' = n /\ acked' = acked /\ rd' = rd /\ base' = n
        /\ ~ up /\ up' = TRUE /\ srcs' = [k \in Key |-> NoId] /\ nextID' = 0 /\ buf' = <<Header>>
        /\ split' = FALSE /\ bad' = FALSE /\ cur' = NoKey
    BY DEF OpenRun
  <1>2. /\ Stream = file /\ Whole = file /\ file \in Seq(Records) /\ Len(file) \in Nat /\ n \in Nat
    BY <1>1, TypeOfInv
  <1>3. Header \in Records \ {Torn} /\ Header \in Records /\ Header.type = "header"
    BY RecordKinds
  <1>4. Whole' = file /\ Stream' = Append(file, Header)
    <2>1. Whole' = file
      BY <1>1 DEF Whole
    <2>2. Stream' = file \o <<Header>>
      BY <1>1, <2>1 DEF Stream
    <2> QED BY <1>2, <1>3, <2>1, <2>2, AppendIsConcat
  <1>5. Len(Stream') = Len(file) + 1 /\ \A i \in 1 .. Len(file) : Stream'[i] = Stream[i]
    BY <1>2, <1>3, <1>4, AppendProperties
  <1>6. Grows
    BY <1>1, <1>2, <1>4, <1>5 DEF Grows
  <1>7. WriterInv'
    <2>1. buf' \in Seq(Records \ {Torn})
      BY <1>1, <1>3
    <2>2. srcs' \in [Key -> Ids \cup {NoId}] /\ nextID' \in Ids
      BY <1>1, IdAssumption DEF Ids
    <2>3. n \in 0 .. MaxSamples /\ base' \in 0 .. n
      BY <1>1, <1>2 DEF StreamInv, WriterInv
    <2>4. cur' \in Key \cup {NoKey} /\ up' \in BOOLEAN /\ split' \in BOOLEAN /\ bad' \in BOOLEAN /\ ~ bad' /\ up' /\ ~ split'
      BY <1>1
    <2>5. file' \in Seq(Records) /\ n' = n
      BY <1>1, <1>2
    <2> QED BY <2>1, <2>2, <2>3, <2>4, <2>5 DEF WriterInv
  <1>8. SyncInv'
    <2>1. \A i \in base' + 1 .. n' : FALSE
      BY <1>1, <1>2
    <2>2. \A i \in acked : Holds(Stream', synced, i)
      <3>1. synced \in 0 .. Len(file)
        BY <1>2 DEF StreamInv, SyncInv
      <3>2. \A x : Holds(Stream', synced, x) <=> Holds(Stream, synced, x)
        BY <1>2, <1>5, <3>1, Agree
      <3> QED BY <3>2 DEF StreamInv, SyncInv
    <2> QED BY <1>1, <1>2, <1>4, <2>1, <2>2 DEF StreamInv, SyncInv
  <1>9. DictInv'
    <2>1. Closed(Stream) /\ Numbered(Stream, n)
      BY DEF StreamInv, DictInv
    <2>2. Closed(Stream') /\ Numbered(Stream', n)
      BY <1>2, <1>3, <1>4, <2>1, AppendClosed
    <2>3. \A k \in Key : srcs'[k] = NoId
      BY <1>1
    <2> QED BY <1>1, <2>2, <2>3 DEF DictInv
  <1>10. ReaderInv'
    BY <1>1, <1>6, GrowsReader
  <1> QED BY <1>7, <1>8, <1>9, <1>10 DEF StreamInv

LEMMA PowerLossInv ==
  ASSUME StreamInv, PowerLoss
  PROVE  StreamInv'
  <1>1. /\ up' = FALSE /\ buf' = <<>> /\ split' = FALSE /\ bad' = FALSE /\ cur' = NoKey
        /\ srcs' = srcs /\ nextID' = nextID /\ n' = n /\ base' = base /\ acked' = acked
        /\ rd' = NoReader /\ synced' = synced
    BY DEF PowerLoss, Lost
  <1>2. file' \in Seq(Records) /\ Whole' = file' /\ Stream' = file'
    BY PowerLossStep DEF StreamInv, SyncInv
  <1>3. PICK k \in synced .. Len(Whole) :
               /\ Len(file') \in {k, k + 1}
               /\ \A i \in 1 .. k : file'[i] = Stream[i]
               /\ \A i \in k + 1 .. Len(file') : file'[i] = Torn
    BY PowerLossStep DEF StreamInv, SyncInv
  <1>4. k \in 0 .. Len(Stream) /\ Stream \in Seq(Records) /\ synced \in 0 .. k /\ k \in Nat
    BY TypeOfInv
  <1>5. WriterInv'
    <2>1. buf' \in Seq(Records \ {Torn})
      BY <1>1, EmptySeq
    <2> QED BY <1>1, <1>2, <2>1 DEF StreamInv, WriterInv
  <1>6. SyncInv'
    <2>1. synced \in 0 .. Len(Whole')
      BY <1>2, <1>3, <1>4
    <2>2. \A i \in acked : Holds(Stream', synced, i)
      BY <1>2, <1>3, <1>4, Agree DEF StreamInv, SyncInv
    <2> QED BY <1>1, <2>1, <2>2 DEF StreamInv, SyncInv
  <1>7. DictInv'
    <2>1. Closed(Stream) /\ Numbered(Stream, n)
      BY DEF StreamInv, DictInv
    <2>2. Closed(Stream') /\ Numbered(Stream', n)
      BY <1>2, <1>3, <1>4, <2>1, CutClosed
    <2> QED BY <1>1, <2>2 DEF DictInv
  <1>8. ReaderInv'
    <2>1. rd' \in Readers
      BY <1>1, EmptySeq DEF NoReader, Readers
    <2>2. rd'.pos = 0 /\ rd'.pc = "closed" /\ Len(Whole') \in Nat
      BY <1>1, <1>2, LenProperties DEF NoReader
    <2> QED BY <2>1, <2>2 DEF ReaderInv
  <1> QED BY <1>5, <1>6, <1>7, <1>8 DEF StreamInv

\* A step of the Reader moves it over records of the file that stay as they are.
LEMMA ReaderStepInv ==
  ASSUME StreamInv, ReaderStep
  PROVE  StreamInv'
  <1>1. UNCHANGED <<file, synced, writerVars>>
    BY DEF ReaderStep, OpenReader, ReadHeader, ReadEOF, ReadTorn, ReadSourceDef, ReadSample, ReadNextHeader
  <1>2. Whole' = Whole /\ Stream' = Stream /\ n' = n /\ file' = file
    BY <1>1 DEF Whole, Stream, writerVars
  <1>3. WriterInv' /\ SyncInv' /\ DictInv'
    <2>1. WriterInv'
      BY <1>1 DEF StreamInv, WriterInv, writerVars, Last
    <2>2. SyncInv'
      BY <1>1, <1>2 DEF StreamInv, SyncInv, writerVars
    <2>3. DictInv'
      BY <1>1, <1>2 DEF StreamInv, DictInv, writerVars
    <2> QED BY <2>1, <2>2, <2>3
  <1>4. /\ Stream \in Seq(Records) /\ Len(Stream) \in Nat /\ Len(Whole) \in Nat /\ Len(Whole) <= Len(Stream)
        /\ file \in Seq(Records) /\ Len(file) \in Nat
        /\ rd \in Readers /\ rd.pos \in 0 .. Len(Whole) /\ rd.pos \in Nat
        /\ rd.dict \in [Ids -> Key \cup {NoKey}] /\ rd.out \in Seq([src : Key, n : 1 .. MaxSamples])
    BY TypeOfInv DEF StreamInv, ReaderInv, Readers
  <1>5. \* where the Reader is
        /\ \A i \in 1 .. Len(Whole) : file[i] = Stream[i]
        /\ \A i \in 1 .. Len(file) : file[i] \in Records /\ (file[i].type # "torn" => i \in 1 .. Len(Whole))
        /\ Len(Whole) <= Len(file) /\ \A i \in 1 .. Len(file) : i < Len(file) => i \in 1 .. Len(Whole)
    <2>1. /\ \A i \in 1 .. Len(Whole) : Stream[i] = Whole[i] /\ file[i] = Whole[i]
          /\ IF split THEN Len(file) = Len(Whole) + 1 /\ file[Len(file)] = Torn ELSE file = Whole
      BY StreamView DEF StreamInv
    <2>2. Torn.type = "torn"
      BY DEF Torn
    <2>3. \A i \in 1 .. Len(file) : file[i] \in Records
      BY <1>4, ElementOfSeq
    <2> QED BY <1>4, <2>1, <2>2, <2>3
  <1>6. NoReader \in Readers /\ NoReader.pos = 0 /\ NoReader.dict \in [Ids -> Key \cup {NoKey}]
    BY EmptySeq DEF NoReader, Readers
  <1> DEFINE Good == \A id \in Ids : InRun(Stream', rd'.pos, id) => rd'.dict[id] # NoKey
             Failed == /\ rd'.pos + 1 \in 1 .. Len(Whole')
                       /\ \/ Stream'[rd'.pos + 1] = Torn /\ rd'.pos + 1 < Len(file')
                          \/ Stream'[rd'.pos + 1].type = "sample" /\ Stream'[rd'.pos + 1].src \in NotText
  <1>7. SUFFICES /\ rd' \in Readers /\ rd'.pos \in 0 .. Len(Whole)
                 /\ rd'.pc = "reading" => Good
                 /\ rd'.pc = "failed" => Failed
    BY <1>2, <1>3 DEF StreamInv, ReaderInv
  <1>8. CASE OpenReader
    <2>1. rd' = [pc |-> "first", pos |-> 0, dict |-> NoReader.dict, out |-> <<>>]
      BY <1>8 DEF OpenReader, NoReader
    <2>2. <<>> \in Seq([src : Key, n : 1 .. MaxSamples]) /\ 0 \in 0 .. Len(Whole)
      BY <1>4, EmptySeq
    <2> QED BY <1>6, <2>1, <2>2 DEF Readers
  <1>9. CASE ReadHeader
    <2>1. CASE file # <<>> /\ Head(file) = Header
      <3>1. rd' = [rd EXCEPT !.pc = "reading", !.pos = 1]
        BY <1>9, <2>1 DEF ReadHeader
      <3>2. rd' \in Readers /\ rd'.pos = 1 /\ rd'.pc = "reading"
        BY <1>4, <3>1 DEF Readers
      <3>3. 1 \in 1 .. Len(file) /\ file[1] = Header
        BY <1>4, <2>1, EmptySeq
      <3>4. Header.type = "header"
        BY DEF Header
      <3>5. 1 \in 1 .. Len(Whole) /\ Stream[1] = Header
        BY <1>5, <3>3, <3>4
      <3>6. ASSUME NEW id \in Ids PROVE ~ InRun(Stream, 1, id)
        BY <3>4, <3>5 DEF InRun
      <3> QED BY <1>2, <3>2, <3>5, <3>6
    <2>2. CASE ~ (file # <<>> /\ Head(file) = Header)
      <3>1. rd' = [rd EXCEPT !.pc = "rejected"]
        BY <1>9, <2>2 DEF ReadHeader
      <3> QED BY <1>4, <3>1 DEF Readers
    <2> QED BY <2>1, <2>2
  <1>10. CASE ReadEOF
    BY <1>4, <1>10 DEF ReadEOF, Readers
  <1>11. CASE ReadTorn
    <2>1. /\ rd.pos + 1 < Len(file) /\ file[rd.pos + 1].type = "torn" /\ rd.pos + 1 \in 1 .. Len(file)
      BY <1>4, <1>11 DEF ReadTorn, AtRecord
    <2>2. PICK pc \in {"failed", "eof"} : rd' = [rd EXCEPT !.pc = pc]
      BY <1>11 DEF ReadTorn
    <2>3. rd' \in Readers /\ rd'.pos = rd.pos /\ rd'.pc # "reading"
      BY <1>4, <2>2 DEF Readers
    <2>4. rd.pos + 1 \in 1 .. Len(Whole) /\ Stream[rd.pos + 1] = Torn
      BY <1>5, <2>1, RecordKinds
    <2> QED BY <1>2, <1>4, <2>1, <2>3, <2>4
  <1>12. ASSUME NEW type \in {"source", "sample", "header"}, AtRecord(type)
         PROVE  /\ rd.pc = "reading" /\ rd.pos + 1 \in 1 .. Len(Whole) /\ rd.pos + 1 \in 0 .. Len(Whole)
                /\ file[rd.pos + 1] = Stream[rd.pos + 1] /\ file[rd.pos + 1] \in Records
                /\ file[rd.pos + 1].type = type
                /\ \A id \in Ids : InRun(Stream, rd.pos, id) => rd.dict[id] # NoKey
    <2>1. rd.pc = "reading" /\ rd.pos + 1 \in 1 .. Len(file) /\ file[rd.pos + 1].type = type
      BY <1>4, <1>12 DEF AtRecord
    <2>2. type # "torn"
      OBVIOUS
    <2> QED BY <1>4, <1>5, <2>1, <2>2 DEF StreamInv, ReaderInv
  <1>13. \* over one more record
         ASSUME NEW id, InRun(Stream, rd.pos + 1, id)
         PROVE  /\ Stream[rd.pos + 1].type # "header"
                /\ \/ Stream[rd.pos + 1].type = "source" /\ Stream[rd.pos + 1].id = id
                   \/ InRun(Stream, rd.pos, id)
    <2>1. PICK j \in 1 .. rd.pos + 1 :
              /\ Stream[j].type = "source" /\ Stream[j].id = id
              /\ \A l \in j .. rd.pos + 1 : Stream[l].type # "header"
      BY <1>13 DEF InRun
    <2>2. rd.pos + 1 \in j .. rd.pos + 1 /\ (j = rd.pos + 1 \/ j \in 1 .. rd.pos)
          /\ \A l \in j .. rd.pos : l \in j .. rd.pos + 1
      BY <1>4
    <2> QED BY <2>1, <2>2 DEF InRun
  <1>14. CASE ReadSourceDef
    <2> DEFINE def == file[rd.pos + 1]
    <2>1. AtRecord("source")
      BY <1>14 DEF ReadSourceDef
    <2>2. /\ rd.pc = "reading" /\ rd.pos + 1 \in 0 .. Len(Whole)
          /\ def = Stream[rd.pos + 1] /\ def \in Records /\ def.type = "source"
          /\ \A id \in Ids : InRun(Stream, rd.pos, id) => rd.dict[id] # NoKey
      BY <1>12, <2>1
    <2>3. def.id \in Ids /\ def.src \in Key /\ def.src # NoKey
      BY <2>2, RecordKinds, KeyAssumption
    <2>4. rd' = [rd EXCEPT !.pos = @ + 1, !.dict[def.id] = def.src]
      BY <1>14 DEF ReadSourceDef
    <2> HIDE DEF def
    <2>5. /\ rd' \in Readers /\ rd'.pos = rd.pos + 1 /\ rd'.pc = "reading"
          /\ rd'.dict = [rd.dict EXCEPT ![def.id] = def.src]
      <3>1. rd = [pc |-> rd.pc, pos |-> rd.pos, dict |-> rd.dict, out |-> rd.out]
        BY <1>4 DEF Readers
      <3>2. /\ rd.pos + 1 \in Nat /\ rd.pc \in {"closed", "first", "reading", "rejected", "eof", "failed"}
            /\ [rd.dict EXCEPT ![def.id] = def.src] \in [Ids -> Key \cup {NoKey}]
        BY <1>4, <2>3 DEF Readers
      <3>3. rd' = [pc |-> rd.pc, pos |-> rd.pos + 1, dict |-> [rd.dict EXCEPT ![def.id] = def.src], out |-> rd.out]
        BY <2>4, <3>1
      <3> QED BY <1>4, <2>2, <3>2, <3>3 DEF Readers
    <2>6. Good
      BY <1>2, <1>4, <1>13, <2>2, <2>3, <2>5
    <2> QED BY <2>2, <2>5, <2>6
  <1>15. CASE ReadSample
    <2> DEFINE s == file[rd.pos + 1]
    <2>1. AtRecord("sample")
      BY <1>15 DEF ReadSample
    <2>2. /\ rd.pc = "reading" /\ rd.pos + 1 \in 1 .. Len(Whole) /\ rd.pos + 1 \in 0 .. Len(Whole)
          /\ s = Stream[rd.pos + 1] /\ s \in Records /\ s.type = "sample"
          /\ \A id \in Ids : InRun(Stream, rd.pos, id) => rd.dict[id] # NoKey
      BY <1>12, <2>1
    <2>3. s.id \in Ids /\ s.src \in Key /\ s.n \in 1 .. MaxSamples
      BY <2>2, RecordKinds
    <2>4. rd.dict[s.id] # NoKey
      <3>1. rd.pos + 1 \in 1 .. Len(Stream) /\ rd.pos + 1 - 1 = rd.pos
        BY <1>4, <2>2
      <3>3. rd.pos + 1 \in 1 .. Len(Stream) /\ Stream[rd.pos + 1].type = "sample" /\ Closed(Stream)
        BY <2>2, <3>1 DEF StreamInv, DictInv
      <3>4. InRun(Stream, rd.pos, Stream[rd.pos + 1].id)
        BY <1>4, <3>3, ClosedAt
      <3>5. InRun(Stream, rd.pos, s.id)
        BY <2>2, <3>1, <3>4
      <3> QED BY <2>2, <2>3, <3>5
    <2>5. CASE s.src \in NotText
      <3>1. rd' = [rd EXCEPT !.pc = "failed"]
        BY <1>15, <2>5 DEF ReadSample
      <3>2. rd' \in Readers /\ rd'.pos = rd.pos /\ rd'.pc = "failed"
        BY <1>4, <3>1 DEF Readers
      <3> QED BY <1>2, <1>4, <2>2, <2>5, <3>2
    <2>6. CASE s.src \notin NotText
      <3>1. rd' = [rd EXCEPT !.pos = @ + 1, !.out = Append(@, [src |-> rd.dict[s.id], n |-> s.n])]
        BY <1>15, <2>4, <2>6 DEF ReadSample
      <3>2. [src |-> rd.dict[s.id], n |-> s.n] \in [src : Key, n : 1 .. MaxSamples]
        BY <1>4, <2>3, <2>4
      <3>3. Append(rd.out, [src |-> rd.dict[s.id], n |-> s.n]) \in Seq([src : Key, n : 1 .. MaxSamples])
        BY <1>4, <3>2, AppendProperties
      <3> HIDE DEF s
      <3>4. rd' \in Readers /\ rd'.pos = rd.pos + 1 /\ rd'.pc = "reading" /\ rd'.dict = rd.dict
        <4>1. rd = [pc |-> rd.pc, pos |-> rd.pos, dict |-> rd.dict, out |-> rd.out] /\ rd.pos + 1 \in Nat
          BY <1>4 DEF Readers
        <4> DEFINE out == Append(rd.out, [src |-> rd.dict[s.id], n |-> s.n])
        <4>2. out \in Seq([src : Key, n : 1 .. MaxSamples])
          BY <3>3
        <4>3. rd' = [rd EXCEPT !.pos = @ + 1, !.out = out]
          BY <3>1
        <4> HIDE DEF out
        <4>4. rd' = [pc |-> rd.pc, pos |-> rd.pos + 1, dict |-> rd.dict, out |-> out]
          BY <4>1, <4>3
        <4> QED BY <1>4, <2>2, <4>1, <4>2, <4>4 DEF Readers
      <3>5. Good
        BY <1>2, <1>13, <2>2, <3>4
      <3> QED BY <2>2, <3>4, <3>5
    <2> QED BY <2>5, <2>6
  <1>16. CASE ReadNextHeader
    <2>1. AtRecord("header")
      BY <1>16 DEF ReadNextHeader
    <2>2. /\ rd.pc = "reading" /\ rd.pos + 1 \in 0 .. Len(Whole)
          /\ Stream[rd.pos + 1].type = "header"
      BY <1>12, <2>1
    <2>3. rd' = [rd EXCEPT !.pos = @ + 1, !.dict = NoReader.dict]
      BY <1>16 DEF ReadNextHeader
    <2>4. rd' \in Readers /\ rd'.pos = rd.pos + 1 /\ rd'.pc = "reading"
      <3>1. rd = [pc |-> rd.pc, pos |-> rd.pos, dict |-> rd.dict, out |-> rd.out] /\ rd.pos + 1 \in Nat
        BY <1>4 DEF Readers
      <3>2. rd' = [pc |-> rd.pc, pos |-> rd.pos + 1, dict |-> NoReader.dict, out |-> rd.out]
        BY <2>3, <3>1
      <3> QED BY <1>4, <1>6, <2>2, <3>1, <3>2 DEF Readers
    <2>5. Good
      BY <1>2, <1>13, <2>2, <2>4
    <2> QED BY <2>2, <2>4, <2>5
  <1> HIDE DEF Good, Failed
  <1> QED BY <1>8, <1>9, <1>10, <1>11, <1>14, <1>15, <1>16 DEF ReaderStep

LEMMA InitInv == Init => StreamInv
  <1> SUFFICES ASSUME Init PROVE StreamInv
    OBVIOUS
  <1>1. /\ file = <<>> /\ buf = <<>> /\ split = FALSE /\ up = FALSE /\ bad = FALSE /\ rd = NoReader
        /\ srcs = [k \in Key |-> NoId] /\ nextID = 0 /\ cur = NoKey /\ synced = 0
        /\ n = 0 /\ base = 0 /\ acked = {}
    BY DEF Init
  <1>2. Whole = <<>> /\ Stream = <<>> \o <<>>
    BY <1>1 DEF Whole, Stream
  <1>3. /\ <<>> \in Seq(Records) /\ <<>> \in Seq(Records \ {Torn}) /\ Len(<<>>) = 0
        /\ <<>> \in Seq([src : Key, n : 1 .. MaxSamples])
    BY EmptySeq
  <1>4. Stream = <<>> /\ MaxSamples \in Nat
    BY <1>2, <1>3, ConcatEmptySeq, StreamBounds
  <1>5. WriterInv
    <2>1. nextID \in Ids
      BY <1>1, IdAssumption DEF Ids
    <2>2. file \in Seq(Records) /\ buf \in Seq(Records \ {Torn}) /\ ~ split /\ split \in BOOLEAN
          /\ up \in BOOLEAN /\ bad \in BOOLEAN /\ cur \in Key \cup {NoKey}
      BY <1>1, <1>3
    <2>3. n \in 0 .. MaxSamples /\ base \in 0 .. n
      BY <1>1, <1>4
    <2>4. srcs \in [Key -> Ids \cup {NoId}]
      BY <1>1
    <2> QED BY <1>1, <2>1, <2>2, <2>3, <2>4 DEF WriterInv
  <1>6. SyncInv
    BY <1>1, <1>2, <1>3 DEF SyncInv
  <1>7. DictInv
    BY <1>1, <1>3, <1>4 DEF DictInv, Closed, Numbered
  <1>8. ReaderInv
    BY <1>1, <1>2, <1>3 DEF ReaderInv, NoReader, Readers
  <1> QED BY <1>5, <1>6, <1>7, <1>8 DEF StreamInv

LEMMA NextInv == StreamInv /\ [Next]_vars => StreamInv'
  <1> SUFFICES ASSUME StreamInv, [Next]_vars PROVE StreamInv'
    OBVIOUS
  <1>1. ASSUME NEW k \in Key, WriteSourceDef(k)
        PROVE  StreamInv'
    <2> DEFINE rec == SourceDef(nextID, k)
    <2>1. nextID \in Ids /\ nextID \in Nat /\ n \in Nat /\ n <= MaxSamples
      BY TypeOfInv, StreamBounds, IdAssumption DEF StreamInv, WriterInv, Ids
    <2>2. rec \in Records \ {Torn} /\ rec.type = "source" /\ rec.id = nextID
      <3>1. rec \in Records \ {Torn}
        BY <2>1, RecordKinds
      <3> QED BY <3>1 DEF SourceDef
    <2>3. /\ up /\ up' = up /\ n' = n /\ base' = base /\ acked' = acked /\ synced' = synced /\ rd' = rd
          /\ srcs' = [srcs EXCEPT ![k] = nextID] /\ nextID' = (nextID + 1) % IdMod
      BY <1>1 DEF WriteSourceDef
    <2>4. srcs' \in [Key -> Ids \cup {NoId}] /\ \A j \in Key : srcs'[j] = IF j = k THEN nextID ELSE srcs[j]
      BY <2>1, <2>3 DEF StreamInv, WriterInv
    <2>5. nextID' \in Ids
      <3>1. \A i \in Nat : i % IdMod \in 0 .. IdMod - 1
        BY IdAssumption
      <3> QED BY <2>1, <2>3, <3>1 DEF Ids
    <2> HIDE DEF rec
    <2>6. CASE PutOK(rec) /\ cur' = k
      <3>1. \A j \in Key : srcs'[j] # NoId => srcs[j] = srcs'[j] \/ (rec.type = "source" /\ rec.id = srcs'[j])
        BY <2>2, <2>4
      <3>2. n' = (IF rec.type = "sample" THEN n + 1 ELSE n) /\ n' <= MaxSamples
        BY <2>1, <2>2, <2>3
      <3>3. rec.type # "sample" /\ cur' \in Key \cup {NoKey}
        BY <2>2, <2>6
      <3> QED BY <2>2, <2>3, <2>4, <2>5, <2>6, <3>1, <3>2, <3>3, PutInv
    <2>7. CASE PutFails(rec) /\ cur' = NoKey
      <3>1. Drops /\ bad' /\ bad' \in BOOLEAN
        BY <2>2, <2>7, WriteErrorDrops DEF StreamInv, WriterInv, PutFails, WriteError
      <3>2. up' \in BOOLEAN /\ cur' \in Key \cup {NoKey}
        BY <2>3, <2>7 DEF StreamInv, WriterInv
      <3> QED BY <2>3, <2>4, <2>5, <3>1, <3>2, DropInv
    <2> QED BY <1>1, <2>6, <2>7 DEF WriteSourceDef, rec
  <1>2. ASSUME NEW k \in Key, WriteSample(k)
        PROVE  StreamInv'
    <2> DEFINE rec == Sample(srcs[k], k, n + 1)
    <2>1. /\ up /\ up' = up /\ base' = base /\ acked' = acked /\ synced' = synced /\ rd' = rd
          /\ srcs' = srcs /\ nextID' = nextID /\ cur' = NoKey /\ n < MaxSamples /\ srcs[k] # NoId
      BY <1>2 DEF WriteSample
    <2>2. /\ srcs[k] \in Ids /\ n + 1 \in 1 .. MaxSamples /\ n \in Nat /\ MaxSamples \in Nat
          /\ srcs' \in [Key -> Ids \cup {NoId}] /\ nextID' \in Ids /\ cur' \in Key \cup {NoKey} /\ up' \in BOOLEAN
      BY <2>1, TypeOfInv DEF StreamInv, WriterInv
    <2>3. rec \in Records \ {Torn} /\ rec.type = "sample" /\ rec.id = srcs[k] /\ rec.n = n + 1
      <3>1. rec \in Records \ {Torn}
        BY <2>2, RecordKinds
      <3> QED BY <3>1 DEF Sample
    <2> HIDE DEF rec
    <2>4. CASE PutOK(rec) /\ n' = n + 1
      <3>1. InRun(Stream, Len(Stream), rec.id)
        BY <2>1, <2>3, <2>4 DEF StreamInv, DictInv, PutOK
      <3>2. n' = (IF rec.type = "sample" THEN n + 1 ELSE n) /\ n' <= MaxSamples
        BY <2>2, <2>3, <2>4
      <3>3. \A j \in Key : srcs'[j] # NoId => srcs[j] = srcs'[j] \/ (rec.type = "source" /\ rec.id = srcs'[j])
        BY <2>1
      <3> QED BY <2>1, <2>2, <2>3, <2>4, <3>1, <3>2, <3>3, PutInv
    <2>5. CASE PutFails(rec) /\ n' = n
      <3>1. Drops /\ bad' /\ bad' \in BOOLEAN
        BY <2>3, <2>5, WriteErrorDrops DEF StreamInv, WriterInv, PutFails, WriteError
      <3> QED BY <2>1, <2>2, <2>5, <3>1, DropInv
    <2> QED BY <1>2, <2>4, <2>5 DEF WriteSample, rec
  <1>3. ASSUME Flushed \/ FlushFails, up, up' \in BOOLEAN,
               srcs' = srcs, nextID' = nextID, cur' = cur, n' = n, base' = base, rd' = rd
        PROVE  StreamInv'
    <2>1. CASE Flushed
      BY <1>3, <2>1, WrittenInv DEF Flushed
    <2>2. CASE FlushFails
      <3>1. acked' = acked /\ synced' = synced
        BY <2>2 DEF FlushFails
      <3>2. CASE \/ buf # <<>> /\ WriteError(buf)
                 \/ bad /\ UNCHANGED <<file, bad, buf, split>>
        <4>1. Drops /\ bad'
          BY <3>2, WriteErrorDrops DEF StreamInv
        <4>2. bad' \in BOOLEAN
          BY <3>2 DEF StreamInv, WriterInv, WriteError
        <4>3. srcs' \in [Key -> Ids \cup {NoId}] /\ nextID' \in Ids /\ cur' \in Key \cup {NoKey}
          BY <1>3 DEF StreamInv, WriterInv
        <4> QED BY <1>3, <3>1, <4>1, <4>2, <4>3, DropInv
      <3>3. CASE /\ ~ bad
                 /\ file' = FileAfter(buf, Len(buf), FALSE)
                 /\ buf' = <<>>
                 /\ split' = FALSE
                 /\ UNCHANGED bad
        BY <1>3, <3>1, <3>3, WrittenInv
      <3> QED BY <2>2, <3>2, <3>3 DEF FlushFails
    <2> QED BY <1>3, <2>1, <2>2
  <1>4. CASE Flush
    BY <1>3, <1>4 DEF Flush, StreamInv, WriterInv
  <1>5. CASE Close
    BY <1>3, <1>5 DEF Close
  <1>6. CASE Crash
    <2>1. Drops
      BY <1>6, WriteErrorDrops DEF Crash, Lost, StreamInv
    <2>2. /\ up' = FALSE /\ bad' = FALSE /\ srcs' = srcs /\ nextID' = nextID /\ cur' = NoKey
          /\ n' = n /\ base' = base /\ acked' = acked /\ synced' = synced /\ rd' = rd
      BY <1>6 DEF Crash, Lost
    <2>3. srcs' \in [Key -> Ids \cup {NoId}] /\ nextID' \in Ids
      BY <2>2 DEF StreamInv, WriterInv
    <2> QED BY <2>1, <2>2, <2>3, DropInv
  <1>7. CASE UNCHANGED vars
    <2>1. Whole' = Whole /\ Stream' = Stream
      BY <1>7 DEF vars, writerVars, Whole, Stream
    <2>2. WriterInv'
      BY <1>7 DEF vars, writerVars, StreamInv, WriterInv, Last
    <2>3. SyncInv'
      BY <1>7, <2>1 DEF vars, writerVars, StreamInv, SyncInv
    <2>4. DictInv'
      BY <1>7, <2>1 DEF vars, writerVars, StreamInv, DictInv
    <2>5. ReaderInv'
      BY <1>7, <2>1 DEF vars, writerVars, StreamInv, ReaderInv
    <2> QED BY <2>2, <2>3, <2>4, <2>5 DEF StreamInv
  <1> QED BY <1>1, <1>2, <1>4, <1>5, <1>6, <1>7, OpenRunInv, PowerLossInv, ReaderStepInv DEF Next, WriterStep

\* The inductive invariant: the writer, what is synced, the IDs in use and the
\* reader, over every crash, power loss and failed write.
THEOREM StreamInvariant == Spec => []StreamInv
  BY InitInv, NextInv, PTL DEF Spec

\* Every variable keeps its type.
THEOREM TypeCorrect == Spec => []TypeOK
  <1>1. StreamInv => TypeOK
    <2> SUFFICES ASSUME StreamInv PROVE TypeOK
      OBVIOUS
    <2>1. \A i \in DOMAIN file : file[i] \in Records
      <3>1. file \in Seq(Records)
        BY DEF StreamInv, WriterInv
      <3> QED BY <3>1, ElementOfSeq, LenProperties
    <2>2. \A i \in DOMAIN buf : buf[i] \in Records \ {Torn}
      <3>1. buf \in Seq(Records \ {Torn})
        BY DEF StreamInv, WriterInv
      <3> QED BY <3>1, ElementOfSeq, LenProperties
    <2>3. Len(Whole) \in Nat /\ Len(file) \in Nat /\ Len(Whole) <= Len(file)
      <3>1. IF split THEN Len(file) = Len(Whole) + 1 ELSE file = Whole
        BY StreamView DEF StreamInv
      <3> QED BY <3>1, TypeOfInv
    <2>4. synced \in 0 .. Len(file) /\ rd.pos \in 0 .. Len(file)
      BY <2>3 DEF StreamInv, SyncInv, ReaderInv
    <2>5. acked \subseteq 1 .. n /\ rd.dict \in [Ids -> Key \cup {NoKey}]
      BY DEF StreamInv, SyncInv, ReaderInv, Readers
    <2> QED BY <2>1, <2>2, <2>4, <2>5 DEF TypeOK, StreamInv, WriterInv
  <1> QED BY <1>1, StreamInvariant, PTL

\* A sample that a Flush has acknowledged stays in the file, whatever comes after.
THEOREM AckedStay == Spec => []AckedSurvive
  <1>1. StreamInv => AckedSurvive
    <2> SUFFICES ASSUME StreamInv, NEW i \in acked
                 PROVE  \E j \in DOMAIN file : file[j].type = "sample" /\ file[j].n = i
      BY DEF AckedSurvive
    <2>1. PICK j \in 1 .. synced : Stream[j].type = "sample" /\ Stream[j].n = i
      BY DEF StreamInv, SyncInv, Holds
    <2>2. j \in 1 .. Len(Whole)
      BY TypeOfInv DEF StreamInv, SyncInv
    <2>3. file[j] = Stream[j]
      BY <2>2, StreamView DEF StreamInv
    <2>4. j \in DOMAIN file
      <3>1. IF split THEN Len(file) = Len(Whole) + 1 ELSE file = Whole
        BY StreamView DEF StreamInv
      <3>2. j \in 1 .. Len(file)
        BY <2>2, <3>1, TypeOfInv
      <3> QED BY <3>2, TypeOfInv, LenProperties
    <2> QED BY <2>1, <2>3, <2>4
  <1> QED BY <1>1, StreamInvariant, PTL

\* A reader fails only where a run was cut inside a record, or at a sample that
\* is not valid UTF-8, also when the IDs wrap.
THEOREM FailsOnlyWhereTorn == Spec => []FailsOnlyAtTear
  <1>1. StreamInv => FailsOnlyAtTear
    <2> SUFFICES ASSUME StreamInv, rd.pc = "failed"
                 PROVE  \/ rd.pos + 1 < Len(file) /\ file[rd.pos + 1] = Torn
                        \/ file[rd.pos + 1] \in {Sample(id, k, i) : id \in Ids, k \in NotText, i \in 1 .. n}
      BY DEF FailsOnlyAtTear
    <2> DEFINE r == Stream[rd.pos + 1]
    <2>1. /\ rd.pos + 1 \in 1 .. Len(Whole)
          /\ \/ r = Torn /\ rd.pos + 1 < Len(file)
             \/ r.type = "sample" /\ r.src \in NotText
      BY DEF StreamInv, ReaderInv
    <2>2. file[rd.pos + 1] = r
      BY <2>1, StreamView DEF StreamInv
    <2>3. rd.pos + 1 \in 1 .. Len(Stream)
      BY <2>1, TypeOfInv
    <2>4. r \in Records
      BY <2>3, TypeOfInv, ElementOfSeq
    <2>5. r.type = "sample" => r.n \in 1 .. n
      BY <2>3 DEF StreamInv, DictInv, Numbered
    <2> HIDE DEF r
    <2>6. r.type = "sample" => r.id \in Ids /\ r = Sample(r.id, r.src, r.n)
      BY <2>4, RecordKinds
    <2> QED BY <2>1, <2>2, <2>5, <2>6
  <1> QED BY <1>1, StreamInvariant, PTL

-----------------------------------------------------------------------------
(* The samples of a sequence of records.                                   *)

Given == [src : Key, n : 1 .. MaxSamples]
AsGiven(r) == [src |-> r.src, n |-> r.n]

Take == [p \in Records \X Seq(Given) |->
            IF p[1].type = "sample" THEN Append(p[2], AsGiven(p[1])) ELSE p[2]]

LEMMA TakeFoldable == Foldable(Records, Seq(Given), <<>>, Take)
  <1>1. ASSUME NEW r \in Records, NEW out \in Seq(Given)
        PROVE  (IF r.type = "sample" THEN Append(out, AsGiven(r)) ELSE out) \in Seq(Given)
    <2>1. CASE r.type = "sample"
      <3>1. AsGiven(r) \in Given
        BY <2>1, RecordKinds DEF Given, AsGiven
      <3> QED BY <2>1, <3>1, AppendProperties
    <2> QED BY <2>1
  <1>2. <<>> \in Seq(Given)
    BY EmptySeq
  <1> QED BY <1>1, <1>2 DEF Foldable, Take

LEMMA SamplesFold ==
  ASSUME NEW q \in Seq(Records)
  PROVE  SamplesOf(q) = Fold(Take, <<>>, q)
  <1> DEFINE Body(f) == [i \in 0 .. Len(q) |->
                 IF i = 0 THEN <<>>
                 ELSE IF q[i].type = "sample" THEN Append(f[i - 1], [src |-> q[i].src, n |-> q[i].n])
                      ELSE f[i - 1]]
             upTo == CHOOSE f : f = Body(f)
  <1>1. SamplesOf(q) = upTo[Len(q)]
    BY DEF SamplesOf
  <1>2. Len(q) \in Nat /\ \A i \in 1 .. Len(q) : q[i] \in Records
    BY LenProperties, ElementOfSeq
  <1>3. PICK t \in [0 .. Len(q) -> Seq(Given)] : Through(t, q, <<>>, Take)
    BY TakeFoldable, FoldThrough
  <1>4. ASSUME NEW i \in 1 .. Len(q), NEW out \in Seq(Given)
        PROVE  Take[<<q[i], out>>] = IF q[i].type = "sample" THEN Append(out, [src |-> q[i].src, n |-> q[i].n]) ELSE out
    BY <1>2 DEF Take, AsGiven
  <1>5. t = Body(t)
    <2>1. ASSUME NEW i \in 0 .. Len(q) PROVE t[i] = Body(t)[i]
      <3>1. CASE i = 0
        BY <1>3, <3>1 DEF Through
      <3>2. CASE i # 0
        <4>1. i \in 1 .. Len(q) /\ i - 1 \in 0 .. Len(q)
          BY <1>2, <3>2
        <4>2. t[i] = Take[<<q[i], t[i - 1]>>] /\ t[i - 1] \in Seq(Given)
          BY <1>3, <4>1 DEF Through
        <4> QED BY <1>4, <3>2, <4>1, <4>2
      <3> QED BY <3>1, <3>2
    <2> QED BY <2>1
  <1>6. upTo = Body(upTo)
    <2> HIDE DEF Body
    <2> QED BY <1>5
  <1> HIDE DEF upTo
  <1>7. upTo[0] = <<>>
    <2>1. 0 \in 0 .. Len(q)
      BY <1>2
    <2> QED BY <1>6, <2>1
  <1>8. ASSUME NEW i \in 1 .. Len(q)
        PROVE  upTo[i] = IF q[i].type = "sample" THEN Append(upTo[i - 1], [src |-> q[i].src, n |-> q[i].n]) ELSE upTo[i - 1]
    <2>1. i \in 0 .. Len(q) /\ i # 0
      BY <1>2
    <2> QED BY <1>6, <2>1
  <1> HIDE DEF Body
  <1>9. \A k \in 0 .. Len(q) : upTo[k] = t[k]
    <2> DEFINE T == {k \in Nat : k <= Len(q) => upTo[k] = t[k]}
    <2>1. 0 \in T
      BY <1>3, <1>7 DEF Through
    <2>2. ASSUME NEW k \in T PROVE k + 1 \in T
      <3>1. k \in Nat /\ (k <= Len(q) => upTo[k] = t[k])
        OBVIOUS
      <3>2. ASSUME k + 1 <= Len(q) PROVE upTo[k + 1] = t[k + 1]
        <4>1. upTo[k] = t[k] /\ k \in 0 .. Len(q)
          BY <1>2, <3>1, <3>2
        <4>2. PICK i \in 1 .. Len(q) : i = k + 1 /\ i - 1 = k
          BY <1>2, <3>1, <3>2
        <4>3. t[i] = Take[<<q[i], t[k]>>] /\ t[k] \in Seq(Given)
          BY <1>3, <4>1, <4>2 DEF Through
        <4>4. upTo[i] = IF q[i].type = "sample" THEN Append(t[k], [src |-> q[i].src, n |-> q[i].n]) ELSE t[k]
          BY <1>8, <4>1, <4>2
        <4> QED BY <1>4, <4>2, <4>3, <4>4
      <3> QED BY <3>1, <3>2
    <2>3. T = Nat
      <3>1. T \in SUBSET Nat
        OBVIOUS
      <3> HIDE DEF T
      <3> QED BY <2>1, <2>2, <3>1, NatSetInduction
    <2> QED BY <1>2, <2>3
  <1>10. t[Len(q)] = Fold(Take, <<>>, q)
    BY <1>3, TakeFoldable, FoldIs
  <1> QED BY <1>1, <1>2, <1>9, <1>10

LEMMA SamplesSteps ==
  /\ SamplesOf(<<>>) = <<>>
  /\ \A q \in Seq(Records) : SamplesOf(q) \in Seq(Given)
  /\ \A q \in Seq(Records) : \A r \in Records :
        SamplesOf(Append(q, r)) = IF r.type = "sample" THEN Append(SamplesOf(q), AsGiven(r)) ELSE SamplesOf(q)
  <1>1. /\ Fold(Take, <<>>, <<>>) = <<>>
        /\ \A q \in Seq(Records) : Fold(Take, <<>>, q) \in Seq(Given)
        /\ \A q \in Seq(Records) : \A r \in Records : Fold(Take, <<>>, Append(q, r)) = Take[<<r, Fold(Take, <<>>, q)>>]
    BY TakeFoldable, FoldSteps
  <1>2. SamplesOf(<<>>) = <<>>
    BY <1>1, EmptySeq, SamplesFold
  <1>3. ASSUME NEW q \in Seq(Records) PROVE SamplesOf(q) \in Seq(Given)
    BY <1>1, SamplesFold
  <1>4. ASSUME NEW q \in Seq(Records), NEW r \in Records
        PROVE  SamplesOf(Append(q, r)) = IF r.type = "sample" THEN Append(SamplesOf(q), AsGiven(r)) ELSE SamplesOf(q)
    <2>1. Append(q, r) \in Seq(Records)
      BY AppendProperties
    <2>2. SamplesOf(Append(q, r)) = Take[<<r, SamplesOf(q)>>]
      BY <1>1, <2>1, SamplesFold
    <2>3. SamplesOf(q) \in Seq(Given)
      BY <1>3
    <2> QED BY <2>2, <2>3 DEF Take
  <1> QED BY <1>2, <1>3, <1>4

LEMMA SamplesConcat ==
  ASSUME NEW q \in Seq(Records)
  PROVE  \A p \in Seq(Records) : SamplesOf(q \o p) = SamplesOf(q) \o SamplesOf(p)
  <1> DEFINE T == {k \in Nat : \A p \in Seq(Records) : Len(p) = k => SamplesOf(q \o p) = SamplesOf(q) \o SamplesOf(p)}
  <1>1. 0 \in T
    <2> SUFFICES ASSUME NEW p \in Seq(Records), Len(p) = 0
                 PROVE  SamplesOf(q \o p) = SamplesOf(q) \o SamplesOf(p)
      OBVIOUS
    <2>1. p = <<>>
      BY EmptySeq
    <2>2. q \o <<>> = q /\ SamplesOf(q) \o <<>> = SamplesOf(q) /\ SamplesOf(<<>>) = <<>>
      BY SamplesSteps, ConcatEmptySeq
    <2> QED BY <2>1, <2>2
  <1>2. ASSUME NEW k \in T PROVE k + 1 \in T
    <2> SUFFICES ASSUME NEW p \in Seq(Records), Len(p) = k + 1
                 PROVE  SamplesOf(q \o p) = SamplesOf(q) \o SamplesOf(p)
      OBVIOUS
    <2>1. k \in Nat
      OBVIOUS
    <2>2. p # <<>>
      BY <2>1, EmptySeq
    <2>3. PICK f \in Seq(Records), r \in Records : p = Append(f, r)
      BY <2>2, SequenceEmptyOrAppend
    <2>4. Len(f) = k
      <3>1. Len(p) = Len(f) + 1 /\ Len(f) \in Nat
        BY <2>3, AppendProperties, LenProperties
      <3> QED BY <2>1, <3>1
    <2>5. SamplesOf(q \o f) = SamplesOf(q) \o SamplesOf(f)
      BY <2>4
    <2>6. q \o f \in Seq(Records) /\ q \o p = Append(q \o f, r)
      <3>1. q \o f \in Seq(Records) /\ <<r>> \in Seq(Records)
        BY ConcatProperties
      <3>2. q \o (f \o <<r>>) = (q \o f) \o <<r>>
        BY <3>1, ConcatAssociative
      <3>3. p = f \o <<r>> /\ Append(q \o f, r) = (q \o f) \o <<r>>
        BY <2>3, <3>1, AppendIsConcat
      <3> QED BY <3>1, <3>2, <3>3
    <2>7. SamplesOf(q) \in Seq(Given) /\ SamplesOf(f) \in Seq(Given)
      BY SamplesSteps
    <2>8. CASE r.type # "sample"
      <3>1. SamplesOf(p) = SamplesOf(f) /\ SamplesOf(q \o p) = SamplesOf(q \o f)
        BY <2>3, <2>6, <2>8, SamplesSteps
      <3> QED BY <2>5, <3>1
    <2>9. CASE r.type = "sample"
      <3>1. SamplesOf(p) = Append(SamplesOf(f), AsGiven(r)) /\ SamplesOf(q \o p) = Append(SamplesOf(q) \o SamplesOf(f), AsGiven(r))
        BY <2>3, <2>5, <2>6, <2>9, SamplesSteps
      <3>2. AsGiven(r) \in Given
        BY <2>9, RecordKinds DEF Given, AsGiven
      <3>3. \A s, t \in Seq(Given) : \A x \in Given : Append(s \o t, x) = s \o Append(t, x)
        <4> SUFFICES ASSUME NEW s \in Seq(Given), NEW t \in Seq(Given), NEW x \in Given
                     PROVE  Append(s \o t, x) = s \o Append(t, x)
          OBVIOUS
        <4>1. s \o t \in Seq(Given) /\ <<x>> \in Seq(Given)
          BY ConcatProperties
        <4>2. Append(s \o t, x) = (s \o t) \o <<x>> /\ Append(t, x) = t \o <<x>>
          BY <4>1, AppendIsConcat
        <4>3. (s \o t) \o <<x>> = s \o (t \o <<x>>)
          BY <4>1, ConcatAssociative
        <4> QED BY <4>2, <4>3
      <3> QED BY <2>7, <3>1, <3>2, <3>3
    <2> QED BY <2>8, <2>9
  <1>3. T = Nat
    <2>1. T \in SUBSET Nat
      OBVIOUS
    <2> HIDE DEF T
    <2> QED BY <1>1, <1>2, <2>1, NatSetInduction
  <1> QED BY <1>3, LenProperties

\* The samples among the records after the a-th, up to the b-th.
Seg(q, a, b) == SamplesOf(SubSeq(q, a + 1, b))

LEMMA SubSeqType ==
  ASSUME NEW S, NEW q \in Seq(S), NEW a \in 0 .. Len(q), NEW b \in a .. Len(q)
  PROVE  /\ SubSeq(q, a + 1, b) \in Seq(S) /\ Len(SubSeq(q, a + 1, b)) = b - a
         /\ \A i \in 1 .. b - a : SubSeq(q, a + 1, b)[i] = q[a + i]
  <1>1. Len(q) \in Nat /\ a \in Nat /\ b \in Nat /\ a <= b /\ b <= Len(q) /\ a + 1 \in Int /\ b \in Int
    BY LenProperties
  <1>2. \A i \in a + 1 .. b : q[i] \in S
    <2>1. \A i \in a + 1 .. b : i \in 1 .. Len(q)
      BY <1>1
    <2> QED BY <2>1, ElementOfSeq
  <1>3. /\ SubSeq(q, a + 1, b) \in Seq(S)
        /\ Len(SubSeq(q, a + 1, b)) = IF a + 1 <= b THEN b - (a + 1) + 1 ELSE 0
        /\ \A i \in 1 .. b - (a + 1) + 1 : SubSeq(q, a + 1, b)[i] = q[a + 1 + i - 1]
    BY <1>1, <1>2, SubSeqProperties
  <1>4. b - (a + 1) + 1 = b - a /\ (~ (a + 1 <= b) => b - a = 0) /\ \A i \in 1 .. b - a : a + 1 + i - 1 = a + i
    BY <1>1
  <1> QED BY <1>3, <1>4

LEMMA SegSplit ==
  ASSUME NEW q \in Seq(Records), NEW a \in 0 .. Len(q), NEW b \in a .. Len(q), NEW c \in b .. Len(q)
  PROVE  /\ Seg(q, a, b) \in Seq(Given) /\ Seg(q, b, c) \in Seq(Given) /\ Seg(q, a, c) \in Seq(Given)
         /\ Seg(q, a, c) = Seg(q, a, b) \o Seg(q, b, c)
  <1>1. Len(q) \in Nat /\ a \in Nat /\ b \in Nat /\ c \in Nat /\ a <= b /\ b <= c /\ c <= Len(q)
        /\ b \in 0 .. Len(q) /\ c \in a .. Len(q)
    BY LenProperties
  <1>2. SubSeq(q, a + 1, b) \in Seq(Records) /\ SubSeq(q, b + 1, c) \in Seq(Records) /\ SubSeq(q, a + 1, c) \in Seq(Records)
    BY <1>1, SubSeqType
  <1>3. SubSeq(q, a + 1, b) \o SubSeq(q, b + 1, c) = SubSeq(q, a + 1, c)
    <2>1. a + 1 \in 1 .. Len(q) + 1 /\ b \in (a + 1) - 1 .. Len(q) /\ c \in b .. Len(q)
      BY <1>1
    <2> QED BY <2>1, ConcatAdjacentSubSeq
  <1> DEFINE s == SubSeq(q, a + 1, b)
             t == SubSeq(q, b + 1, c)
  <1>4. s \in Seq(Records) /\ t \in Seq(Records) /\ s \o t = SubSeq(q, a + 1, c)
    BY <1>2, <1>3
  <1> HIDE DEF s, t
  <1>5. SamplesOf(s \o t) = SamplesOf(s) \o SamplesOf(t) /\ SamplesOf(s) \in Seq(Given) /\ SamplesOf(t) \in Seq(Given)
    BY <1>4, SamplesConcat, SamplesSteps
  <1>6. SamplesOf(SubSeq(q, a + 1, c)) \in Seq(Given)
    BY <1>2, SamplesSteps
  <1> QED BY <1>4, <1>5, <1>6 DEF Seg, s, t

LEMMA SegAgree ==
  ASSUME NEW q \in Seq(Records), NEW p \in Seq(Records), NEW a \in Nat, NEW b \in Nat,
         a <= b, b <= Len(q), b <= Len(p), \A i \in 1 .. b : p[i] = q[i]
  PROVE  SubSeq(p, a + 1, b) = SubSeq(q, a + 1, b) /\ Seg(p, a, b) = Seg(q, a, b)
  <1>1. Len(q) \in Nat /\ Len(p) \in Nat /\ a \in 0 .. Len(q) /\ a \in 0 .. Len(p) /\ b \in a .. Len(q) /\ b \in a .. Len(p)
    BY LenProperties
  <1>2. /\ SubSeq(q, a + 1, b) \in Seq(Records) /\ Len(SubSeq(q, a + 1, b)) = b - a
        /\ \A i \in 1 .. b - a : SubSeq(q, a + 1, b)[i] = q[a + i]
    BY <1>1, SubSeqType
  <1>3. /\ SubSeq(p, a + 1, b) \in Seq(Records) /\ Len(SubSeq(p, a + 1, b)) = b - a
        /\ \A i \in 1 .. b - a : SubSeq(p, a + 1, b)[i] = p[a + i]
    BY <1>1, SubSeqType
  <1>4. \A i \in 1 .. b - a : p[a + i] = q[a + i]
    <2>1. \A i \in 1 .. b - a : a + i \in 1 .. b
      BY <1>1
    <2> QED BY <2>1
  <1>5. SubSeq(p, a + 1, b) = SubSeq(q, a + 1, b)
    BY <1>2, <1>3, <1>4, SeqEqual
  <1> QED BY <1>5 DEF Seg

\* The file and the buffer as parts of the stream.
Parts(f, b, sp, w) ==
    /\ f \in Seq(Records) /\ b \in Seq(Records) /\ sp \in BOOLEAN
    /\ sp => f # <<>> /\ Last(f) = Torn
    /\ w = IF sp THEN Front(f) ELSE f

LEMMA SegView ==
  ASSUME NEW f, NEW b, NEW sp, NEW w, Parts(f, b, sp, w)
  PROVE  /\ w \in Seq(Records) /\ w \o b \in Seq(Records) /\ Len(w) \in Nat /\ Len(w) <= Len(w \o b)
         /\ SamplesOf(f) = Seg(w \o b, 0, Len(w))
         /\ SamplesOf(b) = Seg(w \o b, Len(w), Len(w \o b))
         /\ \A k \in 0 .. Len(w) : SubSeq(f, 1, k) = SubSeq(w \o b, 1, k)
  <1>0. /\ f \in Seq(Records) /\ b \in Seq(Records) /\ sp \in BOOLEAN
        /\ sp => f # <<>> /\ Last(f) = Torn
        /\ w = IF sp THEN Front(f) ELSE f
    BY DEF Parts
  <1>1. w \in Seq(Records) /\ SamplesOf(f) = SamplesOf(w)
        /\ Len(f) \in Nat /\ Len(w) \in Nat /\ Len(w) <= Len(f) /\ \A i \in 1 .. Len(w) : f[i] = w[i]
    <2>1. CASE ~ sp
      BY <1>0, <2>1, LenProperties
    <2>2. CASE sp
      <3>1. PICK g \in Seq(Records), r \in Records : f = Append(g, r)
        BY <1>0, <2>2, SequenceEmptyOrAppend
      <3>2. /\ Len(f) = Len(g) + 1 /\ Len(g) \in Nat /\ f[Len(g) + 1] = r
            /\ \A i \in 1 .. Len(g) : f[i] = g[i]
        BY <3>1, AppendProperties, LenProperties
      <3>3. r = Torn
        BY <1>0, <2>2, <3>2 DEF Last
      <3>4. w = g
        <4>1. f = g \o <<r>>
          BY <3>1, AppendIsConcat
        <4>2. Front(g \o <<r>>) = g
          BY FrontOfConcat
        <4> QED BY <1>0, <2>2, <4>1, <4>2
      <3>5. r.type # "sample"
        BY <3>3 DEF Torn
      <3>6. SamplesOf(f) = SamplesOf(g)
        BY <3>1, <3>5, SamplesSteps
      <3> QED BY <3>2, <3>4, <3>6
    <2> QED BY <1>0, <2>1, <2>2
  <1> DEFINE s == w \o b
  <1>2. /\ s \in Seq(Records) /\ Len(s) = Len(w) + Len(b) /\ Len(b) \in Nat
        /\ \A i \in 1 .. Len(w) + Len(b) : s[i] = IF i <= Len(w) THEN w[i] ELSE b[i - Len(w)]
    BY <1>0, <1>1, ConcatProperties, LenProperties
  <1> HIDE DEF s
  <1>3. \A i \in 1 .. Len(w) : s[i] = w[i] /\ s[i] = f[i]
    <2>1. \A i \in 1 .. Len(w) : i \in 1 .. Len(w) + Len(b) /\ i <= Len(w)
      BY <1>1, <1>2
    <2> QED BY <1>1, <1>2, <2>1
  <1>4. SubSeq(s, 0 + 1, Len(w)) = w
    <2>1. SubSeq(s, 0 + 1, Len(w)) = SubSeq(w, 0 + 1, Len(w))
      BY <1>0, <1>1, <1>2, <1>3, SegAgree
    <2>2. SubSeq(w, 1, Len(w)) = w /\ 0 + 1 = 1
      BY <1>1, SubSeqFull
    <2> QED BY <2>1, <2>2
  <1>5. SubSeq(s, Len(w) + 1, Len(s)) = b
    <2>1. Len(w) \in 0 .. Len(s) /\ Len(s) \in Len(w) .. Len(s) /\ Len(s) - Len(w) = Len(b)
      BY <1>1, <1>2
    <2>2. /\ SubSeq(s, Len(w) + 1, Len(s)) \in Seq(Records) /\ Len(SubSeq(s, Len(w) + 1, Len(s))) = Len(b)
          /\ \A i \in 1 .. Len(b) : SubSeq(s, Len(w) + 1, Len(s))[i] = s[Len(w) + i]
      BY <1>2, <2>1, SubSeqType
    <2>3. \A i \in 1 .. Len(b) : s[Len(w) + i] = b[i]
      <3>1. \A i \in 1 .. Len(b) : /\ Len(w) + i \in 1 .. Len(w) + Len(b) /\ ~ (Len(w) + i <= Len(w))
                                  /\ (Len(w) + i) - Len(w) = i
        BY <1>1, <1>2
      <3> QED BY <1>2, <3>1
    <2> QED BY <1>0, <2>2, <2>3, SeqEqual
  <1>6. ASSUME NEW k \in 0 .. Len(w) PROVE SubSeq(f, 1, k) = SubSeq(s, 1, k)
    <2>1. 0 \in Nat /\ k \in Nat /\ 0 <= k /\ k <= Len(s) /\ k <= Len(f) /\ 0 + 1 = 1 /\ \A i \in 1 .. k : f[i] = s[i]
      BY <1>1, <1>2, <1>3
    <2>2. SubSeq(f, 0 + 1, k) = SubSeq(s, 0 + 1, k)
      BY <1>0, <1>1, <1>2, <2>1, SegAgree
    <2> QED BY <2>1, <2>2
  <1>7. Len(w) <= Len(s)
    BY <1>1, <1>2
  <1> QED BY <1>1, <1>2, <1>4, <1>5, <1>6, <1>7 DEF Seg, s

LEMMA CutOf ==
  ASSUME NEW S, NEW s \in Seq(S), NEW t \in Seq(S)
  PROVE  /\ SubSeq(s \o t, 1, Len(s)) = s /\ SubSeq(s \o t, Len(s) + 1, Len(s \o t)) = t
         /\ Len(s) \in 0 .. Len(s \o t) /\ Len(s \o t) = Len(s) + Len(t) /\ Len(s) \in Nat /\ Len(t) \in Nat
  <1> DEFINE q == s \o t
  <1>1. /\ q \in Seq(S) /\ Len(q) = Len(s) + Len(t) /\ Len(s) \in Nat /\ Len(t) \in Nat
        /\ \A i \in 1 .. Len(s) + Len(t) : q[i] = IF i <= Len(s) THEN s[i] ELSE t[i - Len(s)]
    BY ConcatProperties, LenProperties
  <1> HIDE DEF q
  <1>2. SubSeq(q, 1, Len(s)) = s
    <2>1. Len(s) \in 0 .. Len(q)
      BY <1>1
    <2>2. /\ SubSeq(q, 1, Len(s)) \in Seq(S) /\ Len(SubSeq(q, 1, Len(s))) = Len(s)
          /\ \A i \in 1 .. Len(s) : SubSeq(q, 1, Len(s))[i] = q[i]
      BY <1>1, <2>1, PrefixProperties
    <2>3. \A i \in 1 .. Len(s) : q[i] = s[i]
      BY <1>1
    <2> QED BY <2>2, <2>3, SeqEqual
  <1>3. SubSeq(q, Len(s) + 1, Len(q)) = t
    <2>1. Len(s) \in 0 .. Len(q) /\ Len(q) \in Len(s) .. Len(q) /\ Len(q) - Len(s) = Len(t)
      BY <1>1
    <2>2. /\ SubSeq(q, Len(s) + 1, Len(q)) \in Seq(S) /\ Len(SubSeq(q, Len(s) + 1, Len(q))) = Len(t)
          /\ \A i \in 1 .. Len(t) : SubSeq(q, Len(s) + 1, Len(q))[i] = q[Len(s) + i]
      BY <1>1, <2>1, SubSeqType
    <2>3. \A i \in 1 .. Len(t) : q[Len(s) + i] = t[i]
      <3>1. \A i \in 1 .. Len(t) : /\ Len(s) + i \in 1 .. Len(s) + Len(t) /\ ~ (Len(s) + i <= Len(s))
                                  /\ (Len(s) + i) - Len(s) = i
        BY <1>1
      <3> QED BY <1>1, <3>1
    <2> QED BY <2>2, <2>3, SeqEqual
  <1>4. Len(s) \in 0 .. Len(q)
    BY <1>1
  <1> QED BY <1>1, <1>2, <1>3, <1>4 DEF q

-----------------------------------------------------------------------------
(* What the log says of a state of the stream.                             *)

LEMMA LogView ==
  ASSUME StreamInv
  PROVE  /\ SamplesOf(file) = Seg(Stream, 0, Len(Whole))
         /\ SamplesOf(buf) = Seg(Stream, Len(Whole), Len(Stream))
         /\ Len(SamplesOf(SubSeq(file, 1, synced))) = Len(Seg(Stream, 0, synced))
         /\ Stream \in Seq(Records) /\ Len(Whole) \in Nat /\ Len(Stream) \in Nat /\ Len(Whole) <= Len(Stream)
         /\ synced \in 0 .. Len(Whole)
  <1>1. /\ file \in Seq(Records) /\ buf \in Seq(Records) /\ split \in BOOLEAN
        /\ split => file # <<>> /\ Last(file) = Torn
        /\ synced \in 0 .. Len(Whole)
    BY SeqMonotonic DEF StreamInv, WriterInv, SyncInv
  <1>2. /\ SamplesOf(file) = Seg(Whole \o buf, 0, Len(Whole))
        /\ SamplesOf(buf) = Seg(Whole \o buf, Len(Whole), Len(Whole \o buf))
        /\ \A k \in 0 .. Len(Whole) : SubSeq(file, 1, k) = SubSeq(Whole \o buf, 1, k)
    <2>1. Parts(file, buf, split, Whole)
      BY <1>1 DEF Parts, Whole
    <2> QED BY <2>1, SegView
  <1>3. 0 + 1 = 1
    OBVIOUS
  <1> QED BY <1>1, <1>2, <1>3, TypeOfInv DEF Stream, Seg

LEMMA LogViewNext ==
  ASSUME StreamInv'
  PROVE  /\ SamplesOf(file') = Seg(Stream', 0, Len(Whole'))
         /\ SamplesOf(buf') = Seg(Stream', Len(Whole'), Len(Stream'))
         /\ Len(SamplesOf(SubSeq(file', 1, synced'))) = Len(Seg(Stream', 0, synced'))
         /\ Stream' \in Seq(Records) /\ Len(Whole') \in Nat /\ Len(Stream') \in Nat /\ Len(Whole') <= Len(Stream')
         /\ synced' \in 0 .. Len(Whole')
  <1>1. /\ file' \in Seq(Records) /\ buf' \in Seq(Records) /\ split' \in BOOLEAN
        /\ split' => file' # <<>> /\ Last(file') = Torn
        /\ synced' \in 0 .. Len(Whole')
    BY SeqMonotonic DEF StreamInv, WriterInv, SyncInv, Last
  <1>2. /\ SamplesOf(file') = Seg(Whole' \o buf', 0, Len(Whole'))
        /\ SamplesOf(buf') = Seg(Whole' \o buf', Len(Whole'), Len(Whole' \o buf'))
        /\ \A k \in 0 .. Len(Whole') : SubSeq(file', 1, k) = SubSeq(Whole' \o buf', 1, k)
        /\ Whole' \o buf' \in Seq(Records) /\ Len(Whole') \in Nat /\ Len(Whole') <= Len(Whole' \o buf')
    <2>1. Parts(file', buf', split', Whole')
      BY <1>1 DEF Parts, Whole
    <2> QED BY <2>1, SegView
  <1>3. 0 + 1 = 1 /\ Len(Whole' \o buf') \in Nat
    BY <1>2, LenProperties
  <1> QED BY <1>1, <1>2, <1>3 DEF Stream, Seg

-----------------------------------------------------------------------------
(* Which source a record is of.  The IDs of a run name one tuple each, so a *)
(* definition and every later record of its run with its ID agree.         *)

SameRun(q, j, i) == \A l \in j .. i : q[l].type # "header"

\* Every definition and sample of q is of the same tuple as the definitions of
\* its ID that come before it in its run.
Named(q) ==
    \A i \in 1 .. Len(q) : q[i].type \in {"source", "sample"} =>
        \A j \in 1 .. i - 1 :
            q[j].type = "source" /\ q[j].id = q[i].id /\ SameRun(q, j, i - 1) => q[j].src = q[i].src

\* The definitions of the last run of q are those of the dictionary.
Registered(q, dict) ==
    \A j \in 1 .. Len(q) : q[j].type = "source" /\ SameRun(q, j, Len(q)) => dict[q[j].src] = q[j].id

Taken(dict) == {k \in Key : dict[k] # NoId}

\* A source ID names one tuple.
OneToOne(dict) == \A k, j \in Taken(dict) : dict[k] = dict[j] => k = j

\* The IDs are given out in order: the taken ones are below the next one.
InOrder(dict, next) ==
    /\ \A k \in Taken(dict) : dict[k] < Cardinality(Taken(dict))
    /\ next = Cardinality(Taken(dict)) % IdMod
    /\ OneToOne(dict)

IdInv == InOrder(srcs, nextID)

NameInv ==
    /\ Named(Stream)
    /\ up /\ ~ bad => Registered(Stream, srcs)

\* The dictionary of a reader that is after the i-th record of q.
Reads(q, i, dict) ==
    \A j \in 1 .. i : q[j].type = "source" /\ SameRun(q, j, i) => dict[q[j].id] = q[j].src

GivenInv ==
    /\ rd.out = Seg(Stream, 0, rd.pos)
    /\ rd.pc = "first" => rd.pos = 0
    /\ rd.pc = "reading" => Reads(Stream, rd.pos, rd.dict)

LogInv == IdInv /\ NameInv /\ GivenInv

LEMMA AppendNamed ==
  ASSUME NEW q \in Seq(Records), NEW r \in Records, Named(q),
         NEW dict \in [Key -> Ids \cup {NoId}], Registered(q, dict), OneToOne(dict),
         r.type \in {"source", "sample"}, dict[r.src] = r.id
  PROVE  Named(Append(q, r)) /\ Registered(Append(q, r), dict)
  <1> DEFINE p == Append(q, r)
             m == Len(q)
  <1>1. /\ m \in Nat /\ Len(p) = m + 1 /\ p[m + 1] = r /\ \A i \in 1 .. m : p[i] = q[i] /\ q[i] \in Records
    BY AppendProperties, LenProperties, ElementOfSeq
  <1>2. r.src \in Key /\ r.id \in Ids /\ \A s \in Records : s.type = "source" => s.src \in Key /\ s.id \in Ids
    BY RecordKinds
  <1>3. NoId \notin Ids
    BY IdAssumption DEF NoId, Ids
  <1> HIDE DEF p
  <1>4. \A i \in 0 .. m : \A j \in 1 .. i : SameRun(p, j, i) <=> SameRun(q, j, i)
    BY <1>1 DEF SameRun
  <1>5. ASSUME NEW j \in 1 .. m, p[j].type = "source", SameRun(p, j, m)
        PROVE  dict[p[j].src] = p[j].id /\ p[j].src \in Taken(dict) /\ (p[j].id = r.id => p[j].src = r.src)
    <2>1. q[j].type = "source" /\ SameRun(q, j, m) /\ p[j] = q[j]
      BY <1>1, <1>4, <1>5
    <2>2. dict[q[j].src] = q[j].id
      BY <2>1 DEF Registered
    <2>3. q[j].src \in Key /\ q[j].id \in Ids
      BY <1>1, <1>2, <2>1
    <2>4. q[j].src \in Taken(dict) /\ r.src \in Taken(dict)
      BY <1>2, <1>3, <2>2, <2>3 DEF Taken
    <2> QED BY <2>1, <2>2, <2>4 DEF OneToOne
  <1>6. Named(p)
    <2> SUFFICES ASSUME NEW i \in 1 .. m + 1, p[i].type \in {"source", "sample"}, NEW j \in 1 .. i - 1,
                        p[j].type = "source", p[j].id = p[i].id, SameRun(p, j, i - 1)
                 PROVE  p[j].src = p[i].src
      BY <1>1 DEF Named
    <2>1. CASE i = m + 1
      <3>1. j \in 1 .. m /\ SameRun(p, j, m) /\ p[i] = r
        BY <1>1, <2>1
      <3> QED BY <1>5, <3>1
    <2>2. CASE i \in 1 .. m
      <3>1. i - 1 \in 0 .. m /\ j \in 1 .. m /\ p[i] = q[i] /\ p[j] = q[j]
        BY <1>1, <2>2
      <3>2. SameRun(q, j, i - 1)
        BY <1>4, <3>1
      <3> QED BY <2>2, <3>1, <3>2 DEF Named
    <2> QED BY <1>1, <2>1, <2>2
  <1>7. Registered(p, dict)
    <2> SUFFICES ASSUME NEW j \in 1 .. m + 1, p[j].type = "source", SameRun(p, j, m + 1)
                 PROVE  dict[p[j].src] = p[j].id
      BY <1>1 DEF Registered
    <2>1. CASE j = m + 1
      BY <1>1, <2>1
    <2>2. CASE j \in 1 .. m
      <3>1. SameRun(p, j, m)
        <4>1. \A l \in j .. m : l \in j .. m + 1
          BY <1>1
        <4> QED BY <4>1 DEF SameRun
      <3> QED BY <1>5, <2>2, <3>1
    <2> QED BY <1>1, <2>1, <2>2
  <1> QED BY <1>6, <1>7 DEF p

LEMMA HeaderNamed ==
  ASSUME NEW q \in Seq(Records), Named(q), NEW dict
  PROVE  Named(Append(q, Header)) /\ Registered(Append(q, Header), dict)
  <1> DEFINE p == Append(q, Header)
             m == Len(q)
  <1>1. Header \in Records /\ Header.type = "header"
    BY RecordKinds
  <1>2. /\ m \in Nat /\ Len(p) = m + 1 /\ p[m + 1] = Header /\ \A i \in 1 .. m : p[i] = q[i]
    BY <1>1, AppendProperties, LenProperties
  <1> HIDE DEF p
  <1>3. \A i \in 0 .. m : \A j \in 1 .. i : SameRun(p, j, i) <=> SameRun(q, j, i)
    BY <1>2 DEF SameRun
  <1>4. Named(p)
    <2> SUFFICES ASSUME NEW i \in 1 .. m + 1, p[i].type \in {"source", "sample"}, NEW j \in 1 .. i - 1,
                        p[j].type = "source", p[j].id = p[i].id, SameRun(p, j, i - 1)
                 PROVE  p[j].src = p[i].src
      BY <1>2 DEF Named
    <2>1. i \in 1 .. m
      BY <1>1, <1>2
    <2>2. i - 1 \in 0 .. m /\ j \in 1 .. m /\ p[i] = q[i] /\ p[j] = q[j]
      BY <1>2, <2>1
    <2>3. SameRun(q, j, i - 1)
      BY <1>3, <2>2
    <2> QED BY <2>1, <2>2, <2>3 DEF Named
  <1>5. Registered(p, dict)
    <2>1. \A j \in 1 .. m + 1 : m + 1 \in j .. m + 1
      BY <1>2
    <2> QED BY <1>1, <1>2, <2>1 DEF Registered, SameRun
  <1> QED BY <1>4, <1>5 DEF p

LEMMA CutNamed ==
  ASSUME NEW q \in Seq(Records), NEW p \in Seq(Records), NEW k \in 0 .. Len(q),
         Len(p) \in {k, k + 1}, \A i \in 1 .. k : p[i] = q[i],
         \A i \in k + 1 .. Len(p) : p[i] = Torn, Named(q)
  PROVE  Named(p)
  <1>1. Len(q) \in Nat /\ k \in Nat
    BY LenProperties
  <1>2. \A i \in 0 .. k : \A j \in 1 .. i : SameRun(p, j, i) <=> SameRun(q, j, i)
    BY <1>1 DEF SameRun
  <1>3. Torn.type = "torn"
    BY DEF Torn
  <1> SUFFICES ASSUME NEW i \in 1 .. Len(p), p[i].type \in {"source", "sample"}, NEW j \in 1 .. i - 1,
                      p[j].type = "source", p[j].id = p[i].id, SameRun(p, j, i - 1)
               PROVE  p[j].src = p[i].src
    BY DEF Named
  <1>4. i \in 1 .. k
    BY <1>1, <1>3
  <1>5. i \in 1 .. Len(q) /\ i - 1 \in 0 .. k /\ j \in 1 .. k /\ p[i] = q[i] /\ p[j] = q[j]
    BY <1>1, <1>4
  <1>6. SameRun(q, j, i - 1)
    BY <1>2, <1>5
  <1> QED BY <1>5, <1>6 DEF Named

LEMMA SegAppend ==
  ASSUME NEW q \in Seq(Records), NEW r \in Records, NEW a \in 0 .. Len(q)
  PROVE  Seg(Append(q, r), a, Len(q) + 1) =
            IF r.type = "sample" THEN Append(Seg(q, a, Len(q)), AsGiven(r)) ELSE Seg(q, a, Len(q))
  <1> DEFINE p == Append(q, r)
             m == Len(q)
             s == SubSeq(q, a + 1, m)
             t == SubSeq(p, a + 1, m + 1)
  <1>1. /\ m \in Nat /\ p \in Seq(Records) /\ Len(p) = m + 1 /\ p[m + 1] = r /\ \A i \in 1 .. m : p[i] = q[i]
    BY AppendProperties, LenProperties
  <1>2. a \in 0 .. Len(p) /\ m + 1 \in a .. Len(p) /\ m \in a .. Len(q) /\ a \in Nat
    BY <1>1
  <1>3. s \in Seq(Records) /\ Len(s) = m - a /\ \A i \in 1 .. m - a : s[i] = q[a + i]
    BY <1>2, SubSeqType
  <1> HIDE DEF p
  <1>4. t \in Seq(Records) /\ Len(t) = m + 1 - a /\ \A i \in 1 .. m + 1 - a : t[i] = p[a + i]
    BY <1>1, <1>2, SubSeqType
  <1> HIDE DEF s, t
  <1>5. /\ Append(s, r) \in Seq(Records) /\ Len(Append(s, r)) = m - a + 1 /\ Append(s, r)[m - a + 1] = r
        /\ \A i \in 1 .. m - a : Append(s, r)[i] = s[i]
    BY <1>3, AppendProperties
  <1> DEFINE u == Append(s, r)
  <1> HIDE DEF u, m
  <1>6. t = u
    <2>1. Len(t) = Len(u) /\ u \in Seq(Records)
      BY <1>1, <1>2, <1>4, <1>5 DEF u
    <2>2. ASSUME NEW i \in 1 .. Len(t) PROVE t[i] = u[i]
      <3>1. i \in 1 .. m + 1 - a /\ (i \in 1 .. m - a \/ i = m - a + 1) /\ t[i] = p[a + i]
        BY <1>1, <1>2, <1>4
      <3>2. CASE i \in 1 .. m - a
        <4>1. a + i \in 1 .. m
          BY <1>1, <1>2, <3>2
        <4> QED BY <1>1, <1>3, <1>5, <3>1, <3>2, <4>1 DEF u
      <3>3. CASE i = m - a + 1
        <4>1. a + i = m + 1
          BY <1>1, <1>2, <3>3
        <4> QED BY <1>1, <1>5, <3>1, <3>3, <4>1 DEF u
      <3> QED BY <3>1, <3>2, <3>3
    <2> QED BY <1>4, <2>1, <2>2, SeqEqual
  <1>7. SamplesOf(u) = IF r.type = "sample" THEN Append(SamplesOf(s), AsGiven(r)) ELSE SamplesOf(s)
    BY <1>3, SamplesSteps DEF u
  <1> QED BY <1>6, <1>7 DEF Seg, s, t, p, m

LEMMA SegTorn ==
  ASSUME NEW q \in Seq(Records), NEW p \in Seq(Records), NEW k \in 0 .. Len(q),
         Len(p) \in {k, k + 1}, \A i \in 1 .. k : p[i] = q[i],
         \A i \in k + 1 .. Len(p) : p[i] = Torn
  PROVE  Seg(p, 0, Len(p)) = Seg(q, 0, k)
  <1>1. Len(q) \in Nat /\ k \in Nat /\ k <= Len(q) /\ k <= Len(p) /\ 0 \in Nat /\ 0 <= k /\ Len(p) \in Nat
    BY LenProperties
  <1>2. Seg(p, 0, k) = Seg(q, 0, k)
    BY <1>1, SegAgree
  <1>3. CASE Len(p) = k
    BY <1>2, <1>3
  <1>4. CASE Len(p) = k + 1
    <2>1. p[k + 1] = Torn /\ Torn \in Records /\ Torn.type # "sample"
      <3>1. k + 1 \in k + 1 .. Len(p)
        BY <1>1, <1>4
      <3> QED BY <3>1, RecordKinds DEF Torn
    <2> DEFINE f == SubSeq(p, 1, k)
    <2>2. f \in Seq(Records) /\ Len(f) = k /\ \A i \in 1 .. k : f[i] = p[i]
      <3>1. k \in 0 .. Len(p)
        BY <1>1
      <3> QED BY <3>1, PrefixProperties
    <2>3. f = SubSeq(f, 0 + 1, k)
      BY <2>2, <1>1, SubSeqFull
    <2> HIDE DEF f
    <2>4. /\ Append(f, Torn) \in Seq(Records) /\ Len(Append(f, Torn)) = k + 1 /\ Append(f, Torn)[k + 1] = Torn
          /\ \A i \in 1 .. k : Append(f, Torn)[i] = f[i]
      BY <2>1, <2>2, AppendProperties
    <2>5. p = Append(f, Torn)
      <3>1. \A i \in 1 .. Len(p) : i \in 1 .. k \/ i = k + 1
        BY <1>1, <1>4
      <3>2. \A i \in 1 .. Len(p) : p[i] = Append(f, Torn)[i]
        BY <2>1, <2>2, <2>4, <3>1
      <3> QED BY <1>4, <2>4, <3>2, SeqEqual
    <2>6. Seg(Append(f, Torn), 0, Len(f) + 1) = Seg(f, 0, Len(f))
      <3>1. 0 \in 0 .. Len(f)
        BY <1>1, <2>2
      <3> QED BY <2>1, <2>2, <3>1, SegAppend
    <2>7. Seg(f, 0, k) = Seg(p, 0, k)
      BY <1>1, <2>2, SegAgree
    <2> QED BY <1>2, <1>4, <2>2, <2>5, <2>6, <2>7
  <1> QED BY <1>3, <1>4

-----------------------------------------------------------------------------
(* The steps of the log.                                                   *)

\* What goes from the buffer to the file is a prefix of the samples that were
\* in the buffer or came after it.
LEMMA MoveIs ==
  ASSUME NEW q \in Seq(Records), NEW a \in 0 .. Len(q), NEW b \in a .. Len(q)
  PROVE  /\ Len(Seg(q, a, b)) \in 0 .. Len(Seg(q, a, Len(q)))
         /\ SubSeq(Seg(q, a, Len(q)), 1, Len(Seg(q, a, b))) = Seg(q, a, b)
         /\ SubSeq(Seg(q, a, Len(q)), Len(Seg(q, a, b)) + 1, Len(Seg(q, a, Len(q)))) = Seg(q, b, Len(q))
         /\ Seg(q, 0, b) = Seg(q, 0, a) \o Seg(q, a, b)
  <1> DEFINE s == Seg(q, a, b)
             t == Seg(q, b, Len(q))
             m == Len(q)
  <1>1. m \in Nat /\ m \in b .. m /\ 0 \in 0 .. m /\ a \in 0 .. m /\ a \in 0 .. b /\ b \in a .. m
    BY LenProperties
  <1>2. s \in Seq(Given) /\ t \in Seq(Given) /\ Seg(q, a, m) = s \o t
    BY <1>1, SegSplit
  <1>3. Seg(q, 0, b) = Seg(q, 0, a) \o Seg(q, a, b)
    BY <1>1, SegSplit
  <1> HIDE DEF s, t, m
  <1>4. /\ SubSeq(s \o t, 1, Len(s)) = s /\ SubSeq(s \o t, Len(s) + 1, Len(s \o t)) = t
        /\ Len(s) \in 0 .. Len(s \o t)
    BY <1>2, CutOf
  <1> QED BY <1>2, <1>3, <1>4 DEF s, t, m

LEMMA PutLog ==
  ASSUME StreamInv, StreamInv', NEW rec \in Records \ {Torn}, PutOK(rec), synced' = synced, rd' = rd
  PROVE  /\ rec.type = "sample" => Log!Accept(AsGiven(rec))
         /\ rec.type # "sample" => Log!Commit
  <1> DEFINE w == Len(Whole)
             v == Len(Whole')
             m == Len(Stream)
             q == Stream'
  <1>1. q = Append(Stream, rec) /\ Grows /\ rec \in Records
    BY PutOKStep, RecordKinds DEF StreamInv
  <1>2. /\ SamplesOf(file) = Seg(Stream, 0, w) /\ SamplesOf(buf) = Seg(Stream, w, m)
        /\ Len(SamplesOf(SubSeq(file, 1, synced))) = Len(Seg(Stream, 0, synced))
        /\ Stream \in Seq(Records) /\ w \in Nat /\ m \in Nat /\ w <= m /\ synced \in 0 .. w
    BY LogView
  <1>3. /\ SamplesOf(file') = Seg(q, 0, v) /\ SamplesOf(buf') = Seg(q, v, Len(q))
        /\ Len(SamplesOf(SubSeq(file', 1, synced'))) = Len(Seg(q, 0, synced'))
        /\ q \in Seq(Records) /\ v \in Nat /\ v <= Len(q)
    BY LogViewNext
  <1>4. w <= v /\ Len(q) = m + 1 /\ \A i \in 1 .. m : q[i] = Stream[i]
    BY <1>1, <1>2, AppendProperties DEF Grows
  <1> HIDE DEF w, v, m, q
  <1>5. Seg(q, 0, w) = Seg(Stream, 0, w) /\ Seg(q, 0, synced) = Seg(Stream, 0, synced)
    <2>1. \A k \in 0 .. w : 0 \in Nat /\ k \in Nat /\ 0 <= k /\ k <= m /\ k <= Len(q) /\ \A i \in 1 .. k : i \in 1 .. m
      BY <1>2, <1>4
    <2>2. \A k \in 0 .. w : Seg(q, 0, k) = Seg(Stream, 0, k)
      BY <1>2, <1>3, <1>4, <2>1, SegAgree DEF m
    <2> QED BY <1>2, <2>2
  <1>6. Seg(q, w, Len(q)) = IF rec.type = "sample" THEN Append(Seg(Stream, w, m), AsGiven(rec)) ELSE Seg(Stream, w, m)
    <2>1. w \in 0 .. Len(Stream)
      BY <1>2 DEF m
    <2>2. Seg(Append(Stream, rec), w, Len(Stream) + 1) =
             IF rec.type = "sample" THEN Append(Seg(Stream, w, Len(Stream)), AsGiven(rec)) ELSE Seg(Stream, w, Len(Stream))
      BY <1>1, <1>2, <2>1, SegAppend
    <2> QED BY <1>1, <1>4, <2>2 DEF m
  <1>7. PICK c \in 0 .. Len(Seg(q, w, Len(q))) :
          /\ SubSeq(Seg(q, w, Len(q)), 1, c) = Seg(q, w, v)
          /\ SubSeq(Seg(q, w, Len(q)), c + 1, Len(Seg(q, w, Len(q)))) = Seg(q, v, Len(q))
          /\ Seg(q, 0, v) = Seg(q, 0, w) \o Seg(q, w, v)
    <2>1. w \in 0 .. Len(q) /\ v \in w .. Len(q)
      BY <1>2, <1>3, <1>4
    <2> QED BY <1>3, <2>1, MoveIs
  <1>8. CASE rec.type = "sample"
    <2> DEFINE b == Append(SamplesOf(buf), AsGiven(rec))
    <2>1. b = Seg(q, w, Len(q)) /\ Len(b) = Len(SamplesOf(buf)) + 1
      <3>1. SamplesOf(buf) \in Seq(Given) /\ AsGiven(rec) \in Given
        <4>1. buf \in Seq(Records)
          BY SeqMonotonic DEF StreamInv, WriterInv
        <4> QED BY <1>1, <1>8, <4>1, SamplesSteps, RecordKinds DEF Given, AsGiven
      <3> QED BY <1>2, <1>6, <1>8, <3>1, AppendProperties
    <2> HIDE DEF b
    <2>2. /\ SamplesOf(file') = SamplesOf(file) \o SubSeq(b, 1, c)
          /\ SamplesOf(buf') = SubSeq(b, c + 1, Len(b))
          /\ c \in 0 .. Len(SamplesOf(buf)) + 1
          /\ Len(SamplesOf(SubSeq(file', 1, synced'))) = Len(SamplesOf(SubSeq(file, 1, synced)))
          /\ rd'.out = rd.out
      BY <1>2, <1>3, <1>5, <1>7, <2>1
    <2> QED BY <1>8, <2>2 DEF Log!Accept, Log!Move, b
  <1>9. CASE rec.type # "sample"
    <2> DEFINE b == SamplesOf(buf)
    <2>1. b = Seg(q, w, Len(q))
      BY <1>2, <1>6, <1>9
    <2> HIDE DEF b
    <2>2. /\ SamplesOf(file') = SamplesOf(file) \o SubSeq(b, 1, c)
          /\ SamplesOf(buf') = SubSeq(b, c + 1, Len(b))
          /\ c \in 0 .. Len(b)
          /\ Len(SamplesOf(SubSeq(file', 1, synced'))) = Len(SamplesOf(SubSeq(file, 1, synced)))
          /\ rd'.out = rd.out
      BY <1>2, <1>3, <1>5, <1>7, <2>1
    <2> QED BY <1>9, <2>2 DEF Log!Commit, Log!Move, b
  <1> QED BY <1>8, <1>9

\* The prefixes of the stream as prefixes of the samples.
LEMMA PrefixIs ==
  ASSUME NEW q \in Seq(Records), NEW a \in 0 .. Len(q), NEW b \in a .. Len(q)
  PROVE  /\ Len(Seg(q, 0, a)) \in Nat /\ Len(Seg(q, 0, b)) \in Nat /\ Len(Seg(q, 0, a)) <= Len(Seg(q, 0, b))
         /\ SubSeq(Seg(q, 0, b), 1, Len(Seg(q, 0, a))) = Seg(q, 0, a)
  <1> DEFINE s == Seg(q, 0, a)
             t == Seg(q, a, b)
  <1>1. a \in 0 .. Len(q) /\ 0 \in 0 .. Len(q) /\ b \in a .. Len(q)
    BY LenProperties
  <1>2. s \in Seq(Given) /\ t \in Seq(Given) /\ Seg(q, 0, b) = s \o t
    BY <1>1, SegSplit
  <1> HIDE DEF s, t
  <1>3. /\ SubSeq(s \o t, 1, Len(s)) = s /\ Len(s) \in Nat /\ Len(t) \in Nat /\ Len(s \o t) = Len(s) + Len(t)
    BY <1>2, CutOf
  <1>4. Len(s \o t) \in Nat /\ Len(s) <= Len(s \o t)
    BY <1>3
  <1> QED BY <1>2, <1>3, <1>4 DEF s

LEMMA WrittenLog ==
  ASSUME StreamInv, StreamInv', file' = FileAfter(buf, Len(buf), FALSE), buf' = <<>>, split' = FALSE,
         rd' = rd, synced' = synced \/ synced' = Len(file')
  PROVE  Log!Commit \/ Log!Persist
  <1> DEFINE w == Len(Whole)
             m == Len(Stream)
  <1>1. file' = Stream /\ Whole' = Stream /\ Stream' = Stream
    BY WrittenStep DEF StreamInv
  <1>2. /\ SamplesOf(file) = Seg(Stream, 0, w) /\ SamplesOf(buf) = Seg(Stream, w, m)
        /\ Len(SamplesOf(SubSeq(file, 1, synced))) = Len(Seg(Stream, 0, synced))
        /\ Stream \in Seq(Records) /\ w \in Nat /\ m \in Nat /\ w <= m
    BY LogView
  <1>3. /\ SamplesOf(file') = Seg(Stream, 0, m) /\ SamplesOf(buf') = <<>>
        /\ Len(SamplesOf(SubSeq(file', 1, synced'))) = Len(Seg(Stream, 0, synced'))
    BY <1>1, LogViewNext, SamplesSteps
  <1>4. /\ Len(Seg(Stream, w, m)) \in 0 .. Len(Seg(Stream, w, m))
        /\ SubSeq(Seg(Stream, w, m), 1, Len(Seg(Stream, w, m))) = Seg(Stream, w, m)
        /\ SubSeq(Seg(Stream, w, m), Len(Seg(Stream, w, m)) + 1, Len(Seg(Stream, w, m))) = Seg(Stream, m, m)
        /\ Seg(Stream, 0, m) = Seg(Stream, 0, w) \o Seg(Stream, w, m)
    <2>1. w \in 0 .. Len(Stream) /\ m \in w .. Len(Stream)
      BY <1>2
    <2> QED BY <1>2, <2>1, MoveIs
  <1>5. SamplesOf(buf') = Seg(Stream, m, m)
    BY <1>1, LogViewNext
  <1> HIDE DEF w, m
  <1>6. SamplesOf(file') = SamplesOf(file) \o SamplesOf(buf)
    BY <1>2, <1>3, <1>4
  <1>7. CASE synced' = synced
    <2> DEFINE b == SamplesOf(buf)
    <2>1. SubSeq(b, 1, Len(b)) = b /\ SubSeq(b, Len(b) + 1, Len(b)) = SamplesOf(buf') /\ Len(b) \in 0 .. Len(b)
      BY <1>2, <1>4, <1>5
    <2> HIDE DEF b
    <2>2. /\ SamplesOf(file') = SamplesOf(file) \o SubSeq(b, 1, Len(b)) /\ Len(b) \in 0 .. Len(b)
          /\ SamplesOf(buf') = SubSeq(b, Len(b) + 1, Len(b))
          /\ Len(SamplesOf(SubSeq(file', 1, synced'))) = Len(SamplesOf(SubSeq(file, 1, synced)))
          /\ rd'.out = rd.out
      BY <1>2, <1>3, <1>6, <1>7, <2>1 DEF b
    <2> QED BY <2>2 DEF Log!Commit, Log!Move, b
  <1>8. CASE synced' = Len(file')
    <2>1. Len(SamplesOf(SubSeq(file', 1, synced'))) = Len(SamplesOf(file'))
      BY <1>1, <1>3, <1>8 DEF m
    <2> QED BY <1>3, <1>6, <2>1 DEF Log!Persist
  <1> QED BY <1>7, <1>8

LEMMA DropLog ==
  ASSUME StreamInv, StreamInv', Drops, rd' = rd, synced' = synced
  PROVE  Log!Drop
  <1> DEFINE w == Len(Whole)
             m == Len(Stream)
  <1>1. file' \in Seq(Records) /\ Whole' = file' /\ Stream' = file' /\ Grows /\ buf' = <<>>
    BY DropsStep DEF StreamInv, Drops
  <1>2. PICK k \in w .. m :
               /\ Len(file') \in {k, k + 1}
               /\ \A i \in 1 .. k : file'[i] = Stream[i]
               /\ \A i \in k + 1 .. Len(file') : file'[i] = Torn
    BY DropsStep DEF StreamInv
  <1>3. /\ SamplesOf(file) = Seg(Stream, 0, w) /\ SamplesOf(buf) = Seg(Stream, w, m)
        /\ Len(SamplesOf(SubSeq(file, 1, synced))) = Len(Seg(Stream, 0, synced))
        /\ Stream \in Seq(Records) /\ w \in Nat /\ m \in Nat /\ w <= m /\ synced \in 0 .. w
    BY LogView
  <1>4. /\ SamplesOf(file') = Seg(file', 0, Len(file')) /\ SamplesOf(buf') = <<>>
        /\ Len(SamplesOf(SubSeq(file', 1, synced'))) = Len(Seg(file', 0, synced))
    BY <1>1, LogViewNext, SamplesSteps
  <1>5. k \in 0 .. Len(Stream) /\ k \in Nat /\ w \in 0 .. Len(Stream) /\ k \in w .. Len(Stream)
    BY <1>2, <1>3
  <1>6. SamplesOf(file') = Seg(Stream, 0, k)
    BY <1>1, <1>2, <1>3, <1>4, <1>5, SegTorn
  <1>7. Seg(file', 0, synced) = Seg(Stream, 0, synced)
    <2>1. 0 \in Nat /\ synced \in Nat /\ 0 <= synced /\ synced <= Len(Stream) /\ synced <= Len(file')
          /\ \A i \in 1 .. synced : i \in 1 .. k
      BY <1>2, <1>3, <1>5
    <2> QED BY <1>1, <1>2, <1>3, <2>1, SegAgree
  <1>8. /\ Len(Seg(Stream, w, k)) \in 0 .. Len(Seg(Stream, w, m))
        /\ SubSeq(Seg(Stream, w, m), 1, Len(Seg(Stream, w, k))) = Seg(Stream, w, k)
        /\ Seg(Stream, 0, k) = Seg(Stream, 0, w) \o Seg(Stream, w, k)
    BY <1>3, <1>5, MoveIs
  <1> HIDE DEF w, m
  <1> DEFINE c == Len(Seg(Stream, w, k))
  <1>9. /\ c \in 0 .. Len(SamplesOf(buf))
        /\ SamplesOf(file') = SamplesOf(file) \o SubSeq(SamplesOf(buf), 1, c)
        /\ SamplesOf(buf') = <<>> /\ rd'.out = rd.out
        /\ Len(SamplesOf(SubSeq(file', 1, synced'))) = Len(SamplesOf(SubSeq(file, 1, synced)))
    BY <1>3, <1>4, <1>6, <1>7, <1>8
  <1> HIDE DEF c
  <1> QED BY <1>9 DEF Log!Drop

LEMMA OpenRunLog ==
  ASSUME StreamInv, OpenRun
  PROVE  UNCHANGED <<SamplesOf(file), SamplesOf(buf), Len(SamplesOf(SubSeq(file, 1, synced))), rd.out>>
  <1>1. file' = file /\ synced' = synced /\ rd' = rd /\ ~ up /\ buf' = <<Header>>
    BY DEF OpenRun
  <1>2. buf = <<>>
    BY <1>1 DEF StreamInv, WriterInv
  <1>3. PICK q \in Seq(Records) : q = <<>>
    BY EmptySeq
  <1>4. Header \in Records /\ Header.type # "sample"
    BY RecordKinds DEF Header
  <1>5. SamplesOf(Append(q, Header)) = SamplesOf(q)
    BY <1>4, SamplesSteps
  <1>6. Append(q, Header) = <<Header>>
    BY <1>3
  <1> QED BY <1>1, <1>2, <1>3, <1>5, <1>6

LEMMA PowerLossLog ==
  ASSUME StreamInv, StreamInv', PowerLoss
  PROVE  Log!PowerLoss
  <1> DEFINE w == Len(Whole)
  <1>1. buf' = <<>> /\ synced' = synced /\ rd' = NoReader
    BY DEF PowerLoss, Lost
  <1>2. file' \in Seq(Records) /\ Whole' = file' /\ Stream' = file'
    BY PowerLossStep DEF StreamInv, SyncInv
  <1>3. PICK k \in synced .. w :
               /\ Len(file') \in {k, k + 1}
               /\ \A i \in 1 .. k : file'[i] = Stream[i]
               /\ \A i \in k + 1 .. Len(file') : file'[i] = Torn
    BY PowerLossStep DEF StreamInv, SyncInv
  <1>4. /\ SamplesOf(file) = Seg(Stream, 0, w)
        /\ Len(SamplesOf(SubSeq(file, 1, synced))) = Len(Seg(Stream, 0, synced))
        /\ Stream \in Seq(Records) /\ w \in Nat /\ Len(Stream) \in Nat /\ w <= Len(Stream) /\ synced \in 0 .. w
    BY LogView
  <1>5. /\ SamplesOf(file') = Seg(file', 0, Len(file')) /\ SamplesOf(buf') = <<>>
        /\ Len(SamplesOf(SubSeq(file', 1, synced'))) = Len(Seg(file', 0, synced))
    BY <1>1, <1>2, LogViewNext, SamplesSteps
  <1>6. k \in 0 .. Len(Stream) /\ k \in Nat /\ w \in k .. Len(Stream) /\ synced \in 0 .. Len(Stream) /\ k \in synced .. Len(Stream)
    BY <1>3, <1>4
  <1>7. SamplesOf(file') = Seg(Stream, 0, k)
    BY <1>2, <1>3, <1>4, <1>5, <1>6, SegTorn
  <1>8. Seg(file', 0, synced) = Seg(Stream, 0, synced)
    <2>1. 0 \in Nat /\ synced \in Nat /\ 0 <= synced /\ synced <= Len(Stream) /\ synced <= Len(file')
          /\ \A i \in 1 .. synced : i \in 1 .. k
      BY <1>3, <1>4, <1>6
    <2> QED BY <1>2, <1>3, <1>4, <2>1, SegAgree
  <1>9. /\ Len(Seg(Stream, 0, k)) \in Nat /\ Len(Seg(Stream, 0, w)) \in Nat /\ Len(Seg(Stream, 0, k)) <= Len(Seg(Stream, 0, w))
        /\ SubSeq(Seg(Stream, 0, w), 1, Len(Seg(Stream, 0, k))) = Seg(Stream, 0, k)
    BY <1>4, <1>6, PrefixIs
  <1>10. Len(Seg(Stream, 0, synced)) \in Nat /\ Len(Seg(Stream, 0, synced)) <= Len(Seg(Stream, 0, k))
    BY <1>4, <1>6, PrefixIs
  <1> HIDE DEF w
  <1> DEFINE c == Len(Seg(Stream, 0, k))
  <1>11. /\ c \in Len(SamplesOf(SubSeq(file, 1, synced))) .. Len(SamplesOf(file))
         /\ SamplesOf(file') = SubSeq(SamplesOf(file), 1, c)
    <2>1. c \in Len(Seg(Stream, 0, synced)) .. Len(Seg(Stream, 0, w))
      BY <1>9, <1>10
    <2> QED BY <1>4, <1>7, <1>9, <2>1
  <1>12. /\ SamplesOf(buf') = <<>> /\ rd'.out = <<>>
         /\ Len(SamplesOf(SubSeq(file', 1, synced'))) = Len(SamplesOf(SubSeq(file, 1, synced)))
    BY <1>1, <1>4, <1>5, <1>8 DEF NoReader
  <1> HIDE DEF c
  <1> QED BY <1>11, <1>12 DEF Log!PowerLoss

-----------------------------------------------------------------------------
(* The invariant is kept.                                                  *)

LEMMA GrowsGiven ==
  ASSUME StreamInv, StreamInv', GivenInv, Grows, rd' = rd
  PROVE  GivenInv'
  <1>1. /\ Stream \in Seq(Records) /\ Len(Whole) \in Nat /\ Len(Whole) <= Len(Stream) /\ Len(Stream) \in Nat
        /\ Stream' \in Seq(Records) /\ Len(Whole') \in Nat /\ Len(Whole') <= Len(Stream') /\ Len(Stream') \in Nat
    BY LogView, LogViewNext
  <1>2. rd.pos \in Nat /\ rd.pos <= Len(Whole) /\ rd.pos <= Len(Stream) /\ rd.pos <= Len(Stream')
        /\ \A i \in 1 .. rd.pos : Stream'[i] = Stream[i]
    BY <1>1 DEF Grows, StreamInv, ReaderInv
  <1>3. Seg(Stream', 0, rd.pos) = Seg(Stream, 0, rd.pos)
    <2>1. 0 \in Nat /\ 0 <= rd.pos
      BY <1>2
    <2> QED BY <1>1, <1>2, <2>1, SegAgree
  <1>4. rd.pc = "reading" => Reads(Stream', rd.pos, rd.dict)
    <2>1. \A j \in 1 .. rd.pos : SameRun(Stream', j, rd.pos) <=> SameRun(Stream, j, rd.pos)
      BY <1>2 DEF SameRun
    <2> QED BY <1>2, <2>1 DEF GivenInv, Reads
  <1> QED BY <1>3, <1>4 DEF GivenInv

\* The reader passes one more record.
LEMMA OneMore ==
  ASSUME NEW q \in Seq(Records), NEW i \in Nat, i + 1 \in 1 .. Len(q)
  PROVE  /\ Seg(q, 0, i) \in Seq(Given)
         /\ q[i + 1].type # "sample" => Seg(q, 0, i + 1) = Seg(q, 0, i)
         /\ q[i + 1].type = "sample" => Seg(q, 0, i + 1) = Append(Seg(q, 0, i), AsGiven(q[i + 1]))
         /\ \A j \in 1 .. i + 1 : SameRun(q, j, i + 1) =>
               q[i + 1].type # "header" /\ (j = i + 1 \/ (j \in 1 .. i /\ SameRun(q, j, i)))
  <1> DEFINE f == SubSeq(q, 1, i)
             r == q[i + 1]
  <1>1. i \in 0 .. Len(q) /\ r \in Records /\ 0 + 1 = 1 /\ Len(q) \in Nat
    BY LenProperties, ElementOfSeq
  <1>2. f \in Seq(Records) /\ Len(f) = i /\ \A j \in 1 .. i : f[j] = q[j]
    BY <1>1, PrefixProperties
  <1>3. Seg(q, 0, i) = SamplesOf(f) /\ Seg(q, 0, i) \in Seq(Given)
    BY <1>1, <1>2, SamplesSteps DEF Seg
  <1> HIDE DEF f, r
  <1>4. /\ Append(f, r) \in Seq(Records) /\ Len(Append(f, r)) = i + 1 /\ Append(f, r)[i + 1] = r
        /\ \A j \in 1 .. i : Append(f, r)[j] = f[j]
    BY <1>1, <1>2, AppendProperties
  <1>5. SubSeq(q, 1, i + 1) = Append(f, r)
    <2> DEFINE g == SubSeq(q, 1, i + 1)
               h == Append(f, r)
    <2>1. i + 1 \in 0 .. Len(q)
      BY <1>1
    <2>2. g \in Seq(Records) /\ Len(g) = i + 1 /\ \A j \in 1 .. i + 1 : g[j] = q[j]
      BY <2>1, PrefixProperties
    <2>3. h \in Seq(Records) /\ Len(h) = i + 1 /\ h[i + 1] = r /\ \A j \in 1 .. i : h[j] = q[j]
      BY <1>2, <1>4
    <2> HIDE DEF g, h
    <2>4. \A j \in 1 .. i + 1 : j \in 1 .. i \/ j = i + 1
      OBVIOUS
    <2>5. \A j \in 1 .. Len(g) : g[j] = h[j]
      BY <2>2, <2>3, <2>4 DEF r
    <2>6. g = h
      BY <2>2, <2>3, <2>5, SeqEqual
    <2> QED BY <2>6 DEF g, h
  <1>6. Seg(q, 0, i + 1) = SamplesOf(Append(f, r))
    BY <1>1, <1>5 DEF Seg
  <1>7. SamplesOf(Append(f, r)) = IF r.type = "sample" THEN Append(SamplesOf(f), AsGiven(r)) ELSE SamplesOf(f)
    BY <1>1, <1>2, SamplesSteps
  <1>8. ASSUME NEW j \in 1 .. i + 1, SameRun(q, j, i + 1)
        PROVE  r.type # "header" /\ (j = i + 1 \/ (j \in 1 .. i /\ SameRun(q, j, i)))
    <2>1. i + 1 \in j .. i + 1 /\ \A l \in j .. i : l \in j .. i + 1
      OBVIOUS
    <2> QED BY <1>8, <2>1 DEF SameRun, r
  <1> QED BY <1>3, <1>6, <1>7, <1>8 DEF r

LEMMA ReaderSpot ==
  ASSUME StreamInv, NEW type \in {"source", "sample", "header"}, AtRecord(type)
  PROVE  /\ rd.pc = "reading" /\ rd.pos \in Nat /\ rd.pos + 1 \in 1 .. Len(Whole) /\ rd.pos + 1 \in 1 .. Len(Stream)
         /\ file[rd.pos + 1] = Stream[rd.pos + 1] /\ Stream[rd.pos + 1] \in Records /\ Stream[rd.pos + 1].type = type
  <1>1. /\ Stream \in Seq(Records) /\ Len(Stream) \in Nat /\ Len(Whole) \in Nat /\ Len(Whole) <= Len(Stream)
        /\ rd.pos \in Nat /\ Len(file) \in Nat
    BY TypeOfInv DEF StreamInv, ReaderInv, Readers
  <1>2. /\ \A i \in 1 .. Len(Whole) : Stream[i] = Whole[i] /\ file[i] = Whole[i]
        /\ IF split THEN Len(file) = Len(Whole) + 1 /\ file[Len(file)] = Torn ELSE file = Whole
    BY StreamView DEF StreamInv
  <1>3. rd.pc = "reading" /\ rd.pos + 1 \in 1 .. Len(file) /\ file[rd.pos + 1].type = type
    BY <1>1 DEF AtRecord
  <1>4. Torn.type # type
    BY DEF Torn
  <1>5. rd.pos + 1 \in 1 .. Len(Whole)
    BY <1>1, <1>2, <1>3, <1>4
  <1>6. rd.pos + 1 \in 1 .. Len(Stream)
    BY <1>1, <1>5
  <1> QED BY <1>1, <1>2, <1>3, <1>5, <1>6, ElementOfSeq

LEMMA ReaderLog ==
  ASSUME StreamInv, StreamInv', NameInv, GivenInv, ReaderStep
  PROVE  GivenInv' /\ (Log!Give \/ Log!Reopen \/ (rd'.out = rd.out))
  <1>1. UNCHANGED <<file, synced, writerVars>>
    BY DEF ReaderStep, OpenReader, ReadHeader, ReadEOF, ReadTorn, ReadSourceDef, ReadSample, ReadNextHeader
  <1>2. Whole' = Whole /\ Stream' = Stream /\ file' = file /\ buf' = buf /\ synced' = synced
    BY <1>1 DEF Whole, Stream, writerVars
  <1>3. /\ Stream \in Seq(Records) /\ Len(Stream) \in Nat /\ Len(Whole) \in Nat /\ Len(Whole) <= Len(Stream)
        /\ rd \in Readers /\ rd.pos \in Nat /\ SamplesOf(file) = Seg(Stream, 0, Len(Whole))
    BY LogView DEF StreamInv, ReaderInv, Readers
  <1>4. rd.out = Seg(Stream, 0, rd.pos)
    BY DEF GivenInv
  <1>5. Seg(Stream, 0, 0) = <<>>
    <2>1. SubSeq(Stream, 0 + 1, 0) = <<>>
      BY <1>3, SubSeqEmpty
    <2> QED BY <2>1, SamplesSteps DEF Seg
  <1>6. SUFFICES /\ rd'.out = Seg(Stream, 0, rd'.pos)
                 /\ rd'.pc = "first" => rd'.pos = 0
                 /\ rd'.pc = "reading" => Reads(Stream, rd'.pos, rd'.dict)
                 /\ Log!Give \/ Log!Reopen \/ (rd'.out = rd.out)
    BY <1>2 DEF GivenInv
  <1>7. CASE OpenReader
    <2>1. rd' = [pc |-> "first", pos |-> 0, dict |-> NoReader.dict, out |-> <<>>]
      BY <1>7 DEF OpenReader, NoReader
    <2>2. Log!Reopen
      BY <1>2, <2>1 DEF Log!Reopen
    <2> QED BY <1>5, <2>1, <2>2
  <1>8. CASE ReadHeader
    <2>1. rd.pc = "first" /\ rd.pos = 0 /\ rd.out = Seg(Stream, 0, 0)
      BY <1>4, <1>8 DEF ReadHeader, GivenInv
    <2>2. CASE file # <<>> /\ Head(file) = Header
      <3>1. rd' = [rd EXCEPT !.pc = "reading", !.pos = 1]
        BY <1>8, <2>2 DEF ReadHeader
      <3>2. rd'.out = rd.out /\ rd'.pos = 1 /\ rd'.pc = "reading"
        BY <1>3, <3>1 DEF Readers
      <3>3. Header.type = "header" /\ Header # Torn
        BY RecordKinds DEF Header, Torn
      <3>4. 1 \in 1 .. Len(Stream) /\ Stream[1] = Header
        <4>1. file \in Seq(Records) /\ Len(file) \in Nat
          BY TypeOfInv
        <4>2. 1 \in 1 .. Len(file) /\ file[1] = Header
          BY <2>2, <4>1, EmptySeq
        <4>3. /\ \A i \in 1 .. Len(Whole) : Stream[i] = Whole[i] /\ file[i] = Whole[i]
              /\ IF split THEN Len(file) = Len(Whole) + 1 /\ file[Len(file)] = Torn ELSE file = Whole
          BY StreamView DEF StreamInv
        <4>4. 1 \in 1 .. Len(Whole)
          BY <1>3, <3>3, <4>1, <4>2, <4>3
        <4> QED BY <1>3, <4>2, <4>3, <4>4
      <3>5. Stream[0 + 1].type # "sample" /\ 0 + 1 \in 1 .. Len(Stream) /\ 0 \in Nat /\ 0 + 1 = 1
        BY <3>3, <3>4
      <3>6. Seg(Stream, 0, 0 + 1) = Seg(Stream, 0, 0)
        BY <1>3, <3>5, OneMore
      <3>7. \A j \in 1 .. 1 : Stream[j].type # "source"
        BY <3>3, <3>4
      <3> QED BY <2>1, <3>2, <3>5, <3>6, <3>7 DEF Reads
    <2>3. CASE ~ (file # <<>> /\ Head(file) = Header)
      <3>1. rd' = [rd EXCEPT !.pc = "rejected"]
        BY <1>8, <2>3 DEF ReadHeader
      <3> QED BY <1>3, <1>4, <3>1 DEF Readers
    <2> QED BY <2>2, <2>3
  <1>9. CASE ReadEOF
    <2>1. rd' = [rd EXCEPT !.pc = "eof"]
      BY <1>9 DEF ReadEOF
    <2> QED BY <1>3, <1>4, <2>1 DEF Readers
  <1>10. CASE ReadTorn
    <2>1. PICK pc \in {"failed", "eof"} : rd' = [rd EXCEPT !.pc = pc]
      BY <1>10 DEF ReadTorn
    <2> QED BY <1>3, <1>4, <2>1 DEF Readers
  <1>11. CASE ReadSourceDef
    <2> DEFINE def == file[rd.pos + 1]
    <2>1. AtRecord("source")
      BY <1>11 DEF ReadSourceDef
    <2>2. /\ rd.pc = "reading" /\ rd.pos + 1 \in 1 .. Len(Stream)
          /\ def = Stream[rd.pos + 1] /\ def \in Records /\ def.type = "source"
      BY <2>1, ReaderSpot
    <2>3. def.id \in Ids /\ def.src \in Key
      BY <2>2, RecordKinds
    <2>4. rd' = [rd EXCEPT !.pos = @ + 1, !.dict[def.id] = def.src]
      BY <1>11 DEF ReadSourceDef
    <2> HIDE DEF def
    <2>5. /\ rd'.pos = rd.pos + 1 /\ rd'.pc = "reading" /\ rd'.out = rd.out
          /\ rd'.dict = [rd.dict EXCEPT ![def.id] = def.src] /\ rd.dict \in [Ids -> Key \cup {NoKey}]
      <3>1. rd = [pc |-> rd.pc, pos |-> rd.pos, dict |-> rd.dict, out |-> rd.out] /\ rd.dict \in [Ids -> Key \cup {NoKey}]
        BY <1>3 DEF Readers
      <3>2. rd' = [pc |-> rd.pc, pos |-> rd.pos + 1, dict |-> [rd.dict EXCEPT ![def.id] = def.src], out |-> rd.out]
        BY <2>4, <3>1
      <3> QED BY <2>2, <3>1, <3>2
    <2>6. /\ Seg(Stream, 0, rd.pos + 1) = Seg(Stream, 0, rd.pos)
          /\ \A j \in 1 .. rd.pos + 1 : SameRun(Stream, j, rd.pos + 1) =>
               j = rd.pos + 1 \/ (j \in 1 .. rd.pos /\ SameRun(Stream, j, rd.pos))
      BY <1>3, <2>2, OneMore
    <2>7. ASSUME NEW j \in 1 .. rd.pos + 1, Stream[j].type = "source", SameRun(Stream, j, rd.pos + 1)
          PROVE  rd'.dict[Stream[j].id] = Stream[j].src
      <3>1. CASE j = rd.pos + 1
        BY <2>2, <2>3, <2>5, <3>1
      <3>2. CASE j \in 1 .. rd.pos /\ SameRun(Stream, j, rd.pos)
        <4>1. rd.dict[Stream[j].id] = Stream[j].src
          BY <2>2, <2>7, <3>2 DEF GivenInv, Reads
        <4>2. Stream[j].id = def.id => Stream[j].src = def.src
          <5>1. PICK i \in 1 .. Len(Stream) : i = rd.pos + 1 /\ i - 1 = rd.pos
            BY <1>3, <2>2
          <5>2. Stream[i] = def /\ j \in 1 .. i - 1 /\ SameRun(Stream, j, i - 1)
            BY <2>2, <3>2, <5>1
          <5> QED BY <2>2, <2>7, <5>2 DEF NameInv, Named
        <4>3. Stream[j].id \in Ids
          <5>1. j \in 1 .. Len(Stream)
            BY <1>3, <2>2
          <5>2. Stream[j] \in Records
            BY <1>3, <5>1, ElementOfSeq
          <5> QED BY <2>7, <5>2, RecordKinds
        <4> QED BY <2>3, <2>5, <4>1, <4>2, <4>3
      <3> QED BY <2>6, <2>7, <3>1, <3>2
    <2> QED BY <1>4, <2>5, <2>6, <2>7 DEF Reads
  <1>12. CASE ReadSample
    <2> DEFINE s == file[rd.pos + 1]
    <2>1. AtRecord("sample")
      BY <1>12 DEF ReadSample
    <2>2. /\ rd.pc = "reading" /\ rd.pos + 1 \in 1 .. Len(Stream) /\ rd.pos + 1 \in 1 .. Len(Whole)
          /\ s = Stream[rd.pos + 1] /\ s \in Records /\ s.type = "sample"
      BY <2>1, ReaderSpot
    <2>3. s.id \in Ids /\ s.src \in Key /\ s.n \in 1 .. MaxSamples /\ s.type # "source"
      BY <2>2, RecordKinds
    <2>4. rd.dict[s.id] = s.src
      <3>1. rd.pos + 1 \in 1 .. Len(Stream) /\ Stream[rd.pos + 1].type = "sample" /\ Closed(Stream)
        BY <2>2 DEF StreamInv, DictInv
      <3>2. InRun(Stream, rd.pos, Stream[rd.pos + 1].id)
        BY <1>3, <3>1, ClosedAt
      <3>3. PICK j \in 1 .. rd.pos : Stream[j].type = "source" /\ Stream[j].id = s.id /\ SameRun(Stream, j, rd.pos)
        BY <2>2, <3>2 DEF InRun, SameRun
      <3>4. rd.dict[Stream[j].id] = Stream[j].src
        BY <2>2, <3>3 DEF GivenInv, Reads
      <3>5. Stream[j].src = s.src
        <4>1. PICK i \in 1 .. Len(Stream) : i = rd.pos + 1 /\ i - 1 = rd.pos
          BY <1>3, <2>2
        <4>2. Stream[i] = s /\ j \in 1 .. i - 1 /\ SameRun(Stream, j, i - 1)
          BY <2>2, <3>3, <4>1
        <4> QED BY <2>2, <3>3, <4>2 DEF NameInv, Named
      <3> QED BY <3>3, <3>4, <3>5
    <2>5. CASE rd.dict[s.id] = NoKey \/ s.src \in NotText
      <3>1. rd' = [rd EXCEPT !.pc = "failed"]
        BY <1>12, <2>5 DEF ReadSample
      <3> QED BY <1>3, <1>4, <3>1 DEF Readers
    <2>6. CASE ~ (rd.dict[s.id] = NoKey \/ s.src \in NotText)
      <3>1. rd' = [rd EXCEPT !.pos = @ + 1, !.out = Append(@, [src |-> rd.dict[s.id], n |-> s.n])]
        BY <1>12, <2>6 DEF ReadSample
      <3>2. AsGiven(s) = [src |-> rd.dict[s.id], n |-> s.n]
        BY <2>4 DEF AsGiven
      <3> DEFINE out == Append(rd.out, AsGiven(s))
      <3>3. rd' = [rd EXCEPT !.pos = @ + 1, !.out = out]
        BY <3>1, <3>2
      <3> HIDE DEF out, s
      <3>4. rd'.pos = rd.pos + 1 /\ rd'.pc = "reading" /\ rd'.dict = rd.dict /\ rd'.out = out
        <4>1. rd = [pc |-> rd.pc, pos |-> rd.pos, dict |-> rd.dict, out |-> rd.out]
          BY <1>3 DEF Readers
        <4>2. rd' = [pc |-> rd.pc, pos |-> rd.pos + 1, dict |-> rd.dict, out |-> out]
          BY <3>3, <4>1
        <4> QED BY <2>2, <4>2
      <3>5. /\ Seg(Stream, 0, rd.pos + 1) = Append(Seg(Stream, 0, rd.pos), AsGiven(s)) /\ Seg(Stream, 0, rd.pos) \in Seq(Given)
            /\ \A j \in 1 .. rd.pos + 1 : SameRun(Stream, j, rd.pos + 1) =>
                 j = rd.pos + 1 \/ (j \in 1 .. rd.pos /\ SameRun(Stream, j, rd.pos))
        BY <1>3, <2>2, OneMore
      <3>6. out = Seg(Stream, 0, rd.pos + 1)
        BY <1>4, <3>5 DEF out
      <3>7. ASSUME NEW j \in 1 .. rd.pos + 1, Stream[j].type = "source", SameRun(Stream, j, rd.pos + 1)
            PROVE  rd'.dict[Stream[j].id] = Stream[j].src
        <4>1. j \in 1 .. rd.pos /\ SameRun(Stream, j, rd.pos)
          BY <2>2, <2>3, <3>5, <3>7
        <4> QED BY <2>2, <3>4, <3>7, <4>1 DEF GivenInv, Reads
      <3>8. Log!Give
        <4> DEFINE g == Seg(Stream, 0, rd.pos)
                   h == Seg(Stream, 0, Len(Whole))
                   x == AsGiven(s)
        <4>1. x \in Given
          BY <2>2, <2>3 DEF Given, AsGiven
        <4>2. /\ Len(out) \in Nat /\ Len(h) \in Nat /\ Len(out) <= Len(h) /\ SubSeq(h, 1, Len(out)) = out
          <5>1. rd.pos + 1 \in 0 .. Len(Stream) /\ Len(Whole) \in rd.pos + 1 .. Len(Stream)
            BY <1>3, <2>2
          <5> QED BY <1>3, <3>6, <5>1, PrefixIs
        <4>3. h \in Seq(Given)
          <5>1. 0 \in 0 .. Len(Stream) /\ Len(Whole) \in 0 .. Len(Stream)
            BY <1>3
          <5>2. SubSeq(Stream, 0 + 1, Len(Whole)) \in Seq(Records)
            BY <1>3, <5>1, SubSeqType
          <5> QED BY <5>2, SamplesSteps DEF Seg
        <4>4. g \in Seq(Given) /\ out = Append(g, x)
          BY <3>5, <3>6
        <4> HIDE DEF g, h, x
        <4>5. Len(out) = Len(g) + 1 /\ Len(g) \in Nat /\ out[Len(g) + 1] = x
          BY <4>1, <4>4, AppendProperties
        <4>6. \A i \in 1 .. Len(out) : SubSeq(h, 1, Len(out))[i] = h[i]
          <5>1. Len(out) \in 0 .. Len(h)
            BY <4>2
          <5> QED BY <4>3, <5>1, PrefixProperties
        <4>7. h[Len(g) + 1] = x /\ Len(g) < Len(h)
          <5>1. Len(g) + 1 \in 1 .. Len(out)
            BY <4>2, <4>5
          <5> QED BY <4>2, <4>5, <4>6, <5>1
        <4>8. rd.out = g /\ SamplesOf(file) = h /\ rd'.out = Append(g, x)
          BY <1>3, <1>4, <3>4, <4>4 DEF g, h
        <4>9. Len(rd.out) < Len(SamplesOf(file)) /\ rd'.out = Append(rd.out, SamplesOf(file)[Len(rd.out) + 1])
          BY <4>7, <4>8
        <4> QED BY <1>2, <4>9 DEF Log!Give
      <3> QED BY <3>4, <3>6, <3>7, <3>8 DEF Reads
    <2> QED BY <2>5, <2>6
  <1>13. CASE ReadNextHeader
    <2>1. AtRecord("header")
      BY <1>13 DEF ReadNextHeader
    <2>2. /\ rd.pc = "reading" /\ rd.pos + 1 \in 1 .. Len(Stream) /\ Stream[rd.pos + 1].type = "header"
      BY <2>1, ReaderSpot
    <2>3. rd' = [rd EXCEPT !.pos = @ + 1, !.dict = NoReader.dict]
      BY <1>13 DEF ReadNextHeader
    <2>4. rd'.pos = rd.pos + 1 /\ rd'.pc = "reading" /\ rd'.out = rd.out
      <3>1. rd = [pc |-> rd.pc, pos |-> rd.pos, dict |-> rd.dict, out |-> rd.out]
        BY <1>3 DEF Readers
      <3>2. rd' = [pc |-> rd.pc, pos |-> rd.pos + 1, dict |-> NoReader.dict, out |-> rd.out]
        BY <2>3, <3>1
      <3> QED BY <2>2, <3>2
    <2>5. /\ Seg(Stream, 0, rd.pos + 1) = Seg(Stream, 0, rd.pos)
          /\ \A j \in 1 .. rd.pos + 1 : ~ SameRun(Stream, j, rd.pos + 1)
      BY <1>3, <2>2, OneMore
    <2> QED BY <1>4, <2>4, <2>5 DEF Reads
  <1> QED BY <1>7, <1>8, <1>9, <1>10, <1>11, <1>12, <1>13 DEF ReaderStep

-----------------------------------------------------------------------------
(* There are no more tuples than source IDs, so that no ID is given twice. *)

EnoughIds == IsFiniteSet(Key) /\ Cardinality(Key) <= IdMod

LEMMA NoIds == Taken([k \in Key |-> NoId]) = {} /\ InOrder([k \in Key |-> NoId], 0)
  <1> DEFINE dict == [k \in Key |-> NoId]
  <1>1. Taken(dict) = {}
    BY DEF Taken
  <1>2. Cardinality({}) = 0
    BY FS_EmptySet
  <1>3. 0 % IdMod = 0
    BY IdAssumption
  <1> HIDE DEF dict
  <1>4. InOrder(dict, 0)
    BY <1>1, <1>2, <1>3 DEF InOrder, OneToOne
  <1> QED BY <1>1, <1>4 DEF dict

LEMMA NewId ==
  ASSUME EnoughIds, NEW dict \in [Key -> Ids \cup {NoId}], NEW next, InOrder(dict, next),
         NEW k \in Key, dict[k] = NoId
  PROVE  next \in Ids /\ InOrder([dict EXCEPT ![k] = next], (next + 1) % IdMod)
  <1> DEFINE T == Taken(dict)
             c == Cardinality(T)
             after == [dict EXCEPT ![k] = next]
  <1>1. T \subseteq Key /\ k \notin T /\ T \cup {k} \subseteq Key
    BY DEF Taken
  <1>2. IsFiniteSet(T) /\ IsFiniteSet(T \cup {k}) /\ Cardinality(T \cup {k}) <= Cardinality(Key) /\ Cardinality(Key) \in Nat
    BY <1>1, FS_Subset, FS_CardinalityType DEF EnoughIds
  <1>3. c \in Nat /\ Cardinality(T \cup {k}) = c + 1
    BY <1>1, <1>2, FS_AddElement, FS_CardinalityType
  <1>4. c < IdMod /\ IdMod \in Nat
    BY <1>2, <1>3, IdAssumption DEF EnoughIds
  <1> HIDE DEF c
  <1>5. next = c
    <2>1. \A x, m \in Nat : x < m => x % m = x
      OBVIOUS
    <2> QED BY <1>3, <1>4, <2>1 DEF InOrder, c
  <1>6. next \in Ids /\ next # NoId
    BY <1>3, <1>4, <1>5 DEF Ids, NoId
  <1> HIDE DEF T
  <1>7. \A j \in Key : after[j] = IF j = k THEN next ELSE dict[j]
    OBVIOUS
  <1>8. Taken(after) = T \cup {k}
    BY <1>6, <1>7 DEF Taken, T
  <1> HIDE DEF after
  <1>9. \A j \in T : dict[j] < c /\ dict[j] \in Ids /\ j # k /\ j \in Key
    BY <1>1 DEF InOrder, Taken, T, c
  <1>10. \A j \in Taken(after) : after[j] < c + 1
    BY <1>3, <1>5, <1>7, <1>8, <1>9 DEF Ids
  <1>11. OneToOne(after)
    <2>1. \A i, j \in T : dict[i] = dict[j] => i = j
      BY DEF InOrder, OneToOne, T
    <2>2. \A j \in T : after[j] = dict[j] /\ after[j] # next
      BY <1>3, <1>5, <1>7, <1>9 DEF Ids
    <2>3. after[k] = next
      BY <1>7
    <2> QED BY <1>8, <2>1, <2>2, <2>3 DEF OneToOne
  <1>12. InOrder(after, (next + 1) % IdMod)
    BY <1>3, <1>5, <1>8, <1>10, <1>11 DEF InOrder
  <1> QED BY <1>6, <1>12 DEF after

\* An action that accepts a record of its own tuple keeps the names.
LEMMA PutNames ==
  ASSUME StreamInv, StreamInv', NameInv, NEW rec \in Records \ {Torn}, PutOK(rec), up,
         rec.type \in {"source", "sample"}, OneToOne(srcs'), srcs'[rec.src] = rec.id,
         \A k \in Key : srcs[k] # NoId => srcs'[k] = srcs[k]
  PROVE  NameInv'
  <1>1. Stream' = Append(Stream, rec) /\ ~ bad
    BY PutOKStep DEF StreamInv, PutOK
  <1>2. Stream \in Seq(Records) /\ srcs' \in [Key -> Ids \cup {NoId}] /\ rec \in Records /\ NoId \notin Ids
    BY TypeOfInv, IdAssumption DEF StreamInv, WriterInv, NoId, Ids
  <1>3. Registered(Stream, srcs')
    <2> SUFFICES ASSUME NEW j \in 1 .. Len(Stream), Stream[j].type = "source", SameRun(Stream, j, Len(Stream))
                 PROVE  srcs'[Stream[j].src] = Stream[j].id
      BY DEF Registered
    <2>1. srcs[Stream[j].src] = Stream[j].id
      BY <1>1 DEF NameInv, Registered
    <2>2. Stream[j].src \in Key /\ Stream[j].id \in Ids
      <3>1. Stream[j] \in Records
        BY <1>2, ElementOfSeq
      <3> QED BY <3>1, RecordKinds
    <2> QED BY <1>2, <2>1, <2>2
  <1>4. Named(Stream)
    BY DEF NameInv
  <1> DEFINE q == Stream
             dict == srcs'
  <1>5. /\ q \in Seq(Records) /\ rec \in Records /\ Named(q)
        /\ dict \in [Key -> Ids \cup {NoId}] /\ Registered(q, dict) /\ OneToOne(dict)
        /\ rec.type \in {"source", "sample"} /\ dict[rec.src] = rec.id
    BY <1>2, <1>3, <1>4
  <1> HIDE DEF q, dict
  <1>6. Named(Append(q, rec)) /\ Registered(Append(q, rec), dict)
    BY <1>5, AppendNamed
  <1> QED BY <1>1, <1>6 DEF NameInv, q, dict

LEMMA DropNames ==
  ASSUME StreamInv, NameInv, Drops, bad' \/ ~ up'
  PROVE  NameInv'
  <1>1. file' \in Seq(Records) /\ Stream' = file' /\ Stream \in Seq(Records) /\ Len(Stream) \in Nat /\ Len(Whole) \in Nat
    BY DropsStep, TypeOfInv DEF StreamInv
  <1>2. PICK k \in Len(Whole) .. Len(Stream) :
               /\ Len(file') \in {k, k + 1}
               /\ \A i \in 1 .. k : file'[i] = Stream[i]
               /\ \A i \in k + 1 .. Len(file') : file'[i] = Torn
    BY DropsStep DEF StreamInv
  <1>3. k \in 0 .. Len(Stream)
    BY <1>1, <1>2
  <1>4. Named(file')
    BY <1>1, <1>2, <1>3, CutNamed DEF NameInv
  <1> QED BY <1>1, <1>4 DEF NameInv

-----------------------------------------------------------------------------
(* Every step of the stream is a step of the log, or none.                 *)

LogSame == UNCHANGED <<SamplesOf(file), SamplesOf(buf), Len(SamplesOf(SubSeq(file, 1, synced))), rd.out>>

LogStep == LogInv' /\ (Log!LogNext \/ LogSame)

LEMMA SourceDefLog ==
  ASSUME EnoughIds, StreamInv, StreamInv', LogInv, NEW k \in Key, WriteSourceDef(k)
  PROVE  LogStep
  <1> DEFINE rec == SourceDef(nextID, k)
  <1>1. /\ up /\ up' = up /\ synced' = synced /\ rd' = rd /\ srcs[k] = NoId
        /\ srcs' = [srcs EXCEPT ![k] = nextID] /\ nextID' = (nextID + 1) % IdMod
    BY DEF WriteSourceDef
  <1>2. nextID \in Ids /\ IdInv'
    BY <1>1, NewId DEF StreamInv, WriterInv, LogInv, IdInv
  <1>3. rec \in Records \ {Torn} /\ rec.type = "source" /\ rec.id = nextID /\ rec.src = k
    <2>1. rec \in Records \ {Torn}
      BY <1>2, RecordKinds
    <2> QED BY <2>1 DEF SourceDef
  <1>4. srcs \in [Key -> Ids \cup {NoId}]
    BY DEF StreamInv, WriterInv
  <1> HIDE DEF rec
  <1>5. OneToOne(srcs') /\ srcs'[rec.src] = rec.id /\ \A j \in Key : srcs[j] # NoId => srcs'[j] = srcs[j]
    BY <1>1, <1>2, <1>3, <1>4 DEF IdInv, InOrder
  <1>6. CASE PutOK(rec)
    <2>1. Grows
      BY <1>3, <1>6, PutOKStep DEF StreamInv
    <2>2. NameInv' /\ GivenInv'
      BY <1>1, <1>3, <1>5, <1>6, <2>1, PutNames, GrowsGiven DEF LogInv
    <2>3. Log!Commit
      <3>1. rec.type # "sample"
        BY <1>3
      <3> QED BY <1>1, <1>3, <1>6, <3>1, PutLog
    <2> QED BY <1>2, <2>2, <2>3 DEF LogStep, LogInv, Log!LogNext
  <1>7. CASE PutFails(rec)
    <2>1. Drops /\ bad'
      BY <1>3, <1>7, WriteErrorDrops DEF StreamInv
    <2>2. Grows
      BY <2>1, DropsStep DEF StreamInv
    <2>3. NameInv' /\ GivenInv'
      BY <1>1, <2>1, <2>2, DropNames, GrowsGiven DEF LogInv
    <2>4. Log!Drop
      BY <1>1, <2>1, DropLog
    <2> QED BY <1>2, <2>3, <2>4 DEF LogStep, LogInv, Log!LogNext
  <1> QED BY <1>6, <1>7 DEF WriteSourceDef, rec

LEMMA SampleLogStep ==
  ASSUME StreamInv, StreamInv', LogInv, NEW k \in Key, WriteSample(k)
  PROVE  LogStep
  <1> DEFINE rec == Sample(srcs[k], k, n + 1)
  <1>1. /\ up /\ up' = up /\ synced' = synced /\ rd' = rd /\ srcs[k] # NoId /\ n < MaxSamples
        /\ srcs' = srcs /\ nextID' = nextID
    BY DEF WriteSample
  <1>2. IdInv' /\ OneToOne(srcs')
    BY <1>1 DEF LogInv, IdInv, InOrder
  <1>3. rec \in Records \ {Torn} /\ rec.type = "sample" /\ rec.id = srcs[k] /\ rec.src = k /\ rec.n = n + 1
    <2>1. srcs[k] \in Ids /\ n + 1 \in 1 .. MaxSamples
      BY <1>1, TypeOfInv DEF StreamInv, WriterInv
    <2>2. rec \in Records \ {Torn}
      BY <2>1, RecordKinds
    <2> QED BY <2>2 DEF Sample
  <1> HIDE DEF rec
  <1>4. srcs'[rec.src] = rec.id /\ \A j \in Key : srcs[j] # NoId => srcs'[j] = srcs[j]
    BY <1>1, <1>3
  <1>5. CASE PutOK(rec)
    <2>1. Grows
      BY <1>3, <1>5, PutOKStep DEF StreamInv
    <2>2. NameInv' /\ GivenInv'
      <3>1. rec.type \in {"source", "sample"}
        BY <1>3
      <3> QED BY <1>1, <1>2, <1>3, <1>4, <1>5, <2>1, <3>1, PutNames, GrowsGiven DEF LogInv
    <2>3. Log!Accept(AsGiven(rec))
      BY <1>1, <1>3, <1>5, PutLog
    <2>4. AsGiven(rec) \in [src : Key, n : 1 .. MaxSamples]
      BY <1>3, RecordKinds DEF AsGiven
    <2> QED BY <1>2, <2>2, <2>3, <2>4 DEF LogStep, LogInv, Log!LogNext, Log!Samples
  <1>6. CASE PutFails(rec)
    <2>1. Drops /\ bad'
      BY <1>3, <1>6, WriteErrorDrops DEF StreamInv
    <2>2. Grows
      BY <2>1, DropsStep DEF StreamInv
    <2>3. NameInv' /\ GivenInv'
      BY <1>1, <2>1, <2>2, DropNames, GrowsGiven DEF LogInv
    <2>4. Log!Drop
      BY <1>1, <2>1, DropLog
    <2> QED BY <1>2, <2>3, <2>4 DEF LogStep, LogInv, Log!LogNext
  <1> QED BY <1>5, <1>6 DEF WriteSample, rec

\* Flush and Close.
LEMMA FlushLog ==
  ASSUME StreamInv, StreamInv', LogInv, up, Flushed \/ FlushFails,
         srcs' = srcs, nextID' = nextID, rd' = rd
  PROVE  LogStep
  <1>1. IdInv'
    BY DEF LogInv, IdInv
  <1>2. CASE /\ ~ bad /\ bad' = bad
             /\ file' = FileAfter(buf, Len(buf), FALSE) /\ buf' = <<>> /\ split' = FALSE
             /\ synced' = synced \/ synced' = Len(file')
    <2>1. Stream' = Stream /\ Grows
      BY <1>2, WrittenStep DEF StreamInv
    <2>2. NameInv' /\ GivenInv'
      <3>1. NameInv'
        BY <1>2, <2>1 DEF LogInv, NameInv
      <3> QED BY <2>1, <3>1, GrowsGiven DEF LogInv
    <2>3. Log!Commit \/ Log!Persist
      BY <1>2, WrittenLog
    <2> QED BY <1>1, <2>2, <2>3 DEF LogStep, LogInv, Log!LogNext
  <1>3. CASE /\ (buf # <<>> /\ WriteError(buf)) \/ (bad /\ UNCHANGED <<file, bad, buf, split>>)
             /\ synced' = synced
    <2>1. Drops /\ bad'
      BY <1>3, WriteErrorDrops DEF StreamInv
    <2>2. Grows
      BY <2>1, DropsStep DEF StreamInv
    <2>3. NameInv' /\ GivenInv'
      BY <2>1, <2>2, DropNames, GrowsGiven DEF LogInv
    <2>4. Log!Drop
      BY <1>3, <2>1, DropLog
    <2> QED BY <1>1, <2>3, <2>4 DEF LogStep, LogInv, Log!LogNext
  <1> QED BY <1>2, <1>3 DEF Flushed, FlushFails

LEMMA CrashLog ==
  ASSUME StreamInv, StreamInv', LogInv, Crash
  PROVE  LogStep
  <1>1. Drops /\ up' = FALSE /\ srcs' = srcs /\ nextID' = nextID /\ rd' = rd /\ synced' = synced
    BY WriteErrorDrops DEF Crash, Lost, StreamInv
  <1>2. Grows
    BY <1>1, DropsStep DEF StreamInv
  <1>3. IdInv' /\ NameInv' /\ GivenInv'
    <2>1. IdInv'
      BY <1>1 DEF LogInv, IdInv
    <2> QED BY <1>1, <1>2, <2>1, DropNames, GrowsGiven DEF LogInv
  <1>4. Log!Drop
    BY <1>1, DropLog
  <1> QED BY <1>3, <1>4 DEF LogStep, LogInv, Log!LogNext

LEMMA OpenLog ==
  ASSUME StreamInv, StreamInv', LogInv, OpenRun
  PROVE  LogStep
  <1>1. /\ file' = file /\ rd' = rd /\ ~ up /\ buf' = <<Header>> /\ split' = FALSE
        /\ srcs' = [k \in Key |-> NoId] /\ nextID' = 0
    BY DEF OpenRun
  <1>2. Stream = file /\ Whole = file /\ file \in Seq(Records) /\ Len(file) \in Nat
    BY <1>1, TypeOfInv
  <1>3. Header \in Records
    BY RecordKinds
  <1>4. Whole' = file /\ Stream' = Append(file, Header)
    <2>1. Whole' = file
      BY <1>1 DEF Whole
    <2>2. Stream' = file \o <<Header>>
      BY <1>1, <2>1 DEF Stream
    <2> QED BY <1>2, <1>3, <2>1, <2>2, AppendIsConcat
  <1>5. Grows
    BY <1>1, <1>2, <1>3, <1>4, AppendProperties DEF Grows
  <1>6. IdInv'
    BY <1>1, NoIds DEF IdInv
  <1>7. NameInv'
    <2>1. Named(file)
      BY <1>2 DEF LogInv, NameInv
    <2>2. Named(Append(file, Header)) /\ Registered(Append(file, Header), srcs')
      BY <1>2, <2>1, HeaderNamed
    <2> QED BY <1>4, <2>2 DEF NameInv
  <1>8. GivenInv'
    BY <1>1, <1>5, GrowsGiven DEF LogInv
  <1>9. LogSame
    BY OpenRunLog DEF LogSame
  <1> QED BY <1>6, <1>7, <1>8, <1>9 DEF LogStep, LogInv

LEMMA PowerLossStepLog ==
  ASSUME StreamInv, StreamInv', LogInv, PowerLoss
  PROVE  LogStep
  <1>1. up' = FALSE /\ srcs' = srcs /\ nextID' = nextID /\ rd' = NoReader
    BY DEF PowerLoss, Lost
  <1>2. file' \in Seq(Records) /\ Stream' = file' /\ Stream \in Seq(Records) /\ Len(Whole) \in Nat
        /\ Len(Stream) \in Nat /\ Len(Whole) <= Len(Stream) /\ synced \in Nat
    BY PowerLossStep, TypeOfInv DEF StreamInv, SyncInv
  <1>3. PICK k \in synced .. Len(Whole) :
               /\ Len(file') \in {k, k + 1}
               /\ \A i \in 1 .. k : file'[i] = Stream[i]
               /\ \A i \in k + 1 .. Len(file') : file'[i] = Torn
    BY PowerLossStep DEF StreamInv, SyncInv
  <1>4. IdInv'
    BY <1>1 DEF LogInv, IdInv
  <1>5. NameInv'
    <2>1. k \in 0 .. Len(Stream)
      BY <1>2, <1>3
    <2>2. Named(file')
      BY <1>2, <1>3, <2>1, CutNamed DEF LogInv, NameInv
    <2> QED BY <1>1, <1>2, <2>2 DEF NameInv
  <1>6. GivenInv'
    <2>1. SubSeq(file', 0 + 1, 0) = <<>>
      BY <1>2, SubSeqEmpty
    <2>2. rd'.out = <<>> /\ rd'.pos = 0 /\ rd'.pc = "closed"
      BY <1>1 DEF NoReader
    <2> QED BY <1>2, <2>1, <2>2, SamplesSteps DEF GivenInv, Seg
  <1>7. Log!PowerLoss
    BY PowerLossLog
  <1> QED BY <1>4, <1>5, <1>6, <1>7 DEF LogStep, LogInv, Log!LogNext

LEMMA ReaderStepLog ==
  ASSUME StreamInv, StreamInv', LogInv, ReaderStep
  PROVE  LogStep
  <1>1. UNCHANGED <<file, synced, writerVars>>
    BY DEF ReaderStep, OpenReader, ReadHeader, ReadEOF, ReadTorn, ReadSourceDef, ReadSample, ReadNextHeader
  <1>2. IdInv' /\ NameInv'
    BY <1>1 DEF LogInv, IdInv, NameInv, writerVars, Stream, Whole
  <1>3. GivenInv' /\ (Log!Give \/ Log!Reopen \/ (rd'.out = rd.out))
    BY ReaderLog DEF LogInv
  <1>4. rd'.out = rd.out => LogSame
    BY <1>1 DEF LogSame, writerVars
  <1> QED BY <1>2, <1>3, <1>4 DEF LogStep, LogInv, Log!LogNext

LEMMA LogInitial == Init => LogInv /\ Log!LogInit
  <1> SUFFICES ASSUME Init PROVE LogInv /\ Log!LogInit
    OBVIOUS
  <1>1. /\ file = <<>> /\ buf = <<>> /\ split = FALSE /\ up = FALSE /\ rd = NoReader
        /\ srcs = [k \in Key |-> NoId] /\ nextID = 0 /\ synced = 0
    BY DEF Init
  <1>2. PICK q \in Seq(Records) : q = <<>>
    BY EmptySeq
  <1>3. Stream = <<>> /\ SamplesOf(<<>>) = <<>> /\ SubSeq(q, 0 + 1, 0) = <<>> /\ Len(<<>>) = 0 /\ SubSeq(q, 1, 0) = <<>>
    <2>1. q \o <<>> = q
      BY ConcatEmptySeq
    <2> QED BY <1>1, <1>2, <2>1, SubSeqEmpty, SamplesSteps, EmptySeq DEF Stream, Whole
  <1>4. IdInv
    BY <1>1, NoIds DEF IdInv
  <1>5. NameInv
    BY <1>1, <1>3 DEF NameInv, Named
  <1>6. GivenInv
    BY <1>1, <1>2, <1>3 DEF GivenInv, NoReader, Seg
  <1>7. Log!LogInit
    BY <1>1, <1>2, <1>3 DEF Log!LogInit, NoReader
  <1> QED BY <1>4, <1>5, <1>6, <1>7 DEF LogInv

LEMMA EveryLogStep ==
  ASSUME EnoughIds, StreamInv, StreamInv', LogInv, [Next]_vars
  PROVE  LogStep
  <1>1. CASE Flush
    BY <1>1, FlushLog DEF Flush
  <1>2. CASE Close
    BY <1>2, FlushLog DEF Close
  <1>3. CASE UNCHANGED vars
    <2>1. LogInv'
      BY <1>3 DEF vars, writerVars, LogInv, IdInv, NameInv, GivenInv, Stream, Whole
    <2>2. LogSame
      BY <1>3 DEF vars, writerVars, LogSame
    <2> QED BY <2>1, <2>2 DEF LogStep
  <1> QED BY <1>1, <1>2, <1>3, SourceDefLog, SampleLogStep, CrashLog, OpenLog, PowerLossStepLog, ReaderStepLog
          DEF Next, WriterStep

\* Whatever was buffered, cut, lost or restarted, a reader is given the samples
\* that are in the file, in order, each with the tuple it was written for: the
\* stream implements the log of samples, for every set of tuples that the
\* source IDs are enough for.
THEOREM StreamIsLog ==
  ASSUME EnoughIds
  PROVE  Spec => ImplementsLog
  <1>1. Init => LogInv /\ Log!LogInit
    BY LogInitial
  <1>2. StreamInv /\ StreamInv' /\ LogInv /\ [Next]_vars => LogInv' /\ [Log!LogNext]_(Log!logVars)
    BY EveryLogStep DEF LogStep, LogSame, Log!logVars
  <1> QED BY <1>1, <1>2, StreamInvariant, PTL DEF Spec, ImplementsLog, Log!LogSpec

\* Every sample of a sequence of records is in one of the records.
LEMMA SamplesFrom ==
  ASSUME NEW q \in Seq(Records)
  PROVE  \A i \in 1 .. Len(SamplesOf(q)) : \E j \in 1 .. Len(q) : q[j].type = "sample" /\ AsGiven(q[j]) = SamplesOf(q)[i]
  <1> DEFINE From(p) == \A i \in 1 .. Len(SamplesOf(p)) : \E j \in 1 .. Len(p) : p[j].type = "sample" /\ AsGiven(p[j]) = SamplesOf(p)[i]
             T == {k \in Nat : \A p \in Seq(Records) : Len(p) = k => From(p)}
  <1>1. 0 \in T
    <2> SUFFICES ASSUME NEW p \in Seq(Records), Len(p) = 0 PROVE From(p)
      OBVIOUS
    <2>1. SamplesOf(p) = <<>> /\ Len(<<>>) = 0
      <3>1. p = <<>>
        BY EmptySeq
      <3> QED BY <3>1, SamplesSteps
    <2> QED BY <2>1
  <1>2. ASSUME NEW k \in T PROVE k + 1 \in T
    <2> SUFFICES ASSUME NEW p \in Seq(Records), Len(p) = k + 1 PROVE From(p)
      OBVIOUS
    <2>1. p # <<>> /\ k \in Nat
      BY EmptySeq
    <2>2. PICK f \in Seq(Records), r \in Records : p = Append(f, r)
      BY <2>1, SequenceEmptyOrAppend
    <2>3. /\ Len(p) = Len(f) + 1 /\ Len(f) \in Nat /\ p[Len(f) + 1] = r /\ \A i \in 1 .. Len(f) : p[i] = f[i]
      BY <2>2, AppendProperties, LenProperties
    <2>4. From(f)
      <3>1. Len(f) = k
        BY <2>1, <2>3
      <3> HIDE DEF From
      <3> QED BY <3>1
    <2> DEFINE s == SamplesOf(f)
               u == SamplesOf(p)
    <2>5. s \in Seq(Given) /\ u = IF r.type = "sample" THEN Append(s, AsGiven(r)) ELSE s
      BY <2>2, SamplesSteps
    <2>6. \A i \in 1 .. Len(s) : \E j \in 1 .. Len(p) : p[j].type = "sample" /\ AsGiven(p[j]) = s[i]
      <3> SUFFICES ASSUME NEW i \in 1 .. Len(s)
                   PROVE  \E j \in 1 .. Len(p) : p[j].type = "sample" /\ AsGiven(p[j]) = s[i]
        OBVIOUS
      <3>1. PICK j \in 1 .. Len(f) : f[j].type = "sample" /\ AsGiven(f[j]) = s[i]
        BY <2>4
      <3>2. j \in 1 .. Len(p) /\ p[j] = f[j]
        BY <2>3
      <3> QED BY <3>1, <3>2
    <2> HIDE DEF s, u
    <2> SUFFICES ASSUME NEW i \in 1 .. Len(u)
                 PROVE  \E j \in 1 .. Len(p) : p[j].type = "sample" /\ AsGiven(p[j]) = u[i]
      BY DEF u
    <2>7. CASE r.type # "sample"
      BY <2>5, <2>6, <2>7
    <2>8. CASE r.type = "sample"
      <3>1. AsGiven(r) \in Given
        BY <2>8, RecordKinds DEF Given, AsGiven
      <3>2. Len(u) = Len(s) + 1 /\ Len(s) \in Nat /\ u[Len(s) + 1] = AsGiven(r) /\ \A l \in 1 .. Len(s) : u[l] = s[l]
        BY <2>5, <2>8, <3>1, AppendProperties, LenProperties
      <3>3. CASE i \in 1 .. Len(s)
        BY <2>6, <3>2, <3>3
      <3>4. CASE i = Len(s) + 1
        <4>1. Len(f) + 1 \in 1 .. Len(p)
          BY <2>3
        <4> QED BY <2>3, <2>8, <3>2, <3>4, <4>1
      <3> QED BY <3>2, <3>3, <3>4
    <2> QED BY <2>7, <2>8
  <1> HIDE DEF From
  <1>3. T = Nat
    <2>1. T \in SUBSET Nat
      OBVIOUS
    <2> HIDE DEF T
    <2> QED BY <1>1, <1>2, <2>1, NatSetInduction
  <1>4. From(q)
    BY <1>3, LenProperties
  <1> QED BY <1>4 DEF From

\* With enough source IDs, a sample is returned with the tuple it was written
\* for: what goes wrong when the 16-bit IDs wrap cannot go wrong otherwise.
THEOREM SourcesAreRight ==
  ASSUME EnoughIds
  PROVE  Spec => []RightSource
  <1>1. Init => LogInv
    BY LogInitial
  <1>2. StreamInv /\ StreamInv' /\ LogInv /\ [Next]_vars => LogInv'
    BY EveryLogStep DEF LogStep
  <1>3. StreamInv /\ LogInv => RightSource
    <2> SUFFICES ASSUME StreamInv, LogInv, NEW i \in DOMAIN rd.out
                 PROVE  \E j \in DOMAIN file :
                           /\ file[j].type = "sample" /\ file[j].n = rd.out[i].n /\ file[j].src = rd.out[i].src
      BY DEF RightSource
    <2> DEFINE q == SubSeq(Stream, 1, rd.pos)
    <2>1. /\ Stream \in Seq(Records) /\ Len(Stream) \in Nat /\ Len(Whole) \in Nat /\ Len(Whole) <= Len(Stream)
          /\ rd.pos \in 0 .. Len(Whole) /\ rd.out \in Seq([src : Key, n : 1 .. MaxSamples]) /\ file \in Seq(Records)
          /\ Len(file) \in Nat
      BY TypeOfInv DEF StreamInv, ReaderInv, Readers
    <2>2. q \in Seq(Records) /\ Len(q) = rd.pos /\ \A j \in 1 .. rd.pos : q[j] = Stream[j]
      <3>1. rd.pos \in 0 .. Len(Stream)
        BY <2>1
      <3> QED BY <2>1, <3>1, PrefixProperties
    <2>3. rd.out = SamplesOf(q)
      <3>1. 0 + 1 = 1
        OBVIOUS
      <3> QED BY <3>1 DEF LogInv, GivenInv, Seg
    <2>4. i \in 1 .. Len(rd.out)
      BY <2>1, LenProperties
    <2> HIDE DEF q
    <2>5. PICK j \in 1 .. Len(q) : q[j].type = "sample" /\ AsGiven(q[j]) = rd.out[i]
      BY <2>2, <2>3, <2>4, SamplesFrom
    <2>6. j \in 1 .. Len(Whole) /\ q[j] = Stream[j]
      BY <2>1, <2>2
    <2>7. file[j] = Stream[j] /\ j \in 1 .. Len(file)
      <3>1. /\ \A l \in 1 .. Len(Whole) : Stream[l] = Whole[l] /\ file[l] = Whole[l]
            /\ IF split THEN Len(file) = Len(Whole) + 1 ELSE file = Whole
        BY StreamView DEF StreamInv
      <3> QED BY <2>1, <2>6, <3>1
    <2>8. j \in DOMAIN file
      BY <2>1, <2>7, LenProperties
    <2>9. rd.out[i].src = file[j].src /\ rd.out[i].n = file[j].n
      BY <2>5, <2>6, <2>7 DEF AsGiven
    <2> QED BY <2>5, <2>6, <2>7, <2>8, <2>9
  <1> QED BY <1>1, <1>2, <1>3, StreamInvariant, PTL DEF Spec
=============================================================================
