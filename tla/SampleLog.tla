------------------------------ MODULE SampleLog ------------------------------
(***************************************************************************)
(* What a stream of samples promises, whatever its encoding: samples are   *)
(* accepted in order, a prefix of what was accepted since the last failure *)
(* reaches the log, a failure loses only the samples that are not durable, *)
(* and a reader is given the samples of the log, each with the source it   *)
(* was written for, in order and without a gap.                            *)
(***************************************************************************)
EXTENDS Naturals, Sequences

CONSTANTS
    Source,  \* what a sample can come from
    Serial   \* what tells samples of one source apart

VARIABLES
    log,       \* samples in the file
    buffered,  \* samples accepted and not in the file yet
    durable,   \* number of samples of log that survive a power loss
    given      \* samples the current reader was given

logVars == <<log, buffered, durable, given>>

Samples == [src : Source, n : Serial]

LogTypeOK ==
    /\ log \in Seq(Samples) /\ buffered \in Seq(Samples) /\ given \in Seq(Samples)
    /\ durable \in 0 .. Len(log)

LogInit == log = <<>> /\ buffered = <<>> /\ durable = 0 /\ given = <<>>

\* The first m of the samples in q go to the log, the others stay buffered.
Move(q, m) ==
    /\ log' = log \o SubSeq(q, 1, m)
    /\ buffered' = SubSeq(q, m + 1, Len(q))

\* Sample x is accepted; some of what is buffered may go to the log.
Accept(x) ==
    \E m \in 0 .. Len(buffered) + 1 :
        Move(Append(buffered, x), m) /\ UNCHANGED <<durable, given>>

Commit ==
    \E m \in 0 .. Len(buffered) :
        Move(buffered, m) /\ UNCHANGED <<durable, given>>

\* A flush that succeeds leaves nothing buffered and everything durable.
Persist ==
    /\ log' = log \o buffered
    /\ buffered' = <<>>
    /\ durable' = Len(log')
    /\ UNCHANGED given

\* A write error or the end of the process: some of the buffer may still get
\* to the log, the rest is lost.
Drop ==
    \E m \in 0 .. Len(buffered) :
        /\ log' = log \o SubSeq(buffered, 1, m)
        /\ buffered' = <<>>
        /\ UNCHANGED <<durable, given>>

PowerLoss ==
    \E m \in durable .. Len(log) :
        /\ log' = SubSeq(log, 1, m)
        /\ buffered' = <<>>
        /\ given' = <<>>
        /\ UNCHANGED durable

Give ==
    /\ Len(given) < Len(log)
    /\ given' = Append(given, log[Len(given) + 1])
    /\ UNCHANGED <<log, buffered, durable>>

Reopen == given' = <<>> /\ UNCHANGED <<log, buffered, durable>>

LogNext ==
    \/ \E x \in Samples : Accept(x)
    \/ Commit \/ Persist \/ Drop \/ PowerLoss \/ Give \/ Reopen

LogSpec == LogInit /\ [][LogNext]_logVars
=============================================================================
