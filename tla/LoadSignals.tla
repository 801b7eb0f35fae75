---------------------------- MODULE LoadSignals ----------------------------
(***************************************************************************)
(* backend/handler/load_signals.go: the window of latency samples that     *)
(* GET /load reports.  The clock is read before loadSignalsMu is taken, so *)
(* that samples may be appended, and the window trimmed, out of order; the *)
(* binary search that trims it expects the samples to be in order.         *)
(*                                                                         *)
(* A sample has its RecordedAt and its Duration.  What Backend, the other  *)
(* module about the handler, also defines is named after the signals here. *)
(***************************************************************************)
EXTENDS Integers, Sequences, FiniteSets

CONSTANTS
    Goroutines,  \* goroutines that record a duration or serve GET /load
    Durations,   \* durations of requests
    Percent,     \* the percentile that is reported, 99 in the code
    Window,      \* loadSignalWindowDuration, in ticks
    MaxStall,    \* bound on the ticks between time.Now() and taking the lock
    MaxTime,     \* bound on the clock
    MaxSamples   \* bound on the samples kept

ASSUME SignalsAssumption ==
    /\ Durations \subseteq Nat /\ Percent \in 1..100
    /\ Window \in Nat /\ MaxStall \in Nat /\ MaxTime \in Nat /\ MaxSamples \in Nat

VARIABLES
    clock,             \* the time
    requestDurations,  \* h.requestDurations
    goroutine,         \* goroutine[g]: what g is about to do, and the time it has read
    report             \* the last answer of GET /load and the time it was made for

signalVars == <<clock, requestDurations, goroutine, report>>

Samples == [at : 0..MaxTime, took : Durations]

States == [pc : {"idle", "record", "load"}, now : 0..MaxTime]

SignalsInit ==
    /\ clock = 0
    /\ requestDurations = <<>>
    /\ goroutine = [g \in Goroutines |-> [pc |-> "idle", now |-> 0]]
    /\ report = [now |-> 0, samples |-> <<>>]

\* sort.Search: an index whose predecessor is before the cutoff and which is
\* not before it itself.  Where the samples are out of order there may be
\* several, and the library promises no more than to find one of them.
FirstRecent(s, cutoff) ==
    {i \in 0..Len(s) : (i > 0 => s[i].at < cutoff) /\ (i < Len(s) => s[i + 1].at >= cutoff)}

\* One sample more than the search says is thrown away.
TrimmedByOneMore(s, now) ==
    {SubSeq(s, i + 2, Len(s)) : i \in FirstRecent(s, now - Window)}

\* What removeExpiredLatencySamplesLocked may leave of s.
Trimmed(s, now) ==
    {SubSeq(s, i + 1, Len(s)) : i \in FirstRecent(s, now - Window)}

\* A request ends, or GET /load comes, and the clock is read.
ReadClock(g, pc) ==
    /\ goroutine[g].pc = "idle"
    /\ goroutine' = [goroutine EXCEPT ![g] = [pc |-> pc, now |-> clock]]
    /\ UNCHANGED <<clock, requestDurations, report>>

\* recordRequestDuration, under the lock.
Record(g, d) ==
    /\ goroutine[g].pc = "record"
    /\ Len(requestDurations) < MaxSamples
    /\ LET now == goroutine[g].now IN
       requestDurations' \in Trimmed(Append(requestDurations, [at |-> now, took |-> d]), now)
    /\ goroutine' = [goroutine EXCEPT ![g].pc = "idle"]
    /\ UNCHANGED <<clock, report>>

\* GET /load reports samples that have expired since the last one was recorded.
LoadUntrimmed(g) ==
    /\ goroutine[g].pc = "load"
    /\ report' = [now |-> goroutine[g].now, samples |-> requestDurations]
    /\ goroutine' = [goroutine EXCEPT ![g].pc = "idle"]
    /\ UNCHANGED <<clock, requestDurations>>

\* recentRequestDurations, under the lock, on behalf of GetLoadSignals.
Load(g) ==
    /\ goroutine[g].pc = "load"
    /\ requestDurations' \in Trimmed(requestDurations, goroutine[g].now)
    /\ report' = [now |-> goroutine[g].now, samples |-> requestDurations']
    /\ goroutine' = [goroutine EXCEPT ![g].pc = "idle"]
    /\ UNCHANGED clock

---------------------------------------------------------------------------
(* calculateP99LatencyMs                                                   *)

\* sort.Slice: the durations of the samples s in order, each of them as often
\* as in s.
SortedDurations(s) ==
    CHOOSE t \in [1..Len(s) -> Durations] :
        /\ \A i \in 1..(Len(s) - 1) : t[i] <= t[i + 1]
        /\ \A d \in Durations :
              Cardinality({i \in 1..Len(s) : t[i] = d}) = Cardinality({i \in 1..Len(s) : s[i].took = d})

\* The index is rounded down.
IndexBelow(n) == IF Percent * n < 100 THEN 0 ELSE (Percent * n) \div 100 - 1

\* int(math.Ceil(0.99 * n)) - 1, counted from 0.
Index(n) == (Percent * n + 99) \div 100 - 1

\* calculateP99LatencyMs, which GetLoadSignals applies to what it has copied.
P99Latency(s) == IF s = <<>> THEN 0 ELSE SortedDurations(s)[Index(Len(s)) + 1]

---------------------------------------------------------------------------

\* Nobody holds on to a time for longer than MaxStall.
ClockTick ==
    /\ clock < MaxTime
    /\ \A g \in Goroutines : goroutine[g].pc # "idle" => clock < goroutine[g].now + MaxStall
    /\ clock' = clock + 1
    /\ UNCHANGED <<requestDurations, goroutine, report>>

SignalsNext ==
    \/ \E g \in Goroutines, pc \in {"record", "load"} : ReadClock(g, pc)
    \/ \E g \in Goroutines, d \in Durations : Record(g, d)
    \/ \E g \in Goroutines : Load(g)
    \/ ClockTick

SignalsSpec == SignalsInit /\ [][SignalsNext]_signalVars

---------------------------------------------------------------------------
(* Properties                                                              *)

\* The type of every variable.
SignalsTypeOK ==
    /\ clock \in 0..MaxTime
    /\ requestDurations \in Seq(Samples)
    /\ goroutine \in [Goroutines -> States]
    /\ report \in [now : 0..MaxTime, samples : Seq(Samples)]

\* However many goroutines race for the lock, a sample that comes before
\* another is newer than it by no more than one stall.
NearlySorted ==
    \A i, j \in 1..Len(requestDurations) :
        i < j => requestDurations[i].at <= requestDurations[j].at + MaxStall

\* GET /load reports no sample older than the window by more than one stall,
\* although the search may take a wrong turn.
ReportIsRecent ==
    \A i \in 1..Len(report.samples) : report.samples[i].at >= report.now - Window - MaxStall

\* A step that records a sample.
Recorded ==
    \E g \in Goroutines : goroutine[g].pc = "record" /\ goroutine'[g].pc = "idle"

\* No sample is lost: what is recorded is kept, and trimming throws away the
\* oldest samples in the list, none of which will be within the window for
\* longer than one stall.
DropsOnlyExpired ==
    [][\E n \in 0..Len(requestDurations) :
          /\ \A i \in 1..n : requestDurations[i].at < clock - Window + MaxStall
          /\ Len(requestDurations') = Len(requestDurations) - n + (IF Recorded THEN 1 ELSE 0)
          /\ \A i \in 1..(Len(requestDurations) - n) :
                requestDurations'[i] = requestDurations[n + i]]_signalVars

\* How many samples of the report took at most d.
AtMost(d) == Cardinality({i \in 1..Len(report.samples) : report.samples[i].took <= d})

\* The reported latency is the least duration in the window that at least
\* Percent percent of its samples do not exceed, and 0 without samples: the
\* index is neither too small nor too large for any number of samples.
ReportsPercentile ==
    LET s == report.samples
        enough == {d \in Durations : 100 * AtMost(d) >= Percent * Len(s)} IN
    /\ s = <<>> => P99Latency(s) = 0
    /\ s # <<>> => P99Latency(s) \in enough /\ \A d \in enough : P99Latency(s) <= d

=============================================================================
