--------------------------- MODULE BackendProofs ---------------------------
(***************************************************************************)
(* Proofs about the two parts of the backend: the window of LoadSignals,   *)
(* for any number of goroutines and samples and any window and stall, and  *)
(* the requests of Backend, for any number of requests, semaphores and     *)
(* faults.                                                                 *)
(*                                                                         *)
(* The samples are not sorted, but nearly so (NearlySorted), because no    *)
(* goroutine is behind the clock by more than MaxStall when it appends     *)
(* (ClockBounds).  One sample before the cutoff then bounds all samples in *)
(* front of it, and one at or after the cutoff bounds all samples behind   *)
(* it, so that any result of the search will do.                           *)
(*                                                                         *)
(* That the reported latency is the percentile needs two things: sorting   *)
(* is possible and keeps the number of samples of at most d, and the index *)
(* is the first that makes Percent percent.  Induction is over a set of    *)
(* numbers (SetInduction), which the provers can handle where they cannot  *)
(* handle an operator.                                                     *)
(*                                                                         *)
(* The counters of Backend are the sizes of sets of requests.  These sets  *)
(* are finite, because each step adds at most one request to them; nothing *)
(* is assumed of the set of all requests.                                  *)
(***************************************************************************)
EXTENDS Backend, LoadSignals, TLAPS, SequenceTheorems, FiniteSetTheorems

\* No time comes from the future, and none is held for longer than MaxStall.
ClockBounds ==
    /\ \A i \in 1..Len(requestDurations) : requestDurations[i].at <= clock
    /\ \A g \in Goroutines :
          goroutine[g].pc # "idle" =>
              goroutine[g].now <= clock /\ clock <= goroutine[g].now + MaxStall

SignalsInv == SignalsTypeOK /\ ClockBounds /\ NearlySorted /\ ReportIsRecent

USE SignalsAssumption

\* A list is nearly sorted; NearlySorted says so of requestDurations.
Nearly(s) == \A i, j \in 1..Len(s) : i < j => s[i].at <= s[j].at + MaxStall

\* A sample carries a time.
LEMMA SampleTime == ASSUME NEW x \in Samples PROVE x.at \in 0..MaxTime
  BY DEF Samples

\* So do all samples of a list.
LEMMA SampleTimes ==
    ASSUME NEW s \in Seq(Samples)
    PROVE  Len(s) \in Nat /\ \A i \in 1..Len(s) : s[i].at \in 0..MaxTime
<1>1. Len(s) \in Nat /\ \A i \in 1..Len(s) : s[i] \in Samples
  OBVIOUS
<1> QED BY <1>1, SampleTime

\* What is at most one stall behind something recent is recent up to one stall.
LEMMA OneStallBehind ==
    ASSUME NEW a \in Int, NEW b \in Int, NEW c \in Int, a <= b + MaxStall, a >= c
    PROVE  b >= c - MaxStall
  OBVIOUS

\* What trimming a nearly sorted list throws away has expired, up to one
\* stall, and what it keeps has not, up to one stall.
LEMMA TrimmedMeaning ==
    ASSUME NEW s \in Seq(Samples), Nearly(s), NEW now \in 0..MaxTime,
           NEW t \in Trimmed(s, now)
    PROVE  /\ t \in Seq(Samples) /\ Nearly(t)
           /\ \A i \in 1..Len(t) : t[i].at >= now - Window - MaxStall
           /\ \E n \in 0..Len(s) :
                 /\ n > 0 => s[n].at < now - Window
                 /\ \A i \in 1..n : s[i].at < now - Window + MaxStall \/ i = n
                 /\ Len(t) = Len(s) - n
                 /\ \A i \in 1..(Len(s) - n) : t[i] = s[n + i]
<1>1. PICK n \in FirstRecent(s, now - Window) : t = SubSeq(s, n + 1, Len(s))
  BY DEF Trimmed
<1>2. /\ n \in 0..Len(s) /\ Len(s) \in Nat
      /\ n > 0 => s[n].at < now - Window
      /\ n < Len(s) => s[n + 1].at >= now - Window
  BY DEF FirstRecent
<1>3. /\ t \in Seq(Samples) /\ Len(t) = Len(s) - n
      /\ \A i \in 1..(Len(s) - n) : t[i] = s[n + i]
  <2>1. \A i \in (n + 1)..Len(s) : s[i] \in Samples
    BY <1>2
  <2>2. /\ t \in Seq(Samples)
        /\ Len(t) = IF n + 1 <= Len(s) THEN Len(s) - (n + 1) + 1 ELSE 0
        /\ \A i \in 1..(Len(s) - (n + 1) + 1) : t[i] = s[n + 1 + i - 1]
    BY <1>1, <1>2, <2>1, SubSeqProperties
  <2> QED BY <1>2, <2>2
<1>4. \A i \in 1..Len(s) : s[i].at \in 0..MaxTime
  BY SampleTimes
<1>5. \A i \in 1..n : s[i].at < now - Window + MaxStall \/ i = n
  <2> TAKE i \in 1..n
  <2>1. CASE i < n
    <3>1. i \in 1..Len(s) /\ n \in 1..Len(s)
      BY <1>2
    <3>2. s[i].at <= s[n].at + MaxStall
      BY <2>1, <3>1 DEF Nearly
    <3>3. s[i].at \in 0..MaxTime /\ s[n].at \in 0..MaxTime /\ s[n].at < now - Window
      BY <1>2, <1>4, <3>1
    <3> QED BY <3>2, <3>3
  <2> QED BY <1>2, <2>1
<1>6. \A i \in 1..Len(t) : t[i].at >= now - Window - MaxStall
  <2> TAKE i \in 1..Len(t)
  <2>1. n < Len(s) /\ t[i] = s[n + i] /\ n + i \in 1..Len(s) /\ n + 1 \in 1..Len(s)
    BY <1>2, <1>3
  <2>2. i = 1 \/ n + 1 < n + i
    BY <1>2, <1>3
  <2>3. CASE i = 1
    BY <1>2, <1>4, <2>1, <2>3
  <2>4. CASE n + 1 < n + i
    <3>1. s[n + 1].at <= s[n + i].at + MaxStall
      BY <2>1, <2>4 DEF Nearly
    <3>2. s[n + 1].at \in Int /\ s[n + i].at \in Int /\ now - Window \in Int
      BY <1>4, <2>1
    <3>3. s[n + 1].at >= now - Window
      BY <1>2, <2>1
    <3>4. s[n + i].at >= now - Window - MaxStall
      BY <3>1, <3>2, <3>3, OneStallBehind
    <3> QED BY <2>1, <3>4
  <2> QED BY <2>2, <2>3, <2>4
<1>7. Nearly(t)
  <2> SUFFICES ASSUME NEW i \in 1..Len(t), NEW j \in 1..Len(t), i < j
               PROVE  t[i].at <= t[j].at + MaxStall
    BY DEF Nearly
  <2>1. /\ n + i \in 1..Len(s) /\ n + j \in 1..Len(s) /\ n + i < n + j
        /\ t[i] = s[n + i] /\ t[j] = s[n + j]
    <3>1. i \in 1..(Len(s) - n) /\ j \in 1..(Len(s) - n)
      BY <1>2, <1>3
    <3>2. n + i \in 1..Len(s) /\ n + j \in 1..Len(s) /\ n + i < n + j
      BY <1>2, <3>1
    <3> QED BY <1>3, <3>1, <3>2
  <2> QED BY <2>1 DEF Nearly
<1> QED BY <1>2, <1>3, <1>5, <1>6, <1>7

\* Appending a time that is at most one stall behind keeps a list nearly sorted.
LEMMA AppendNearly ==
    ASSUME NEW s \in Seq(Samples), Nearly(s), NEW x \in Samples,
           \A i \in 1..Len(s) : s[i].at <= x.at + MaxStall
    PROVE  /\ Append(s, x) \in Seq(Samples) /\ Nearly(Append(s, x))
           /\ Len(Append(s, x)) = Len(s) + 1 /\ Append(s, x)[Len(s) + 1] = x
           /\ \A i \in 1..Len(s) : Append(s, x)[i] = s[i]
<1>1. /\ Append(s, x) \in Seq(Samples)
      /\ Len(Append(s, x)) = Len(s) + 1 /\ Append(s, x)[Len(s) + 1] = x
      /\ \A i \in 1..Len(s) : Append(s, x)[i] = s[i]
  OBVIOUS
<1>2. ASSUME NEW i \in 1..(Len(s) + 1), NEW j \in 1..(Len(s) + 1), i < j
      PROVE  Append(s, x)[i].at <= Append(s, x)[j].at + MaxStall
  <2>1. i \in 1..Len(s) /\ Append(s, x)[i] = s[i]
    BY <1>1, <1>2
  <2>2. CASE j = Len(s) + 1
    BY <1>1, <2>1, <2>2
  <2>3. CASE j \in 1..Len(s)
    BY <1>1, <1>2, <2>1, <2>3 DEF Nearly
  <2> QED BY <2>2, <2>3
<1> QED BY <1>1, <1>2 DEF Nearly

\* The invariant holds at the start.
LEMMA InitSignals == SignalsInit => SignalsInv
  BY DEF SignalsInit, SignalsInv, SignalsTypeOK, States, ClockBounds, NearlySorted, ReportIsRecent

\* Every step keeps the invariant, and drops expired samples only.
LEMMA SignalsStep ==
    ASSUME SignalsInv, [SignalsNext]_signalVars
    PROVE  /\ SignalsInv'
           /\ UNCHANGED signalVars
              \/ \E n \in 0..Len(requestDurations) :
                    /\ \A i \in 1..n : requestDurations[i].at < clock - Window + MaxStall
                    /\ Len(requestDurations') = Len(requestDurations) - n + (IF Recorded THEN 1 ELSE 0)
                    /\ \A i \in 1..(Len(requestDurations) - n) :
                          requestDurations'[i] = requestDurations[n + i]
<1> DEFINE s == requestDurations
<1>0. /\ clock \in 0..MaxTime /\ s \in Seq(Samples) /\ Nearly(s)
      /\ goroutine \in [Goroutines -> States]
      /\ report \in [now : 0..MaxTime, samples : Seq(Samples)]
      /\ \A i \in 1..Len(s) : s[i].at \in 0..MaxTime /\ s[i].at <= clock
      /\ Len(s) \in Nat
  <2>1. s \in Seq(Samples)
    BY DEF SignalsInv, SignalsTypeOK
  <2>2. Len(s) \in Nat /\ \A i \in 1..Len(s) : s[i].at \in 0..MaxTime
    BY <2>1, SampleTimes
  <2> QED BY <2>2 DEF SignalsInv, SignalsTypeOK, NearlySorted, Nearly, ClockBounds
<1> DEFINE Dropped(n) == /\ \A i \in 1..n : s[i].at < clock - Window + MaxStall
                         /\ Len(s') = Len(s) - n + (IF Recorded THEN 1 ELSE 0)
                         /\ \A i \in 1..(Len(s) - n) : s'[i] = s[n + i]
<1>1. ASSUME UNCHANGED s, ~Recorded PROVE Dropped(0)
  BY <1>0, <1>1
<1>2. CASE UNCHANGED signalVars
  BY <1>2 DEF signalVars, SignalsInv, SignalsTypeOK, ClockBounds, NearlySorted, ReportIsRecent
<1>3. ASSUME NEW g \in Goroutines, NEW pc \in {"record", "load"}, ReadClock(g, pc)
      PROVE  SignalsInv' /\ Dropped(0)
  <2>1. SignalsTypeOK' /\ NearlySorted' /\ ReportIsRecent'
    BY <1>0, <1>3 DEF ReadClock, SignalsInv, SignalsTypeOK, States, NearlySorted, ReportIsRecent
  <2>2. ClockBounds'
    BY <1>0, <1>3 DEF ReadClock, SignalsInv, ClockBounds, States
  <2>3. Dropped(0)
    <3>1. ~Recorded
      BY <1>0, <1>3 DEF ReadClock, Recorded, States
    <3> QED BY <1>1, <1>3, <3>1 DEF ReadClock
  <2> QED BY <2>1, <2>2, <2>3 DEF SignalsInv
<1>4. ASSUME NEW g \in Goroutines, NEW u, u \in Seq(Samples), Nearly(u),
             NEW now \in 0..MaxTime, now <= clock, clock <= now + MaxStall,
             Len(u) = Len(s) + (IF Recorded THEN 1 ELSE 0), \A i \in 1..Len(s) : u[i] = s[i],
             \A i \in 1..Len(u) : u[i].at <= clock, Len(u) > Len(s) => u[Len(u)].at = now,
             s' \in Trimmed(u, now)
      PROVE  /\ s' \in Seq(Samples) /\ Nearly(s')
             /\ \A i \in 1..Len(s') : s'[i].at <= clock /\ s'[i].at >= now - Window - MaxStall
             /\ \E n \in 0..Len(s) : Dropped(n)
  <2>1. /\ s' \in Seq(Samples) /\ Nearly(s')
        /\ \A i \in 1..Len(s') : s'[i].at >= now - Window - MaxStall
    BY <1>4, TrimmedMeaning
  <2>2. PICK n \in 0..Len(u) :
           /\ n > 0 => u[n].at < now - Window
           /\ \A i \in 1..n : u[i].at < now - Window + MaxStall \/ i = n
           /\ Len(s') = Len(u) - n
           /\ \A i \in 1..(Len(u) - n) : s'[i] = u[n + i]
    BY <1>4, TrimmedMeaning
  <2>3. Len(u) \in Nat /\ \A i \in 1..Len(u) : u[i].at \in 0..MaxTime
    <3>1. u \in Seq(Samples)
      BY <1>4, Zenon
    <3> QED BY <3>1, SampleTimes
  <2> HIDE DEF s, Dropped
  <2>4. n <= Len(s)
    <3> SUFFICES ASSUME n > Len(s) PROVE FALSE
      BY <1>0, <2>3
    <3>1. n = Len(u) /\ Len(u) > Len(s) /\ n > 0
      BY <1>0, <1>4, <2>3
    <3>2. u[n].at = now /\ u[n].at < now - Window
      BY <1>4, <2>2, <3>1
    <3> QED BY <1>4, <3>2
  <2>5. \A i \in 1..Len(s') : s'[i].at <= clock
    <3> TAKE i \in 1..Len(s')
    <3>1. n + i \in 1..Len(u) /\ s'[i] = u[n + i]
      BY <2>2, <2>3
    <3> QED BY <1>4, <3>1
  <2>6. \A i \in 1..n : s[i].at < clock - Window + MaxStall
    <3> TAKE i \in 1..n
    <3>1. i \in 1..Len(s) /\ i \in 1..Len(u)
      BY <1>0, <1>4, <2>3, <2>4
    <3>2. u[i] = s[i] /\ u[i].at \in 0..MaxTime
      BY <1>4, <2>3, <3>1
    <3>3. u[i].at < now - Window + MaxStall
      <4>1. CASE i = n
        <5>1. n > 0 /\ u[i].at < now - Window
          BY <2>2, <4>1
        <5> QED BY <3>2, <5>1
      <4> QED BY <2>2, <4>1
    <3>4. now \in 0..MaxTime /\ now <= clock /\ clock \in 0..MaxTime
      BY <1>0, <1>4
    <3> QED BY <3>2, <3>3, <3>4
  <2>7. \A i \in 1..(Len(s) - n) : s'[i] = s[n + i]
    <3> TAKE i \in 1..(Len(s) - n)
    <3>1. i \in 1..(Len(u) - n) /\ n + i \in 1..Len(s)
      BY <1>0, <1>4, <2>2, <2>3, <2>4
    <3> QED BY <1>4, <2>2, <3>1
  <2>8. Len(s') = Len(s) - n + (IF Recorded THEN 1 ELSE 0)
    BY <1>0, <1>4, <2>2, <2>3
  <2>9. n \in 0..Len(s)
    BY <1>0, <2>3, <2>4
  <2>10. Dropped(n)
    BY <2>6, <2>7, <2>8 DEF Dropped
  <2> QED BY <2>1, <2>5, <2>9, <2>10
<1>5. ASSUME NEW g \in Goroutines, NEW d \in Durations, Record(g, d)
      PROVE  SignalsInv' /\ \E n \in 0..Len(s) : Dropped(n)
  <2> DEFINE now == goroutine[g].now
             x == [at |-> now, took |-> d]
  <2>1. now \in 0..MaxTime /\ now <= clock /\ clock <= now + MaxStall
    BY <1>0, <1>5 DEF Record, SignalsInv, ClockBounds, States
  <2>2. /\ Append(s, x) \in Seq(Samples) /\ Nearly(Append(s, x))
        /\ Len(Append(s, x)) = Len(s) + 1 /\ Append(s, x)[Len(s) + 1] = x
        /\ \A i \in 1..Len(s) : Append(s, x)[i] = s[i]
    <3>1. \A i \in 1..Len(s) : s[i].at <= now + MaxStall
      BY <1>0, <2>1
    <3>2. x \in Samples /\ x.at = now
      BY <2>1 DEF Samples
    <3> QED BY <1>0, <3>1, <3>2, AppendNearly
  <2>3. \A i \in 1..Len(Append(s, x)) : Append(s, x)[i].at <= clock
    BY <1>0, <2>1, <2>2
  <2>4. s' \in Trimmed(Append(s, x), now)
    BY <1>5 DEF Record
  <2>5. /\ s' \in Seq(Samples) /\ Nearly(s')
        /\ \A i \in 1..Len(s') : s'[i].at <= clock
        /\ \E n \in 0..Len(s) : Dropped(n)
    <3> DEFINE u == Append(s, x)
    <3>1. /\ u \in Seq(Samples) /\ Nearly(u) /\ Len(u) = Len(s) + (IF Recorded THEN 1 ELSE 0)
          /\ \A i \in 1..Len(s) : u[i] = s[i]
          /\ \A i \in 1..Len(u) : u[i].at <= clock
          /\ Len(u) > Len(s) => u[Len(u)].at = now
          /\ s' \in Trimmed(u, now)
      <4>1. u \in Seq(Samples) /\ Nearly(u) /\ \A i \in 1..Len(s) : u[i] = s[i]
        BY <2>2
      <4>2. (\A i \in 1..Len(u) : u[i].at <= clock) /\ s' \in Trimmed(u, now)
        BY <2>3, <2>4
      <4>3. Len(s) \in Nat /\ Len(u) = Len(s) + 1 /\ u[Len(s) + 1] = x
        BY <1>0, <2>2
      <4>4. Recorded
        BY <1>0, <1>5 DEF Record, Recorded
      <4> HIDE DEF u, now, s
      <4>5. /\ Len(u) = Len(s) + (IF Recorded THEN 1 ELSE 0)
            /\ Len(u) > Len(s) => u[Len(u)].at = now
        BY <4>3, <4>4
      <4> QED BY <4>1, <4>2, <4>5
    <3> HIDE DEF u, now, s, Dropped
    <3> QED BY <1>4, <2>1, <3>1
  <2>6. SignalsTypeOK' /\ ReportIsRecent'
    BY <1>0, <1>5, <2>5 DEF Record, SignalsInv, SignalsTypeOK, States, ReportIsRecent
  <2>7. ClockBounds' /\ NearlySorted'
    BY <1>0, <1>5, <2>5 DEF Record, SignalsInv, ClockBounds, States, NearlySorted, Nearly
  <2> QED BY <2>5, <2>6, <2>7 DEF SignalsInv
<1>6. ASSUME NEW g \in Goroutines, Load(g)
      PROVE  SignalsInv' /\ \E n \in 0..Len(s) : Dropped(n)
  <2> DEFINE now == goroutine[g].now
  <2>1. now \in 0..MaxTime /\ now <= clock /\ clock <= now + MaxStall
    BY <1>0, <1>6 DEF Load, SignalsInv, ClockBounds, States
  <2>2. s' \in Trimmed(s, now)
    BY <1>6 DEF Load
  <2>3. /\ s' \in Seq(Samples) /\ Nearly(s')
        /\ \A i \in 1..Len(s') : s'[i].at <= clock /\ s'[i].at >= now - Window - MaxStall
        /\ \E n \in 0..Len(s) : Dropped(n)
    <3>0. ~Recorded
      BY <1>0, <1>6 DEF Load, Recorded
    <3>1. /\ s \in Seq(Samples) /\ Nearly(s) /\ Len(s) = Len(s) + (IF Recorded THEN 1 ELSE 0)
          /\ \A i \in 1..Len(s) : s[i] = s[i]
          /\ \A i \in 1..Len(s) : s[i].at <= clock
          /\ Len(s) > Len(s) => s[Len(s)].at = now
      BY <1>0, <3>0
    <3> HIDE DEF now, s, Dropped
    <3> QED BY <1>4, <2>1, <2>2, <3>1
  <2>4. report' = [now |-> now, samples |-> s']
    BY <1>6 DEF Load
  <2>5. SignalsTypeOK' /\ ReportIsRecent'
    <3>1. report'.now = now /\ report'.samples = s'
      BY <2>4
    <3>2. ReportIsRecent'
      BY <2>3, <3>1 DEF ReportIsRecent
    <3>3. report' \in [now : 0..MaxTime, samples : Seq(Samples)]
      BY <2>1, <2>3, <2>4
    <3>4. goroutine' \in [Goroutines -> States] /\ clock' \in 0..MaxTime
      BY <1>0, <1>6 DEF Load, States
    <3> QED BY <2>3, <3>2, <3>3, <3>4 DEF SignalsTypeOK
  <2>6. ClockBounds' /\ NearlySorted'
    BY <1>0, <1>6, <2>3 DEF Load, SignalsInv, ClockBounds, States, NearlySorted, Nearly
  <2> QED BY <2>3, <2>5, <2>6 DEF SignalsInv
<1>7. ASSUME ClockTick PROVE SignalsInv' /\ Dropped(0)
  <2>1. SignalsTypeOK' /\ NearlySorted' /\ ReportIsRecent'
    BY <1>0, <1>7 DEF ClockTick, SignalsInv, SignalsTypeOK, NearlySorted, ReportIsRecent
  <2>2. ClockBounds'
    BY <1>0, <1>7 DEF ClockTick, SignalsInv, ClockBounds, States
  <2>3. Dropped(0)
    <3>1. ~Recorded
      BY <1>7 DEF ClockTick, Recorded
    <3> QED BY <1>1, <1>7, <3>1 DEF ClockTick
  <2> QED BY <2>1, <2>2, <2>3 DEF SignalsInv
<1>8. 0 \in 0..Len(s)
  BY <1>0
<1> QED BY <1>2, <1>3, <1>5, <1>6, <1>7, <1>8 DEF SignalsNext

\* The strengthening of the properties below is an invariant.
THEOREM SignalsInvariant == SignalsSpec => []SignalsInv
  BY InitSignals, SignalsStep, PTL DEF SignalsSpec

\* Samples are out of order by no more than one stall between reading the
\* clock and taking loadSignalsMu.
THEOREM SamplesNearlySorted == SignalsSpec => []NearlySorted
  BY SignalsInvariant, PTL DEF SignalsInv

\* GetLoadSignals reports samples of the window, up to one stall.
THEOREM ReportsAreRecent == SignalsSpec => []ReportIsRecent
  BY SignalsInvariant, PTL DEF SignalsInv

\* removeExpiredLatencySamplesLocked loses no sample of the window, up to one
\* stall, although it searches an unsorted list.
THEOREM OnlyExpiredDropped == SignalsSpec => DropsOnlyExpired
<1>1. SignalsInv /\ [SignalsNext]_signalVars =>
        [\E n \in 0..Len(requestDurations) :
            /\ \A i \in 1..n : requestDurations[i].at < clock - Window + MaxStall
            /\ Len(requestDurations') = Len(requestDurations) - n + (IF Recorded THEN 1 ELSE 0)
            /\ \A i \in 1..(Len(requestDurations) - n) :
                  requestDurations'[i] = requestDurations[n + i]]_signalVars
  BY SignalsStep
<1> QED BY <1>1, SignalsInvariant, PTL DEF SignalsSpec, DropsOnlyExpired

---------------------------------------------------------------------------
(* The percentile                                                          *)

\* A set of numbers has a least one.
LEMMA LeastNumber == ASSUME NEW T, T \subseteq Nat, T # {} PROVE \E m \in T : \A n \in T : m <= n
<1>1. \E m \in T : \A n \in T : ~(<<n, m>> \in OpToRel(<, Nat))
  BY NatLessThanWellFounded, WFMin
<1>2. ASSUME NEW m \in Nat, NEW n \in Nat, ~(<<n, m>> \in OpToRel(<, Nat)) PROVE m <= n
  BY <1>2 DEF OpToRel
<1> QED BY <1>1, <1>2

\* Induction, for a property that is given as the set of numbers that have it.
LEMMA SetInduction ==
    ASSUME NEW S, 0 \in S, \A n \in Nat : n \in S => n + 1 \in S
    PROVE  \A n \in Nat : n \in S
<1> DEFINE T == Nat \ S
<1> SUFFICES ASSUME T # {} PROVE FALSE
  OBVIOUS
<1>1. PICK m \in T : \A n \in T : m <= n
  BY LeastNumber
<1>2. m \in Nat /\ m # 0 /\ m - 1 \in Nat /\ (m - 1) + 1 = m /\ ~(m <= m - 1)
  BY <1>1
<1> QED BY <1>1, <1>2

\* The places at which f has the value d.
Places(f, n, d) == {i \in 1..n : f[i] = d}

\* The first n values of f are in order.
Ascending(f, n) == \A i \in 1..(n - 1) : f[i] <= f[i + 1]

\* g has every duration as often as f.
Rearranges(g, f, n) == \A d \in Durations : Cardinality(Places(g, n, d)) = Cardinality(Places(f, n, d))

\* Sets of places are finite.
LEMMA PlacesFinite ==
    ASSUME NEW n \in Nat, NEW S \in SUBSET (1..n)
    PROVE  IsFiniteSet(S) /\ Cardinality(S) \in Nat
<1>1. IsFiniteSet(1..n)
  BY FS_Interval
<1> QED BY <1>1, FS_Subset, FS_CardinalityType

\* Among finitely many durations one is largest.
LEMMA LargestValue ==
    \A n \in Nat : \A f \in [1..(n + 1) -> Durations] :
        \E m \in 1..(n + 1) : \A i \in 1..(n + 1) : f[i] <= f[m]
<1> DEFINE Q(n) == \A f \in [1..(n + 1) -> Durations] :
                      \E m \in 1..(n + 1) : \A i \in 1..(n + 1) : f[i] <= f[m]
           S == {n \in Nat : Q(n)}
<1>1. Q(0)
  <2> SUFFICES ASSUME NEW f \in [1..(0 + 1) -> Durations]
               PROVE  \E m \in 1..(0 + 1) : \A i \in 1..(0 + 1) : f[i] <= f[m]
    OBVIOUS
  <2>1. 1 \in 1..(0 + 1) /\ \A i \in 1..(0 + 1) : i = 1
    OBVIOUS
  <2>2. f[1] \in Durations
    BY <2>1
  <2>3. f[1] <= f[1]
    <3>1. f[1] \in Nat
      BY <2>2
    <3> QED BY <3>1
  <2> QED BY <2>1, <2>3
<1>2. ASSUME NEW n \in Nat, Q(n) PROVE Q(n + 1)
  <2> SUFFICES ASSUME NEW f \in [1..(n + 1 + 1) -> Durations]
               PROVE  \E m \in 1..(n + 1 + 1) : \A i \in 1..(n + 1 + 1) : f[i] <= f[m]
    OBVIOUS
  <2> DEFINE g == [i \in 1..(n + 1) |-> f[i]]
             z == n + 1 + 1
  <2>1. g \in [1..(n + 1) -> Durations] /\ \A i \in 1..(n + 1) : g[i] = f[i] /\ i \in 1..z
    OBVIOUS
  <2>2. PICK m \in 1..(n + 1) : \A i \in 1..(n + 1) : g[i] <= g[m]
    BY <1>2, <2>1
  <2>3. z \in 1..z /\ \A i \in 1..z : (i = z \/ i \in 1..(n + 1)) /\ f[i] \in Nat
    <3>1. z \in 1..z /\ \A i \in 1..z : i = z \/ i \in 1..(n + 1)
      OBVIOUS
    <3>2. \A i \in 1..z : f[i] \in Durations
      OBVIOUS
    <3> QED BY <3>1, <3>2
  <2> HIDE DEF g, z
  <2>4. \A i \in 1..(n + 1) : f[i] <= f[m]
    BY <2>1, <2>2
  <2>5. f[m] \in Nat /\ f[z] \in Nat /\ m \in 1..z
    BY <2>1, <2>3
  <2>6. CASE f[z] <= f[m]
    BY <2>3, <2>4, <2>5, <2>6 DEF z
  <2>7. CASE f[m] <= f[z]
    <3>1. \A i \in 1..z : f[i] <= f[z]
      BY <2>3, <2>4, <2>5, <2>7
    <3> QED BY <2>3, <3>1 DEF z
  <2>8. f[z] <= f[m] \/ f[m] <= f[z]
    BY <2>5
  <2> QED BY <2>6, <2>7, <2>8
<1> HIDE DEF Q
<1>3. 0 \in S /\ \A n \in Nat : n \in S => n + 1 \in S
  BY <1>1, <1>2
<1>4. \A n \in Nat : n \in S
  BY <1>3, SetInduction
<1> QED BY <1>4 DEF Q

\* An ascending function has no larger value before a smaller one.
LEMMA AscendingPairs ==
    ASSUME NEW n \in Nat, NEW f \in [1..n -> Nat], Ascending(f, n)
    PROVE  \A i, j \in 1..n : i <= j => f[i] <= f[j]
<1> DEFINE S == {k \in Nat : \A i \in 1..n : i + k \in 1..n => f[i] <= f[i + k]}
<1>1. 0 \in S
  <2>1. \A i \in 1..n : f[i] \in Nat /\ i + 0 = i
    OBVIOUS
  <2> QED BY <2>1
<1>2. ASSUME NEW k \in Nat, k \in S PROVE k + 1 \in S
  <2> SUFFICES ASSUME NEW i \in 1..n, i + (k + 1) \in 1..n PROVE f[i] <= f[i + (k + 1)]
    OBVIOUS
  <2>1. i + k \in 1..n /\ i + k \in 1..(n - 1) /\ i + k + 1 = i + (k + 1)
    OBVIOUS
  <2>2. f[i] <= f[i + k] /\ f[i + k] <= f[i + (k + 1)]
    BY <1>2, <2>1 DEF Ascending
  <2>3. f[i] \in Nat /\ f[i + k] \in Nat /\ f[i + (k + 1)] \in Nat
    BY <2>1
  <2> QED BY <2>2, <2>3
<1>3. \A k \in Nat : k \in S
  BY <1>1, <1>2, SetInduction
<1>4. ASSUME NEW i \in 1..n, NEW j \in 1..n, i <= j PROVE f[i] <= f[j]
  <2>1. j - i \in Nat /\ i + (j - i) = j
    BY <1>4
  <2>2. j - i \in S
    BY <1>3, <2>1
  <2> QED BY <2>1, <2>2
<1> QED BY <1>4

\* Moving the largest value to the end: what is left has it once less.
LEMMA WithoutLargest ==
    ASSUME NEW n \in Nat, NEW f \in [1..(n + 1) -> Durations], NEW m \in 1..(n + 1), NEW d
    PROVE  LET g == [i \in 1..n |-> IF i = m THEN f[n + 1] ELSE f[i]] IN
           Cardinality(Places(f, n + 1, d)) =
               Cardinality(Places(g, n, d)) + (IF f[m] = d THEN 1 ELSE 0)
<1> DEFINE g == [i \in 1..n |-> IF i = m THEN f[n + 1] ELSE f[i]]
           A == Places(f, n + 1, d)
           C == (A \ {m}) \ {n + 1}
<1>1. /\ \A i \in 1..n : i \in 1..(n + 1) /\ i # n + 1 /\ g[i] = IF i = m THEN f[n + 1] ELSE f[i]
      /\ \A i \in 1..(n + 1) : i = n + 1 \/ i \in 1..n
      /\ n + 1 \in 1..(n + 1) /\ n + 1 \in Nat
  OBVIOUS
<1> HIDE DEF g
<1>2. IsFiniteSet(A) /\ Cardinality(A) \in Nat /\ IsFiniteSet(C) /\ Cardinality(C) \in Nat
  <2>1. A \in SUBSET (1..(n + 1)) /\ C \in SUBSET (1..(n + 1))
    BY DEF Places
  <2> QED BY <1>1, <2>1, PlacesFinite
<1>3. Cardinality(A \ {m}) = Cardinality(A) - (IF f[m] = d THEN 1 ELSE 0) /\ IsFiniteSet(A \ {m})
  <2>1. m \in A <=> f[m] = d
    BY DEF Places
  <2> QED BY <1>2, <2>1, FS_RemoveElement
<1>4. CASE m = n + 1
  <2>1. Places(g, n, d) = A \ {m}
    BY <1>1, <1>4 DEF Places
  <2> HIDE DEF A, C
  <2>2. Cardinality(A) = Cardinality(Places(g, n, d)) + (IF f[m] = d THEN 1 ELSE 0)
    BY <1>2, <1>3, <2>1
  <2> QED BY <2>2 DEF g, A
<1>5. CASE m # n + 1
  <2> DEFINE B == A \ {m}
  <2>1. n + 1 \in B <=> f[n + 1] = d
    BY <1>1, <1>5 DEF Places
  <2>2. Cardinality(B \ {n + 1}) = Cardinality(B) - (IF f[n + 1] = d THEN 1 ELSE 0)
    <3>1. IsFiniteSet(B)
      BY <1>3
    <3> HIDE DEF B
    <3>2. CASE n + 1 \in B
      <4>1. Cardinality(B \ {n + 1}) = Cardinality(B) - 1
        BY <3>1, <3>2, FS_RemoveElement
      <4> QED BY <2>1, <3>2, <4>1
    <3>3. CASE n + 1 \notin B
      <4>1. B \ {n + 1} = B /\ Cardinality(B) \in Nat
        BY <3>1, <3>3, FS_CardinalityType
      <4>2. f[n + 1] # d /\ Cardinality(B \ {n + 1}) = Cardinality(B)
        BY <2>1, <3>3, <4>1
      <4> QED BY <4>1, <4>2
    <3> QED BY <3>2, <3>3
  <2>3. Places(g, n, d) = IF f[n + 1] = d THEN C \cup {m} ELSE C
    BY <1>1, <1>5 DEF Places
  <2>4. m \notin C
    OBVIOUS
  <2>5. Cardinality(C) = Cardinality(B) - (IF f[n + 1] = d THEN 1 ELSE 0)
    BY <2>2
  <2>6. Cardinality(B) = Cardinality(A) - (IF f[m] = d THEN 1 ELSE 0)
    BY <1>3
  <2> HIDE DEF A, B, C
  <2>7. Cardinality(C \cup {m}) = Cardinality(C) + 1
    BY <1>2, <2>4, FS_AddElement
  <2>8. Cardinality(Places(g, n, d)) = Cardinality(C) + (IF f[n + 1] = d THEN 1 ELSE 0)
    BY <1>2, <2>3, <2>7
  <2>9. Cardinality(A) = Cardinality(Places(g, n, d)) + (IF f[m] = d THEN 1 ELSE 0)
    <3>1. Cardinality(B) \in Int
      BY <1>2, <2>6
    <3> QED BY <1>2, <2>5, <2>6, <2>8, <3>1
  <2> QED BY <2>9 DEF g, A
<1> QED BY <1>4, <1>5

\* Durations can be sorted, so that the CHOOSE of SortedDurations has what to
\* choose: sort the values without a largest one and put that one last.
LEMMA CanSort ==
    \A n \in Nat : \A f \in [1..n -> Durations] :
        \E t \in [1..n -> Durations] : Ascending(t, n) /\ Rearranges(t, f, n)
<1> DEFINE Q(n) == \A f \in [1..n -> Durations] :
                      \E t \in [1..n -> Durations] : Ascending(t, n) /\ Rearranges(t, f, n)
           S == {n \in Nat : Q(n)}
<1>1. Q(0)
  <2> SUFFICES ASSUME NEW f \in [1..0 -> Durations]
               PROVE  \E t \in [1..0 -> Durations] : Ascending(t, 0) /\ Rearranges(t, f, 0)
    OBVIOUS
  <2>1. Ascending(f, 0) /\ Rearranges(f, f, 0)
    BY DEF Ascending, Rearranges
  <2> QED BY <2>1
<1>2. ASSUME NEW n \in Nat, Q(n) PROVE Q(n + 1)
  <2> SUFFICES ASSUME NEW f \in [1..(n + 1) -> Durations]
               PROVE  \E t \in [1..(n + 1) -> Durations] : Ascending(t, n + 1) /\ Rearranges(t, f, n + 1)
    OBVIOUS
  <2>1. PICK m \in 1..(n + 1) : \A i \in 1..(n + 1) : f[i] <= f[m]
    BY LargestValue
  <2> DEFINE g == [i \in 1..n |-> IF i = m THEN f[n + 1] ELSE f[i]]
  <2>2. g \in [1..n -> Durations] /\ n + 1 \in 1..(n + 1) /\ f[m] \in Durations
    OBVIOUS
  <2>3. \A d \in Durations : Cardinality(Places(f, n + 1, d)) =
                                Cardinality(Places(g, n, d)) + (IF f[m] = d THEN 1 ELSE 0)
    BY WithoutLargest
  <2>4. \A i \in 1..n : g[i] <= f[m]
    BY <2>1
  <2> HIDE DEF g
  <2>5. PICK u \in [1..n -> Durations] : Ascending(u, n) /\ Rearranges(u, g, n)
    BY <1>2, <2>2
  <2> DEFINE t == [i \in 1..(n + 1) |-> IF i = n + 1 THEN f[m] ELSE u[i]]
  <2>6. /\ t \in [1..(n + 1) -> Durations] /\ t[n + 1] = f[m]
        /\ \A i \in 1..n : t[i] = u[i] /\ i \in 1..(n + 1) /\ i # n + 1
        /\ \A i \in 1..(n + 1) : i = n + 1 \/ i \in 1..n
    BY <2>2
  <2> HIDE DEF t
  <2>7. ASSUME NEW i \in 1..n PROVE u[i] <= f[m]
    <3>1. u[i] \in Durations
      OBVIOUS
    <3>2. Places(u, n, u[i]) # {}
      BY DEF Places
    <3>3. Places(g, n, u[i]) # {}
      <4>1. /\ IsFiniteSet(Places(u, n, u[i]))
            /\ Cardinality(Places(u, n, u[i])) = Cardinality(Places(g, n, u[i]))
        <5>1. Places(u, n, u[i]) \in SUBSET (1..n)
          BY DEF Places
        <5> QED BY <2>5, <3>1, <5>1, PlacesFinite DEF Rearranges
      <4> QED BY <3>2, <4>1, FS_EmptySet
    <3> QED BY <2>4, <3>3 DEF Places
  <2>8. Ascending(t, n + 1)
    <3> SUFFICES ASSUME NEW i \in 1..n PROVE t[i] <= t[i + 1]
      BY DEF Ascending
    <3>1. CASE i = n
      BY <2>6, <2>7, <3>1
    <3>2. CASE i # n
      <4>1. i \in 1..(n - 1) /\ i + 1 \in 1..n
        BY <3>2
      <4> QED BY <2>5, <2>6, <4>1 DEF Ascending
    <3> QED BY <3>1, <3>2
  <2>9. ASSUME NEW d \in Durations
        PROVE  Cardinality(Places(t, n + 1, d)) = Cardinality(Places(f, n + 1, d))
    <3>1. Places(t, n + 1, d) = IF f[m] = d THEN Places(u, n, d) \cup {n + 1} ELSE Places(u, n, d)
      BY <2>2, <2>6 DEF Places
    <3>2. IsFiniteSet(Places(u, n, d)) /\ Cardinality(Places(u, n, d)) \in Nat
      <4>1. Places(u, n, d) \in SUBSET (1..n)
        BY DEF Places
      <4> QED BY <4>1, PlacesFinite
    <3>3. n + 1 \notin Places(u, n, d)
      BY DEF Places
    <3>4. Cardinality(Places(u, n, d) \cup {n + 1}) = Cardinality(Places(u, n, d)) + 1
      BY <3>2, <3>3, FS_AddElement
    <3>5. Cardinality(Places(u, n, d)) = Cardinality(Places(g, n, d))
      BY <2>5 DEF Rearranges
    <3> QED BY <2>3, <3>1, <3>2, <3>4, <3>5
  <2> QED BY <2>6, <2>8, <2>9 DEF Rearranges
<1> HIDE DEF Q
<1>3. 0 \in S /\ \A n \in Nat : n \in S => n + 1 \in S
  BY <1>1, <1>2
<1>4. \A n \in Nat : n \in S
  BY <1>3, SetInduction
<1> QED BY <1>4 DEF Q

\* The places at which f has a value of at most d.
Below(f, n, d) == {i \in 1..n : f[i] <= d}

\* As many values are at most d after sorting as before.
LEMMA SameBelow ==
    ASSUME NEW n \in Nat, NEW f \in [1..n -> Durations], NEW t \in [1..n -> Durations],
           Rearranges(t, f, n), NEW d
    PROVE  Cardinality(Below(t, n, d)) = Cardinality(Below(f, n, d))
<1> DEFINE b(e) == CHOOSE h : h \in Bijection(Places(t, n, e), Places(f, n, e))
           g == [i \in Below(t, n, d) |-> b(t[i])[i]]
<1>1. ASSUME NEW e \in Durations PROVE b(e) \in Bijection(Places(t, n, e), Places(f, n, e))
  <2>1. Places(t, n, e) \in SUBSET (1..n) /\ Places(f, n, e) \in SUBSET (1..n)
    BY DEF Places
  <2>2. IsFiniteSet(Places(t, n, e)) /\ IsFiniteSet(Places(f, n, e))
    BY <2>1, PlacesFinite
  <2>3. Cardinality(Places(t, n, e)) = Cardinality(Places(f, n, e))
    BY DEF Rearranges
  <2>4. ExistsBijection(Places(t, n, e), Places(f, n, e))
    BY <2>2, <2>3, FS_SameCardinalityBij
  <2> QED BY <2>4 DEF ExistsBijection
<1> HIDE DEF b
<1>2. ASSUME NEW e \in Durations
      PROVE  /\ b(e) \in [Places(t, n, e) -> Places(f, n, e)]
             /\ \A i, j \in Places(t, n, e) : b(e)[i] = b(e)[j] => i = j
             /\ \A k \in Places(f, n, e) : \E i \in Places(t, n, e) : b(e)[i] = k
  BY <1>1 DEF Bijection, Injection, Surjection, IsInjective
<1>3. ASSUME NEW i \in Below(t, n, d)
      PROVE  /\ t[i] \in Durations /\ i \in Places(t, n, t[i])
             /\ g[i] = b(t[i])[i] /\ g[i] \in Below(f, n, d) /\ f[g[i]] = t[i]
  <2>1. i \in 1..n /\ t[i] <= d /\ t[i] \in Durations
    BY DEF Below
  <2>2. i \in Places(t, n, t[i]) /\ g[i] = b(t[i])[i]
    BY <2>1 DEF Places
  <2>3. g[i] \in Places(f, n, t[i])
    BY <1>2, <2>1, <2>2
  <2>4. g[i] \in 1..n /\ f[g[i]] = t[i]
    BY <2>3 DEF Places
  <2> HIDE DEF g
  <2> QED BY <2>1, <2>2, <2>4 DEF Below
<1>4. g \in [Below(t, n, d) -> Below(f, n, d)]
  BY <1>3
<1> HIDE DEF g
<1>5. ASSUME NEW i \in Below(t, n, d), NEW j \in Below(t, n, d), g[i] = g[j] PROVE i = j
  <2>1. t[i] = t[j]
    BY <1>3, <1>5
  <2>2. b(t[i])[i] = b(t[i])[j] /\ j \in Places(t, n, t[i])
    BY <1>3, <1>5, <2>1
  <2> QED BY <1>2, <1>3, <2>2
<1>6. ASSUME NEW k \in Below(f, n, d) PROVE \E i \in Below(t, n, d) : g[i] = k
  <2>1. k \in 1..n /\ f[k] \in Durations /\ f[k] <= d /\ k \in Places(f, n, f[k])
    BY DEF Below, Places
  <2>2. PICK i \in Places(t, n, f[k]) : b(f[k])[i] = k
    BY <1>2, <2>1
  <2>3. i \in 1..n /\ t[i] = f[k]
    BY <2>2 DEF Places
  <2>4. i \in Below(t, n, d)
    BY <2>1, <2>3 DEF Below
  <2> QED BY <1>3, <2>2, <2>3, <2>4
<1>7. g \in Bijection(Below(t, n, d), Below(f, n, d))
  BY <1>4, <1>5, <1>6 DEF Bijection, Injection, Surjection, IsInjective
<1>8. ExistsBijection(Below(t, n, d), Below(f, n, d))
  BY <1>7 DEF ExistsBijection
<1>9. IsFiniteSet(Below(t, n, d))
  <2>1. Below(t, n, d) \in SUBSET (1..n)
    BY DEF Below
  <2> QED BY <2>1, PlacesFinite
<1> QED BY <1>8, <1>9, FS_Bijection

\* Dividing by 100 and rounding up.
LEMMA RoundedUp ==
    ASSUME NEW p \in Nat
    PROVE  /\ (p + 99) \div 100 \in Nat
           /\ 100 * ((p + 99) \div 100) >= p
           /\ 100 * ((p + 99) \div 100 - 1) < p
  OBVIOUS

\* The rank of the element that is picked, counted from 1: the first that
\* makes Percent percent.
LEMMA IndexRank ==
    ASSUME NEW n \in Nat \ {0}
    PROVE  LET m == Index(n) + 1 IN
           m \in 1..n /\ 100 * m >= Percent * n /\ 100 * (m - 1) < Percent * n
<1> DEFINE p == Percent * n
           q == (p + 99) \div 100
<1>1. p \in Nat /\ p >= 1 /\ p <= 100 * n
  <2>1. Percent \in Nat /\ Percent >= 1 /\ Percent <= 100 /\ n >= 1
    OBVIOUS
  <2>2. p \in Nat
    BY <2>1
  <2>3. p >= 1
    BY <2>1
  <2>4. p <= 100 * n
    <3>1. (100 - Percent) * n >= 0
      BY <2>1
    <3> QED BY <2>1, <3>1
  <2> QED BY <2>2, <2>3, <2>4
<1> HIDE DEF p
<1>2. q \in Nat /\ 100 * q >= p /\ 100 * (q - 1) < p
  BY <1>1, RoundedUp
<1>3. Index(n) + 1 = q
  <2>1. Index(n) = q - 1
    BY DEF Index, p
  <2> HIDE DEF q
  <2> QED BY <1>2, <2>1
<1> HIDE DEF q
<1>4. q \in 1..n
  BY <1>1, <1>2
<1> QED BY <1>2, <1>3, <1>4 DEF p

\* The durations of the samples s, as a function.
Took(s) == [i \in 1..Len(s) |-> s[i].took]

\* The samples have durations.
LEMMA TookType ==
    ASSUME NEW s \in Seq(Samples)
    PROVE  Len(s) \in Nat /\ Took(s) \in [1..Len(s) -> Durations]
<1>1. Len(s) \in Nat /\ \A i \in 1..Len(s) : s[i] \in Samples
  OBVIOUS
<1>2. \A x \in Samples : x.took \in Durations
  BY DEF Samples
<1> QED BY <1>1, <1>2 DEF Took

\* What sort.Slice leaves is in order and has the durations of s.
LEMMA SortedMeaning ==
    ASSUME NEW s \in Seq(Samples)
    PROVE  LET t == SortedDurations(s) IN
           /\ t \in [1..Len(s) -> Durations]
           /\ Ascending(t, Len(s)) /\ Rearranges(t, Took(s), Len(s))
<1> DEFINE G(t) == Ascending(t, Len(s)) /\ Rearranges(t, Took(s), Len(s))
           H(t) == /\ \A i \in 1..(Len(s) - 1) : t[i] <= t[i + 1]
                   /\ \A d \in Durations :
                         Cardinality({i \in 1..Len(s) : t[i] = d})
                             = Cardinality({i \in 1..Len(s) : s[i].took = d})
<1>1. \E t \in [1..Len(s) -> Durations] : G(t)
  BY TookType, CanSort
<1>2. \A d : Places(Took(s), Len(s), d) = {i \in 1..Len(s) : s[i].took = d}
  BY DEF Places, Took
<1>3. ASSUME NEW t PROVE G(t) <=> H(t)
  <2>1. \A d : Places(t, Len(s), d) = {i \in 1..Len(s) : t[i] = d}
    BY DEF Places
  <2> QED BY <1>2, <2>1 DEF Ascending, Rearranges
<1>4. SortedDurations(s) = CHOOSE t \in [1..Len(s) -> Durations] : H(t)
  BY DEF SortedDurations
<1> HIDE DEF G, H
<1>5. SortedDurations(s) \in [1..Len(s) -> Durations] /\ G(SortedDurations(s))
  BY <1>1, <1>3, <1>4
<1> QED BY <1>5 DEF G

\* The element that is picked from the sorted durations is the least that
\* Percent percent of them do not exceed.
LEMMA PickedIsPercentile ==
    ASSUME NEW s \in Seq(Samples), s # <<>>
    PROVE  LET enough == {d \in Durations :
                            100 * Cardinality(Below(Took(s), Len(s), d)) >= Percent * Len(s)} IN
           P99Latency(s) \in enough /\ \A d \in enough : P99Latency(s) <= d
<1> DEFINE n == Len(s)
           t == SortedDurations(s)
           m == Index(n) + 1
<1>1. n \in Nat \ {0} /\ P99Latency(s) = t[m]
  BY DEF P99Latency
<1>2. t \in [1..n -> Durations] /\ Ascending(t, n) /\ Rearranges(t, Took(s), n)
  BY SortedMeaning
<1>3. Took(s) \in [1..n -> Durations]
  BY TookType
<1> HIDE DEF t, n
<1>4. m \in 1..n /\ 100 * m >= Percent * n /\ 100 * (m - 1) < Percent * n
  BY <1>1, IndexRank
<1> HIDE DEF m
<1>5. \A i, j \in 1..n : i <= j => t[i] <= t[j]
  <2>1. t \in [1..n -> Nat]
    BY <1>2
  <2> QED BY <1>1, <1>2, <2>1, AscendingPairs
<1>6. ASSUME NEW d \in Nat
      PROVE  /\ Cardinality(Below(Took(s), n, d)) = Cardinality(Below(t, n, d))
             /\ IsFiniteSet(Below(t, n, d)) /\ Cardinality(Below(t, n, d)) \in Nat
  <2>1. Below(t, n, d) \in SUBSET (1..n)
    BY DEF Below
  <2>2. IsFiniteSet(Below(t, n, d)) /\ Cardinality(Below(t, n, d)) \in Nat
    BY <1>1, <2>1, PlacesFinite
  <2>3. Cardinality(Below(Took(s), n, d)) = Cardinality(Below(t, n, d))
    BY <1>1, <1>2, <1>3, SameBelow
  <2> QED BY <2>2, <2>3
<1>7. ASSUME NEW k \in Nat PROVE IsFiniteSet(1..k) /\ Cardinality(1..k) = k
  <2>1. Cardinality(1..k) = IF 1 <= k THEN k - 1 + 1 ELSE 0
    BY FS_Interval
  <2>2. IsFiniteSet(1..k)
    BY FS_Interval
  <2> QED BY <2>1, <2>2
<1>8. t[m] \in Durations /\ t[m] \in Nat /\ m \in Nat /\ m - 1 \in Nat /\ Percent * n \in Nat
  <2>1. t[m] \in Durations
    BY <1>2, <1>4
  <2>2. t[m] \in Nat
    BY <2>1
  <2>3. m \in Nat /\ m - 1 \in Nat
    BY <1>1, <1>4
  <2>4. Percent * n \in Nat
    BY <1>1
  <2> QED BY <2>1, <2>2, <2>3, <2>4
<1>9. 100 * Cardinality(Below(t, n, t[m])) >= Percent * n
  <2>1. 1..m \subseteq Below(t, n, t[m])
    <3>1. \A i \in 1..m : i \in 1..n /\ i <= m
      BY <1>1, <1>4
    <3> QED BY <1>4, <1>5, <3>1 DEF Below
  <2>2. m <= Cardinality(Below(t, n, t[m]))
    <3>1. IsFiniteSet(Below(t, n, t[m]))
      BY <1>6, <1>8
    <3>2. Cardinality(1..m) <= Cardinality(Below(t, n, t[m]))
      BY <2>1, <3>1, FS_Subset
    <3>3. Cardinality(1..m) = m
      BY <1>7, <1>8
    <3> QED BY <3>2, <3>3
  <2>3. Cardinality(Below(t, n, t[m])) \in Nat
    BY <1>6, <1>8
  <2> DEFINE c == Cardinality(Below(t, n, t[m]))
             p == Percent * n
  <2> HIDE DEF c, p
  <2>4. m \in Nat /\ p \in Nat /\ c \in Nat /\ m <= c /\ 100 * m >= p
    BY <1>4, <1>8, <2>2, <2>3 DEF c, p
  <2>5. 100 * c >= p
    BY <2>4
  <2> QED BY <2>5 DEF c, p
<1>10. ASSUME NEW d \in Durations, 100 * Cardinality(Below(t, n, d)) >= Percent * n
       PROVE  t[m] <= d
  <2>0. d \in Nat
    OBVIOUS
  <2> SUFFICES ASSUME d < t[m] PROVE FALSE
    BY <1>8, <2>0
  <2>1. Below(t, n, d) \subseteq 1..(m - 1)
    <3> SUFFICES ASSUME NEW i \in 1..n, t[i] <= d PROVE i \in 1..(m - 1)
      BY DEF Below
    <3>1. t[i] \in Nat
      <4>1. t[i] \in Durations
        BY <1>2
      <4> QED BY <4>1
    <3>2. ~(t[m] <= t[i])
      BY <1>8, <2>0, <3>1
    <3>3. ~(m <= i)
      BY <1>4, <1>5, <3>2
    <3> QED BY <1>8, <3>3
  <2>2. Cardinality(Below(t, n, d)) <= m - 1
    BY <1>7, <1>8, <2>1, FS_Subset
  <2> DEFINE c == Cardinality(Below(t, n, d))
             p == Percent * n
  <2> HIDE DEF c, p
  <2>3. c \in Nat /\ p \in Nat /\ c <= m - 1 /\ 100 * (m - 1) < p /\ 100 * c >= p
    BY <1>4, <1>6, <1>8, <1>10, <2>0, <2>2 DEF c, p
  <2> QED BY <1>8, <2>3
<1>11. /\ 100 * Cardinality(Below(Took(s), n, t[m])) >= Percent * n
       /\ \A d \in Durations :
             100 * Cardinality(Below(Took(s), n, d)) >= Percent * n => t[m] <= d
  <2>1. \A d \in Durations : Cardinality(Below(Took(s), n, d)) = Cardinality(Below(t, n, d))
    BY <1>6
  <2> QED BY <1>8, <1>9, <1>10, <2>1
<1> QED BY <1>1, <1>8, <1>11 DEF n

\* The same of what GetLoadSignals reports.
LEMMA ReportedPercentile == ASSUME SignalsTypeOK PROVE ReportsPercentile
<1> DEFINE s == report.samples
<1>1. s \in Seq(Samples)
  BY DEF SignalsTypeOK
<1>2. \A d : AtMost(d) = Cardinality(Below(Took(s), Len(s), d))
  <2>1. \A d : Below(Took(s), Len(s), d) = {i \in 1..Len(s) : s[i].took <= d}
    BY DEF Below, Took
  <2> QED BY <2>1 DEF AtMost
<1>3. s = <<>> => P99Latency(s) = 0
  BY DEF P99Latency
<1>4. ASSUME s # <<>>
      PROVE  LET enough == {d \in Durations : 100 * AtMost(d) >= Percent * Len(s)} IN
             P99Latency(s) \in enough /\ \A d \in enough : P99Latency(s) <= d
  BY <1>1, <1>2, <1>4, PickedIsPercentile
<1> QED BY <1>3, <1>4 DEF ReportsPercentile

\* calculateP99LatencyMs reports the least duration that Percent percent of
\* the samples do not exceed, whatever their number and order.
THEOREM LatencyIsPercentile == SignalsSpec => []ReportsPercentile
<1>1. SignalsInv => ReportsPercentile
  BY ReportedPercentile DEF SignalsInv
<1> QED BY <1>1, SignalsInvariant, PTL

---------------------------------------------------------------------------
(* Requests and semaphores                                                 *)

USE BackendAssumption

Inside == {"config", "wait", "work", "leave"}

\* The requests that handler.Active counts.
Counted == {r \in Requests : request[r].pc \in Inside}

\* The requests that hold an element of semaphore k.
Holders(k) == {r \in Requests : request[r].pc = "work" /\ request[r].semaphore = k}

\* Both counters are exact, and a semaphore that is not made yet has no room.
CountersInv ==
    /\ IsFiniteSet(Counted) /\ active = Cardinality(Counted)
    /\ \A k \in Semaphores :
          /\ IsFiniteSet(Holders(k)) /\ taken[k] = Cardinality(Holders(k)) /\ taken[k] <= size[k]
          /\ k > made => size[k] = 0

HandlingInv == TypeOK /\ CountersInv

\* CountersInv gives the two properties of the counters.
LEMMA CountersMeaning ==
    ASSUME CountersInv PROVE ActiveIsExact /\ SlotsMatchHolders
<1>1. ActiveIsExact
  BY DEF CountersInv, Counted, Inside, ActiveIsExact
<1>2. ASSUME NEW k \in Semaphores
      PROVE  /\ taken[k] = Cardinality({r \in Working : request[r].semaphore = k})
             /\ taken[k] <= size[k]
  <2>1. {r \in Working : request[r].semaphore = k} = Holders(k)
    BY DEF Working, At, Holders
  <2> QED BY <2>1 DEF CountersInv
<1> QED BY <1>1, <1>2 DEF SlotsMatchHolders

\* Where a request may be, and under which semaphore.
Phases == [pc : {"idle", "enter", "config", "wait", "work", "leave"}, semaphore : Semaphores]

\* What a step of one request does to the sets behind the counters.
LEMMA RequestMoves ==
    ASSUME TypeOK, CountersInv, NEW r \in Requests, NEW x \in Phases,
           request' = [request EXCEPT ![r] = x]
    PROVE  /\ request' \in [Requests -> Phases]
           /\ IsFiniteSet(Counted')
           /\ Cardinality(Counted') =
                 IF x.pc \in Inside
                 THEN IF request[r].pc \in Inside THEN active ELSE active + 1
                 ELSE IF request[r].pc \in Inside THEN active - 1 ELSE active
           /\ \A k \in Semaphores :
                 /\ IsFiniteSet(Holders(k)')
                 /\ Cardinality(Holders(k)') =
                       IF x.pc = "work" /\ x.semaphore = k
                       THEN IF r \in Holders(k) THEN taken[k] ELSE taken[k] + 1
                       ELSE IF r \in Holders(k) THEN taken[k] - 1 ELSE taken[k]
<1>0. request \in [Requests -> Phases]
  BY DEF TypeOK, Phases
<1>1. request' \in [Requests -> Phases] /\ request'[r] = x /\ \A q \in Requests \ {r} : request'[q] = request[q]
  BY <1>0
<1>2. Counted' = IF x.pc \in Inside THEN Counted \cup {r} ELSE Counted \ {r}
  BY <1>1 DEF Counted, Inside
<1>3. /\ IsFiniteSet(Counted \cup {r}) /\ IsFiniteSet(Counted \ {r})
      /\ Cardinality(Counted \cup {r}) = IF r \in Counted THEN active ELSE active + 1
      /\ Cardinality(Counted \ {r}) = IF r \in Counted THEN active - 1 ELSE active
  BY FS_AddElement, FS_RemoveElement DEF CountersInv
<1>4. r \in Counted <=> request[r].pc \in Inside
  BY DEF Counted, Inside
<1>5. ASSUME NEW k \in Semaphores
      PROVE  /\ IsFiniteSet(Holders(k)')
             /\ Cardinality(Holders(k)') =
                   IF x.pc = "work" /\ x.semaphore = k
                   THEN IF r \in Holders(k) THEN taken[k] ELSE taken[k] + 1
                   ELSE IF r \in Holders(k) THEN taken[k] - 1 ELSE taken[k]
  <2>1. Holders(k)' = IF x.pc = "work" /\ x.semaphore = k THEN Holders(k) \cup {r} ELSE Holders(k) \ {r}
    BY <1>1 DEF Holders
  <2>2. /\ IsFiniteSet(Holders(k) \cup {r}) /\ IsFiniteSet(Holders(k) \ {r})
        /\ Cardinality(Holders(k) \cup {r}) = IF r \in Holders(k) THEN taken[k] ELSE taken[k] + 1
        /\ Cardinality(Holders(k) \ {r}) = IF r \in Holders(k) THEN taken[k] - 1 ELSE taken[k]
    <3>1. IsFiniteSet(Holders(k)) /\ taken[k] = Cardinality(Holders(k))
      BY DEF CountersInv
    <3> QED BY <3>1, FS_AddElement, FS_RemoveElement
  <2> QED BY <2>1, <2>2
<1>6. IsFiniteSet(Counted') /\ Cardinality(Counted') =
         IF x.pc \in Inside
         THEN IF request[r].pc \in Inside THEN active ELSE active + 1
         ELSE IF request[r].pc \in Inside THEN active - 1 ELSE active
  BY <1>2, <1>3, <1>4
<1> QED BY <1>1, <1>5, <1>6

\* A step that leaves both counters and the requests inside alone.
LEMMA CountersKept ==
    ASSUME HandlingInv, UNCHANGED <<made, size, taken, request, active>>
    PROVE  CountersInv'
  BY DEF HandlingInv, CountersInv, Counted, Holders

\* Every step of a request keeps the counters exact.
LEMMA RequestStep ==
    ASSUME HandlingInv, NEW r \in Requests,
           Check(r) \/ Serve(r) \/ Acquire(r) \/ Cancel(r)
    PROVE  HandlingInv'
<1> USE DEF At
<1>0. /\ made \in Semaphores /\ size \in [Semaphores -> Nat]
      /\ taken \in [Semaphores -> Nat] /\ request \in [Requests -> Phases]
      /\ active \in Nat /\ TypeOK /\ CountersInv /\ made \in Int
  BY DEF HandlingInv, TypeOK, Phases, Semaphores
<1>1. ASSUME NEW x \in Phases, request' = [request EXCEPT ![r] = x],
             UNCHANGED <<made, size, unavailable, timer>>,
             active' \in Nat, taken' \in [Semaphores -> Nat],
             active' = IF x.pc \in Inside
                       THEN IF request[r].pc \in Inside THEN active ELSE active + 1
                       ELSE IF request[r].pc \in Inside THEN active - 1 ELSE active,
             \A k \in Semaphores :
                /\ taken'[k] = IF x.pc = "work" /\ x.semaphore = k
                               THEN IF r \in Holders(k) THEN taken[k] ELSE taken[k] + 1
                               ELSE IF r \in Holders(k) THEN taken[k] - 1 ELSE taken[k]
                /\ taken'[k] <= size[k]
      PROVE  HandlingInv'
  <2>1. /\ request' \in [Requests -> Phases]
        /\ IsFiniteSet(Counted') /\ Cardinality(Counted') = active'
        /\ \A k \in Semaphores :
              IsFiniteSet(Holders(k)') /\ Cardinality(Holders(k)') = taken'[k]
    <3>1. /\ request' \in [Requests -> Phases] /\ IsFiniteSet(Counted')
          /\ Cardinality(Counted') =
                IF x.pc \in Inside
                THEN IF request[r].pc \in Inside THEN active ELSE active + 1
                ELSE IF request[r].pc \in Inside THEN active - 1 ELSE active
      BY <1>0, <1>1, RequestMoves
    <3>2. ASSUME NEW k \in Semaphores
          PROVE  IsFiniteSet(Holders(k)') /\ Cardinality(Holders(k)') = taken'[k]
      <4>1. /\ IsFiniteSet(Holders(k)')
            /\ Cardinality(Holders(k)') =
                  IF x.pc = "work" /\ x.semaphore = k
                  THEN IF r \in Holders(k) THEN taken[k] ELSE taken[k] + 1
                  ELSE IF r \in Holders(k) THEN taken[k] - 1 ELSE taken[k]
        BY <1>0, <1>1, RequestMoves
      <4> QED BY <1>1, <4>1
    <3> QED BY <1>1, <3>1, <3>2
  <2>2. TypeOK'
    BY <1>0, <1>1, <2>1 DEF TypeOK, Phases
  <2>3. CountersInv'
    BY <1>0, <1>1, <2>1 DEF CountersInv
  <2> QED BY <2>2, <2>3 DEF HandlingInv
<1>2. \A k \in Semaphores : taken[k] \in Nat /\ size[k] \in Nat /\ taken[k] <= size[k]
  BY <1>0 DEF CountersInv
<1>3. \A k \in Semaphores :
         r \in Holders(k) <=> request[r].pc = "work" /\ request[r].semaphore = k
  BY DEF Holders
<1>4. request[r].semaphore \in Semaphores
  BY <1>0 DEF Phases
<1>5. CASE Check(r)
  <2> DEFINE x == [request[r] EXCEPT !.pc = "enter"]
  <2>1. x \in Phases /\ x.pc = "enter" /\ x.semaphore = request[r].semaphore
    BY <1>0 DEF Phases
  <2>2. /\ request[r].pc = "idle" /\ request' = [request EXCEPT ![r] = x]
        /\ UNCHANGED <<made, size, taken, active, unavailable, timer>>
    BY <1>5 DEF Check
  <2> HIDE DEF x
  <2> QED BY <1>0, <1>1, <1>2, <1>3, <2>1, <2>2 DEF Inside
<1>6. CASE Enter(r)
  <2> DEFINE x == [request[r] EXCEPT !.pc = "config"]
  <2>1. x \in Phases /\ x.pc = "config" /\ x.semaphore = request[r].semaphore
    BY <1>0 DEF Phases
  <2>2. /\ request[r].pc = "enter" /\ request' = [request EXCEPT ![r] = x] /\ active' = active + 1
        /\ UNCHANGED <<made, size, taken, unavailable, timer>>
    BY <1>6 DEF Enter
  <2> HIDE DEF x
  <2>3. /\ active' \in Nat /\ taken' \in [Semaphores -> Nat]
        /\ x.pc \in Inside /\ request[r].pc \notin Inside
    BY <1>0, <2>1, <2>2 DEF Inside
  <2>4. \A k \in Semaphores : r \notin Holders(k) /\ taken'[k] = taken[k] /\ taken'[k] <= size[k]
    BY <1>2, <1>3, <2>2
  <2> QED BY <1>1, <2>1, <2>2, <2>3, <2>4
<1>7. CASE ReadConfig(r)
  <2> DEFINE x == [pc |-> "wait", semaphore |-> made]
  <2>1. x \in Phases /\ x.pc = "wait"
    BY <1>0 DEF Phases
  <2>2. /\ request[r].pc = "config" /\ request' = [request EXCEPT ![r] = x]
        /\ UNCHANGED <<made, size, taken, active, unavailable, timer>>
    BY <1>7 DEF ReadConfig
  <2> HIDE DEF x
  <2> QED BY <1>0, <1>1, <1>2, <1>3, <2>1, <2>2 DEF Inside
<1>8. CASE Acquire(r)
  <2> DEFINE x == [request[r] EXCEPT !.pc = "work"]
             k == request[r].semaphore
  <2>1. x \in Phases /\ x.pc = "work" /\ x.semaphore = k
    BY <1>0 DEF Phases
  <2>2. /\ request[r].pc = "wait" /\ request' = [request EXCEPT ![r] = x]
        /\ taken[k] < size[k] /\ taken' = [taken EXCEPT ![k] = @ + 1]
        /\ UNCHANGED <<made, size, active, unavailable, timer>>
    BY <1>8 DEF Acquire
  <2>3. k \in Semaphores
    BY <1>4
  <2>4. \A q \in Semaphores : r \notin Holders(q)
    BY <1>3, <2>2
  <2> HIDE DEF x, k
  <2>5. /\ taken' \in [Semaphores -> Nat]
        /\ \A q \in Semaphores : taken'[q] = IF q = k THEN taken[q] + 1 ELSE taken[q]
    BY <1>0, <2>2, <2>3
  <2>6. \A q \in Semaphores : taken'[q] <= size[q]
    BY <1>2, <2>2, <2>3, <2>5
  <2> QED BY <1>0, <1>1, <2>1, <2>2, <2>4, <2>5, <2>6 DEF Inside
<1>9. CASE Cancel(r)
  <2> DEFINE x == [request[r] EXCEPT !.pc = "leave"]
  <2>1. x \in Phases /\ x.pc = "leave" /\ x.semaphore = request[r].semaphore
    BY <1>0 DEF Phases
  <2>2. /\ request[r].pc = "wait" /\ request' = [request EXCEPT ![r] = x]
        /\ UNCHANGED <<made, size, taken, active, unavailable, timer>>
    BY <1>9 DEF Cancel
  <2> HIDE DEF x
  <2> QED BY <1>0, <1>1, <1>2, <1>3, <2>1, <2>2 DEF Inside
<1>10. CASE Release(r)
  <2> DEFINE x == [request[r] EXCEPT !.pc = "leave"]
             k == request[r].semaphore
  <2>1. x \in Phases /\ x.pc = "leave"
    BY <1>0 DEF Phases
  <2>2. /\ request[r].pc = "work" /\ request' = [request EXCEPT ![r] = x]
        /\ taken[k] > 0 /\ taken' = [taken EXCEPT ![k] = @ - 1]
        /\ UNCHANGED <<made, size, active, unavailable, timer>>
    BY <1>10 DEF Release
  <2>3. k \in Semaphores
    BY <1>4
  <2>4. \A q \in Semaphores : r \in Holders(q) <=> q = k
    BY <1>3, <2>2
  <2> HIDE DEF x, k
  <2>5. /\ taken' \in [Semaphores -> Nat]
        /\ \A q \in Semaphores : taken'[q] = IF q = k THEN taken[q] - 1 ELSE taken[q]
    BY <1>0, <2>2, <2>3
  <2>6. \A q \in Semaphores : taken'[q] <= size[q]
    BY <1>2, <2>5
  <2> QED BY <1>0, <1>1, <2>1, <2>2, <2>4, <2>5, <2>6 DEF Inside
<1>11. CASE Leave(r)
  <2> DEFINE x == Idle
  <2>1. x \in Phases /\ x.pc = "idle"
    BY DEF Phases, Idle, Semaphores
  <2>2. /\ request[r].pc = "leave" /\ request' = [request EXCEPT ![r] = x] /\ active' = active - 1
        /\ UNCHANGED <<made, size, taken, unavailable, timer>>
    BY <1>11 DEF Leave
  <2>3. active > 0
    <3>1. r \in Counted
      BY <2>2 DEF Counted, Inside
    <3>2. IsFiniteSet(Counted) /\ active = Cardinality(Counted)
      BY <1>0 DEF CountersInv
    <3> QED BY <1>0, <3>1, <3>2, FS_EmptySet
  <2> HIDE DEF x
  <2>4. /\ active' \in Nat /\ taken' \in [Semaphores -> Nat]
        /\ x.pc \notin Inside /\ request[r].pc \in Inside
    BY <1>0, <2>1, <2>2, <2>3 DEF Inside
  <2>5. \A k \in Semaphores : r \notin Holders(k) /\ taken'[k] = taken[k] /\ taken'[k] <= size[k]
    BY <1>2, <1>3, <2>2
  <2> QED BY <1>1, <2>1, <2>2, <2>4, <2>5
<1> QED BY <1>5, <1>6, <1>7, <1>8, <1>9, <1>10, <1>11 DEF Serve

\* A new semaphore starts empty, and the old ones keep their holders.
LEMMA UpdateStep ==
    ASSUME HandlingInv, NEW n \in Sizes, UpdateConfig(n)
    PROVE  HandlingInv'
<1>1. /\ made \in Semaphores /\ made \in Nat /\ MaxSemaphores \in Nat /\ n \in Int
      /\ size \in [Semaphores -> Nat] /\ taken \in [Semaphores -> Nat]
  BY DEF HandlingInv, TypeOK, Semaphores
<1>2. /\ n > 0 /\ made < MaxSemaphores /\ made' = made + 1 /\ size' = [size EXCEPT ![made + 1] = n]
      /\ UNCHANGED <<taken, request, active, unavailable, timer>>
  BY DEF UpdateConfig
<1>3. made' \in Semaphores /\ made + 1 \in Semaphores
  BY <1>1, <1>2 DEF Semaphores
<1>4. /\ size' \in [Semaphores -> Nat]
      /\ size'[made + 1] = n /\ \A k \in Semaphores : k # made + 1 => size'[k] = size[k]
  BY <1>1, <1>2, <1>3
<1>5. TypeOK'
  BY <1>2, <1>3, <1>4 DEF HandlingInv, TypeOK
<1>6. Counted' = Counted /\ \A k : Holders(k)' = Holders(k)
  BY <1>2 DEF Counted, Holders
<1>7. ASSUME NEW k \in Semaphores
      PROVE  taken'[k] <= size'[k] /\ (k > made' => size'[k] = 0)
  <2>1. /\ taken[k] <= size[k] /\ (k > made => size[k] = 0)
        /\ k \in Int /\ taken[k] \in Nat /\ size[k] \in Nat
    BY <1>1 DEF HandlingInv, CountersInv, Semaphores
  <2>2. CASE k = made + 1
    <3>1. taken[k] = 0
      BY <1>1, <2>1, <2>2
    <3> QED BY <1>1, <1>2, <1>4, <2>2, <3>1
  <2>3. CASE k # made + 1
    BY <1>1, <1>2, <1>4, <2>1, <2>3
  <2> QED BY <2>2, <2>3
<1>8. CountersInv'
  BY <1>2, <1>6, <1>7 DEF HandlingInv, CountersInv
<1> QED BY <1>5, <1>8 DEF HandlingInv

\* Faults touch no counter.
LEMMA FaultStep ==
    ASSUME HandlingInv,
           \/ \E f \in Faults, d \in FaultDurations : ActivateFault(f, d)
           \/ \E f \in Faults : FaultEnds(f)
           \/ Tick
    PROVE  HandlingInv'
<1>1. UNCHANGED <<made, size, taken, request, active>>
  BY DEF ActivateFault, FaultEnds, Tick
<1>2. timer \in [Faults -> Int] /\ (\A f \in Faults : timer[f] >= -1) /\ FaultDurations \subseteq Int
  BY DEF HandlingInv, TypeOK
<1>3. timer' \in [Faults -> Int] /\ (\A f \in Faults : timer'[f] >= -1)
  <2>1. ASSUME NEW f \in Faults, NEW d \in FaultDurations, ActivateFault(f, d)
        PROVE  timer' \in [Faults -> Int] /\ (\A g \in Faults : timer'[g] >= -1)
    <3>1. d \in Int /\ d > 0 /\ timer' = [timer EXCEPT ![f] = d]
      BY <1>2, <2>1 DEF ActivateFault
    <3> QED BY <1>2, <3>1
  <2>2. ASSUME NEW f \in Faults, FaultEnds(f)
        PROVE  timer' \in [Faults -> Int] /\ (\A g \in Faults : timer'[g] >= -1)
    BY <1>2, <2>2 DEF FaultEnds
  <2>3. CASE Tick
    BY <1>2, <2>3 DEF Tick
  <2> QED BY <2>1, <2>2, <2>3
<1>4. unavailable' \in BOOLEAN
  BY Zenon DEF HandlingInv, TypeOK, ActivateFault, FaultEnds, Tick
<1>5. TypeOK'
  BY <1>1, <1>3, <1>4 DEF HandlingInv, TypeOK
<1> QED BY <1>1, <1>5, CountersKept DEF HandlingInv

\* Types and counters are an invariant of Backend, for any finite or infinite
\* set of requests.
THEOREM HandlingInvariant ==
    Spec => []HandlingInv
<1>1. Init => HandlingInv
  <2> SUFFICES ASSUME Init PROVE HandlingInv
    OBVIOUS
  <2>1. 1 \in Semaphores /\ \A k \in Semaphores : k \in Nat
    BY DEF Semaphores
  <2>2. /\ made = 1 /\ taken = [k \in Semaphores |-> 0] /\ active = 0 /\ unavailable = FALSE
        /\ size = [k \in Semaphores |-> IF k = 1 THEN InitialSize ELSE 0]
        /\ request = [r \in Requests |-> [pc |-> "idle", semaphore |-> 1]]
        /\ timer = [f \in Faults |-> -1]
    BY DEF Init, Idle
  <2>3. InitialSize \in Nat
    OBVIOUS
  <2>4. TypeOK
    <3>1. request \in [Requests -> Phases]
      BY <2>1, <2>2 DEF Phases
    <3>2. size \in [Semaphores -> Nat] /\ taken \in [Semaphores -> Nat]
      BY <2>2, <2>3
    <3>3. timer \in [Faults -> Int] /\ \A f \in Faults : timer[f] >= -1
      BY <2>2
    <3> QED BY <2>1, <2>2, <3>1, <3>2, <3>3 DEF TypeOK, Phases
  <2>5. Counted = {} /\ \A k : Holders(k) = {}
    BY <2>2 DEF Counted, Inside, Holders
  <2>6. \A k \in Semaphores : taken[k] = 0 /\ taken[k] <= size[k] /\ (k > made => size[k] = 0)
    BY <2>1, <2>2, <2>3
  <2>7. CountersInv
    BY <2>2, <2>5, <2>6, FS_EmptySet DEF CountersInv
  <2> QED BY <2>4, <2>7 DEF HandlingInv
<1>2. HandlingInv /\ [Next]_vars => HandlingInv'
  <2> SUFFICES ASSUME HandlingInv, [Next]_vars PROVE HandlingInv'
    OBVIOUS
  <2>1. CASE UNCHANGED vars
    <3>1. CountersInv'
      BY <2>1, CountersKept DEF vars
    <3> QED BY <2>1, <3>1 DEF vars, HandlingInv, TypeOK
  <2>2. CASE Next
    BY <2>1, <2>2, RequestStep, UpdateStep, FaultStep
       DEF Next, Refuse, RejectConfig, RejectFault
  <2> QED BY <2>1, <2>2
<1> QED BY <1>1, <1>2, PTL DEF Spec

\* No counter and no channel of the backend falls below zero.
THEOREM HandlingTyped ==
    Spec => []TypeOK
  BY HandlingInvariant, PTL DEF HandlingInv

\* handler.Active, which GET /load reports, is exact whichever way requests
\* leave and however often the semaphore is replaced.
THEOREM ActiveCountsRequests ==
    Spec => []ActiveIsExact
<1>1. HandlingInv => ActiveIsExact
  BY CountersMeaning DEF HandlingInv
<1> QED BY <1>1, HandlingInvariant, PTL

\* Every semaphore, replaced or not, holds exactly the elements of the requests
\* that work under it, within its size: no slot leaks or is given back twice.
THEOREM SlotsAreHeld ==
    Spec => []SlotsMatchHolders
<1>1. HandlingInv => SlotsMatchHolders
  BY CountersMeaning DEF HandlingInv
<1> QED BY <1>1, HandlingInvariant, PTL

=============================================================================
