--------------------- MODULE LearnedSkillExecutor_proofs ---------------------
(***************************************************************************)
(* The four safety properties of the learned skill executor, for every     *)
(* horizon, window, patience, cache size, number of calls and policy.      *)
(***************************************************************************)
EXTENDS LearnedSkillExecutor, SequenceTheorems, TLAPS

-----------------------------------------------------------------------------
(* Types.                                                                  *)

Steps == [chunk_offset : Nat, met : BOOLEAN, sample : Samples]

Statuses ==
    {"none", "RAISED", "EXECUTION_FAILED", "INVALID_PLAN", "INTERRUPTED", "TIMEOUT", "SUCCESS"}

FailureCodes ==
    Errors \cup {"none", "UNSUPPORTED_SKILL", "POLICY_NOT_FOUND", "ACTION_BOUNDS_MISSING",
                 "MANUAL_INTERRUPT"}

Results ==
    [status : Statuses, failure_code : FailureCodes, learned_success : BOOLEAN,
     fallback_used : BOOLEAN, fallback_success : BOOLEAN]

InCall == pc \in {"load", "loop", "act"}

TypeInv ==
    /\ pc \in {"idle", "load", "loop", "act", "decide"}
    /\ policy \in Policies /\ cache \in Seq(Policies) /\ uses \in Seq(Policies)
    /\ queue \in Seq(Nat) /\ (pc = "act" => queue # <<>>)
    /\ num_steps \in Nat /\ consecutive \in Nat /\ late \in Nat /\ calls \in Nat
    /\ monitor \in [samples : Seq(Samples), stalled_windows : Nat]
    /\ used_count \in Nat /\ cancelled \in BOOLEAN
    /\ result \in Results
    /\ InCall => result = Outcome("none", "none")
    /\ trace \in Seq(Steps)

LEMMA OutcomeType ==
    ASSUME NEW status \in Statuses, NEW code \in FailureCodes
    PROVE  Outcome(status, code) \in Results
  BY DEF Outcome, Results

LEMMA NewMonitorType == NewMonitor \in [samples : Seq(Samples), stalled_windows : Nat]
  BY EmptySeq DEF NewMonitor

LEMMA LastOfType ==
    ASSUME NEW S, NEW s \in Seq(S), NEW n \in 0 .. Len(s)
    PROVE  /\ LastOf(s, n) \in Seq(S) /\ Len(LastOf(s, n)) = n
           /\ \A i \in 1 .. n : LastOf(s, n)[i] = s[Len(s) - n + i]
  <1>1. Len(s) - n + 1 \in Int /\ Len(s) \in Int /\ n \in Nat
    OBVIOUS
  <1>2. \A i \in Len(s) - n + 1 .. Len(s) : s[i] \in S
    BY ElementOfSeq
  <1>3. /\ LastOf(s, n) \in Seq(S)
        /\ Len(LastOf(s, n)) = IF Len(s) - n + 1 <= Len(s) THEN Len(s) - (Len(s) - n + 1) + 1 ELSE 0
        /\ \A i \in 1 .. Len(s) - (Len(s) - n + 1) + 1 : LastOf(s, n)[i] = s[Len(s) - n + 1 + i - 1]
    BY <1>1, <1>2, SubSeqProperties DEF LastOf
  <1> QED
    BY <1>1, <1>3

LEMMA ObserveType ==
    ASSUME NEW m \in [samples : Seq(Samples), stalled_windows : Nat], NEW x \in Samples
    PROVE  Observe(m, x) \in [samples : Seq(Samples), stalled_windows : Nat]
  <1> DEFINE samples == Append(m.samples, x)
  <1>1. samples \in Seq(Samples)
    BY AppendProperties
  <1>2. CASE Len(samples) < Window
    BY <1>1, <1>2 DEF Observe
  <1>3. CASE ~ (Len(samples) < Window)
    <2> HIDE DEF samples
    <2>0. Window \in 0 .. Len(samples)
      BY <1>1, <1>3, MonitorAssumption
    <2>1. LastOf(samples, Window) \in Seq(Samples)
      BY <1>1, <2>0, LastOfType
    <2> QED
      BY <1>3, <2>1 DEF Observe, samples
  <1> QED
    BY <1>2, <1>3

-----------------------------------------------------------------------------
(* The monitor's window and its count, against all the samples of a call.  *)

StillAt(h, k) == Still(SubSeq(h, k - Window + 1, k))

\* The monitor keeps the last samples and counts the still windows they end.
Tracks(m, h) ==
    LET n == Len(h)
        s == m.stalled_windows
    IN  /\ m.samples = IF n < Window THEN h ELSE LastOf(h, Window)
        /\ n < Window => s = 0
        /\ n >= Window => s <= n - Window + 1
        /\ \A k \in n - s + 1 .. n : StillAt(h, k)
        /\ n - s >= Window => ~StillAt(h, n - s)

LEMMA FreshMonitorTracks == Tracks(NewMonitor, <<>>)
  BY MonitorAssumption DEF Tracks, NewMonitor

\* What was still is still after another sample.
LEMMA StillAtAppend ==
    ASSUME NEW h \in Seq(Samples), NEW x \in Samples, NEW k \in Window .. Len(h)
    PROVE  StillAt(Append(h, x), k) = StillAt(h, k)
  <1>1. SubSeq(Append(h, x), k - Window + 1, k) = SubSeq(h, k - Window + 1, k)
    <2>1. Append(h, x) = h \o <<x>> /\ <<x>> \in Seq(Samples)
      BY AppendIsConcat
    <2>2. k - Window + 1 \in 1 .. Len(h) /\ k \in 1 .. Len(h)
      BY MonitorAssumption
    <2> QED
      BY <2>1, <2>2, SubSeqOfConcat1
  <1> QED
    BY <1>1 DEF StillAt

\* The last samples of the window with one more sample.
LEMMA LastOfAppend ==
    ASSUME NEW h \in Seq(Samples), NEW x \in Samples, Len(h) >= Window
    PROVE  /\ Len(Append(LastOf(h, Window), x)) = Window + 1
           /\ LastOf(Append(LastOf(h, Window), x), Window) = LastOf(Append(h, x), Window)
  <1> DEFINE w == LastOf(h, Window)
             a == Append(w, x)
             b == Append(h, x)
             u == LastOf(a, Window)
             v == LastOf(b, Window)
  <1>0. Window \in Nat \ {0} /\ Len(h) \in Nat
    BY MonitorAssumption
  <1>1. w \in Seq(Samples) /\ Len(w) = Window
        /\ \A i \in 1 .. Window : w[i] = h[Len(h) - Window + i]
    BY <1>0, LastOfType
  <1> HIDE DEF w
  <1>2. a \in Seq(Samples) /\ Len(a) = Window + 1
        /\ \A i \in 1 .. Window : a[i] = w[i]
        /\ a[Window + 1] = x
    BY <1>1, AppendProperties
  <1>3. b \in Seq(Samples) /\ Len(b) = Len(h) + 1
        /\ \A i \in 1 .. Len(h) : b[i] = h[i]
        /\ b[Len(h) + 1] = x
    BY AppendProperties
  <1> HIDE DEF a, b
  <1>4. u \in Seq(Samples) /\ Len(u) = Window
        /\ \A i \in 1 .. Window : u[i] = a[i + 1]
    BY <1>0, <1>2, LastOfType
  <1>5. v \in Seq(Samples) /\ Len(v) = Window
        /\ \A i \in 1 .. Window : v[i] = b[Len(h) + 1 - Window + i]
    <2>1. Window \in 0 .. Len(b)
      BY <1>0, <1>3
    <2>2. /\ v \in Seq(Samples) /\ Len(v) = Window
          /\ \A i \in 1 .. Window : v[i] = b[Len(b) - Window + i]
      BY <2>1, <1>3, LastOfType
    <2> QED
      BY <2>2, <1>3
  <1> HIDE DEF u, v
  <1>6. ASSUME NEW i \in 1 .. Window PROVE u[i] = v[i]
    <2>1. CASE i = Window
      BY <2>1, <1>0, <1>2, <1>3, <1>4, <1>5
    <2>2. CASE i < Window
      <3>1. i + 1 \in 1 .. Window /\ Len(h) - Window + (i + 1) = Len(h) + 1 - Window + i
            /\ Len(h) + 1 - Window + i \in 1 .. Len(h)
        BY <2>2, <1>0
      <3> QED
        BY <3>1, <1>1, <1>2, <1>3, <1>4, <1>5
    <2> QED
      BY <2>1, <2>2, <1>0
  <1>7. u = v
    BY <1>4, <1>5, <1>6, SeqEqual
  <1> QED
    BY <1>2, <1>7 DEF u, v, a, b, w

LEMMA LastOfIsWindow ==
    ASSUME NEW h \in Seq(Samples)
    PROVE  Still(LastOf(h, Window)) = StillAt(h, Len(h))
  BY DEF LastOf, StillAt

LEMMA ObserveTracks ==
    ASSUME NEW h \in Seq(Samples), NEW x \in Samples,
           NEW m \in [samples : Seq(Samples), stalled_windows : Nat], Tracks(m, h)
    PROVE  Tracks(Observe(m, x), Append(h, x))
  <1> DEFINE b == Append(h, x)
             s == m.stalled_windows
             n == Len(h)
             o == Observe(m, x)
  <1>0. Window \in Nat \ {0} /\ n \in Nat /\ s \in Nat
    BY MonitorAssumption
  <1>1. b \in Seq(Samples) /\ Len(b) = n + 1
    BY AppendProperties
  <1>2. ASSUME NEW k \in Window .. n PROVE StillAt(b, k) = StillAt(h, k)
    BY <1>2, StillAtAppend
  <1>3. /\ n < Window => s = 0
        /\ n >= Window => s <= n - Window + 1
        /\ \A k \in n - s + 1 .. n : StillAt(h, k)
        /\ n - s >= Window => ~StillAt(h, n - s)
        /\ m.samples = IF n < Window THEN h ELSE LastOf(h, Window)
    BY DEF Tracks
  <1>4. CASE n + 1 < Window
    <2>0. m.samples = h
      BY <1>0, <1>3, <1>4
    <2>1. o = [m EXCEPT !.samples = b]
      BY <2>0, <1>1, <1>4 DEF Observe
    <2>2. o.samples = b /\ o.stalled_windows = 0
      BY <2>1, <1>0, <1>3, <1>4
    <2> HIDE DEF o, b, n, s
    <2>3. Tracks(o, b)
      BY <2>2, <1>0, <1>1, <1>4 DEF Tracks
    <2> QED
      BY <2>3 DEF o, b
  <1>5. CASE n + 1 >= Window
    <2> DEFINE a == Append(m.samples, x)
    <2>1. Len(a) >= Window /\ LastOf(a, Window) = LastOf(b, Window)
      <3>1. CASE n < Window
        BY <3>1, <1>0, <1>1, <1>3, <1>5
      <3>2. CASE n >= Window
        BY <3>2, <1>0, <1>3, LastOfAppend
      <3> QED
        BY <3>1, <3>2, <1>0
    <2>1a. Len(a) \in Nat
      BY AppendProperties
    <2>2. o = [samples |-> LastOf(b, Window),
               stalled_windows |-> IF StillAt(b, n + 1) THEN s + 1 ELSE 0]
      <3>1. Still(LastOf(b, Window)) = StillAt(b, n + 1)
        BY <1>1, LastOfIsWindow
      <3>2. ~ (Len(a) < Window)
        BY <2>1, <2>1a, <1>0
      <3>3. o = [samples |-> LastOf(a, Window),
                 stalled_windows |-> IF Still(LastOf(a, Window)) THEN s + 1 ELSE 0]
        BY <3>2, Zenon DEF Observe
      <3> QED
        BY <3>1, <3>3, <2>1
    <2> HIDE DEF o, b, a, n
    <2>3. CASE StillAt(b, n + 1)
      <3>1. o.samples = LastOf(b, Window) /\ o.stalled_windows = s + 1
        BY <2>2, <2>3
      <3>2. ASSUME NEW k \in (n + 1) - (s + 1) + 1 .. n + 1 PROVE StillAt(b, k)
        <4>1. CASE k = n + 1
          BY <4>1, <2>3
        <4>2. CASE k <= n
          <5>1. k \in n - s + 1 .. n /\ k \in Window .. n
            BY <4>2, <1>0, <1>3, <3>2
          <5> QED
            BY <5>1, <1>2, <1>3
        <4> QED
          BY <4>1, <4>2, <1>0
      <3>3. (n + 1) - (s + 1) >= Window => ~StillAt(b, (n + 1) - (s + 1))
        <4>1. (n + 1) - (s + 1) = n - s
          BY <1>0
        <4>2. n - s >= Window => n - s \in Window .. n
          BY <1>0
        <4> QED
          BY <4>1, <4>2, <1>2, <1>3
      <3>4. s + 1 <= n + 1 - Window + 1
        BY <1>0, <1>3, <1>5
      <3> HIDE DEF s
      <3>5. Tracks(o, b)
        BY <3>1, <3>2, <3>3, <3>4, <1>0, <1>1, <1>5 DEF Tracks
      <3> QED
        BY <3>5 DEF o, b
    <2>4. CASE ~StillAt(b, n + 1)
      <3>1. o.samples = LastOf(b, Window) /\ o.stalled_windows = 0
        BY <2>2, <2>4
      <3>2. Tracks(o, b)
        BY <3>1, <2>4, <1>0, <1>1, <1>5 DEF Tracks
      <3> QED
        BY <3>2 DEF o, b
    <2> QED
      BY <2>3, <2>4
  <1> QED
    BY <1>0, <1>4, <1>5

\* The monitor's verdict is the one on all the samples.
LEMMA VerdictIsReal ==
    ASSUME NEW h \in Seq(Samples),
           NEW m \in [samples : Seq(Samples), stalled_windows : Nat], Tracks(m, h)
    PROVE  NoProgress(m) <=> Stuck(h)
  <1> DEFINE s == m.stalled_windows
             n == Len(h)
  <1>0. Window \in Nat \ {0} /\ Patience \in Nat \ {0} /\ n \in Nat /\ s \in Nat
    BY MonitorAssumption
  <1>1. /\ n < Window => s = 0
        /\ n >= Window => s <= n - Window + 1
        /\ \A k \in n - s + 1 .. n : StillAt(h, k)
        /\ n - s >= Window => ~StillAt(h, n - s)
        /\ m.samples = IF n < Window THEN h ELSE LastOf(h, Window)
    BY DEF Tracks
  <1>2. Len(m.samples) >= Window <=> n >= Window
    <2>1. CASE n < Window
      BY <2>1, <1>0, <1>1
    <2>2. CASE n >= Window
      BY <2>2, <1>0, <1>1, LastOfType
    <2> QED
      BY <2>1, <2>2, <1>0
  <1>3. NoProgress(m) <=> n >= Window /\ s >= Patience
    BY <1>2 DEF NoProgress
  <1>4. Stuck(h) <=> /\ n >= Window + Patience - 1
                     /\ \A k \in n - Patience + 1 .. n : StillAt(h, k)
    BY DEF Stuck, StillAt
  <1> HIDE DEF n, s
  <1>5. ASSUME n >= Window, s >= Patience PROVE Stuck(h)
    BY <1>5, <1>0, <1>1, <1>4
  <1>6. ASSUME n >= Window + Patience - 1, s < Patience PROVE ~Stuck(h)
    <2>1. n - s >= Window /\ n - s \in n - Patience + 1 .. n
      BY <1>6, <1>0
    <2> QED
      BY <2>1, <1>1, <1>4
  <1>7. Stuck(h) => n >= Window /\ s >= Patience
    BY <1>0, <1>4, <1>6
  <1> QED
    BY <1>3, <1>5, <1>7

-----------------------------------------------------------------------------
(* The count of checks in a row, against all the steps of a call.          *)

Counts(t, c) ==
    /\ c <= Len(t)
    /\ \A k \in Len(t) - c + 1 .. Len(t) : t[k].met
    /\ c < Len(t) => ~t[Len(t) - c].met

LEMMA CheckCounts ==
    ASSUME NEW t \in Seq(Steps), NEW c \in Nat, Counts(t, c), NEW e \in Steps
    PROVE  Counts(Append(t, e), IF e.met THEN c + 1 ELSE 0)
  <1> DEFINE b == Append(t, e)
             n == Len(t)
  <1>1. /\ b \in Seq(Steps) /\ Len(b) = n + 1 /\ n \in Nat
        /\ \A k \in 1 .. n : b[k] = t[k]
        /\ b[n + 1] = e
    BY AppendProperties
  <1>2. /\ c <= n
        /\ \A k \in n - c + 1 .. n : t[k].met
        /\ c < n => ~t[n - c].met
    BY DEF Counts
  <1> HIDE DEF b, n
  <1>3. CASE e.met
    <2>1. ASSUME NEW k \in (n + 1) - (c + 1) + 1 .. n + 1 PROVE b[k].met
      <3>1. k = n + 1 \/ (k \in 1 .. n /\ k \in n - c + 1 .. n)
        BY <1>1, <1>2
      <3> QED
        BY <3>1, <1>1, <1>2, <1>3
    <2>2. c + 1 < n + 1 => ~b[(n + 1) - (c + 1)].met
      <3>1. (n + 1) - (c + 1) = n - c /\ (c < n => n - c \in 1 .. n)
        BY <1>1
      <3> QED
        BY <3>1, <1>1, <1>2
    <2>3. Counts(b, c + 1)
      BY <2>1, <2>2, <1>1, <1>2 DEF Counts
    <2> QED
      BY <2>3, <1>3 DEF b
  <1>4. CASE ~e.met
    <2>1. Counts(b, 0)
      BY <1>1, <1>4 DEF Counts
    <2> QED
      BY <2>1, <1>4 DEF b
  <1> QED
    BY <1>3, <1>4

\* The count is the verdict on all the steps.
LEMMA CountIsReal ==
    ASSUME NEW t \in Seq(Steps), NEW c \in Nat, Counts(t, c)
    PROVE  MetInARow(t) <=> c >= StableChecks
  <1> DEFINE n == Len(t)
             w == LastOf(t, StableChecks)
  <1>0. StableChecks \in Nat \ {0} /\ n \in Nat
    BY ExecutorAssumption
  <1>1. /\ c <= n
        /\ \A k \in n - c + 1 .. n : t[k].met
        /\ c < n => ~t[n - c].met
    BY DEF Counts
  <1>2. CASE n < StableChecks
    BY <1>0, <1>1, <1>2 DEF MetInARow
  <1>3. CASE n >= StableChecks
    <2>1. /\ w \in Seq(Steps) /\ Len(w) = StableChecks
          /\ \A i \in 1 .. StableChecks : w[i] = t[n - StableChecks + i]
      <3>1. StableChecks \in 0 .. Len(t)
        BY <1>0, <1>3
      <3> QED
        BY <3>1, LastOfType
    <2>2. DOMAIN w = 1 .. StableChecks
      BY <2>1
    <2> HIDE DEF w, n
    <2>3. MetInARow(t) <=> \A i \in 1 .. StableChecks : w[i].met
      BY <2>2, <1>0, <1>3 DEF MetInARow, w, n
    <2>4. ASSUME c >= StableChecks, NEW i \in 1 .. StableChecks PROVE w[i].met
      <3>1. n - StableChecks + i \in n - c + 1 .. n
        BY <2>4, <1>0
      <3> QED
        BY <3>1, <2>1, <1>1
    <2>5. ASSUME c < StableChecks PROVE \E i \in 1 .. StableChecks : ~w[i].met
      <3>1. StableChecks - c \in 1 .. StableChecks /\ c < n
            /\ n - StableChecks + (StableChecks - c) = n - c
        BY <2>5, <1>0, <1>3
      <3>2. ~w[StableChecks - c].met
        BY <3>1, <2>1, <1>1
      <3> QED
        BY <3>1, <3>2
    <2> QED
      BY <2>3, <2>4, <2>5, <1>0
  <1> QED
    BY <1>0, <1>2, <1>3

LEMMA SamplesOfType ==
    ASSUME NEW t \in Seq(Steps)
    PROVE  /\ SamplesOf(t) \in Seq(Samples) /\ Len(SamplesOf(t)) = Len(t)
           /\ \A k \in 1 .. Len(t) : SamplesOf(t)[k] = t[k].sample
  <1>1. SamplesOf(t) = [k \in 1 .. Len(t) |-> t[k].sample]
    BY DEF SamplesOf
  <1>2. ASSUME NEW k \in 1 .. Len(t) PROVE t[k].sample \in Samples
    <2>1. t[k] \in Steps
      BY ElementOfSeq
    <2> QED
      BY <2>1 DEF Steps
  <1>3. SamplesOf(t) \in [1 .. Len(t) -> Samples] /\ Len(t) \in Nat
    BY <1>1, <1>2
  <1>4. SamplesOf(t) \in Seq(Samples) /\ Len(SamplesOf(t)) = Len(t)
    BY <1>3, IsASeq
  <1> QED
    BY <1>1, <1>4

LEMMA SamplesOfAppend ==
    ASSUME NEW t \in Seq(Steps), NEW e \in Steps
    PROVE  SamplesOf(Append(t, e)) = Append(SamplesOf(t), e.sample)
  <1> DEFINE b == Append(t, e)
             h == SamplesOf(t)
             u == SamplesOf(b)
             v == Append(h, e.sample)
  <1>1. /\ b \in Seq(Steps) /\ Len(b) = Len(t) + 1
        /\ \A k \in 1 .. Len(t) : b[k] = t[k]
        /\ b[Len(t) + 1] = e
    BY AppendProperties
  <1>2. /\ h \in Seq(Samples) /\ Len(h) = Len(t)
        /\ \A k \in 1 .. Len(t) : h[k] = t[k].sample
    BY SamplesOfType
  <1>3. e.sample \in Samples /\ Len(t) \in Nat
    BY DEF Steps
  <1> HIDE DEF b, h
  <1>4. /\ u \in Seq(Samples) /\ Len(u) = Len(t) + 1
        /\ \A k \in 1 .. Len(t) + 1 : u[k] = b[k].sample
    BY <1>1, SamplesOfType
  <1>5. /\ v \in Seq(Samples) /\ Len(v) = Len(t) + 1
        /\ \A k \in 1 .. Len(t) : v[k] = h[k]
        /\ v[Len(t) + 1] = e.sample
    BY <1>2, <1>3, AppendProperties
  <1> HIDE DEF u, v
  <1>6. ASSUME NEW k \in 1 .. Len(t) + 1 PROVE u[k] = v[k]
    <2>1. k \in 1 .. Len(t) \/ k = Len(t) + 1
      BY <1>3
    <2> QED
      BY <2>1, <1>1, <1>2, <1>4, <1>5
  <1>7. u = v
    BY <1>4, <1>5, <1>6, SeqEqual
  <1> QED
    BY <1>7 DEF u, v, b, h

-----------------------------------------------------------------------------
(* The inductive invariant of the loop.                                    *)

\* What the checker and the monitor hold is about the steps of this call, and
\* neither has ended it yet.
LoopInv ==
    /\ pc = "load" => trace = <<>> /\ consecutive = 0 /\ monitor = NewMonitor
    /\ Looping => /\ Counts(trace, consecutive) /\ consecutive < StableChecks
                  /\ Tracks(monitor, SamplesOf(trace))
                  /\ WatchesProgress => ~NoProgress(monitor)

\* What a call has reported is about its own steps.
VerdictInv ==
    /\ result.learned_success => MetInARow(trace)
    /\ result.failure_code = "NO_PROGRESS" => WatchesProgress /\ Stuck(SamplesOf(trace))

\* The token stays cancelled, and only a step under way when it was is late.
CancelInv ==
    /\ late \in {0, 1}
    /\ ~cancelled => late = 0
    /\ pc = "act" => late = 0

CacheInv == MostRecent(cache, uses)

LEMMA TypeInit == Init => TypeInv
  <1> SUFFICES ASSUME Init PROVE TypeInv
    OBVIOUS
  <1>1. <<>> \in Seq(Policies) /\ <<>> \in Seq(Nat) /\ <<>> \in Seq(Steps)
    BY EmptySeq
  <1>2. Outcome("none", "none") \in Results
    BY OutcomeType DEF Statuses, FailureCodes
  <1> QED
    BY <1>1, <1>2, NewMonitorType DEF Init, TypeInv, InCall

LEMMA LoopInit == Init => LoopInv
  BY DEF Init, LoopInv, Looping

LEMMA VerdictInit == Init => VerdictInv
  BY DEF Init, VerdictInv, Outcome

LEMMA CancelInit == Init => CancelInv
  BY DEF Init, CancelInv

LEMMA CacheInit == Init => CacheInv
  BY CacheAssumption DEF Init, CacheInv, MostRecent, ToSet

-----------------------------------------------------------------------------
(* Types are kept.                                                         *)

\* The parts of the type that are about the bookkeeping of a loop.
LoopTypes ==
    /\ queue \in Seq(Nat)
    /\ num_steps \in Nat /\ consecutive \in Nat /\ late \in Nat
    /\ monitor \in [samples : Seq(Samples), stalled_windows : Nat]
    /\ trace \in Seq(Steps)

LEMMA NewCallTypes == ASSUME TypeInv, NewCall PROVE LoopTypes'
  <1>1. <<>> \in Seq(Nat) /\ <<>> \in Seq(Steps)
    BY EmptySeq
  <1> QED
    BY <1>1, NewMonitorType DEF TypeInv, NewCall, LoopTypes

\* A step of the environment.
LEMMA StepTypes ==
    ASSUME TypeInv, NEW sample \in Samples, NEW met \in BOOLEAN, NEW alarm \in BOOLEAN,
           StepEnv(sample, met, alarm)
    PROVE  LoopTypes' /\ [chunk_offset |-> Head(queue), met |-> met, sample |-> sample] \in Steps
  <1>1. queue \in Seq(Nat) /\ queue # <<>>
    BY DEF TypeInv, StepEnv
  <1>2. Head(queue) \in Nat /\ Tail(queue) \in Seq(Nat)
    BY <1>1, HeadTailProperties
  <1>3. [chunk_offset |-> Head(queue), met |-> met, sample |-> sample] \in Steps
    BY <1>2 DEF Steps
  <1>4. trace' \in Seq(Steps)
    BY <1>3, AppendProperties DEF TypeInv, StepEnv
  <1>5. monitor' \in [samples : Seq(Samples), stalled_windows : Nat]
    BY ObserveType DEF TypeInv, StepEnv, Watched
  <1>6. num_steps' \in Nat /\ consecutive' \in Nat /\ late' \in Nat
    <2>1. num_steps' \in Nat /\ late' \in Nat
      BY DEF TypeInv, StepEnv
    <2>2. consecutive' = consecutive \/ consecutive' = Counted(met)
      BY DEF StepEnv
    <2>3. consecutive' \in Nat
      BY <2>2 DEF TypeInv, Counted
    <2> QED
      BY <2>1, <2>3
  <1>7. queue' \in Seq(Nat)
    BY <1>2 DEF StepEnv
  <1> QED
    BY <1>3, <1>4, <1>5, <1>6, <1>7 DEF LoopTypes

LEMMA RemoveAtType ==
    ASSUME NEW S, NEW s \in Seq(S), NEW i \in 1 .. Len(s)
    PROVE  /\ RemoveAt(s, i) \in Seq(S) /\ Len(RemoveAt(s, i)) = Len(s) - 1
           /\ \A k \in 1 .. Len(s) - 1 : RemoveAt(s, i)[k] = IF k < i THEN s[k] ELSE s[k + 1]
  <1> DEFINE u == SubSeq(s, 1, i - 1)
             v == SubSeq(s, i + 1, Len(s))
  <1>0. Len(s) \in Nat /\ i \in Nat \ {0}
    OBVIOUS
  <1>1. u \in Seq(S) /\ Len(u) = i - 1 /\ \A k \in 1 .. i - 1 : u[k] = s[k]
    <2>1. \A k \in 1 .. i - 1 : s[k] \in S
      BY ElementOfSeq
    <2>2. 1 \in Int /\ i - 1 \in Int
      BY <1>0
    <2>3. /\ u \in Seq(S) /\ Len(u) = IF 1 <= i - 1 THEN i - 1 - 1 + 1 ELSE 0
          /\ \A k \in 1 .. i - 1 - 1 + 1 : u[k] = s[1 + k - 1]
      BY <2>1, <2>2, SubSeqProperties
    <2> QED
      BY <2>3, <1>0
  <1>2. v \in Seq(S) /\ Len(v) = Len(s) - i /\ \A k \in 1 .. Len(s) - i : v[k] = s[i + k]
    <2>1. \A k \in i + 1 .. Len(s) : s[k] \in S
      BY ElementOfSeq
    <2>2. i + 1 \in Int /\ Len(s) \in Int
      BY <1>0
    <2>3. /\ v \in Seq(S) /\ Len(v) = IF i + 1 <= Len(s) THEN Len(s) - (i + 1) + 1 ELSE 0
          /\ \A k \in 1 .. Len(s) - (i + 1) + 1 : v[k] = s[i + 1 + k - 1]
      BY <2>1, <2>2, SubSeqProperties
    <2> QED
      BY <2>3, <1>0
  <1> HIDE DEF u, v
  <1>3. u \o v \in Seq(S) /\ Len(u \o v) = Len(s) - 1
    BY <1>0, <1>1, <1>2, ConcatProperties
  <1>4. ASSUME NEW k \in 1 .. Len(s) - 1
        PROVE  (u \o v)[k] = IF k < i THEN s[k] ELSE s[k + 1]
    <2>1. CASE k < i
      BY <2>1, <1>0, <1>1, <1>2, ConcatProperties
    <2>2. CASE k >= i
      <3>1. (u \o v)[k] = v[k - (i - 1)]
        <4>1. k \in 1 .. Len(u) + Len(v) /\ ~ (k <= Len(u))
          BY <2>2, <1>0, <1>1, <1>2
        <4>2. \A j \in 1 .. Len(u) + Len(v) :
                 (u \o v)[j] = IF j <= Len(u) THEN u[j] ELSE v[j - Len(u)]
          BY <1>1, <1>2, ConcatProperties
        <4> QED
          BY <4>1, <4>2, <1>1
      <3>2. k - (i - 1) \in 1 .. Len(s) - i /\ i + (k - (i - 1)) = k + 1
        BY <2>2, <1>0
      <3> QED
        BY <2>2, <3>1, <3>2, <1>2
    <2>3. k < i \/ (k >= i /\ ~ (k < i))
      BY <1>0
    <2> QED
      BY <2>1, <2>2, <2>3, Zenon
  <1> QED
    BY <1>3, <1>4 DEF RemoveAt, u, v

-----------------------------------------------------------------------------
(* The cache.                                                              *)

\* A use of p puts it after everything else, and changes no other order.
LEMMA OneMoreUse ==
    ASSUME NEW u \in Seq(Policies), NEW p \in Policies, NEW q \in Policies, q # p
    PROVE  /\ UsedAfter(Append(u, p), p, q)
           /\ \A r \in Policies : r # p /\ UsedAfter(u, r, q) => UsedAfter(Append(u, p), r, q)
  <1> DEFINE v == Append(u, p)
             n == Len(u)
  <1>1. /\ v \in Seq(Policies) /\ Len(v) = n + 1 /\ n \in Nat
        /\ \A k \in 1 .. n : v[k] = u[k]
        /\ v[n + 1] = p
    BY AppendProperties
  <1>2. DOMAIN v = 1 .. n + 1 /\ DOMAIN u = 1 .. n
    BY <1>1
  <1> HIDE DEF v, n
  <1>3. UsedAfter(v, p, q)
    <2>1. \A j \in 1 .. n + 1 : v[j] = q => j < n + 1
      BY <1>1
    <2> QED
      BY <2>1, <1>1, <1>2 DEF UsedAfter
  <1>4. ASSUME NEW r \in Policies, UsedAfter(u, r, q) PROVE UsedAfter(v, r, q)
    <2>1. PICK k \in 1 .. n : u[k] = r /\ \A j \in 1 .. n : u[j] = q => j < k
      BY <1>4, <1>2 DEF UsedAfter
    <2>2. v[k] = r /\ k \in 1 .. n + 1
      BY <2>1, <1>1
    <2>3. \A j \in 1 .. n + 1 : v[j] = q => j < k
      BY <2>1, <1>1
    <2> QED
      BY <2>2, <2>3, <1>2 DEF UsedAfter
  <1> QED
    BY <1>3, <1>4 DEF v

LEMMA UsesAreCached ==
    ASSUME NEW u \in Seq(Policies), NEW p \in Policies
    PROVE  ToSet(Append(u, p)) = ToSet(u) \cup {p}
  <1> DEFINE v == Append(u, p)
             n == Len(u)
  <1>1. /\ v \in Seq(Policies) /\ Len(v) = n + 1 /\ n \in Nat
        /\ \A k \in 1 .. n : v[k] = u[k]
        /\ v[n + 1] = p
    BY AppendProperties
  <1>2. DOMAIN v = 1 .. n + 1 /\ DOMAIN u = 1 .. n
    BY <1>1
  <1> HIDE DEF v
  <1>3. ToSet(v) = {v[k] : k \in 1 .. n + 1} /\ ToSet(u) = {u[k] : k \in 1 .. n}
    BY <1>2 DEF ToSet
  <1> HIDE DEF n
  <1>4. 1 .. n + 1 = (1 .. n) \cup {n + 1}
    BY <1>1
  <1> QED
    BY <1>1, <1>3, <1>4 DEF v

\* In the order of the last uses no policy is there twice.
LEMMA CachedOnce ==
    ASSUME NEW c \in Seq(Policies), NEW u, MostRecent(c, u), u \in Seq(Policies),
           NEW i \in 1 .. Len(c), NEW j \in 1 .. Len(c), i # j
    PROVE  c[i] # c[j]
  <1>1. ASSUME NEW p PROVE ~UsedAfter(u, p, p)
    <2>1. ASSUME NEW k \in DOMAIN u, u[k] = p, \A l \in DOMAIN u : u[l] = p => l < k
          PROVE  FALSE
      <3>1. k < k /\ k \in Nat
        BY <2>1
      <3> QED
        BY <3>1
    <2> QED
      BY <2>1 DEF UsedAfter
  <1>2. i < j \/ j < i
    OBVIOUS
  <1>3. DOMAIN c = 1 .. Len(c)
    OBVIOUS
  <1> QED
    BY <1>1, <1>2, <1>3 DEF MostRecent

\* The order and the completeness of the cache after a use of p, from what the
\* new cache holds: elements of the old one in their order, then p.
LEMMA ReorderedCache ==
    ASSUME NEW c \in Seq(Policies), NEW u \in Seq(Policies), MostRecent(c, u),
           NEW p \in Policies, NEW d \in Seq(Policies), p \notin ToSet(d),
           Len(d) < CacheSize,
           NEW f \in [1 .. Len(d) -> 1 .. Len(c)],
           \A i \in 1 .. Len(d) : d[i] = c[f[i]],
           \A i, j \in 1 .. Len(d) : i < j => f[i] < f[j],
           \A q \in ToSet(u) : q # p /\ q \notin ToSet(d) =>
               /\ Len(d) + 1 = CacheSize
               /\ \A i \in 1 .. Len(d) : UsedAfter(u, d[i], q)
    PROVE  Append(d, p) \in Seq(Policies) /\ MostRecent(Append(d, p), Append(u, p))
  <1> DEFINE e == Append(d, p)
             v == Append(u, p)
             n == Len(d)
  <1>1. /\ e \in Seq(Policies) /\ Len(e) = n + 1 /\ n \in Nat
        /\ \A k \in 1 .. n : e[k] = d[k]
        /\ e[n + 1] = p
    BY AppendProperties
  <1>2. DOMAIN e = 1 .. n + 1 /\ DOMAIN d = 1 .. n /\ DOMAIN c = 1 .. Len(c)
    BY <1>1
  <1>3. ToSet(e) = ToSet(d) \cup {p} /\ ToSet(v) = ToSet(u) \cup {p}
    BY UsesAreCached
  <1>4. \A i \in 1 .. n : d[i] \in Policies /\ d[i] # p /\ d[i] \in ToSet(c)
    <2>1. \A i \in 1 .. n : d[i] \in ToSet(d)
      BY <1>2 DEF ToSet
    <2>2. \A i \in 1 .. n : d[i] \in ToSet(c)
      BY <1>2 DEF ToSet
    <2> QED
      BY <2>1, <2>2, ElementOfSeq
  <1>5. ToSet(u) \subseteq Policies
    BY DEF ToSet
  <1> HIDE DEF e, v, n
  <1>6. Len(e) <= CacheSize
    BY <1>1, CacheAssumption DEF n
  <1>7. ToSet(e) \subseteq ToSet(v)
    <2>1. ToSet(d) \subseteq ToSet(c)
      BY <1>2, <1>4 DEF ToSet
    <2> QED
      BY <2>1, <1>3 DEF MostRecent
  <1>8. ASSUME NEW i \in 1 .. n + 1, NEW j \in 1 .. n + 1, i < j
        PROVE  UsedAfter(v, e[j], e[i])
    <2>1. i \in 1 .. n /\ e[i] = d[i] /\ e[i] \in Policies /\ e[i] # p
      BY <1>1, <1>4, <1>8
    <2>2. CASE j = n + 1
      BY <2>1, <2>2, <1>1, OneMoreUse DEF v
    <2>3. CASE j \in 1 .. n
      <3>1. e[j] = d[j] /\ e[j] \in Policies /\ e[j] # p
        BY <2>3, <1>1, <1>4
      <3>2. UsedAfter(u, c[f[j]], c[f[i]])
        <4>1. f[i] < f[j] /\ f[i] \in 1 .. Len(c) /\ f[j] \in 1 .. Len(c)
          BY <2>1, <2>3, <1>8 DEF n
        <4> QED
          BY <4>1, <1>2 DEF MostRecent
      <3>3. UsedAfter(u, e[j], e[i])
        BY <2>1, <2>3, <3>1, <3>2 DEF n
      <3> QED
        BY <2>1, <3>1, <3>3, OneMoreUse DEF v
    <2> QED
      BY <2>2, <2>3, <1>1
  <1>9. ASSUME NEW q \in ToSet(v) \ ToSet(e)
        PROVE  Len(e) = CacheSize /\ \A i \in 1 .. n + 1 : UsedAfter(v, e[i], q)
    <2>1. q \in ToSet(u) /\ q # p /\ q \notin ToSet(d) /\ q \in Policies
      BY <1>3, <1>5, <1>9
    <2>2. n + 1 = CacheSize /\ \A i \in 1 .. n : UsedAfter(u, d[i], q)
      BY <2>1 DEF n
    <2>3. ASSUME NEW i \in 1 .. n + 1 PROVE UsedAfter(v, e[i], q)
      <3>1. CASE i = n + 1
        BY <3>1, <2>1, <1>1, OneMoreUse DEF v
      <3>2. CASE i \in 1 .. n
        BY <3>2, <2>1, <2>2, <1>1, <1>4, OneMoreUse DEF v
      <3> QED
        BY <3>1, <3>2, <1>1
    <2> QED
      BY <2>2, <2>3, <1>1
  <1>10. MostRecent(e, v)
    BY <1>2, <1>6, <1>7, <1>8, <1>9 DEF MostRecent
  <1> QED
    BY <1>1, <1>10 DEF e, v

\* get() keeps the most recently used policies.
LEMMA TouchedIsMostRecent ==
    ASSUME NEW c \in Seq(Policies), NEW u \in Seq(Policies), MostRecent(c, u), NEW p \in Policies
    PROVE  /\ Touched(c, p) \in Seq(Policies)
           /\ MostRecent(Touched(c, p), Append(u, p))
  <1>0. CacheSize \in Nat \ {0} /\ Len(c) \in Nat /\ Len(c) <= CacheSize
    BY CacheAssumption DEF MostRecent
  <1>a. DOMAIN c = 1 .. Len(c)
    OBVIOUS
  <1>1. CASE Cached(c, p)
    <2>1. PICK i \in 1 .. Len(c) : i = CHOOSE k \in DOMAIN c : c[k] = p
      BY <1>a, <1>1 DEF Cached, ToSet
    <2>2. c[i] = p
      BY <2>1, <1>a, <1>1 DEF Cached, ToSet
    <2> DEFINE d == RemoveAt(c, i)
               f == [k \in 1 .. Len(d) |-> IF k < i THEN k ELSE k + 1]
    <2>3. /\ d \in Seq(Policies) /\ Len(d) = Len(c) - 1
          /\ \A k \in 1 .. Len(c) - 1 : d[k] = IF k < i THEN c[k] ELSE c[k + 1]
      BY RemoveAtType
    <2> HIDE DEF d
    <2>4. f \in [1 .. Len(d) -> 1 .. Len(c)]
      BY <2>3, <1>0
    <2>5. \A k \in 1 .. Len(d) : d[k] = c[f[k]] /\ f[k] # i
      BY <2>3
    <2>6. \A k, l \in 1 .. Len(d) : k < l => f[k] < f[l]
      BY <2>3
    <2>7. p \notin ToSet(d)
      <3>1. DOMAIN d = 1 .. Len(d)
        BY <2>3
      <3>2. ASSUME NEW k \in 1 .. Len(d) PROVE d[k] # p
        BY <2>2, <2>4, <2>5, CachedOnce
      <3> QED
        BY <3>1, <3>2 DEF ToSet
    <2>8. ASSUME NEW q \in ToSet(u), q # p, q \notin ToSet(d)
          PROVE  Len(d) + 1 = CacheSize /\ \A k \in 1 .. Len(d) : UsedAfter(u, d[k], q)
      <3>1. q \notin ToSet(c)
        <4>1. ASSUME NEW k \in 1 .. Len(c), k # i PROVE c[k] \in ToSet(d)
          <5>1. DOMAIN d = 1 .. Len(d)
            BY <2>3
          <5>2. CASE k < i
            <6>1. k \in 1 .. Len(d) /\ d[k] = c[k]
              BY <5>2, <2>3, <1>0
            <6> QED
              BY <6>1, <5>1 DEF ToSet
          <5>3. CASE k > i
            <6>1. k - 1 \in 1 .. Len(d) /\ d[k - 1] = c[k]
              BY <5>3, <2>3, <1>0
            <6> QED
              BY <6>1, <5>1 DEF ToSet
          <5> QED
            BY <4>1, <5>2, <5>3
        <4> QED
          BY <4>1, <2>2, <2>8, <1>a DEF ToSet
      <3>2. Len(c) = CacheSize /\ \A k \in DOMAIN c : UsedAfter(u, c[k], q)
        BY <3>1, <2>8 DEF MostRecent
      <3> HIDE DEF f
      <3> QED
        BY <3>2, <2>3, <2>4, <2>5, <1>a
    <2>9. Len(d) < CacheSize
      BY <2>3, <1>0
    <2> HIDE DEF f
    <2>10. Append(d, p) \in Seq(Policies) /\ MostRecent(Append(d, p), Append(u, p))
      BY <2>3, <2>4, <2>5, <2>6, <2>7, <2>8, <2>9, ReorderedCache
    <2>11. Touched(c, p) = Append(d, p)
      BY <1>1, <2>1 DEF Touched, d
    <2> QED
      BY <2>10, <2>11
  <1>2. CASE ~Cached(c, p)
    <2> DEFINE d == Evicted(c)
               m == Len(c) - Len(d)
               f == [k \in 1 .. Len(d) |-> k + m]
    <2>1. /\ d \in Seq(Policies) /\ Len(d) < CacheSize
          /\ m = IF Len(c) = CacheSize THEN 1 ELSE 0
          /\ \A k \in 1 .. Len(d) : d[k] = c[k + m]
      <3>1. CASE Len(c) = CacheSize
        <4>1. d = SubSeq(c, 2, Len(c))
          BY <3>1, <1>0 DEF Evicted
        <4>2. \A k \in 2 .. Len(c) : c[k] \in Policies
          BY ElementOfSeq
        <4>3. 2 \in Int /\ Len(c) \in Int
          BY <1>0
        <4>4. /\ d \in Seq(Policies) /\ Len(d) = IF 2 <= Len(c) THEN Len(c) - 2 + 1 ELSE 0
              /\ \A k \in 1 .. Len(c) - 2 + 1 : d[k] = c[2 + k - 1]
          BY <4>1, <4>2, <4>3, SubSeqProperties
        <4> QED
          BY <4>4, <3>1, <1>0
      <3>2. CASE Len(c) < CacheSize
        <4>1. d = c
          BY <3>2, <1>0 DEF Evicted
        <4> HIDE DEF d
        <4>2. m = 0
          BY <4>1, <1>0
        <4>3. \A k \in 1 .. Len(d) : k + 0 = k
          BY <1>0
        <4> HIDE DEF m
        <4> QED
          BY <4>1, <4>2, <4>3, <3>2, <1>0
      <3>3. Len(c) = CacheSize \/ Len(c) < CacheSize
        BY <1>0
      <3> QED
        BY <3>1, <3>2, <3>3, Zenon
    <2> HIDE DEF d
    <2>2. Len(d) \in Nat /\ m \in {0, 1} /\ DOMAIN d = 1 .. Len(d) /\ Len(c) = Len(d) + m
      <3>1. Len(d) \in Nat /\ DOMAIN d = 1 .. Len(d)
        BY <2>1
      <3>2. Len(c) = Len(d) + m
        BY <3>1, <1>0
      <3> QED
        BY <3>1, <3>2, <2>1
    <2> HIDE DEF m
    <2>3. f \in [1 .. Len(d) -> 1 .. Len(c)]
      BY <2>2, <1>0
    <2>4. \A k \in 1 .. Len(d) : d[k] = c[f[k]]
      BY <2>1
    <2>5. \A k, l \in 1 .. Len(d) : k < l => f[k] < f[l]
      BY <2>2
    <2>6. p \notin ToSet(d)
      <3>1. \A k \in 1 .. Len(d) : d[k] \in ToSet(c)
        BY <2>3, <2>4, <1>a DEF ToSet
      <3> QED
        BY <3>1, <2>2, <1>2 DEF ToSet, Cached
    <2>7. ASSUME NEW q \in ToSet(u), q # p, q \notin ToSet(d)
          PROVE  Len(d) + 1 = CacheSize /\ \A k \in 1 .. Len(d) : UsedAfter(u, d[k], q)
      <3>1. CASE q \notin ToSet(c)
        <4>1. Len(c) = CacheSize /\ \A k \in DOMAIN c : UsedAfter(u, c[k], q)
          BY <3>1, <2>7 DEF MostRecent
        <4> HIDE DEF f
        <4> QED
          BY <4>1, <2>1, <2>2, <2>3, <2>4, <1>0, <1>a
      <3>2. CASE q \in ToSet(c)
        <4>1. PICK k \in 1 .. Len(c) : c[k] = q
          BY <3>2, <1>a DEF ToSet
        <4>2. k = 1 /\ m = 1
          <5>1. ASSUME k > m PROVE FALSE
            <6>a. m \in {0, 1} /\ Len(d) \in Nat /\ Len(c) = Len(d) + m /\ k \in Nat
              BY <2>2
            <6>b. k - m \in 1 .. Len(d) /\ (k - m) + m = k
              BY <5>1, <6>a, <1>0
            <6>1. k - m \in 1 .. Len(d) /\ d[k - m] = c[k]
              BY <6>b, <2>1
            <6> QED
              BY <6>1, <4>1, <2>2, <2>7 DEF ToSet
          <5> QED
            BY <5>1, <2>2, <1>0
        <4>3. Len(c) = CacheSize
          BY <4>2, <2>1, <1>0
        <4>4. ASSUME NEW l \in 1 .. Len(d) PROVE UsedAfter(u, d[l], q)
          <5>1. l + m \in 1 .. Len(c) /\ 1 < l + m /\ 1 \in 1 .. Len(c) /\ d[l] = c[l + m]
            BY <4>2, <2>1, <2>2
          <5> QED
            BY <5>1, <4>1, <4>2, <1>a DEF MostRecent
        <4> QED
          BY <4>2, <4>3, <4>4, <2>2
      <3> QED
        BY <3>1, <3>2
    <2> HIDE DEF f
    <2>8. Append(d, p) \in Seq(Policies) /\ MostRecent(Append(d, p), Append(u, p))
      BY <2>1, <2>3, <2>4, <2>5, <2>6, <2>7, ReorderedCache
    <2>9. Touched(c, p) = Append(d, p)
      BY <1>2 DEF Touched, d
    <2> QED
      BY <2>8, <2>9
  <1> QED
    BY <1>1, <1>2

-----------------------------------------------------------------------------
(* Every step keeps the invariant.                                         *)

IInv == TypeInv /\ LoopInv /\ VerdictInv /\ CancelInv /\ CacheInv

\* What a step leaves alone is left alone.
LEMMA FrameLoop ==
    ASSUME LoopInv, UNCHANGED <<trace, consecutive, monitor>>,
           pc' = pc \/ pc' \in {"idle", "decide"} \/ (pc = "loop" /\ pc' = "act")
    PROVE  LoopInv'
  BY DEF LoopInv, Looping, Counts, Tracks

LEMMA FrameVerdict ==
    ASSUME VerdictInv, UNCHANGED trace,
           ~result'.learned_success \/ result'.learned_success = result.learned_success,
           result'.failure_code # "NO_PROGRESS" \/ result'.failure_code = result.failure_code
    PROVE  VerdictInv'
  BY DEF VerdictInv

LEMMA StartOfCall ==
    ASSUME IInv, NewCall, Called, UNCHANGED <<cache, uses>>,
           policy' \in Policies,
           \/ \E status \in Statuses, code \in FailureCodes \ {"NO_PROGRESS"} :
                 Report(Outcome(status, code))
           \/ pc' = "load" /\ result' = Outcome("none", "none")
    PROVE  IInv'
  <1> USE DEF IInv
  <1>1. PICK status \in Statuses, code \in FailureCodes \ {"NO_PROGRESS"} :
           /\ result' = Outcome(status, code)
           /\ pc' = "load" => status = "none" /\ code = "none"
           /\ pc' \in {"idle", "load"}
    <2>1. "none" \in Statuses /\ "none" \in FailureCodes \ {"NO_PROGRESS"}
      BY DEF Statuses, FailureCodes, Errors
    <2> QED
      BY <2>1 DEF Report
  <1>2. LoopTypes'
    BY NewCallTypes
  <1>3. result' \in Results
    BY <1>1, OutcomeType
  <1>4. TypeInv'
    BY <1>1, <1>2, <1>3 DEF TypeInv, LoopTypes, InCall, NewCall, Called
  <1>5. LoopInv'
    BY <1>1 DEF LoopInv, Looping, NewCall
  <1>6. VerdictInv'
    BY <1>1 DEF VerdictInv, Outcome
  <1>7. CancelInv'
    BY <1>1 DEF CancelInv, NewCall
  <1>8. CacheInv'
    BY DEF CacheInv
  <1> QED
    BY <1>4, <1>5, <1>6, <1>7, <1>8

\* A call that ends, or goes on to its end, with nothing new about its steps.
LEMMA EndOfLoop ==
    ASSUME IInv, pc' \in {"idle", "decide"},
           result' \in Results,
           ~result'.learned_success \/ result'.learned_success = result.learned_success,
           result'.failure_code # "NO_PROGRESS" \/ result'.failure_code = result.failure_code,
           UNCHANGED <<policy, cache, uses, calls, cancelled>>,
           used_count' \in Nat,
           UNCHANGED <<num_steps, consecutive, monitor, trace, late>>,
           queue' \in Seq(Nat)
    PROVE  IInv'
  <1> USE DEF IInv
  <1>1. TypeInv'
    BY DEF TypeInv, InCall
  <1>2. LoopInv'
    BY FrameLoop
  <1>3. VerdictInv'
    BY FrameVerdict
  <1>4. CancelInv' /\ CacheInv'
    BY DEF CancelInv, CacheInv
  <1> QED
    BY <1>1, <1>2, <1>3, <1>4

LEMMA OutcomeIsNoVerdict ==
    ASSUME NEW status \in Statuses, NEW code \in FailureCodes \ {"NO_PROGRESS"}
    PROVE  /\ Outcome(status, code) \in Results
           /\ ~Outcome(status, code).learned_success
           /\ Outcome(status, code).failure_code # "NO_PROGRESS"
  <1>1. Outcome(status, code) \in Results
    BY OutcomeType
  <1> QED
    BY <1>1 DEF Outcome

\* The policy is loaded: the loop starts with nothing counted.
LEMMA LoadStep == ASSUME IInv, Load PROVE IInv'
  <1> USE DEF IInv
  <1>1. /\ pc = "load" /\ UNCHANGED <<calls, policy, used_count, cancelled, loopVars>>
        /\ cache' = Touched(cache, policy) /\ uses' = Append(uses, policy)
    BY DEF Load
  <1>2. cache' \in Seq(Policies) /\ MostRecent(cache', uses')
    BY <1>1, TouchedIsMostRecent DEF TypeInv, CacheInv
  <1>3. uses' \in Seq(Policies)
    BY <1>1, AppendProperties DEF TypeInv
  <1>4. result = Outcome("none", "none")
    BY <1>1 DEF TypeInv, InCall
  <1>5. PICK status \in Statuses, code \in FailureCodes \ {"NO_PROGRESS"} :
           /\ result' = Outcome(status, code)
           /\ pc' = "loop" => status = "none" /\ code = "none"
           /\ pc' \in {"idle", "loop"}
    <2>1. {"none", "RAISED", "EXECUTION_FAILED"} \subseteq Statuses
          /\ {"none", "ACTION_BOUNDS_MISSING"} \subseteq FailureCodes \ {"NO_PROGRESS"}
      BY DEF Statuses, FailureCodes, Errors
    <2> QED
      BY <2>1, <1>4 DEF Load, Escape, Report
  <1>6. result' \in Results /\ ~result'.learned_success
        /\ result'.failure_code # "NO_PROGRESS"
    BY <1>5, OutcomeIsNoVerdict
  <1>7. TypeInv'
    BY <1>1, <1>2, <1>3, <1>5, <1>6 DEF TypeInv, InCall, loopVars
  <1>8. LoopInv'
    <2>1. /\ trace' = <<>> /\ consecutive' = 0 /\ monitor' = NewMonitor
      BY <1>1 DEF LoopInv, loopVars
    <2>2. Counts(trace', consecutive') /\ consecutive' < StableChecks
      BY <2>1, ExecutorAssumption DEF Counts
    <2>3. SamplesOf(trace') = <<>>
      BY <2>1 DEF SamplesOf
    <2>4. Tracks(monitor', SamplesOf(trace'))
      BY <2>1, <2>3, FreshMonitorTracks
    <2>5. ~NoProgress(monitor')
      BY <2>1, MonitorAssumption DEF NoProgress, NewMonitor
    <2> QED
      BY <2>2, <2>4, <2>5, <1>5 DEF LoopInv, Looping
  <1>9. VerdictInv'
    BY <1>6 DEF VerdictInv
  <1>10. CancelInv' /\ CacheInv'
    BY <1>1, <1>2, <1>5 DEF CancelInv, CacheInv, loopVars
  <1> QED
    BY <1>7, <1>8, <1>9, <1>10

\* The next action is there: queued, or the first of a chunk.
LEMMA FetchStep ==
    ASSUME IInv, Continues, pc' = "act",
           queue' \in Seq(Nat), queue' # <<>>,
           UNCHANGED <<calls, policy, cache, used_count, cancelled, result, uses,
                       num_steps, consecutive, monitor, trace, late>>
    PROVE  IInv'
  <1> USE DEF IInv
  <1>1. pc = "loop" /\ ~cancelled
    BY DEF Continues
  <1>2. TypeInv'
    BY <1>1 DEF TypeInv, InCall
  <1>3. LoopInv'
    BY <1>1, FrameLoop
  <1>4. VerdictInv'
    BY FrameVerdict
  <1>5. CancelInv' /\ CacheInv'
    BY <1>1 DEF CancelInv, CacheInv
  <1> QED
    BY <1>2, <1>3, <1>4, <1>5

\* The robot moves: the checker and the monitor see the step.
LEMMA EnvStep ==
    ASSUME IInv, NEW sample \in Samples, NEW met \in BOOLEAN, NEW alarm \in BOOLEAN,
           StepEnv(sample, met, alarm)
    PROVE  IInv'
  <1> USE DEF IInv
  <1> DEFINE e == [chunk_offset |-> Head(queue), met |-> met, sample |-> sample]
             h == SamplesOf(trace)
  <1>1. LoopTypes' /\ e \in Steps
    BY StepTypes
  <1>2. /\ pc = "act" /\ trace' = Append(trace, e)
        /\ late' = IF cancelled THEN late + 1 ELSE late
        /\ UNCHANGED <<calls, policy, cache, used_count, cancelled, uses>>
    BY DEF StepEnv
  <1>3. result = Outcome("none", "none") /\ e.met = met /\ e.sample = sample
    BY <1>2 DEF TypeInv, InCall
  <1>4. h \in Seq(Samples) /\ SamplesOf(trace') = Append(h, sample)
    BY <1>1, <1>2, <1>3, SamplesOfType, SamplesOfAppend DEF TypeInv
  <1>5. Counts(trace', Counted(met))
    BY <1>1, <1>2, <1>3, CheckCounts DEF LoopInv, Looping, TypeInv, Counted
  <1>6. Tracks(Watched(sample), SamplesOf(trace'))
    BY <1>2, <1>4, ObserveTracks DEF LoopInv, Looping, TypeInv, Watched
  <1> HIDE DEF e, h
  <1>7. CancelInv' /\ CacheInv'
    <2>1. pc' \in {"decide", "loop"}
      BY DEF StepEnv, Fail
    <2>2. late = 0
      BY <1>2 DEF CancelInv
    <2> QED
      BY <1>2, <2>1, <2>2 DEF CancelInv, CacheInv
  <1>n. Counted(met) \in Nat /\ StableChecks \in Nat
    BY ExecutorAssumption DEF Counted, TypeInv
  <1>8. CASE alarm
    <2>1. pc' = "decide" /\ result' = Outcome("EXECUTION_FAILED", "OBJECT_LOST")
      BY <1>8 DEF StepEnv, Fail
    <2>2. result' \in Results /\ ~result'.learned_success
          /\ result'.failure_code # "NO_PROGRESS"
      BY <2>1, OutcomeIsNoVerdict DEF Statuses, FailureCodes, Errors
    <2>3. TypeInv'
      BY <2>1, <2>2, <1>1, <1>2 DEF TypeInv, LoopTypes, InCall
    <2>4. LoopInv' /\ VerdictInv'
      BY <2>1, <2>2 DEF LoopInv, VerdictInv, Looping
    <2> QED
      BY <2>3, <2>4, <1>7
  <1>9. CASE ~alarm /\ Counted(met) >= StableChecks
    <2>1. /\ pc' = "decide"
          /\ result' = [Outcome("SUCCESS", "none") EXCEPT !.learned_success = TRUE]
          /\ consecutive' = Counted(met)
      BY <1>9, <1>n DEF StepEnv
    <2>2. result' \in Results /\ result'.failure_code = "none"
      <3>1. Outcome("SUCCESS", "none") \in Results
        BY OutcomeType DEF Statuses, FailureCodes
      <3> QED
        BY <2>1, <3>1 DEF Results, Outcome
    <2>3. MetInARow(trace')
      BY <1>1, <1>5, <1>9, <2>1, CountIsReal DEF LoopTypes
    <2>4. TypeInv'
      BY <2>1, <2>2, <1>1, <1>2 DEF TypeInv, LoopTypes, InCall
    <2>5. LoopInv' /\ VerdictInv'
      BY <2>1, <2>2, <2>3 DEF LoopInv, VerdictInv, Looping
    <2> QED
      BY <2>4, <2>5, <1>7
  <1>10. CASE ~alarm /\ Counted(met) < StableChecks
    <2>1. /\ consecutive' = Counted(met) /\ monitor' = Watched(sample)
          /\ IF WatchesProgress /\ NoProgress(monitor')
               THEN Fail("NO_PROGRESS") ELSE pc' = "loop" /\ UNCHANGED result
      BY <1>10, <1>n DEF StepEnv
    <2>2. Counts(trace', consecutive') /\ Tracks(monitor', SamplesOf(trace'))
      BY <2>1, <1>5, <1>6
    <2>3. SamplesOf(trace') \in Seq(Samples)
      BY <1>1, SamplesOfType DEF LoopTypes
    <2>4. CASE WatchesProgress /\ NoProgress(monitor')
      <3>1. pc' = "decide" /\ result' = Outcome("EXECUTION_FAILED", "NO_PROGRESS")
        BY <2>1, <2>4 DEF Fail
      <3>2. result' \in Results
        BY <3>1, OutcomeType DEF Statuses, FailureCodes, Errors
      <3>3. ~result'.learned_success
        BY <3>1 DEF Outcome
      <3>4. Stuck(SamplesOf(trace'))
        BY <1>1, <2>2, <2>3, <2>4, VerdictIsReal DEF LoopTypes
      <3>5. TypeInv'
        BY <3>1, <3>2, <1>1, <1>2 DEF TypeInv, LoopTypes, InCall
      <3>6. LoopInv' /\ VerdictInv'
        BY <3>1, <3>3, <3>4, <2>4 DEF LoopInv, VerdictInv, Looping
      <3> QED
        BY <3>5, <3>6, <1>7
    <2>5. CASE ~ (WatchesProgress /\ NoProgress(monitor'))
      <3>1. pc' = "loop" /\ result' = Outcome("none", "none")
        BY <2>1, <2>5, <1>3
      <3>2. result' \in Results /\ ~result'.learned_success
            /\ result'.failure_code # "NO_PROGRESS"
        BY <3>1, OutcomeIsNoVerdict DEF Statuses, FailureCodes, Errors
      <3>3. TypeInv'
        BY <3>1, <3>2, <1>1, <1>2 DEF TypeInv, LoopTypes, InCall
      <3>4. LoopInv'
        BY <3>1, <2>1, <2>2, <2>5, <1>10 DEF LoopInv, Looping
      <3>5. VerdictInv'
        BY <3>2 DEF VerdictInv
      <3> QED
        BY <3>3, <3>4, <3>5, <1>7
    <2> QED
      BY <2>4, <2>5
  <1> QED
    BY <1>8, <1>9, <1>10, <1>n

LEMMA IInvInit == Init => IInv
  BY TypeInit, LoopInit, VerdictInit, CancelInit, CacheInit DEF IInv

LEMMA IInvStep == IInv /\ [Next]_vars => IInv'
  <1> SUFFICES ASSUME IInv, [Next]_vars PROVE IInv'
    OBVIOUS
  <1>a. /\ queue \in Seq(Nat) /\ used_count \in Nat /\ policy \in Policies
        /\ result \in Results
    BY DEF IInv, TypeInv
  <1>b. /\ {"EXECUTION_FAILED", "INVALID_PLAN", "INTERRUPTED", "TIMEOUT", "RAISED"}
              \subseteq Statuses
        /\ {"none", "UNSUPPORTED_SKILL", "POLICY_NOT_FOUND", "MANUAL_INTERRUPT",
            "POLICY_INFERENCE_FAILURE", "TIMEOUT", "ACTION_OUT_OF_BOUNDS", "BRIDGE_FAILURE"}
              \subseteq FailureCodes \ {"NO_PROGRESS"}
    BY DEF Statuses, FailureCodes, Errors
  <1>1. CASE RejectPlan
    BY <1>1, <1>a, <1>b, StartOfCall DEF RejectPlan
  <1>2. CASE RejectPolicy
    BY <1>2, <1>a, <1>b, StartOfCall DEF RejectPolicy
  <1>3. ASSUME NEW p \in Policies, Resolve(p) PROVE IInv'
    BY <1>3, <1>a, <1>b, StartOfCall DEF Resolve
  <1>4. CASE LoadRaises
    BY <1>4, <1>a, <1>b, EndOfLoop, OutcomeIsNoVerdict DEF LoadRaises, Escape, loopVars
  <1>5. CASE Load
    BY <1>5, LoadStep
  <1>6. CASE Interrupt
    BY <1>6, <1>a, <1>b, EndOfLoop, OutcomeIsNoVerdict DEF Interrupt, Report, loopVars
  <1>7. CASE FetchQueued
    BY <1>7, <1>a, FetchStep DEF FetchQueued, loopVars
  <1>8. ASSUME NEW size \in ChunkSizes, Predict(size) PROVE IInv'
    <2>1. queue' \in Seq(Nat) /\ queue' # <<>>
      <3>1. ExecutionHorizon \in Nat \ {0}
        BY ExecutorAssumption
      <3>2. queue' = [k \in 1 .. ExecutionHorizon |-> k - 1]
        BY <1>8 DEF Predict, Queued
      <3>3. queue' \in [1 .. ExecutionHorizon -> Nat]
        BY <3>1, <3>2
      <3>4. queue' \in Seq(Nat) /\ Len(queue') = ExecutionHorizon
        BY <3>1, <3>3, IsASeq
      <3> QED
        BY <3>1, <3>4
    <2> QED
      BY <2>1, <1>8, FetchStep DEF Predict
  <1>9. CASE ChunkRaises
    BY <1>9, <1>a, <1>b, EndOfLoop, OutcomeIsNoVerdict DEF ChunkRaises, Escape, loopVars
  <1>10. CASE InferenceFails
    BY <1>10, <1>a, <1>b, EndOfLoop, OutcomeIsNoVerdict DEF InferenceFails, Fail, loopVars
  <1>11. CASE ExceedMaxSteps
    BY <1>11, <1>a, <1>b, EndOfLoop, OutcomeIsNoVerdict DEF ExceedMaxSteps, Fail, loopVars
  <1>12. ASSUME NEW code \in Errors, ActionFails(code) PROVE IInv'
    <2>1. queue' \in Seq(Nat)
      BY <1>12, <1>a, HeadTailProperties DEF ActionFails, IInv, TypeInv
    <2>2. /\ pc' = "decide" /\ result' = Outcome("EXECUTION_FAILED", code)
          /\ code \in FailureCodes \ {"NO_PROGRESS"}
          /\ UNCHANGED <<policy, cache, uses, calls, cancelled, used_count>>
          /\ UNCHANGED <<num_steps, consecutive, monitor, trace, late>>
      BY <1>12, <1>b DEF ActionFails, Fail
    <2> QED
      BY <2>1, <2>2, <1>a, <1>b, EndOfLoop, OutcomeIsNoVerdict
  <1>13. ASSUME NEW sample \in Samples, NEW met \in BOOLEAN, NEW alarm \in BOOLEAN,
                StepEnv(sample, met, alarm)
         PROVE  IInv'
    BY <1>13, EnvStep
  <1>14. CASE Conclude
    BY <1>14, <1>a, EndOfLoop DEF Conclude, Report, loopVars
  <1>15. CASE FallbackRaises
    <2>1. used_count' \in Nat
      BY <1>15, <1>a DEF FallbackRaises
    <2> QED
      BY <2>1, <1>15, <1>a, <1>b, EndOfLoop, OutcomeIsNoVerdict
      DEF FallbackRaises, Escape, loopVars
  <1>16. ASSUME NEW success \in BOOLEAN, Fallback(success) PROVE IInv'
    <2>1. used_count' \in Nat
      BY <1>16, <1>a DEF Fallback
    <2>2. /\ result' \in Results
          /\ result'.learned_success = result.learned_success
          /\ result'.failure_code = result.failure_code
      BY <1>16, <1>a DEF Fallback, Report, Results, Statuses
    <2> QED
      BY <2>1, <2>2, <1>16, <1>a, EndOfLoop DEF Fallback, Report, loopVars
  <1>17. CASE Cancel
    <2>1. TypeInv'
      BY <1>17 DEF Cancel, IInv, TypeInv, InCall, loopVars
    <2>2. LoopInv' /\ VerdictInv'
      BY <1>17, FrameLoop, FrameVerdict DEF Cancel, IInv, loopVars
    <2>3. CancelInv' /\ CacheInv'
      BY <1>17 DEF Cancel, IInv, CancelInv, CacheInv, loopVars
    <2> QED
      BY <2>1, <2>2, <2>3 DEF IInv
  <1>18. CASE UNCHANGED vars
    BY <1>18
    DEF vars, loopVars, IInv, TypeInv, InCall, LoopInv, Looping, VerdictInv, CancelInv,
        CacheInv
  <1> QED
    BY <1>1, <1>2, <1>3, <1>4, <1>5, <1>6, <1>7, <1>8, <1>9, <1>10, <1>11, <1>12, <1>13,
       <1>14, <1>15, <1>16, <1>17, <1>18
    DEF Next, Execute

LEMMA IInvHolds == Spec => []IInv
  BY IInvInit, IInvStep, PTL DEF Spec

-----------------------------------------------------------------------------
\* A learned success is reported exactly when the goal held after each of the last
\* StableChecks steps of the call (success.py check), whatever chunk or policy they
\* came from and however often execute() was called before.
THEOREM SuccessIsAlwaysStable == Spec => []SuccessIsStable
  <1>1. IInv => SuccessIsStable
    <2> SUFFICES ASSUME IInv PROVE SuccessIsStable
      OBVIOUS
    <2>1. Looping => ~MetInARow(trace)
      <3>1. SUFFICES ASSUME Looping PROVE ~MetInARow(trace)
        OBVIOUS
      <3>2. Counts(trace, consecutive) /\ consecutive < StableChecks
        BY <3>1 DEF IInv, LoopInv
      <3>3. trace \in Seq(Steps) /\ consecutive \in Nat
        BY DEF IInv, TypeInv
      <3> QED
        BY <3>2, <3>3, CountIsReal, ExecutorAssumption
    <2> QED
      BY <2>1 DEF IInv, VerdictInv, SuccessIsStable
  <1> QED
    BY <1>1, IInvHolds, PTL

\* A call ends for want of progress exactly when the last Patience windows of its
\* steps were still (monitors.py observe), for any window and patience.
THEOREM NoProgressIsAlwaysReal == Spec => []NoProgressIsReal
  <1>1. IInv => NoProgressIsReal
    <2> SUFFICES ASSUME IInv PROVE NoProgressIsReal
      OBVIOUS
    <2>1. Looping /\ WatchesProgress => ~Stuck(SamplesOf(trace))
      <3>1. SUFFICES ASSUME Looping, WatchesProgress PROVE ~Stuck(SamplesOf(trace))
        OBVIOUS
      <3>2. Tracks(monitor, SamplesOf(trace)) /\ ~NoProgress(monitor)
        BY <3>1 DEF IInv, LoopInv
      <3>3. SamplesOf(trace) \in Seq(Samples)
        BY SamplesOfType DEF IInv, TypeInv
      <3> QED
        BY <3>2, <3>3, VerdictIsReal DEF IInv, TypeInv
    <2> QED
      BY <2>1 DEF IInv, VerdictInv, NoProgressIsReal
  <1> QED
    BY <1>1, IInvHolds, PTL

\* After a cancellation by another thread at any moment the policy moves the robot
\* at most once more, in this call and all later ones.
THEOREM CancelIsAlwaysHeeded == Spec => []CancelIsHeeded
  <1>1. IInv => CancelIsHeeded
    BY DEF IInv, CancelInv, CancelIsHeeded
  <1> QED
    BY <1>1, IInvHolds, PTL

\* The cached policies are the CacheSize used last, in the order of their last use
\* (policy_handle.py get), whatever was loaded, hit or failed to load.
THEOREM CacheIsAlwaysMostRecent == Spec => []CacheIsMostRecent
  <1>1. IInv => CacheIsMostRecent
    BY DEF IInv, CacheInv, CacheIsMostRecent
  <1> QED
    BY <1>1, IInvHolds, PTL
=============================================================================
