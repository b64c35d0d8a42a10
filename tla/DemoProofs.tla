----------------------------- MODULE DemoProofs -----------------------------
(***************************************************************************)
(* Proofs about the small programs, for every value of their constants: the *)
(* shutdown of the timer benchmark is safe and its results are in order,    *)
(* the agent's block of shared memory has one holder, the chronometer       *)
(* counts and shows the time, the named semaphores and mailboxes give every *)
(* token to the task it is meant for, and a queue's description survives    *)
(* its way to a caller and back.                                            *)
(***************************************************************************)
EXTENDS TimerBench, RtAgent, Chrono, RingSync, MsgCopy, FiniteSetTheorems, TLAPS
-----------------------------------------------------------------------------
(* The timer benchmark.                                                    *)

\* A product with a natural number keeps the order.
LEMMA ProductOrder ==
  ASSUME NEW n \in Nat, NEW a \in Int, NEW b \in Int, a <= b
  PROVE  n * a <= n * b
<1>1. n * (b - a) >= 0
  BY Z3
<1>2. n * (b - a) = n * b - n * a
  BY Z3
<1> QED BY <1>1, <1>2, Z3

\* One more value between lower and upper bounds keeps a sum between the products of the
\* bounds with the number of values.
LEMMA SumWithin ==
  ASSUME NEW n \in Nat, NEW lo \in Int, NEW hi \in Int, NEW a \in Int, NEW d \in Int,
         NEW low \in Int, NEW high \in Int,
         n * lo <= a, a <= n * hi, low <= lo, hi <= high, low <= d, d <= high
  PROVE  (n + 1) * low <= a + d /\ a + d <= (n + 1) * high
<1>1. n * low <= n * lo /\ n * hi <= n * high
  BY ProductOrder, Z3
<1>2. (n + 1) * low = n * low + low /\ (n + 1) * high = n * high + high
  BY Z3
<1>3. n * low \in Int /\ n * lo \in Int /\ n * hi \in Int /\ n * high \in Int
  BY Z3
<1> QED BY <1>1, <1>2, <1>3, Z3

\* Division with remainder, for a dividend that is not negative.
LEMMA DivRange ==
  ASSUME NEW d \in Nat \ {0}, NEW a \in Nat, NEW lo \in Int, NEW hi \in Int,
         d * lo <= a, a <= d * hi
  PROVE  a \div d \in Int /\ lo <= a \div d /\ a \div d <= hi
<1>1. a = d * (a \div d) + (a % d) /\ a % d \in 0 .. d - 1 /\ a \div d \in Int
  BY Z3
<1> QED BY <1>1, Z3

\* slldiv of a sum of d values lies between the least and the largest, whatever their signs.
LEMMA SlldivRange ==
  ASSUME NEW d \in Nat \ {0}, NEW a \in Int, NEW lo \in Int, NEW hi \in Int,
         d * lo <= a, a <= d * hi
  PROVE  slldiv(a, d) \in Int /\ lo <= slldiv(a, d) /\ slldiv(a, d) <= hi
<1>1. CASE a >= 0
  <2>1. a \in Nat
    BY <1>1, Z3
  <2>2. slldiv(a, d) = a \div d
    BY <1>1, Zenon DEF slldiv
  <2> QED BY <2>1, <2>2, DivRange, Zenon
<1>2. CASE ~ (a >= 0)
  <2>1. -a \in Nat /\ d * (-hi) <= -a /\ -a <= d * (-lo) /\ -hi \in Int /\ -lo \in Int
    BY <1>2, Z3
  <2>2. (-a) \div d \in Int /\ -hi <= (-a) \div d /\ (-a) \div d <= -lo
    BY <2>1, DivRange, Zenon
  <2>3. slldiv(a, d) = -((-a) \div d)
    BY <1>2, Zenon DEF slldiv
  <2> QED BY <2>2, <2>3, Z3
<1> QED BY <1>1, <1>2, Zenon

\* slldiv is an integer division.
LEMMA SlldivInt ==
  ASSUME NEW d \in Nat \ {0}, NEW a \in Int
  PROVE  slldiv(a, d) \in Int
<1>1. \A n \in Int : n \div d \in Int /\ - n \in Int
  BY Z3
<1> QED BY <1>1, Zenon DEF slldiv

\* What makes the two properties inductive.  A mode other than INVALID vouches for
\* the buffer, a running timer for the mode; START has neither while it holds
\* nrt_mutex, and RTDM_CLOSING is set for good before the device closes.
BenchInv ==
  /\ size \in Nat /\ closing \in BOOLEAN
  /\ alive => mode # "INVALID"
  /\ mode # "INVALID" /\ size > 0 => buffer
  /\ display \in {"start", "entered", "launch"} => mode = "INVALID"
  /\ display = "launch" /\ size > 0 => buffer
  /\ cleanup \in {"closing", "end"} => closing
  /\ cleanup = "end" => mode = "INVALID"

\* Nothing is running when the device is opened.
LEMMA BenchInitInv == BenchInit => BenchInv
<1> SUFFICES ASSUME BenchInit PROVE BenchInv
  BY Zenon
<1>1. size = 0 /\ size \in Nat /\ ~ (size > 0)
  BY SMT, Z3 DEF BenchInit
<1> QED BY Zenon, <1>1 DEF BenchInit, BenchInv

\* The ioctls of display keep it: START takes the buffer before it sets the mode
\* and sets no mode once the device closes.
LEMMA DisplayInv == BenchInv /\ Display => BenchInv'
<1> SUFFICES ASSUME BenchInv, Display PROVE BenchInv'
  BY Zenon
<1>1. ASSUME NEW n \in Sizes, StartPrepare(n) PROVE BenchInv'
  <2>1. n \in Nat BY Zenon, BenchAssumption
  <2> QED BY Zenon, <1>1, <2>1 DEF StartPrepare, BenchInv
<1>2. ASSUME NEW n \in Sizes, StartFault(n) PROVE BenchInv'
  <2>1. n \in Nat BY Zenon, BenchAssumption
  <2> QED BY Zenon, <1>2, <2>1 DEF StartFault, BenchInv
<1>3. ASSUME NEW m \in {"TASK", "HANDLER"}, display = "launch",
             UNCHANGED <<cleanup, closing, size, buffer, event, resVars>>,
             Launch(m) \/ LaunchFails(m)
      PROVE  BenchInv'
  BY SMT, Z3, <1>3 DEF Launch, LaunchFails, BenchInv
<1>4. CASE StartEnter \/ Wait \/ Destroyed \/ CopyResult
  BY SMT, Z3, <1>4 DEF StartEnter, Wait, Destroyed, CopyResult, ctlVars, BenchInv
<1> QED BY Zenon, <1>1, <1>2, <1>3, <1>4 DEF Display, StartLaunch

\* A sample changes results only.
LEMMA TimerInv == BenchInv /\ Timer => BenchInv'
<1> SUFFICES ASSUME BenchInv, NEW dt \in Latencies, Sample(dt) PROVE BenchInv'
  BY Zenon DEF Timer
<1>1. UNCHANGED <<cleanup, ctlVars>>
  BY Zenon DEF Sample
<1>2. display' = display \/ display' = "woken"
  BY Zenon DEF Sample, OuterMeasured, OuterWarmup
<1> QED BY Zenon, <1>1, <1>2 DEF ctlVars, BenchInv

\* STOP and close take the mode back with the buffer.
LEMMA CleanupInv == BenchInv /\ Cleanup => BenchInv'
<1> SUFFICES ASSUME BenchInv, Cleanup PROVE BenchInv'
  BY Zenon
<1>1. CASE Stop
  <2>1. UNCHANGED <<closing, size, display>> /\ cleanup' \in {"close", "report"}
    BY Zenon, <1>1 DEF Stop, ctlVars
  <2>2. \/ UNCHANGED <<mode, buffer, alive>>
        \/ ~ alive' /\ mode' = "INVALID"
    BY Zenon, <1>1 DEF Stop, Shutdown, ctlVars
  <2>3. display # "launch"
    BY Zenon, <1>1 DEF Stop
  <2> QED BY SMT, Z3, <2>1, <2>2, <2>3 DEF BenchInv
<1>2. CASE Report
  BY Zenon, <1>2 DEF Report, ctlVars, BenchInv
<1>3. CASE CloseFlag
  <2>1. UNCHANGED <<mode, size, buffer, alive, display>> /\ closing' = TRUE
        /\ cleanup' = "closing"
    BY Zenon, <1>3 DEF CloseFlag
  <2> QED BY Zenon, <2>1 DEF BenchInv
<1>4. CASE Close
  BY SMT, Z3, <1>4 DEF Close, Shutdown, BenchInv
<1> QED BY Zenon, <1>1, <1>2, <1>3, <1>4 DEF Cleanup

\* The invariant holds in every reachable state of the driver and its client.
THEOREM BenchAlways == BenchSpec => []BenchInv
<1>1. BenchInv /\ [BenchNext]_benchVars => BenchInv'
  <2> SUFFICES ASSUME BenchInv, [BenchNext]_benchVars PROVE BenchInv'
    BY Zenon
  <2>1. CASE Finished \/ UNCHANGED benchVars
    BY SMT, Z3, <2>1 DEF Finished, benchVars, ctlVars, BenchInv
  <2> QED BY Zenon, <2>1, DisplayInv, TimerInv, CleanupInv DEF BenchNext
<1> QED BY <1>1, BenchInitInv, PTL DEF BenchSpec

\* No timer task or timer outlives rt_tmbench_close, whatever START was doing.
THEOREM BenchClosedIsQuiet == BenchSpec => []ClosedIsQuiet
<1>1. BenchInv => ClosedIsQuiet
  BY Zenon DEF BenchInv, ClosedIsQuiet
<1> QED BY <1>1, BenchAlways, PTL

\* The histogram a sample counts in, and STOP and close free, is always there.
THEOREM BenchHistogramHeld == BenchSpec => []HistogramHeld
<1>1. BenchInv => HistogramHeld
  BY Zenon DEF BenchInv, HistogramHeld
<1> QED BY <1>1, BenchAlways, PTL

\* The statistics of a second and of a run, as numbers.
Stats(s) == s.min \in Int /\ s.max \in Int /\ s.avg \in Int /\ "avg" \in DOMAIN s
\* A sum of n values between the least and the largest.
SumOf(s, n) == n * s.min <= s.avg /\ s.avg <= n * s.max

\* What makes ResultsOrdered inductive: avg is a sum until the second, or the run, is over;
\* test_loops is one ahead of the seconds measured; and nothing starts after STOP has
\* divided the sum.
ResInv ==
  /\ warmup \in BOOLEAN /\ count \in 0 .. Samples - 1 /\ measured \in Nat
  /\ test_loops \in Nat /\ test_loops >= 1
  /\ Stats(curr) /\ Stats(last) /\ Stats(overall)
  /\ count = 0 => curr.min = Far /\ curr.max = - Far
  /\ SumOf(curr, count) /\ curr.min <= Far /\ - Far <= curr.max
  /\ count > 0 => curr.min <= curr.max
  /\ warmup => measured = 0
  /\ ~ warmup => test_loops = measured + 1
  /\ measured = 0 => overall.min = Far /\ overall.max = - Far
  /\ measured > 0 => /\ overall.min <= last.min /\ last.max <= overall.max
                     /\ last.min <= last.avg /\ last.avg <= last.max
  /\ cleanup = "stop" => SumOf(overall, measured)
  /\ cleanup = "report" =>
       /\ ~ alive /\ display \notin {"start", "entered", "launch"}
       /\ measured > 0 => overall.min <= overall.avg /\ overall.avg <= overall.max

\* The statistics of no sample.
LEMMA NoSampleStats ==
  /\ Stats(NoSample) /\ NoSample.min = Far /\ NoSample.max = - Far /\ SumOf(NoSample, 0)
<1>1. /\ NoSample.min = Far /\ NoSample.max = - Far /\ NoSample.avg = 0
      /\ "avg" \in DOMAIN NoSample
  BY Zenon DEF NoSample
<1> QED BY <1>1, BenchAssumption, Z3 DEF Stats, SumOf

\* Nothing is measured when the device is opened.
LEMMA ResInitInv == BenchInit => ResInv
<1> SUFFICES ASSUME BenchInit PROVE ResInv
  BY Zenon
<1>1. /\ curr = NoSample /\ last = NoSample /\ overall = NoSample /\ count = 0 /\ measured = 0
      /\ test_loops = 1 /\ cleanup = "stop"
  BY Zenon DEF BenchInit
<1>2. warmup \in BOOLEAN /\ warmup
  BY Zenon DEF BenchInit
<1>3. /\ count \in 0 .. Samples - 1 /\ measured \in Nat /\ test_loops \in Nat /\ test_loops >= 1
      /\ Far <= Far /\ - Far <= - Far /\ ~ (count > 0) /\ ~ (measured > 0)
  BY <1>1, BenchAssumption, Z3
<1>4. cleanup # "report"
  BY <1>1, Zenon
<1> QED BY <1>1, <1>2, <1>3, <1>4, NoSampleStats, Zenon DEF ResInv

\* START begins with no statistics; the other calls of display change none.
LEMMA DisplayRes == ResInv /\ Display => ResInv'
<1> SUFFICES ASSUME ResInv, Display PROVE ResInv'
  BY Zenon
<1>1. ASSUME NEW n \in Sizes, StartPrepare(n) PROVE ResInv'
  <2>1. /\ curr' = NoSample /\ last' = last /\ overall' = NoSample /\ count' = 0
        /\ measured' = 0
        /\ test_loops' = 1 /\ cleanup' = cleanup /\ display = "entered"
    BY <1>1, Zenon DEF StartPrepare, Fresh
  <2>2. warmup' \in BOOLEAN /\ warmup'
    BY <1>1, Zenon DEF StartPrepare, Fresh
  <2>3. /\ count' \in 0 .. Samples - 1 /\ measured' \in Nat /\ test_loops' \in Nat
        /\ test_loops' >= 1
        /\ Far <= Far /\ - Far <= - Far /\ ~ (count' > 0) /\ ~ (measured' > 0)
    BY <2>1, BenchAssumption, Z3
  <2>4. cleanup' # "report" /\ Stats(last')
    BY <2>1, Zenon DEF ResInv, Stats
  <2> QED BY <2>1, <2>2, <2>3, <2>4, NoSampleStats, Zenon DEF ResInv
<1>2. ASSUME UNCHANGED resVars, cleanup' = cleanup,
             \/ /\ alive' = alive
                /\ display' = display \/ display' \notin {"start", "entered", "launch"}
             \/ display \in {"start", "launch"}
      PROVE  ResInv'
  <2>1. /\ warmup' = warmup /\ count' = count /\ curr' = curr /\ last' = last
        /\ overall' = overall /\ test_loops' = test_loops /\ measured' = measured
    BY <1>2, Zenon DEF resVars
  <2>2. cleanup = "report" => ~ alive' /\ display' \notin {"start", "entered", "launch"}
    <3>1. ASSUME cleanup = "report"
          PROVE  ~ alive /\ display \notin {"start", "entered", "launch"}
      BY <3>1, Zenon DEF ResInv
    <3> QED BY <1>2, <3>1, Zenon
  <2> QED BY <1>2, <2>1, <2>2, Zenon DEF ResInv, Stats, SumOf
<1>3. ASSUME NEW n \in Sizes, StartFault(n) PROVE ResInv'
  BY <1>2, <1>3, Zenon DEF StartFault
<1>4. CASE StartEnter
  BY <1>2, <1>4, Zenon DEF StartEnter
<1>5. CASE StartLaunch
  BY <1>2, <1>5, Zenon DEF StartLaunch
<1>6. CASE Wait
  <2>1. alive' = alive /\ cleanup' = cleanup /\ UNCHANGED resVars
        /\ display' \in {"end", "wait"}
    BY <1>6, Zenon DEF Wait, ctlVars
  <2> QED BY <1>2, <2>1, Zenon
<1>7. CASE Destroyed
  <2>1. alive' = alive /\ cleanup' = cleanup /\ UNCHANGED resVars /\ display' = "end"
    BY <1>7, Zenon DEF Destroyed, ctlVars
  <2> QED BY <1>2, <2>1, Zenon
<1>8. CASE CopyResult
  <2>1. alive' = alive /\ cleanup' = cleanup /\ UNCHANGED resVars /\ display' = "read"
    BY <1>8, Zenon DEF CopyResult, ctlVars
  <2> QED BY <1>2, <2>1, Zenon
<1> QED BY <1>1, <1>3, <1>4, <1>5, <1>6, <1>7, <1>8, Zenon DEF Display

\* STOP divides the sum by the seconds that went into it.
LEMMA CleanupRes == BenchInv /\ ResInv /\ Cleanup => ResInv'
<1> SUFFICES ASSUME BenchInv, ResInv, Cleanup PROVE ResInv'
  BY Zenon
<1>1. CASE Stop /\ mode = "INVALID"
  <2>1. /\ overall' = overall /\ cleanup' = "close"
        /\ UNCHANGED <<display, warmup, count, curr, last, test_loops, measured>>
    BY <1>1, Zenon DEF Stop, Shutdown
  <2> QED BY <2>1, Zenon DEF ResInv, Stats, SumOf
<1>2. CASE Stop /\ mode # "INVALID"
  <2>1. /\ overall' = [overall EXCEPT !.avg = slldiv(@, Divisor)]
        /\ cleanup' = "report" /\ cleanup = "stop" /\ alive' = FALSE
        /\ UNCHANGED <<display, warmup, count, curr, last, test_loops, measured>>
    BY <1>2, Zenon DEF Stop, Shutdown
  <2>2. display \notin {"start", "entered", "launch"}
    BY <1>2, Zenon DEF BenchInv
  <2>3. Stats(overall) /\ SumOf(overall, measured) /\ test_loops \in Nat /\ test_loops >= 1
    BY <2>1, Zenon DEF ResInv
  <2>4. Divisor \in Nat \ {0} /\ slldiv(overall.avg, Divisor) \in Int
    <3>1. Divisor \in Nat \ {0}
      BY <2>3, Z3 DEF Divisor
    <3>2. overall.avg \in Int
      BY <2>3, Zenon DEF Stats
    <3> QED BY <3>1, <3>2, SlldivInt, Zenon
  <2>5. PICK n \in Int : n = slldiv(overall.avg, Divisor)
    BY <2>4, Zenon
  <2>6. /\ overall'.min = overall.min /\ overall'.max = overall.max /\ overall'.avg = n
        /\ "avg" \in DOMAIN overall'
    BY SMT, Z3, <2>1, <2>3, <2>5 DEF Stats
  <2>7. Stats(overall')
    BY <2>3, <2>5, <2>6, Zenon DEF Stats
  <2>8. ASSUME measured > 0 PROVE overall.min <= n /\ n <= overall.max
    <3>1. Divisor = measured /\ measured \in Nat \ {0}
      BY <2>8, Z3 DEF ResInv, Divisor
    <3> QED BY <2>3, <2>5, <3>1, SlldivRange, Zenon DEF Stats, SumOf
  <2>9. cleanup' # "stop"
    BY <2>1, Zenon
  <2> QED BY <2>1, <2>2, <2>6, <2>7, <2>8, <2>9, Zenon DEF ResInv, Stats, SumOf
<1>3. CASE Report
  <2>1. cleanup' = "close" /\ UNCHANGED <<display, resVars>>
    BY <1>3, Zenon DEF Report
  <2> QED BY <2>1, Zenon DEF ResInv, Stats, SumOf, resVars
<1>4. CASE CloseFlag
  <2>1. cleanup' = "closing" /\ UNCHANGED <<display, resVars>>
    BY <1>4, Zenon DEF CloseFlag
  <2> QED BY <2>1, Zenon DEF ResInv, Stats, SumOf, resVars
<1>5. CASE Close
  <2>1. cleanup' = "end" /\ UNCHANGED <<display, resVars>>
    BY <1>5, Zenon DEF Close
  <2> QED BY <2>1, Zenon DEF ResInv, Stats, SumOf, resVars
<1> QED BY <1>1, <1>2, <1>3, <1>4, <1>5, Zenon DEF Cleanup

\* A sample is added to its second, and the last one of a second ends it: the sum of the
\* second is divided by the samples, and added to the run's unless the warm-up lasts.
LEMMA TimerRes == BenchInv /\ ResInv /\ Timer => ResInv'
<1> SUFFICES ASSUME BenchInv, ResInv, NEW dt \in Latencies, Sample(dt) PROVE ResInv'
  BY Zenon DEF Timer
<1>1. dt \in Int /\ - Far <= dt /\ dt <= Far /\ Far \in Nat /\ Samples \in Nat \ {0}
  BY BenchAssumption, Z3
<1>2. /\ Stats(curr) /\ SumOf(curr, count) /\ count \in Nat /\ count < Samples
      /\ curr.min <= Far /\ - Far <= curr.max
  BY <1>1, Z3 DEF ResInv
<1>3. PICK c : c = InnerCurr(dt)
  BY Zenon
<1>4. PICK lo \in Int, hi \in Int, sum \in Int :
        /\ c.min = lo /\ c.max = hi /\ c.avg = sum /\ "avg" \in DOMAIN c
        /\ lo = (IF dt < curr.min THEN dt ELSE curr.min)
        /\ hi = (IF dt > curr.max THEN dt ELSE curr.max)
        /\ sum = curr.avg + dt
  <2>1. /\ c.min = (IF dt < curr.min THEN dt ELSE curr.min)
        /\ c.max = (IF dt > curr.max THEN dt ELSE curr.max)
        /\ c.avg = curr.avg + dt /\ "avg" \in DOMAIN c
    BY Zenon, <1>3 DEF InnerCurr
  <2>2. c.min \in Int /\ c.max \in Int /\ c.avg \in Int
    BY <1>1, <1>2, <2>1, Z3 DEF Stats
  <2> QED BY <2>1, <2>2, Zenon
<1>5. /\ lo <= curr.min /\ lo <= dt /\ curr.max <= hi /\ dt <= hi /\ lo <= hi
      /\ lo <= Far /\ - Far <= hi
  BY <1>1, <1>2, <1>4, Z3 DEF Stats
<1>6. (count + 1) * lo <= sum /\ sum <= (count + 1) * hi
  <2>1. /\ count * curr.min <= curr.avg /\ curr.avg <= count * curr.max
        /\ curr.min \in Int /\ curr.max \in Int /\ curr.avg \in Int
    BY <1>2, Zenon DEF Stats, SumOf
  <2>2. (count + 1) * lo <= curr.avg + dt /\ curr.avg + dt <= (count + 1) * hi
    BY <1>1, <1>2, <1>5, <2>1, SumWithin, Zenon
  <2> QED BY <1>4, <2>2, Zenon
<1>7. UNCHANGED <<cleanup, alive>> /\ alive /\ cleanup # "report"
  <2>1. UNCHANGED <<cleanup, alive>> /\ alive
    BY Zenon DEF Sample, ctlVars
  <2> QED BY <2>1, Zenon DEF ResInv
<1>8. CASE /\ count + 1 < Samples /\ count' = count + 1 /\ curr' = c
           /\ UNCHANGED <<warmup, last, overall, test_loops, measured>>
  <2>1. count' \in 0 .. Samples - 1 /\ count' # 0 /\ count' > 0
    BY <1>1, <1>2, <1>8, Z3
  <2>2. Stats(curr') /\ SumOf(curr', count')
    BY <1>4, <1>6, <1>8, Zenon DEF Stats, SumOf
  <2>3. curr'.min <= Far /\ - Far <= curr'.max /\ curr'.min <= curr'.max
    BY <1>4, <1>5, <1>8, Zenon
  <2> QED BY <1>7, <1>8, <2>1, <2>2, <2>3, Zenon DEF ResInv, Stats, SumOf
<1>9. CASE /\ count + 1 >= Samples /\ count' = 0 /\ curr' = NoSample
           /\ warmup /\ WarmupEnds /\ UNCHANGED <<last, overall, measured>>
  <2>1. /\ count' \in 0 .. Samples - 1 /\ ~ (count' > 0) /\ Far <= Far /\ - Far <= - Far
    BY <1>1, <1>9, Z3
  <2>2. warmup' \in BOOLEAN /\ measured = 0
    BY <1>9, Zenon DEF WarmupEnds, ResInv
  <2>3. test_loops' = IF warmup' THEN test_loops + 1 ELSE 1
    BY <1>9, Zenon DEF WarmupEnds
  <2>4. test_loops' \in Nat /\ test_loops' >= 1
    <3>1. test_loops \in Nat
      BY Zenon DEF ResInv
    <3>2. test_loops' = test_loops + 1 \/ test_loops' = 1
      BY <2>3, Zenon
    <3> QED BY <3>1, <3>2, Z3
  <2>5. ~ warmup' => test_loops' = measured + 1
    <3>1. measured + 1 = 1
      BY <2>2, Z3
    <3> QED BY <2>3, <3>1, Zenon
  <2> QED BY <1>7, <1>9, <2>1, <2>2, <2>4, <2>5, NoSampleStats, Zenon DEF ResInv, Stats, SumOf
<1>10. CASE /\ count + 1 >= Samples /\ count' = 0 /\ curr' = NoSample
            /\ ~ warmup /\ warmup' = warmup /\ last' = NewLast(c) /\ overall' = NewOverall(c)
            /\ test_loops' = test_loops + 1 /\ measured' = measured + 1
  <2>1. count + 1 = Samples /\ count' \in 0 .. Samples - 1 /\ ~ (count' > 0)
        /\ Far <= Far /\ - Far <= - Far
    BY <1>1, <1>2, <1>10, Z3
  <2>2. /\ measured \in Nat /\ measured' \in Nat /\ measured' # 0 /\ measured' > 0
        /\ test_loops' \in Nat /\ test_loops' >= 1 /\ test_loops' = measured' + 1
    <3>1. measured \in Nat /\ test_loops = measured + 1
      BY <1>10, Zenon DEF ResInv
    <3> QED BY <1>10, <3>1, Z3
  <2>3. PICK av \in Int : av = slldiv(sum, Samples) /\ lo <= av /\ av <= hi
    <3>1. Samples * lo <= sum /\ sum <= Samples * hi
      BY <1>6, <2>1, Zenon
    <3> QED BY <1>1, <3>1, SlldivRange, Zenon
  <2>4. last'.min = lo /\ last'.max = hi /\ last'.avg = av /\ "avg" \in DOMAIN last'
    BY SMT, Z3, <1>4, <1>10, <2>3 DEF NewLast
  <2>5. Stats(last')
    BY <2>4, Zenon DEF Stats
  <2>6. PICK low \in Int, high \in Int, total \in Int :
          /\ overall'.min = low /\ overall'.max = high /\ overall'.avg = total
          /\ "avg" \in DOMAIN overall'
          /\ low = (IF lo < overall.min THEN lo ELSE overall.min)
          /\ high = (IF hi > overall.max THEN hi ELSE overall.max)
          /\ total = overall.avg + av
    <3>1. /\ overall'.min = (IF lo < overall.min THEN lo ELSE overall.min)
          /\ overall'.max = (IF hi > overall.max THEN hi ELSE overall.max)
          /\ overall'.avg = overall.avg + NewLast(c).avg /\ "avg" \in DOMAIN overall'
      BY Zenon, <1>4, <1>10 DEF NewOverall
    <3>2. NewLast(c).avg = av
      BY <1>10, <2>4, Zenon
    <3>3. Stats(overall)
      BY Zenon DEF ResInv
    <3>4. /\ overall'.min \in Int /\ overall'.max \in Int /\ overall.avg + av \in Int
      BY <3>1, <3>3, Z3 DEF Stats
    <3> QED BY <3>1, <3>2, <3>4, Zenon
  <2>7. low <= lo /\ hi <= high /\ low <= overall.min /\ overall.max <= high /\ low <= av
        /\ av <= high
    <3>1. overall.min \in Int /\ overall.max \in Int
      BY Zenon DEF ResInv, Stats
    <3> QED BY <2>3, <2>6, <3>1, Z3
  <2>8. cleanup = "stop" => SumOf(overall', measured')
    <3>1. ASSUME cleanup = "stop"
          PROVE  /\ measured * overall.min <= overall.avg
                 /\ overall.avg <= measured * overall.max
                 /\ overall.min \in Int /\ overall.max \in Int /\ overall.avg \in Int
      BY <3>1, Zenon DEF ResInv, SumOf, Stats
    <3>2. ASSUME cleanup = "stop"
          PROVE  /\ (measured + 1) * low <= overall.avg + av
                 /\ overall.avg + av <= (measured + 1) * high
      BY <2>2, <2>3, <2>7, <3>1, <3>2, SumWithin, Zenon
    <3> QED BY <1>10, <2>6, <3>2, Zenon DEF SumOf
  <2>9. Stats(overall')
    BY <2>6, Zenon DEF Stats
  <2>10. warmup' \in BOOLEAN /\ ~ warmup'
    BY <1>10, Zenon DEF ResInv
  <2> QED BY <1>7, <1>10, <2>1, <2>2, <2>3, <2>4, <2>5, <2>6, <2>7, <2>8, <2>9, <2>10,
             NoSampleStats, Zenon DEF ResInv
<1> QED BY <1>3, <1>8, <1>9, <1>10, Zenon DEF Sample, OuterMeasured, OuterWarmup

\* The statistics are right for every number of samples, seconds and latencies.
LEMMA ResAlways == BenchSpec => []ResInv
<1>1. BenchInv /\ ResInv /\ [BenchNext]_benchVars => ResInv'
  <2> SUFFICES ASSUME BenchInv, ResInv, [BenchNext]_benchVars PROVE ResInv'
    BY Zenon
  <2>1. CASE Finished \/ UNCHANGED benchVars
    <3>1. UNCHANGED <<display, cleanup, ctlVars, resVars>>
      BY <2>1, Zenon DEF Finished, benchVars
    <3> QED BY <3>1, Zenon DEF ctlVars, resVars, ResInv, Stats, SumOf
  <2> QED BY <2>1, DisplayRes, TimerRes, CleanupRes, Zenon DEF BenchNext
<1> QED BY <1>1, BenchAlways, ResInitInv, PTL DEF BenchSpec

\* What latency prints never crosses: the minimum, the average and the maximum of a second,
\* and of the run, whose average STOP computes from the sum of the seconds' averages.
THEOREM BenchResultsOrdered == BenchSpec => []ResultsOrdered
<1>1. ResInv => ResultsOrdered
  BY Zenon DEF ResInv, ResultsOrdered
<1> QED BY <1>1, ResAlways, PTL
-----------------------------------------------------------------------------
(* The agent.                                                              *)

\* One when P holds.
Unit(P) == IF P THEN 1 ELSE 0

\* The block is lent out once: by shmsem, to the sender, by agentsem or to the agent,
\* whose op tells what it does with it.
Lent ==
  shmsem + agentsem
    + Unit(sender \in {"size", "fill", "signal", "zero", "bye"}) + Unit(op # 1) = 1

\* The types of the agent, without the bounds that follow from Lent.
AgentTypes ==
  /\ shm0 \in 0..1 /\ sumRight \in BOOLEAN /\ wrong \in BOOLEAN
  /\ shmsem \in Nat /\ agentsem \in Nat /\ op \in 1..4
  /\ todo \in Nat /\ block \in Nat /\ relayed \in Nat /\ relayed <= block
  /\ sender \in {"new", "wait", "size", "fill", "signal", "zero", "bye", "ended"}
  /\ receiver \in {"new", "call", "rpc", "returned", "send", "told", "ended"}
  /\ agent \in {"names", "test", "case1", "check", "case2", "case3", "case4", "last",
                "ended"}

\* Where the agent is, by op: 4 before the first block, 1 while the sender has it, 2
\* until the receiver asks for it, and 3 until the receiver gives it back.
AtOp ==
  /\ agent = "names" => op = 4
  /\ agent = "case1" => op = 1
  /\ agent \in {"check", "case2"} => op = 2
  /\ agent = "case3" => op = 3
  /\ agent = "case4" => op \in {3, 4}
  /\ agent \in {"last", "ended"} => shm0 = 0

\* The receiver has the block from the answer of its rpc to its send.
AtReceiver ==
  agent \notin {"last", "ended"} =>
    /\ receiver \in {"returned", "send"} <=> op = 3 /\ agent # "case4"
    /\ receiver \notin {"told", "ended"}

\* The inductive invariant: the block, its checksum and the counts of blocks, by who has it.
AgentInv ==
  /\ AgentTypes /\ Lent /\ AtOp /\ AtReceiver
  /\ shm0 = 0 <=> sender \in {"bye", "ended"}
  /\ todo + block = IF sender = "signal" THEN COUNT + 1 ELSE COUNT
  /\ sender \in {"size", "fill", "signal"} => todo > 0
  /\ sender = "signal" => block > 0
  /\ sender \in {"zero", "bye", "ended"} => todo = 0
  /\ sender \in {"size", "fill", "zero"} \/ shmsem = 1 \/ op = 4 \/ agent = "case4"
       => relayed = block
  /\ receiver = "send" /\ agent \notin {"last", "ended"} => relayed = block
  /\ shm0 = 1 /\ (sender = "signal" \/ agentsem = 1 \/ op \in {2, 3}) => sumRight
  /\ wrong => shm0 = 0

\* The shared memory starts with nobody, lent by shmsem once the agent finds its tasks.
LEMMA AgentInitInv == AgentInit => AgentInv
<1> SUFFICES ASSUME AgentInit PROVE AgentInv
  BY Zenon
<1> USE CountAssumption DEF AgentInit
<1>0. sumRight \in BOOLEAN /\ wrong \in BOOLEAN /\ ~ wrong
  BY Zenon
<1>1. AgentTypes
  BY SMT, Z3, <1>0 DEF AgentTypes
<1>2. Lent
  BY SMT, Z3 DEF Lent, Unit
<1>3. AtOp /\ AtReceiver
  BY SMT, Z3 DEF AtOp, AtReceiver
<1> QED BY SMT, Z3, <1>0, <1>1, <1>2, <1>3 DEF AgentInv

\* The sender keeps it: it fills the block only between its wait and its signal.
LEMMA SenderInv == AgentInv /\ Sender => AgentInv'
<1> SUFFICES ASSUME AgentInv, Sender PROVE AgentInv'
  BY Zenon
<1> USE CountAssumption DEF AgentInv, AgentTypes, Lent, Unit, AtOp, AtReceiver, SndOnly, memVars
<1>1. CASE SndStart
  BY SMT, Z3, <1>1 DEF SndStart
<1>2. CASE SndWait
  BY SMT, Z3, <1>2 DEF SndWait
<1>3. CASE SndSize
  <2>1. sumRight' \in BOOLEAN
    BY <1>3, Zenon DEF SndSize
  <2> QED BY SMT, Z3, <1>3, <2>1 DEF SndSize
<1>4. CASE SndFill
  BY SMT, Z3, <1>4 DEF SndFill
<1>5. CASE SndSignal
  BY SMT, Z3, <1>5 DEF SndSignal
<1>6. CASE SndZero
  <2>1. sumRight' \in BOOLEAN
    BY <1>6, Zenon DEF SndZero
  <2> QED BY SMT, Z3, <1>6, <2>1 DEF SndZero
<1>7. CASE SndBye
  BY SMT, Z3, <1>7 DEF SndBye
<1> QED BY Zenon, <1>1, <1>2, <1>3, <1>4, <1>5, <1>6, <1>7 DEF Sender

\* The receiver keeps it: it has the block between the answer to its rpc and its send.
LEMMA ReceiverInv == AgentInv /\ Receiver => AgentInv'
<1> SUFFICES ASSUME AgentInv, Receiver PROVE AgentInv'
  BY Zenon
<1> USE CountAssumption DEF AgentInv, AgentTypes, Lent, Unit, AtOp, AtReceiver, memVars,
   RcvMoves, Calls
<1>1. CASE RcvStart
  BY SMT, Z3, <1>1 DEF RcvStart
<1>2. CASE RcvCall
  BY SMT, Z3, <1>2 DEF RcvCall
<1>3. CASE RcvCheck
  BY SMT, Z3, <1>3 DEF RcvCheck
<1>4. CASE RcvEnd
  BY Zenon, <1>4 DEF RcvEnd
<1> QED BY Zenon, <1>1, <1>2, <1>3, <1>4 DEF Receiver

\* The agent keeps it in each of its cases, the end of the sender in between included.
LEMMA AgentsInv == AgentInv /\ Agent => AgentInv'
<1> SUFFICES ASSUME AgentInv, Agent PROVE AgentInv'
  BY Zenon
<1> USE CountAssumption DEF AgentInv, AgentTypes, Lent, Unit, AtOp, AtReceiver, memVars,
   AgentOnly,
        Sending, AfterSend, Answered
<1>1. CASE FindTasks
  BY SMT, Z3, <1>1 DEF FindTasks
<1>2. CASE Test
  BY SMT, Z3, <1>2 DEF Test, Case
<1>3. CASE Case1
  BY SMT, Z3, <1>3 DEF Case1
<1>4. CASE Check
  BY SMT, Z3, <1>4 DEF Check
<1>5. CASE Case2
  BY SMT, Z3, <1>5 DEF Case2
<1>6. CASE Case3
  BY SMT, Z3, <1>6 DEF Case3
<1>7. CASE Case4
  BY SMT, Z3, <1>7 DEF Case4
<1>8. CASE Last
  BY Zenon, <1>8 DEF Last
<1> QED BY Zenon, <1>1, <1>2, <1>3, <1>4, <1>5, <1>6, <1>7, <1>8 DEF Agent

\* The invariant holds for every number of blocks.
THEOREM AgentAlways == AgentSpec => []AgentInv
<1>1. AgentInv /\ [AgentNext]_agentVars => AgentInv'
  <2> SUFFICES ASSUME AgentInv, [AgentNext]_agentVars PROVE AgentInv'
    BY Zenon
  <2>1. CASE UNCHANGED agentVars
    BY SMT, Z3, <2>1 DEF agentVars, memVars, AgentInv, AgentTypes, Lent, Unit, AtOp, AtReceiver
  <2> QED BY Zenon, <2>1, SenderInv, ReceiverInv, AgentsInv DEF AgentNext, AgentEnded
<1> QED BY <1>1, AgentInitInv, PTL DEF AgentSpec

\* No block is overwritten before the receiver has checked it, and no checksum is wrong before
\* the sender says goodbye.
THEOREM AgentOneHolder == AgentSpec => []OneHolder
<1>1. AgentInv => OneHolder
  BY Zenon DEF AgentInv, OneHolder, NothingOverwritten, ChecksumsWhileSending, AgentTypes
<1> QED BY <1>1, AgentAlways, PTL

\* The semaphores stay binary and the counts within COUNT.
THEOREM AgentTypesRight == AgentSpec => []AgentTypeOK
<1>1. AgentInv => AgentTypeOK
  <2> SUFFICES ASSUME AgentInv PROVE AgentTypeOK
    BY Zenon
  <2>1. shmsem \in 0..1 /\ agentsem \in 0..1
    BY SMT, Z3 DEF AgentInv, AgentTypes, Lent, Unit
  <2>2. block \in 0..COUNT /\ todo \in 0..COUNT /\ relayed \in 0..COUNT
    BY SMT, Z3, CountAssumption DEF AgentInv, AgentTypes
  <2> QED BY Zenon, <2>1, <2>2 DEF AgentInv, AgentTypes, AgentTypeOK
<1> QED BY <1>1, AgentAlways, PTL
-----------------------------------------------------------------------------
(* The chronometer.                                                        *)

\* A time of day of four counters (struct hour of the clocks).
Time(a, b, c, d) == [hours |-> a, minutes |-> b, seconds |-> c, hundredthes |-> d]

\* Hundredths in hours, minutes, seconds and hundredths, without nested products.
Hundredths(a, b, c, d) == 360000 * a + 6000 * b + 100 * c + d

\* What four counters are in hundredths.
LEMMA TimeUnits ==
  ASSUME NEW a \in Int, NEW b \in Int, NEW c \in Int, NEW d \in Int
  PROVE  Units(Time(a, b, c, d)) = Hundredths(a, b, c, d)
BY Z3 DEF Units, Time, Hundredths

\* Counters in their ranges are a time of day.
LEMMA TimeIsHour ==
  ASSUME NEW a \in 0 .. 23, NEW b \in 0 .. 59, NEW c \in 0 .. 59, NEW d \in 0 .. 99
  PROVE  /\ Time(a, b, c, d) \in Hour
         /\ Units(Time(a, b, c, d)) = Hundredths(a, b, c, d)
<1>1. Time(a, b, c, d) \in Hour
  BY Zenon DEF Time, Hour
<1>2. a \in Int /\ b \in Int /\ c \in Int /\ d \in Int
  BY Z3
<1> QED BY <1>1, <1>2, TimeUnits, Zenon

\* A time of day is its four counters.
LEMMA HourFields ==
  ASSUME NEW h \in Hour
  PROVE  \E a \in 0 .. 23, b \in 0 .. 59, c \in 0 .. 59, d \in 0 .. 99 :
           h = Time(a, b, c, d) /\ Units(h) = Hundredths(a, b, c, d)
<1>1. h.hours \in 0 .. 23 /\ h.minutes \in 0 .. 59 /\ h.seconds \in 0 .. 59
      /\ h.hundredthes \in 0 .. 99
  BY Zenon DEF Hour
<1>2. h = Time(h.hours, h.minutes, h.seconds, h.hundredthes)
  BY Zenon DEF Hour, Time
<1>3. Units(h) = Hundredths(h.hours, h.minutes, h.seconds, h.hundredthes)
  BY <1>1, <1>2, TimeIsHour, Zenon
<1> QED BY <1>1, <1>2, <1>3, Zenon

\* A time is reduced at midnight, and only then.
LEMMA DayWraps ==
  \A n \in Nat : n < DAY => n % DAY = n /\ (DAY + n) % DAY = n
<1>1. DAY = 8640000
  BY Z3 DEF DAY
<1> QED BY <1>1, Z3

\* A time of day is less than a day in hundredths.
LEMMA UnitsInDay == \A h \in Hour : Units(h) \in Nat /\ Units(h) < DAY
<1> TAKE h \in Hour
<1>1. PICK a \in 0 .. 23, b \in 0 .. 59, c \in 0 .. 59, d \in 0 .. 99 :
             h = Time(a, b, c, d) /\ Units(h) = Hundredths(a, b, c, d)
  BY HourFields, Zenon
<1>2. Hundredths(a, b, c, d) \in Nat /\ Hundredths(a, b, c, d) < DAY
  BY Z3 DEF Hundredths, DAY
<1> QED BY <1>1, <1>2, Zenon

\* Two times of day with the same hundredths are the same: what MenageHmsh_Equal
\* compares field by field is the time.
LEMMA UnitsTell == \A g, h \in Hour : Units(g) = Units(h) => g = h
<1> SUFFICES ASSUME NEW g \in Hour, NEW h \in Hour, Units(g) = Units(h) PROVE g = h
  BY Zenon
<1>1. PICK a \in 0 .. 23, b \in 0 .. 59, c \in 0 .. 59, d \in 0 .. 99 :
             h = Time(a, b, c, d) /\ Units(h) = Hundredths(a, b, c, d)
  BY HourFields, Zenon
<1>2. PICK e \in 0 .. 23, f \in 0 .. 59, i \in 0 .. 59, j \in 0 .. 99 :
             g = Time(e, f, i, j) /\ Units(g) = Hundredths(e, f, i, j)
  BY HourFields, Zenon
<1>3. Hundredths(a, b, c, d) = Hundredths(e, f, i, j)
  BY <1>1, <1>2, Zenon
<1>4. a = e /\ b = f /\ c = i /\ d = j
  BY <1>3, Z3 DEF Hundredths
<1> QED BY <1>1, <1>2, <1>4, Zenon

\* PlusOneSecond, with its carries to minutes and hours, adds a second modulo a day.
LEMMA SecondAdds ==
  \A h \in Hour : /\ PlusOneSecond(h) \in Hour
                  /\ Units(PlusOneSecond(h)) = (Units(h) + 100) % DAY
<1> SUFFICES ASSUME NEW h \in Hour
             PROVE  /\ PlusOneSecond(h) \in Hour
                    /\ Units(PlusOneSecond(h)) = (Units(h) + 100) % DAY
  BY Zenon
<1>1. PICK a \in 0 .. 23, b \in 0 .. 59, c \in 0 .. 59, d \in 0 .. 99 :
             h = Time(a, b, c, d) /\ Units(h) = Hundredths(a, b, c, d)
  BY HourFields, Zenon
<1>2. ASSUME c # 59
      PROVE  PlusOneSecond(h) \in Hour /\ Units(h) + 100 = Units(PlusOneSecond(h))
  <2>1. PlusOneSecond(Time(a, b, c, d)) = Time(a, b, c + 1, d)
    BY <1>2, Z3 DEF PlusOneSecond, AdvanceSeconds, Time
  <2>2. c + 1 \in 0 .. 59 /\ Hundredths(a, b, c + 1, d) = Hundredths(a, b, c, d) + 100
    BY <1>2, Z3 DEF Hundredths
  <2>3. /\ Time(a, b, c + 1, d) \in Hour
        /\ Units(Time(a, b, c + 1, d)) = Hundredths(a, b, c + 1, d)
    BY <2>2, TimeIsHour, Zenon
  <2> QED BY <1>1, <2>1, <2>2, <2>3, Zenon
<1>3. ASSUME c = 59 /\ b # 59
      PROVE  PlusOneSecond(h) \in Hour /\ Units(h) + 100 = Units(PlusOneSecond(h))
  <2>1. PlusOneSecond(Time(a, b, c, d)) = Time(a, b + 1, 0, d)
    <3>1. AdvanceSeconds(Time(a, b, c, d)) = Time(a, b, 0, d)
      BY <1>3, Z3 DEF AdvanceSeconds, Time
    <3>2. AdvanceMinutes(Time(a, b, 0, d)) = Time(a, b + 1, 0, d)
      BY <1>3, Z3 DEF AdvanceMinutes, Time
    <3>3. Time(a, b, 0, d).seconds = 0 /\ Time(a, b + 1, 0, d).minutes # 0
      BY <1>3, Z3 DEF Time
    <3> QED BY <3>1, <3>2, <3>3, Zenon DEF PlusOneSecond
  <2>2. b + 1 \in 0 .. 59 /\ 0 \in 0 .. 59
        /\ Hundredths(a, b + 1, 0, d) = Hundredths(a, b, c, d) + 100
    BY <1>3, Z3 DEF Hundredths
  <2>3. /\ Time(a, b + 1, 0, d) \in Hour
        /\ Units(Time(a, b + 1, 0, d)) = Hundredths(a, b + 1, 0, d)
    BY <2>2, TimeIsHour, Zenon
  <2> QED BY <1>1, <2>1, <2>2, <2>3, Zenon
<1>4. ASSUME c = 59 /\ b = 59 /\ a # 23
      PROVE  PlusOneSecond(h) \in Hour /\ Units(h) + 100 = Units(PlusOneSecond(h))
  <2>1. PlusOneSecond(Time(a, b, c, d)) = Time(a + 1, 0, 0, d)
    <3>1. AdvanceSeconds(Time(a, b, c, d)) = Time(a, b, 0, d)
      BY <1>4, Z3 DEF AdvanceSeconds, Time
    <3>2. AdvanceMinutes(Time(a, b, 0, d)) = Time(a, 0, 0, d)
      BY <1>4, Z3 DEF AdvanceMinutes, Time
    <3>3. AdvanceHours(Time(a, 0, 0, d)) = Time(a + 1, 0, 0, d)
      BY <1>4, Z3 DEF AdvanceHours, Time
    <3>4. Time(a, b, 0, d).seconds = 0 /\ Time(a, 0, 0, d).minutes = 0
      BY Z3 DEF Time
    <3> QED BY <3>1, <3>2, <3>3, <3>4, Zenon DEF PlusOneSecond
  <2>2. a + 1 \in 0 .. 23 /\ 0 \in 0 .. 59
        /\ Hundredths(a + 1, 0, 0, d) = Hundredths(a, b, c, d) + 100
    BY <1>4, Z3 DEF Hundredths
  <2>3. /\ Time(a + 1, 0, 0, d) \in Hour
        /\ Units(Time(a + 1, 0, 0, d)) = Hundredths(a + 1, 0, 0, d)
    BY <2>2, TimeIsHour, Zenon
  <2> QED BY <1>1, <2>1, <2>2, <2>3, Zenon
<1>5. ASSUME c = 59 /\ b = 59 /\ a = 23
      PROVE  PlusOneSecond(h) \in Hour /\ Units(h) + 100 = DAY + Units(PlusOneSecond(h))
  <2>1. PlusOneSecond(Time(a, b, c, d)) = Time(0, 0, 0, d)
    <3>1. AdvanceSeconds(Time(a, b, c, d)) = Time(a, b, 0, d)
      BY <1>5, Z3 DEF AdvanceSeconds, Time
    <3>2. AdvanceMinutes(Time(a, b, 0, d)) = Time(a, 0, 0, d)
      BY <1>5, Z3 DEF AdvanceMinutes, Time
    <3>3. AdvanceHours(Time(a, 0, 0, d)) = Time(0, 0, 0, d)
      BY <1>5, Z3 DEF AdvanceHours, Time
    <3>4. Time(a, b, 0, d).seconds = 0 /\ Time(a, 0, 0, d).minutes = 0
      BY Z3 DEF Time
    <3> QED BY <3>1, <3>2, <3>3, <3>4, Zenon DEF PlusOneSecond
  <2>2. 0 \in 0 .. 23 /\ 0 \in 0 .. 59
        /\ DAY + Hundredths(0, 0, 0, d) = Hundredths(a, b, c, d) + 100
    BY <1>5, Z3 DEF Hundredths, DAY
  <2>3. /\ Time(0, 0, 0, d) \in Hour
        /\ Units(Time(0, 0, 0, d)) = Hundredths(0, 0, 0, d)
    BY <2>2, TimeIsHour, Zenon
  <2> QED BY <1>1, <2>1, <2>2, <2>3, Zenon
<1>6. PlusOneSecond(h) \in Hour
      /\ Units(h) + 100 \in {Units(PlusOneSecond(h)), DAY + Units(PlusOneSecond(h))}
  BY <1>2, <1>3, <1>4, <1>5, Zenon
<1> QED BY <1>6, UnitsInDay, DayWraps, Zenon

\* PlusOneUnit, with its carry to the seconds, adds a hundredth modulo a day.
LEMMA UnitAdds ==
  \A h \in Hour : /\ PlusOneUnit(h) \in Hour
                  /\ Units(PlusOneUnit(h)) = (Units(h) + 1) % DAY
<1> SUFFICES ASSUME NEW h \in Hour
             PROVE  /\ PlusOneUnit(h) \in Hour
                    /\ Units(PlusOneUnit(h)) = (Units(h) + 1) % DAY
  BY Zenon
<1>1. PICK a \in 0 .. 23, b \in 0 .. 59, c \in 0 .. 59, d \in 0 .. 99 :
             h = Time(a, b, c, d) /\ Units(h) = Hundredths(a, b, c, d)
  BY HourFields, Zenon
<1>2. CASE d # 99
  <2>1. PlusOneUnit(Time(a, b, c, d)) = Time(a, b, c, d + 1)
    BY <1>2, Z3 DEF PlusOneUnit, Time
  <2>2. d + 1 \in 0 .. 99 /\ Hundredths(a, b, c, d + 1) = Hundredths(a, b, c, d) + 1
    BY <1>2, Z3 DEF Hundredths
  <2>3. /\ Time(a, b, c, d + 1) \in Hour
        /\ Units(Time(a, b, c, d + 1)) = Hundredths(a, b, c, d + 1)
    BY <2>2, TimeIsHour, Zenon
  <2> QED BY <1>1, <2>1, <2>2, <2>3, UnitsInDay, DayWraps, Zenon
<1>3. CASE d = 99
  <2>1. PlusOneUnit(Time(a, b, c, d)) = PlusOneSecond(Time(a, b, c, 0))
    BY <1>3, Z3 DEF PlusOneUnit, Time
  <2>2. 0 \in 0 .. 99 /\ Hundredths(a, b, c, 0) + 100 = Hundredths(a, b, c, d) + 1
    BY <1>3, Z3 DEF Hundredths
  <2>3. /\ Time(a, b, c, 0) \in Hour
        /\ Units(Time(a, b, c, 0)) = Hundredths(a, b, c, 0)
    BY <2>2, TimeIsHour, Zenon
  <2> QED BY <1>1, <2>1, <2>2, <2>3, SecondAdds, Zenon
<1> QED BY <1>2, <1>3, Zenon

\* The loop of PlusNSeconds, unrolled for the three seconds of an intermediate time.
LEMMA ThreeSeconds ==
  \A h : PlusNSeconds(3, h) = PlusOneSecond(PlusOneSecond(PlusOneSecond(h)))
<1> SUFFICES ASSUME NEW h
             PROVE  PlusNSeconds(3, h) = PlusOneSecond(PlusOneSecond(PlusOneSecond(h)))
  BY Zenon
<1> DEFINE P[i \in 0 .. 3] == IF i = 0 THEN h ELSE PlusOneSecond(P[i - 1])
           Body(f) == [i \in 0 .. 3 |-> IF i = 0 THEN h ELSE PlusOneSecond(f[i - 1])]
           W == [i \in 0 .. 3 |->
                  IF i = 0 THEN h
                  ELSE IF i = 1 THEN PlusOneSecond(h)
                  ELSE IF i = 2 THEN PlusOneSecond(PlusOneSecond(h))
                  ELSE PlusOneSecond(PlusOneSecond(PlusOneSecond(h)))]
<1>1. W = Body(W)
  <2>1. \A i \in 0 .. 3 : W[i] = Body(W)[i]
    <3> TAKE i \in 0 .. 3
    <3>1. i = 0 \/ i = 1 \/ i = 2 \/ i = 3
      BY SMT, Z3
    <3> QED BY SMT, Z3, <3>1
  <2> QED BY Zenon, <2>1
<1>2. P = Body(P)
  <2>1. \E f : f = Body(f)
    BY Zenon, <1>1
  <2> QED BY <2>1, Zenon
<1> HIDE DEF P
<1>3. P[0] = h /\ P[1] = PlusOneSecond(P[0]) /\ P[2] = PlusOneSecond(P[1])
      /\ P[3] = PlusOneSecond(P[2])
  BY SMT, Z3, <1>2
<1>4. PlusNSeconds(3, h) = P[3]
  BY Zenon DEF PlusNSeconds, P
<1> QED BY Zenon, <1>3, <1>4

\* The line Convert makes says the time it is made from, to the hundredth or to the second.
LEMMA ConvertSays ==
  \A h \in Hour : /\ Said(Convert(h, TRUE)) = Units(h)
                  /\ Said(Convert(h, FALSE)) = Units(h) - h.hundredthes
<1> SUFFICES ASSUME NEW h \in Hour
             PROVE  /\ Said(Convert(h, TRUE)) = Units(h)
                    /\ Said(Convert(h, FALSE)) = Units(h) - h.hundredthes
  BY Zenon
<1>0. PICK x \in 0 .. 23, y \in 0 .. 59, z \in 0 .. 59, u \in 0 .. 99 :
             h = Time(x, y, z, u) /\ Units(h) = Hundredths(x, y, z, u)
  BY HourFields, Zenon
<1>1. \A n \in 0 .. 99 : 10 * (n \div 10) + (n % 10) = n
  BY Z3
<1>3. /\ 10 * (x \div 10) + (x % 10) = x /\ 10 * (y \div 10) + (y % 10) = y
      /\ 10 * (z \div 10) + (z % 10) = z /\ 10 * (u \div 10) + (u % 10) = u
  BY <1>1, Z3
<1> DEFINE c == Convert(Time(x, y, z, u), TRUE)
           d == Convert(Time(x, y, z, u), FALSE)
<1>4. /\ c[1] = x \div 10 /\ c[1 + 1] = x % 10 /\ c[4] = y \div 10 /\ c[4 + 1] = y % 10
      /\ c[7] = z \div 10 /\ c[7 + 1] = z % 10
      /\ c[9] = "." /\ c[10] = u \div 10 /\ c[10 + 1] = u % 10
  BY Z3 DEF Convert, TwoDigits, Time
<1>5. /\ d[1] = x \div 10 /\ d[1 + 1] = x % 10 /\ d[4] = y \div 10 /\ d[4 + 1] = y % 10
      /\ d[7] = z \div 10 /\ d[7 + 1] = z % 10
  BY Z3 DEF Convert, TwoDigits, Time
<1>9. d[9] = Blank
  BY Z3 DEF Convert, TwoDigits, Time
<1>10. Blank # "."
  BY Zenon DEF Blank
<1> HIDE DEF c, d
<1>6. Said(c) = Units(Time(x, y, z, u))
  <2>1. Said(c) = ((x * 60 + y) * 60 + z) * 100 + u
    BY <1>3, <1>4, Z3 DEF Said
  <2> QED BY <2>1, Z3 DEF Units, Time
<1>7. Said(d) = Units(Time(x, y, z, u)) - u
  <2>1. Said(d) = ((x * 60 + y) * 60 + z) * 100
    BY <1>3, <1>5, <1>9, <1>10, Z3 DEF Said
  <2> QED BY <2>1, Z3 DEF Units, Time
<1>8. Time(x, y, z, u).hundredthes = u
  BY Zenon DEF Time
<1> QED BY <1>0, <1>6, <1>7, <1>8, Zenon DEF c, d

\* PlusNSeconds(3) adds three seconds modulo a day.
LEMMA ThreeSecondsAdd ==
  \A h \in Hour : /\ PlusNSeconds(3, h) \in Hour
                  /\ Units(PlusNSeconds(3, h)) = (Units(h) + 300) % DAY
<1> SUFFICES ASSUME NEW h \in Hour
             PROVE  /\ PlusNSeconds(3, h) \in Hour
                    /\ Units(PlusNSeconds(3, h)) = (Units(h) + 300) % DAY
  BY Zenon
<1> DEFINE a == PlusOneSecond(h)
           b == PlusOneSecond(a)
           c == PlusOneSecond(b)
<1>1. a \in Hour /\ Units(a) = (Units(h) + 100) % DAY
  BY SecondAdds, Zenon
<1> HIDE DEF a
<1>2. b \in Hour /\ Units(b) = (Units(a) + 100) % DAY
  BY <1>1, SecondAdds, Zenon
<1> HIDE DEF b
<1>3. c \in Hour /\ Units(c) = (Units(b) + 100) % DAY
  BY <1>2, SecondAdds, Zenon
<1>4. PlusNSeconds(3, h) = c
  BY ThreeSeconds, Zenon DEF a, b
<1> HIDE DEF c
<1>5. PICK u \in Nat : u = Units(h)
  BY UnitsInDay, Zenon
<1>6. (((((u + 100) % DAY) + 100) % DAY) + 100) % DAY = (u + 300) % DAY
  <2>1. DAY = 8640000
    BY Z3 DEF DAY
  <2> QED BY <2>1, Z3
<1> QED BY <1>1, <1>2, <1>3, <1>4, <1>5, <1>6, Z3

\* The time at which what was asked for s units before the time a is held no more.
Until(a, s) == (a + (300 - s)) % DAY

\* The end of an intermediate time is met 300 hundredths after its start, at midnight too.
LEMMA HeldCount ==
  \A a \in Nat, s \in 0 .. 299 :
    a < DAY => /\ ((a + 1) % DAY = Until(a, s)) <=> s = 299
               /\ s < 299 => Until(a, s) = Until((a + 1) % DAY, s + 1)
<1>1. DAY = 8640000
  BY Z3 DEF DAY
<1> QED BY <1>1, Z3 DEF Until

\* Whole seconds and hundredths apart.
Wholes(a, b, c) == 3600 * a + 60 * b + c

\* With or without its hundredths, a line says the second of the time it is made from.
LEMMA LinesSay ==
  \A h \in Hour, b \in BOOLEAN : Said(Convert(h, b)) \div 100 = Units(h) \div 100
<1> TAKE h \in Hour, b \in BOOLEAN
<1>1. PICK x \in 0 .. 23, y \in 0 .. 59, z \in 0 .. 59, u \in 0 .. 99 :
        h = Time(x, y, z, u) /\ Units(h) = Hundredths(x, y, z, u)
  BY HourFields, Zenon
<1>2. h.hundredthes = u
  BY <1>1, Z3 DEF Time
<1>3. PICK w \in Nat : w = Wholes(x, y, z) /\ Hundredths(x, y, z, u) = 100 * w + u
  <2>1. Wholes(x, y, z) \in Nat /\ Hundredths(x, y, z, u) = 100 * Wholes(x, y, z) + u
    BY Z3 DEF Hundredths, Wholes
  <2> QED BY <2>1, Z3
<1>5. ((100 * w + u) - u) \div 100 = (100 * w + u) \div 100
  BY Z3
<1>4. Said(Convert(h, b)) = Units(h) \/ Said(Convert(h, b)) = Units(h) - h.hundredthes
  BY ConvertSays, Zenon
<1> QED BY <1>1, <1>2, <1>3, <1>4, <1>5, Zenon

\* Between two reports the second does not change.
LEMMA SameSecond ==
  \A h \in Hour : ~ reportSeconds(h) => Units(PlusOneUnit(h)) \div 100 = Units(h) \div 100
<1> SUFFICES ASSUME NEW h \in Hour, ~ reportSeconds(h)
             PROVE  Units(PlusOneUnit(h)) \div 100 = Units(h) \div 100
  BY Zenon
<1>1. PICK x \in 0 .. 23, y \in 0 .. 59, z \in 0 .. 59, u \in 0 .. 99 :
        h = Time(x, y, z, u) /\ Units(h) = Hundredths(x, y, z, u)
  BY HourFields, Zenon
<1>2. h.hundredthes = u
  BY <1>1, Z3 DEF Time
<1>3. PICK w \in Nat : w = Wholes(x, y, z) /\ Hundredths(x, y, z, u) = 100 * w + u
  <2>1. Wholes(x, y, z) \in Nat /\ Hundredths(x, y, z, u) = 100 * Wholes(x, y, z) + u
    BY Z3 DEF Hundredths, Wholes
  <2> QED BY <2>1, Z3
<1>4. u # 99
  BY <1>2, Z3 DEF reportSeconds
<1>5. Hundredths(x, y, z, u) + 1 \in Nat /\ Hundredths(x, y, z, u) + 1 < DAY
  BY <1>4, Z3 DEF Hundredths, DAY
<1>6. ((100 * w + u) + 1) \div 100 = (100 * w + u) \div 100
  BY <1>4, Z3
<1> QED BY <1>1, <1>3, <1>5, <1>6, UnitAdds, DayWraps, Zenon

\* What makes HeldThreeSeconds and LineRight inductive: how far the clock has got since an
\* intermediate time was asked for, and when it will be released.
ChronoInv ==
  /\ ChronoTypeOK
  /\ Intermediatetimes <=> since \in 0 .. 299
  /\ Intermediatetimes => Units(endIntermediateTimes) = Until(Units(times), since)
  /\ status = "initial" => ~ Intermediatetimes
  /\ status # "final" /\ ~ Intermediatetimes
     => Said(line) \div 100 = Units(times) \div 100
  /\ status = "final" => Said(line) = Units(times)

\* The chronometer starts with nothing held and its time on display.
LEMMA ChronoInitInv == ChronoInit => ChronoInv
<1> SUFFICES ASSUME ChronoInit PROVE ChronoInv
  BY Zenon
<1>1. times \in Hour /\ Initialise \in Hour
  BY StartAssumption, Z3 DEF ChronoInit, Hour, Initialise
<1>2. since \notin 0 .. 299 /\ since \in {None} \cup Nat /\ units \in 0 .. MaxUnits
  BY BoundAssumption, Z3 DEF ChronoInit, None
<1>3. Intermediatetimes \in BOOLEAN /\ ~ Intermediatetimes /\ status = "running"
      /\ endIntermediateTimes = Initialise
  BY Zenon DEF ChronoInit
<1>4. Said(line) \div 100 = Units(times) \div 100
  BY <1>1, LinesSay, Zenon DEF ChronoInit
<1> QED BY <1>1, <1>2, <1>3, <1>4, Zenon DEF ChronoInv, ChronoTypeOK

\* A tick of the chronometer (command C) keeps it, the last tick of a held time included.
LEMMA CommandCInv == ChronoInv /\ CommandC => ChronoInv'
<1> SUFFICES ASSUME ChronoInv, CommandC PROVE ChronoInv'
  BY Zenon
<1>1. /\ times \in Hour /\ endIntermediateTimes \in Hour /\ since \in {None} \cup Nat
      /\ units \in 0 .. MaxUnits
  BY Zenon DEF ChronoInv, ChronoTypeOK
<1>2. /\ times' = PlusOneUnit(times) /\ times' \in Hour
      /\ Units(times') = (Units(times) + 1) % DAY
  BY <1>1, UnitAdds, Zenon DEF CommandC
<1>3. /\ status' = "running" /\ endIntermediateTimes' = endIntermediateTimes
      /\ units' = units + 1 /\ units < MaxUnits
      /\ since' = IF since = None THEN None ELSE since + 1
  BY Zenon DEF CommandC
<1>4. units' \in 0 .. MaxUnits /\ since' \in {None} \cup Nat
  BY <1>1, <1>3, BoundAssumption, Z3 DEF None
<1>5. Intermediatetimes' \in BOOLEAN
      /\ (Intermediatetimes' <=> Intermediatetimes /\ times' # endIntermediateTimes)
  BY Zenon DEF CommandC, Held
<1>6. ChronoTypeOK'
  BY <1>1, <1>2, <1>3, <1>4, <1>5, Zenon DEF ChronoTypeOK
<1>7. Units(times) \in Nat /\ Units(times) < DAY
  BY <1>1, UnitsInDay, Zenon
<1>8. CASE Intermediatetimes
  <2>1. since \in 0 .. 299 /\ Units(endIntermediateTimes) = Until(Units(times), since)
    BY <1>8, Zenon DEF ChronoInv
  <2>2. since' = since + 1
    BY <1>3, <2>1, Z3 DEF None
  <2>6. /\ ((Units(times) + 1) % DAY = Until(Units(times), since)) <=> since = 299
        /\ since < 299 => Until(Units(times), since)
                          = Until((Units(times) + 1) % DAY, since + 1)
    BY <1>7, <2>1, HeldCount, Zenon
  <2>3. (times' = endIntermediateTimes) <=> since = 299
    <3>1. (Units(times') = Units(endIntermediateTimes)) <=> since = 299
      BY <1>2, <2>1, <2>6, Zenon
    <3> QED BY <1>1, <1>2, <3>1, UnitsTell, Zenon
  <2>4. CASE since = 299
    <3>1. ~ Intermediatetimes' /\ since' \notin 0 .. 299
      BY <1>5, <2>2, <2>3, <2>4, Z3
    <3>2. line' = Convert(times', FALSE)
      BY <1>8, <3>1, Zenon DEF CommandC
    <3>3. Said(line') \div 100 = Units(times') \div 100
      BY <1>2, <3>2, LinesSay, Zenon
    <3> QED BY <1>3, <1>6, <3>1, <3>3, Zenon DEF ChronoInv
  <2>5. CASE since # 299
    <3>1. since < 299 /\ since' \in 0 .. 299
      BY <2>1, <2>2, <2>5, Z3
    <3>2. Intermediatetimes'
      BY <1>5, <1>8, <2>3, <2>5, Zenon
    <3>3. Units(endIntermediateTimes) = Until(Units(times'), since')
      BY <1>2, <2>1, <2>2, <2>6, <3>1, Zenon
    <3> QED BY <1>3, <1>6, <3>1, <3>2, <3>3, Zenon DEF ChronoInv
  <2> QED BY <2>4, <2>5, Zenon
<1>9. CASE ~ Intermediatetimes
  <2>1. ~ Intermediatetimes' /\ since \notin 0 .. 299
    BY <1>5, <1>9, Zenon DEF ChronoInv
  <2>2. since' \notin 0 .. 299
    BY <1>1, <1>3, <2>1, Z3 DEF None
  <2>3. Said(line') \div 100 = Units(times') \div 100
    <3>1. CASE reportSeconds(times)
      <4>1. line' = Convert(times', FALSE)
        BY <1>9, <3>1, Zenon DEF CommandC
      <4> QED BY <1>2, <4>1, LinesSay, Zenon
    <3>2. CASE ~ reportSeconds(times)
      <4>1. line' = line
        BY <1>9, <3>2, Zenon DEF CommandC
      <4>2. Said(line) \div 100 = Units(times) \div 100
        BY <1>9, Zenon DEF ChronoInv, CommandC
      <4> QED BY <1>1, <1>2, <3>2, <4>1, <4>2, SameSecond, Zenon
    <3> QED BY <3>1, <3>2, Zenon
  <2> QED BY <1>3, <1>6, <2>1, <2>2, <2>3, Zenon DEF ChronoInv
<1> QED BY <1>8, <1>9, Zenon

\* So do an intermediate time, the end and a reset (commands I, E and R).
LEMMA OtherCommandsInv == ChronoInv /\ (CommandI \/ CommandE \/ CommandR) => ChronoInv'
<1> SUFFICES ASSUME ChronoInv, CommandI \/ CommandE \/ CommandR PROVE ChronoInv'
  BY Zenon
<1>1. times \in Hour /\ since \in {None} \cup Nat /\ units \in 0 .. MaxUnits
      /\ endIntermediateTimes \in Hour /\ Intermediatetimes \in BOOLEAN
  BY Zenon DEF ChronoInv, ChronoTypeOK
<1>2. CASE CommandI
  <2>1. /\ status = "running" /\ UNCHANGED <<times, status, units>>
        /\ Intermediatetimes' = TRUE /\ endIntermediateTimes' = PlusNSeconds(3, times)
        /\ since' = 0
    BY <1>2, Zenon DEF CommandI, HeldFor
  <2>2. /\ endIntermediateTimes' \in Hour
        /\ Units(endIntermediateTimes') = (Units(times) + 300) % DAY
    BY <1>1, <2>1, ThreeSecondsAdd, Zenon
  <2>3. 0 \in 0 .. 299 /\ 0 \in Nat /\ Until(Units(times), 0) = (Units(times) + 300) % DAY
    BY Z3 DEF Until
  <2>4. ChronoTypeOK'
    BY <1>1, <2>1, <2>2, <2>3, Zenon DEF ChronoTypeOK
  <2> QED BY <2>1, <2>2, <2>3, <2>4, Zenon DEF ChronoInv
<1>3. CASE CommandE
  <2>1. /\ status' = "final" /\ line' = Convert(times, TRUE)
        /\ UNCHANGED <<times, Intermediatetimes, endIntermediateTimes, since, units>>
    BY <1>3, Zenon DEF CommandE
  <2>2. Said(line') = Units(times)
    BY <1>1, <2>1, ConvertSays, Zenon
  <2> QED BY <1>1, <2>1, <2>2, Zenon DEF ChronoInv, ChronoTypeOK
<1>4. CASE CommandR
  <2>1. /\ status' = "initial" /\ times' = Initialise /\ Intermediatetimes' = FALSE
        /\ line' = Convert(Initialise, FALSE) /\ since' = None /\ units' = 0
        /\ endIntermediateTimes' = endIntermediateTimes
    BY <1>4, Zenon DEF CommandR
  <2>2. Initialise \in Hour
    BY Z3 DEF Initialise, Hour
  <2>3. Said(line') \div 100 = Units(times') \div 100
    BY <2>1, <2>2, LinesSay, Zenon
  <2>4. None \notin 0 .. 299 /\ 0 \in 0 .. MaxUnits
    BY BoundAssumption, Z3 DEF None
  <2> QED BY <1>1, <2>1, <2>2, <2>3, <2>4, Zenon DEF ChronoInv, ChronoTypeOK
<1> QED BY <1>2, <1>3, <1>4, Zenon

\* The invariant holds whatever the commands are.
LEMMA ChronoAlways == ChronoSpec => []ChronoInv
<1>1. ChronoInv /\ UNCHANGED chronoVars => ChronoInv'
  BY SMT, Z3 DEF chronoVars, ChronoInv, ChronoTypeOK
<1>2. ChronoInv /\ [ChronoNext]_chronoVars => ChronoInv'
  BY <1>1, CommandCInv, OtherCommandsInv, Zenon DEF ChronoNext
<1> QED BY <1>2, ChronoInitInv, PTL DEF ChronoSpec

\* The counters stay in their ranges.
THEOREM ChronoTypes == ChronoSpec => []ChronoTypeOK
<1>1. ChronoInv => ChronoTypeOK
  BY Zenon DEF ChronoInv
<1> QED BY <1>1, ChronoAlways, PTL

\* A tick adds exactly a hundredth to the time, through every carry and at midnight.
THEOREM ChronoTimeExact == ChronoSpec => TimeExact
<1>1. ChronoInv => [CommandC => Units(times') = (Units(times) + 1) % DAY]_chronoVars
  BY UnitAdds, Zenon DEF ChronoInv, ChronoTypeOK, CommandC
<1> QED BY <1>1, ChronoAlways, PTL DEF TimeExact

\* An intermediate time is held for three seconds, and any other line on display is right to the
\* second, a final one to the hundredth.
THEOREM ChronoShownRight == ChronoSpec => []ShownRight
<1>1. ChronoInv => ShownRight
  BY Zenon DEF ChronoInv, ShownRight, HeldThreeSeconds, LineRight
<1> QED BY <1>1, ChronoAlways, PTL
-----------------------------------------------------------------------------
(* The named objects demo.                                                 *)

\* Where a task is, in its order; each set holds the places after one of its operations.
Before == {"ring", "print", "pass", "sync"}
HaveLeft == {"mbxtimed", "complete"}
HaveSent == HaveLeft \cup {"released"}
HaveMail == HaveSent \cup {"send"}
HaveAgain == HaveMail \cup {"receive"}
HaveSlept == HaveAgain \cup {"timed", "resync"}
HavePrio == HaveSlept \cup {"sleep"}
HaveSynced == HavePrio \cup {"prio"}

\* The tasks at a place of a set, and how many they are.
At(S) == {t \in RingTask : where[t] \in S}
Count(S) == Cardinality(At(S))

\* The types that the counting needs.
RingTypes ==
  /\ where \in [RingTask -> Before \cup HaveSynced]
  /\ start \in {"begin", "gather", "post", "regather", "mail", "replies", "release",
                "complete"}
  /\ lap \in 0 .. NUM_TASKS - 1
  /\ sync_sem \in Nat /\ prio_sem \in Nat /\ mbx_in \in Nat /\ mbx_out \in Nat

\* The tasks are NUM_TASKS.
LEMMA Tasks == IsFiniteSet(RingTask) /\ Cardinality(RingTask) = NUM_TASKS
<1>1. NUM_TASKS - 1 \in Int /\ 0 \in Int /\ ~ (0 > NUM_TASKS - 1)
      /\ (NUM_TASKS - 1) - 0 + 1 = NUM_TASKS
  BY RingAssumption, Z3
<1> QED BY <1>1, FS_Interval, Z3 DEF RingTask

\* What the number of tasks in a set of places can be, and what its extremes mean.
LEMMA CountType ==
  ASSUME NEW S
  PROVE  /\ Count(S) \in Nat /\ Count(S) <= NUM_TASKS /\ IsFiniteSet(At(S))
         /\ Count(S) = NUM_TASKS => \A t \in RingTask : where[t] \in S
         /\ Count(S) = 0 => \A t \in RingTask : where[t] \notin S
         /\ (\A t \in RingTask : where[t] \in S) => Count(S) = NUM_TASKS
<1>1. At(S) \in SUBSET RingTask
  BY Zenon DEF At
<1>2. IsFiniteSet(At(S)) /\ Cardinality(At(S)) <= NUM_TASKS
      /\ (NUM_TASKS = Cardinality(At(S)) => RingTask = At(S))
  BY <1>1, Tasks, FS_Subset, Zenon
<1>3. Cardinality(At(S)) \in Nat
  BY <1>2, FS_CardinalityType, Zenon
<1>4. Count(S) = NUM_TASKS => \A t \in RingTask : where[t] \in S
  BY <1>2, Zenon DEF Count, At
<1>5. Count(S) = 0 => \A t \in RingTask : where[t] \notin S
  BY <1>2, FS_EmptySet, Zenon DEF Count, At
<1>6. (\A t \in RingTask : where[t] \in S) => RingTask = At(S)
  BY Zenon DEF At
<1> QED BY <1>2, <1>3, <1>4, <1>5, <1>6, Tasks, Zenon DEF Count

\* More places, more tasks.
LEMMA CountSubset ==
  ASSUME NEW S, NEW T, S \subseteq T
  PROVE  Count(S) <= Count(T)
<1>1. At(S) \in SUBSET At(T) /\ IsFiniteSet(At(T))
  BY CountType, Zenon DEF At
<1> QED BY <1>1, FS_Subset, Zenon DEF Count

\* No task is ahead of itself: the counts are in the order of the operations.
LEMMA CountsOrdered ==
  /\ Count(HaveLeft) <= Count(HaveSent) /\ Count(HaveSent) <= Count(HaveMail)
  /\ Count(HaveMail) <= Count(HaveAgain) /\ Count(HaveAgain) <= Count(HaveSlept)
  /\ Count(HaveSlept) <= Count(HavePrio) /\ Count(HavePrio) <= Count(HaveSynced)
  /\ Count(HaveSynced) <= NUM_TASKS
  /\ Count(HaveLeft) \in Nat /\ Count(HaveSent) \in Nat /\ Count(HaveMail) \in Nat
  /\ Count(HaveAgain) \in Nat /\ Count(HaveSlept) \in Nat /\ Count(HavePrio) \in Nat
  /\ Count(HaveSynced) \in Nat
<1>1. /\ HaveLeft \subseteq HaveSent /\ HaveSent \subseteq HaveMail
      /\ HaveMail \subseteq HaveAgain /\ HaveAgain \subseteq HaveSlept
      /\ HaveSlept \subseteq HavePrio /\ HavePrio \subseteq HaveSynced
  BY Zenon DEF HaveSent, HaveMail, HaveAgain, HaveSlept, HavePrio, HaveSynced
<1> QED BY <1>1, CountType, CountSubset, Zenon

\* A task enters a set of places.
LEMMA CountEnter ==
  ASSUME NEW S, NEW t \in RingTask, NEW from, NEW to,
         where \in [RingTask -> Before \cup HaveSynced],
         Goes(t, from, to), from \notin S, to \in S
  PROVE  Count(S)' = Count(S) + 1 /\ Count(S) < NUM_TASKS
<1>1. At(S)' = At(S) \cup {t} /\ t \notin At(S)
  BY Zenon DEF Goes, At
<1>2. IsFiniteSet(At(S)) /\ Count(S) \in Nat
  BY CountType, Zenon
<1>3. Cardinality(At(S)') = Cardinality(At(S)) + 1
  BY <1>1, <1>2, FS_AddElement, Zenon
<1>4. Count(S) # NUM_TASKS /\ Count(S) <= NUM_TASKS
  BY CountType, Zenon DEF Goes
<1> QED BY <1>2, <1>3, <1>4, RingAssumption, Z3 DEF Count

\* A task stays inside or outside of a set of places.
LEMMA CountStay ==
  ASSUME NEW S, NEW t \in RingTask, NEW from, NEW to,
         where \in [RingTask -> Before \cup HaveSynced],
         Goes(t, from, to), from \in S <=> to \in S
  PROVE  Count(S)' = Count(S) /\ (from \in S => Count(S) > 0)
<1>1. At(S)' = At(S)
  BY Zenon DEF Goes, At
<1>2. from \in S => Count(S) # 0
  BY CountType, Zenon DEF Goes
<1> QED BY <1>1, <1>2, CountType, Z3 DEF Count

\* What the start task has gathered, posted, mailed, read and released, against what the
\* tasks have taken and given.
Tally(st, lp, sync, prio, in, out, synced, prios, slept, again, mail, sent, left) ==
  /\ st \in {"begin", "gather"} =>
       /\ sync + lp = synced /\ (st = "begin" => lp = 0)
       /\ prios = 0 /\ prio = 0 /\ in = 0 /\ out = 0
  /\ st = "post" =>
       /\ synced = NUM_TASKS /\ sync = 0 /\ prio + prios = lp
       /\ slept = 0 /\ in = 0 /\ out = 0
  /\ st = "regather" =>
       /\ synced = NUM_TASKS /\ prio + prios = NUM_TASKS /\ (slept > 0 => prio = 0)
       /\ sync + lp = again
       /\ mail = 0 /\ in = 0 /\ out = 0
  /\ st \in {"mail", "replies"} =>
       /\ again = NUM_TASKS /\ sync = 0 /\ prio = 0
       /\ in + mail = IF st = "mail" THEN lp ELSE NUM_TASKS
       /\ out + (IF st = "mail" THEN 0 ELSE lp) = sent
       /\ left = 0
  /\ st \in {"release", "complete"} =>
       /\ sent = NUM_TASKS /\ prio = 0 /\ in = 0 /\ out = 0
       /\ sync + left = IF st = "release" THEN lp ELSE NUM_TASKS
Counted ==
  Tally(start, lap, sync_sem, prio_sem, mbx_in, mbx_out,
        Count(HaveSynced), Count(HavePrio), Count(HaveSlept), Count(HaveAgain),
        Count(HaveMail), Count(HaveSent), Count(HaveLeft))

\* The inductive invariant of the synchronisation.
SyncInv == RingTypes /\ Counted

\* No task moves from one of the sets to another.
Same ==
  /\ Count(HaveSynced)' = Count(HaveSynced) /\ Count(HavePrio)' = Count(HavePrio)
  /\ Count(HaveSlept)' = Count(HaveSlept) /\ Count(HaveAgain)' = Count(HaveAgain)
  /\ Count(HaveMail)' = Count(HaveMail) /\ Count(HaveSent)' = Count(HaveSent)
  /\ Count(HaveLeft)' = Count(HaveLeft)

\* The reduction of the loop counter and of the next task's index.
LEMMA ModSmall ==
  ASSUME NEW n \in Nat, n <= NUM_TASKS
  PROVE  n % NUM_TASKS = IF n = NUM_TASKS THEN 0 ELSE n
BY RingAssumption, Z3

\* A round of one of the start task's loops.
LEMMA LoopLap ==
  ASSUME RingTypes, NEW from, NEW to, Loop(from, to, NUM_TASKS)
  PROVE  /\ start = from /\ where' = where
         /\ lap # NUM_TASKS - 1 => lap' = lap + 1 /\ start' = from
         /\ lap = NUM_TASKS - 1 => lap' = 0 /\ start' = to
         /\ lap' \in 0 .. NUM_TASKS - 1 /\ start' \in {from, to}
         /\ Same
<1>1. where' = where
  BY Zenon DEF Loop, taskVars
<1>2. lap + 1 \in Nat /\ lap + 1 <= NUM_TASKS
  BY RingAssumption, Z3 DEF RingTypes
<1>3. lap' = IF lap + 1 = NUM_TASKS THEN 0 ELSE lap + 1
  BY <1>2, ModSmall, Zenon DEF Loop
<1>4. /\ lap # NUM_TASKS - 1 => lap' = lap + 1 /\ start' = from
      /\ lap = NUM_TASKS - 1 => lap' = 0 /\ start' = to
      /\ lap' \in 0 .. NUM_TASKS - 1
  BY <1>2, <1>3, RingAssumption, Z3 DEF Loop, RingTypes
<1>5. Same
  BY <1>1, Zenon DEF Same, Count, At
<1> QED BY <1>1, <1>4, <1>5, Zenon DEF Loop

\* The counts of semaphores, mailboxes and tasks, as numbers.
Numbers(sync, prio, in, out, synced, prios, slept, again, mail, sent, left) ==
  /\ sync_sem = sync /\ prio_sem = prio /\ mbx_in = in /\ mbx_out = out
  /\ Count(HaveSynced) = synced /\ Count(HavePrio) = prios /\ Count(HaveSlept) = slept
  /\ Count(HaveAgain) = again /\ Count(HaveMail) = mail /\ Count(HaveSent) = sent
  /\ Count(HaveLeft) = left
  /\ left <= sent /\ sent <= mail /\ mail <= again /\ again <= slept /\ slept <= prios
  /\ prios <= synced /\ synced <= NUM_TASKS

\* There are such numbers.
LEMMA NumbersExist ==
  ASSUME SyncInv
  PROVE  \E lp, sync, prio, in, out, synced, prios, slept, again, mail, sent, left \in Nat :
           /\ lap = lp /\ lp < NUM_TASKS
           /\ Numbers(sync, prio, in, out, synced, prios, slept, again, mail, sent, left)
           /\ Tally(start, lp, sync, prio, in, out, synced, prios, slept, again, mail, sent, left)
<1>1. lap \in Nat /\ lap < NUM_TASKS
  BY RingAssumption, Z3 DEF SyncInv, RingTypes
<1>2. Numbers(sync_sem, prio_sem, mbx_in, mbx_out, Count(HaveSynced), Count(HavePrio),
              Count(HaveSlept), Count(HaveAgain), Count(HaveMail), Count(HaveSent),
              Count(HaveLeft))
  BY CountsOrdered, Zenon DEF Numbers
<1>3. sync_sem \in Nat /\ prio_sem \in Nat /\ mbx_in \in Nat /\ mbx_out \in Nat
  BY Zenon DEF SyncInv, RingTypes
<1> QED BY <1>1, <1>2, <1>3, CountsOrdered, Zenon DEF SyncInv, Counted

\* What the counts say: no semaphore or mailbox holds more than the tasks; once a task has
\* slept nothing is left in prio_sem, once one is released no mail is left, and before the
\* release the signals in sync_sem are not for the tasks that have sent their replies.
LEMMA CountsMean ==
  ASSUME SyncInv
  PROVE  /\ sync_sem \in 0 .. NUM_TASKS /\ prio_sem \in 0 .. NUM_TASKS
         /\ mbx_in \in 0 .. NUM_TASKS /\ mbx_out \in 0 .. NUM_TASKS
         /\ Count(HaveSlept) # 0 => prio_sem = 0
         /\ Count(HaveLeft) # 0 => mbx_in = 0
         /\ Count(HaveSent) # 0 /\ sync_sem > 0 => start \in {"release", "complete"}
         /\ (/\ Count(HavePrio) # 0 /\ Count(HaveAgain) # NUM_TASKS
             /\ start \notin {"begin", "post", "mail", "release"}) => start = "regather"
<1>0. RingTypes
  BY Zenon DEF SyncInv
<1>n. PICK lp \in Nat, sync \in Nat, prio \in Nat, in \in Nat, out \in Nat, synced \in Nat,
           prios \in Nat, slept \in Nat, again \in Nat, mail \in Nat, sent \in Nat,
           left \in Nat :
             /\ lap = lp /\ lp < NUM_TASKS
             /\ Numbers(sync, prio, in, out, synced, prios, slept, again, mail, sent, left)
             /\ Tally(start, lp, sync, prio, in, out, synced, prios, slept, again, mail, sent,
                      left)
  BY NumbersExist, Zenon
<1>o. /\ lp < NUM_TASKS
      /\ left <= sent /\ sent <= mail /\ mail <= again /\ again <= slept /\ slept <= prios
      /\ prios <= synced /\ synced <= NUM_TASKS
  BY <1>n, Zenon DEF Numbers
<1>t. Tally(start, lp, sync, prio, in, out, synced, prios, slept, again, mail, sent, left)
  BY <1>n, Zenon
<1>e. /\ lap = lp /\ sync_sem = sync /\ prio_sem = prio /\ mbx_in = in /\ mbx_out = out
      /\ Count(HaveSynced) = synced /\ Count(HavePrio) = prios /\ Count(HaveSlept) = slept
      /\ Count(HaveAgain) = again /\ Count(HaveMail) = mail /\ Count(HaveSent) = sent
      /\ Count(HaveLeft) = left
  BY <1>n, Zenon DEF Numbers
<1>s. start \in {"begin", "gather", "post", "regather", "mail", "replies", "release",
                "complete"}
  BY <1>0, Zenon DEF RingTypes
<1> USE RingAssumption
<1>1. /\ sync \in 0 .. NUM_TASKS /\ prio \in 0 .. NUM_TASKS
      /\ in \in 0 .. NUM_TASKS /\ out \in 0 .. NUM_TASKS
  BY <1>o, <1>s, <1>t, Z3 DEF Tally
<1>2. slept # 0 => prio = 0
  BY <1>o, <1>s, <1>t, Z3 DEF Tally
<1>3. left # 0 => in = 0
  BY <1>o, <1>s, <1>t, Z3 DEF Tally
<1>4. sent # 0 /\ sync > 0 => start \in {"release", "complete"}
  BY <1>o, <1>s, <1>t, Z3 DEF Tally
<1>5. prios # 0 /\ again # NUM_TASKS /\ start \notin {"begin", "post", "mail", "release"}
        => start = "regather"
  BY <1>o, <1>s, <1>t, Z3 DEF Tally
<1> QED BY <1>e, <1>1, <1>2, <1>3, <1>4, <1>5, Zenon

\* The loops of the start task keep the counts right (rt_process.c:125-157).
LEMMA StartTaskSync == SyncInv /\ StartTask => SyncInv'
<1> SUFFICES ASSUME SyncInv, StartTask PROVE SyncInv'
  BY Zenon
<1>0. RingTypes /\ Counted
  BY Zenon DEF SyncInv
<1>n. PICK lp \in Nat, sync \in Nat, prio \in Nat, in \in Nat, out \in Nat, synced \in Nat,
           prios \in Nat, slept \in Nat, again \in Nat, mail \in Nat, sent \in Nat,
           left \in Nat :
             /\ lap = lp /\ lp < NUM_TASKS
             /\ Numbers(sync, prio, in, out, synced, prios, slept, again, mail, sent, left)
             /\ Tally(start, lp, sync, prio, in, out, synced, prios, slept, again, mail, sent,
                      left)
  BY NumbersExist, Zenon
<1>o. /\ lp < NUM_TASKS
      /\ left <= sent /\ sent <= mail /\ mail <= again /\ again <= slept /\ slept <= prios
      /\ prios <= synced /\ synced <= NUM_TASKS
  BY <1>n, Zenon DEF Numbers
<1>t. Tally(start, lp, sync, prio, in, out, synced, prios, slept, again, mail, sent, left)
  BY <1>n, Zenon
<1>e. /\ lap = lp /\ sync_sem = sync /\ prio_sem = prio /\ mbx_in = in /\ mbx_out = out
      /\ Count(HaveSynced) = synced /\ Count(HavePrio) = prios /\ Count(HaveSlept) = slept
      /\ Count(HaveAgain) = again /\ Count(HaveMail) = mail /\ Count(HaveSent) = sent
      /\ Count(HaveLeft) = left
  BY <1>n, Zenon DEF Numbers
<1> USE RingAssumption
<1>1. CASE Begin
  <2>1. Same
    BY <1>1, Zenon DEF Begin, Same, Count, At, taskVars
  <2>2. RingTypes'
    BY SMT, Z3, <1>0, <1>1 DEF Begin, RingTypes, taskVars, mbxVars
  <2>3. Counted'
    <3>1. Tally("gather", lp, sync, prio, in, out, synced, prios, slept, again, mail, sent, left)
      BY <1>1, <1>o, <1>t, Z3 DEF Begin, Tally
    <3> QED BY <1>1, <1>e, <2>1, <3>1, Z3 DEF Begin, Counted, Same, mbxVars
  <2> QED BY <2>2, <2>3, Zenon DEF SyncInv
<1>2. CASE Gather("gather", "post")
  <2> USE <1>2 DEF Gather
  <2>0. /\ start = "gather" /\ where' = where
        /\ lap # NUM_TASKS - 1 => lap' = lap + 1 /\ start' = "gather"
        /\ lap = NUM_TASKS - 1 => lap' = 0 /\ start' = "post"
        /\ lap' \in 0 .. NUM_TASKS - 1 /\ start' \in {"gather", "post"}
        /\ Same
    BY <1>0, LoopLap, Zenon
  <2>1. RingTypes'
    BY <1>0, <2>0, Z3 DEF RingTypes, mbxVars
  <2>2. Counted'
    <3>1. start = "gather" /\ sync > 0
      BY <1>e, <2>0, Z3
    <3>2. CASE lp # NUM_TASKS - 1
      <4>1. Tally("gather", lp + 1, sync - 1, prio, in, out, synced, prios, slept, again, mail,
                  sent, left)
        BY <1>o, <1>t, <3>1, <3>2, Z3 DEF Tally
      <4>2. lap' = lp + 1 /\ start' = "gather"
        BY <1>e, <2>0, <3>2, Z3
      <4> QED BY <1>e, <2>0, <4>1, <4>2, Z3 DEF Counted, Same, mbxVars
    <3>3. CASE lp = NUM_TASKS - 1
      <4>1. Tally("post", 0, sync - 1, prio, in, out, synced, prios, slept, again, mail, sent,
                  left)
        BY <1>o, <1>t, <3>1, <3>3, Z3 DEF Tally
      <4>2. lap' = 0 /\ start' = "post"
        BY <1>e, <2>0, <3>3, Z3
      <4> QED BY <1>e, <2>0, <4>1, <4>2, Z3 DEF Counted, Same, mbxVars
    <3> QED BY <3>2, <3>3, Zenon
  <2> QED BY <2>1, <2>2, Zenon DEF SyncInv
<1>3. CASE Post
  <2> USE <1>3 DEF Post, Posts
  <2>0. /\ start = "post" /\ where' = where
        /\ lap # NUM_TASKS - 1 => lap' = lap + 1 /\ start' = "post"
        /\ lap = NUM_TASKS - 1 => lap' = 0 /\ start' = "regather"
        /\ lap' \in 0 .. NUM_TASKS - 1 /\ start' \in {"post", "regather"}
        /\ Same
    BY <1>0, LoopLap, Zenon
  <2>1. RingTypes'
    BY <1>0, <2>0, Z3 DEF RingTypes, mbxVars
  <2>2. Counted'
    <3>1. start = "post"
      BY <1>e, <2>0, Z3
    <3>2. CASE lp # NUM_TASKS - 1
      <4>1. Tally("post", lp + 1, sync, prio + 1, in, out, synced, prios, slept, again, mail,
                  sent, left)
        BY <1>o, <1>t, <3>1, <3>2, Z3 DEF Tally
      <4>2. lap' = lp + 1 /\ start' = "post"
        BY <1>e, <2>0, <3>2, Z3
      <4> QED BY <1>e, <2>0, <4>1, <4>2, Z3 DEF Counted, Same, mbxVars
    <3>3. CASE lp = NUM_TASKS - 1
      <4>1. Tally("regather", 0, sync, prio + 1, in, out, synced, prios, slept, again, mail,
                  sent, left)
        BY <1>o, <1>t, <3>1, <3>3, Z3 DEF Tally
      <4>2. lap' = 0 /\ start' = "regather"
        BY <1>e, <2>0, <3>3, Z3
      <4> QED BY <1>e, <2>0, <4>1, <4>2, Z3 DEF Counted, Same, mbxVars
    <3> QED BY <3>2, <3>3, Zenon
  <2> QED BY <2>1, <2>2, Zenon DEF SyncInv
<1>4. CASE Gather("regather", "mail")
  <2> USE <1>4 DEF Gather
  <2>0. /\ start = "regather" /\ where' = where
        /\ lap # NUM_TASKS - 1 => lap' = lap + 1 /\ start' = "regather"
        /\ lap = NUM_TASKS - 1 => lap' = 0 /\ start' = "mail"
        /\ lap' \in 0 .. NUM_TASKS - 1 /\ start' \in {"regather", "mail"}
        /\ Same
    BY <1>0, LoopLap, Zenon
  <2>1. RingTypes'
    BY <1>0, <2>0, Z3 DEF RingTypes, mbxVars
  <2>2. Counted'
    <3>1. start = "regather" /\ sync > 0
      BY <1>e, <2>0, Z3
    <3>2. CASE lp # NUM_TASKS - 1
      <4>1. Tally("regather", lp + 1, sync - 1, prio, in, out, synced, prios, slept, again,
                  mail, sent, left)
        BY <1>o, <1>t, <3>1, <3>2, Z3 DEF Tally
      <4>2. lap' = lp + 1 /\ start' = "regather"
        BY <1>e, <2>0, <3>2, Z3
      <4> QED BY <1>e, <2>0, <4>1, <4>2, Z3 DEF Counted, Same, mbxVars
    <3>3. CASE lp = NUM_TASKS - 1
      <4>1. Tally("mail", 0, sync - 1, prio, in, out, synced, prios, slept, again, mail, sent,
                  left)
        BY <1>o, <1>t, <3>1, <3>3, Z3 DEF Tally
      <4>2. lap' = 0 /\ start' = "mail"
        BY <1>e, <2>0, <3>3, Z3
      <4> QED BY <1>e, <2>0, <4>1, <4>2, Z3 DEF Counted, Same, mbxVars
    <3> QED BY <3>2, <3>3, Zenon
  <2> QED BY <2>1, <2>2, Zenon DEF SyncInv
<1>5. CASE Mail
  <2> USE <1>5 DEF Mail
  <2>0. /\ start = "mail" /\ where' = where
        /\ lap # NUM_TASKS - 1 => lap' = lap + 1 /\ start' = "mail"
        /\ lap = NUM_TASKS - 1 => lap' = 0 /\ start' = "replies"
        /\ lap' \in 0 .. NUM_TASKS - 1 /\ start' \in {"mail", "replies"}
        /\ Same
    BY <1>0, LoopLap, Zenon
  <2>1. RingTypes'
    BY <1>0, <2>0, Z3 DEF RingTypes, mbxVars
  <2>2. Counted'
    <3>1. start = "mail"
      BY <1>e, <2>0, Z3
    <3>2. CASE lp # NUM_TASKS - 1
      <4>1. Tally("mail", lp + 1, sync, prio, in + 1, out, synced, prios, slept, again, mail,
                  sent, left)
        BY <1>o, <1>t, <3>1, <3>2, Z3 DEF Tally
      <4>2. lap' = lp + 1 /\ start' = "mail"
        BY <1>e, <2>0, <3>2, Z3
      <4> QED BY <1>e, <2>0, <4>1, <4>2, Z3 DEF Counted, Same, mbxVars
    <3>3. CASE lp = NUM_TASKS - 1
      <4>1. Tally("replies", 0, sync, prio, in + 1, out, synced, prios, slept, again, mail,
                  sent, left)
        BY <1>o, <1>t, <3>1, <3>3, Z3 DEF Tally
      <4>2. lap' = 0 /\ start' = "replies"
        BY <1>e, <2>0, <3>3, Z3
      <4> QED BY <1>e, <2>0, <4>1, <4>2, Z3 DEF Counted, Same, mbxVars
    <3> QED BY <3>2, <3>3, Zenon
  <2> QED BY <2>1, <2>2, Zenon DEF SyncInv
<1>6. CASE Replies
  <2> USE <1>6 DEF Replies
  <2>0. /\ start = "replies" /\ where' = where
        /\ lap # NUM_TASKS - 1 => lap' = lap + 1 /\ start' = "replies"
        /\ lap = NUM_TASKS - 1 => lap' = 0 /\ start' = "release"
        /\ lap' \in 0 .. NUM_TASKS - 1 /\ start' \in {"replies", "release"}
        /\ Same
    BY <1>0, LoopLap, Zenon
  <2>1. RingTypes'
    BY <1>0, <2>0, Z3 DEF RingTypes, mbxVars
  <2>2. Counted'
    <3>1. start = "replies" /\ out > 0
      BY <1>e, <2>0, Z3
    <3>2. CASE lp # NUM_TASKS - 1
      <4>1. Tally("replies", lp + 1, sync, prio, in, out - 1, synced, prios, slept, again,
                  mail, sent, left)
        BY <1>o, <1>t, <3>1, <3>2, Z3 DEF Tally
      <4>2. lap' = lp + 1 /\ start' = "replies"
        BY <1>e, <2>0, <3>2, Z3
      <4> QED BY <1>e, <2>0, <4>1, <4>2, Z3 DEF Counted, Same, mbxVars
    <3>3. CASE lp = NUM_TASKS - 1
      <4>1. Tally("release", 0, sync, prio, in, out - 1, synced, prios, slept, again, mail,
                  sent, left)
        BY <1>o, <1>t, <3>1, <3>3, Z3 DEF Tally
      <4>2. lap' = 0 /\ start' = "release"
        BY <1>e, <2>0, <3>3, Z3
      <4> QED BY <1>e, <2>0, <4>1, <4>2, Z3 DEF Counted, Same, mbxVars
    <3> QED BY <3>2, <3>3, Zenon
  <2> QED BY <2>1, <2>2, Zenon DEF SyncInv
<1>7. CASE Release
  <2> USE <1>7 DEF Release
  <2>0. /\ start = "release" /\ where' = where
        /\ lap # NUM_TASKS - 1 => lap' = lap + 1 /\ start' = "release"
        /\ lap = NUM_TASKS - 1 => lap' = 0 /\ start' = "complete"
        /\ lap' \in 0 .. NUM_TASKS - 1 /\ start' \in {"release", "complete"}
        /\ Same
    BY <1>0, LoopLap, Zenon
  <2>1. RingTypes'
    BY <1>0, <2>0, Z3 DEF RingTypes, mbxVars
  <2>2. Counted'
    <3>1. start = "release"
      BY <1>e, <2>0, Z3
    <3>2. CASE lp # NUM_TASKS - 1
      <4>1. Tally("release", lp + 1, sync + 1, prio, in, out, synced, prios, slept, again,
                  mail, sent, left)
        BY <1>o, <1>t, <3>1, <3>2, Z3 DEF Tally
      <4>2. lap' = lp + 1 /\ start' = "release"
        BY <1>e, <2>0, <3>2, Z3
      <4> QED BY <1>e, <2>0, <4>1, <4>2, Z3 DEF Counted, Same, mbxVars
    <3>3. CASE lp = NUM_TASKS - 1
      <4>1. Tally("complete", 0, sync + 1, prio, in, out, synced, prios, slept, again, mail,
                  sent, left)
        BY <1>o, <1>t, <3>1, <3>3, Z3 DEF Tally
      <4>2. lap' = 0 /\ start' = "complete"
        BY <1>e, <2>0, <3>3, Z3
      <4> QED BY <1>e, <2>0, <4>1, <4>2, Z3 DEF Counted, Same, mbxVars
    <3> QED BY <3>2, <3>3, Zenon
  <2> QED BY <2>1, <2>2, Zenon DEF SyncInv
<1> QED BY <1>1, <1>2, <1>3, <1>4, <1>5, <1>6, <1>7, Zenon DEF StartTask

\* A delay of one second ends only when the tasks have taken all of the start task's signals:
\* in the sleep of one, nobody waits for prio_sem (rt_process.c:64-66, 131-140).
LEMMA SleepersAlone ==
  ASSUME SyncInv, Quiet, NEW t \in RingTask, where[t] = "sleep"
  PROVE  start = "regather" /\ Count(HavePrio) = NUM_TASKS /\ prio_sem = 0
<1>1. RingTypes /\ Counted
  BY Zenon DEF SyncInv
<1>2. where[t] \in HavePrio /\ where[t] \notin HaveAgain
  BY Zenon DEF HaveSynced, HavePrio, HaveSlept, HaveAgain, HaveMail, HaveSent, HaveLeft
<1>3. Count(HavePrio) # 0 /\ Count(HaveAgain) # NUM_TASKS
  BY <1>2, CountType, Zenon
<1>4. start \notin {"begin", "post", "mail", "release"}
  BY Zenon DEF Quiet, StartWaits
<1>5. start = "regather"
  BY <1>3, <1>4, CountsMean, Zenon
<1>6. Count(HaveSynced) = NUM_TASKS /\ prio_sem + Count(HavePrio) = NUM_TASKS
  BY <1>1, <1>5, Zenon DEF Counted, Tally
<1>7. ASSUME NEW u \in RingTask PROVE where[u] \in HavePrio
  <2>1. where[u] \in HavePrio \/ where[u] = "prio"
    <3>1. where[u] \in HaveSynced
      BY <1>6, CountType, Zenon
    <3> QED BY <3>1, Zenon DEF HaveSynced
  <2>2. CASE where[u] = "prio"
    <3>1. prio_sem = 0
      BY <2>2, Zenon DEF Quiet, TaskWaits
    <3>2. Count(HavePrio) = NUM_TASKS
      BY <1>6, <3>1, CountsOrdered, Z3
    <3> QED BY <3>2, CountType, Zenon
  <2> QED BY <2>1, <2>2, Zenon
<1>8. Count(HavePrio) = NUM_TASKS
  BY <1>7, CountType, Zenon
<1> QED BY <1>1, <1>5, <1>6, <1>8, RingAssumption, Z3 DEF RingTypes

\* The steps of a task keep the counts right (rt_process.c:50-90).
LEMMA TaskSync ==
  ASSUME SyncInv, NEW t \in RingTask, TaskStep(t)
  PROVE  SyncInv'
<1>0. RingTypes /\ Counted /\ where \in [RingTask -> Before \cup HaveSynced]
  BY Zenon DEF SyncInv, RingTypes
<1>n. PICK lp \in Nat, sync \in Nat, prio \in Nat, in \in Nat, out \in Nat, synced \in Nat,
           prios \in Nat, slept \in Nat, again \in Nat, mail \in Nat, sent \in Nat,
           left \in Nat :
             /\ lap = lp /\ lp < NUM_TASKS
             /\ Numbers(sync, prio, in, out, synced, prios, slept, again, mail, sent, left)
             /\ Tally(start, lp, sync, prio, in, out, synced, prios, slept, again, mail, sent,
                      left)
  BY NumbersExist, Zenon
<1>o. /\ lp < NUM_TASKS
      /\ left <= sent /\ sent <= mail /\ mail <= again /\ again <= slept /\ slept <= prios
      /\ prios <= synced /\ synced <= NUM_TASKS
  BY <1>n, Zenon DEF Numbers
<1>t. Tally(start, lp, sync, prio, in, out, synced, prios, slept, again, mail, sent, left)
  BY <1>n, Zenon
<1>e. /\ lap = lp /\ sync_sem = sync /\ prio_sem = prio /\ mbx_in = in /\ mbx_out = out
      /\ Count(HaveSynced) = synced /\ Count(HavePrio) = prios /\ Count(HaveSlept) = slept
      /\ Count(HaveAgain) = again /\ Count(HaveMail) = mail /\ Count(HaveSent) = sent
      /\ Count(HaveLeft) = left
  BY <1>n, Zenon DEF Numbers
<1>s. start \in {"begin", "gather", "post", "regather", "mail", "replies", "release",
                "complete"}
  BY <1>0, Zenon DEF RingTypes
<1> USE RingAssumption
<1>1. CASE Turn(t)
  <2>1. Goes(t, "ring", "print")
    BY <1>1, Zenon DEF Turn
  <2>2. /\ "ring" \notin HaveSynced /\ "print" \notin HaveSynced
        /\ "ring" \notin HavePrio /\ "print" \notin HavePrio
        /\ "ring" \notin HaveSlept /\ "print" \notin HaveSlept
        /\ "ring" \notin HaveAgain /\ "print" \notin HaveAgain
        /\ "ring" \notin HaveMail /\ "print" \notin HaveMail
        /\ "ring" \notin HaveSent /\ "print" \notin HaveSent
        /\ "ring" \notin HaveLeft /\ "print" \notin HaveLeft
    BY Zenon DEF HaveSynced, HavePrio, HaveSlept, HaveAgain, HaveMail, HaveSent, HaveLeft
  <2>3. /\ Count(HaveSynced)' = Count(HaveSynced)
        /\ Count(HavePrio)' = Count(HavePrio)
        /\ Count(HaveSlept)' = Count(HaveSlept)
        /\ Count(HaveAgain)' = Count(HaveAgain)
        /\ Count(HaveMail)' = Count(HaveMail)
        /\ Count(HaveSent)' = Count(HaveSent)
        /\ Count(HaveLeft)' = Count(HaveLeft)
    BY <1>0, <2>1, <2>2, CountStay, CountEnter, Zenon
  <2>4. where' \in [RingTask -> Before \cup HaveSynced]
    BY Zenon, <1>0, <2>1, <2>2 DEF Goes, Before, HaveSynced
  <2>6. RingTypes'
    BY <1>0, <1>1, <2>4, Z3 DEF Turn, RingTypes, TaskOnly, startVars, semVars, mbxVars
  <2>7. Counted'
    BY <1>e, <1>t, <1>1, <2>3, Z3 DEF Turn, Counted, TaskOnly, startVars, semVars, mbxVars
  <2> QED BY <2>6, <2>7, Zenon DEF SyncInv
<1>2. CASE PrintTurn(t)
  <2>1. Goes(t, "print", "pass")
    BY <1>2, Zenon DEF PrintTurn
  <2>2. /\ "print" \notin HaveSynced /\ "pass" \notin HaveSynced
        /\ "print" \notin HavePrio /\ "pass" \notin HavePrio
        /\ "print" \notin HaveSlept /\ "pass" \notin HaveSlept
        /\ "print" \notin HaveAgain /\ "pass" \notin HaveAgain
        /\ "print" \notin HaveMail /\ "pass" \notin HaveMail
        /\ "print" \notin HaveSent /\ "pass" \notin HaveSent
        /\ "print" \notin HaveLeft /\ "pass" \notin HaveLeft
    BY Zenon DEF HaveSynced, HavePrio, HaveSlept, HaveAgain, HaveMail, HaveSent, HaveLeft
  <2>3. /\ Count(HaveSynced)' = Count(HaveSynced)
        /\ Count(HavePrio)' = Count(HavePrio)
        /\ Count(HaveSlept)' = Count(HaveSlept)
        /\ Count(HaveAgain)' = Count(HaveAgain)
        /\ Count(HaveMail)' = Count(HaveMail)
        /\ Count(HaveSent)' = Count(HaveSent)
        /\ Count(HaveLeft)' = Count(HaveLeft)
    BY <1>0, <2>1, <2>2, CountStay, CountEnter, Zenon
  <2>4. where' \in [RingTask -> Before \cup HaveSynced]
    BY Zenon, <1>0, <2>1, <2>2 DEF Goes, Before, HaveSynced
  <2>6. RingTypes'
    BY <1>0, <1>2, <2>4, Z3 DEF PrintTurn, RingTypes, TaskOnly, startVars, semVars, mbxVars
  <2>7. Counted'
    BY <1>e, <1>t, <1>2, <2>3, Z3 DEF PrintTurn, Counted, TaskOnly, startVars, semVars, mbxVars
  <2> QED BY <2>6, <2>7, Zenon DEF SyncInv
<1>3. CASE SyncOne(t)
  <2>1. Goes(t, "sync", "prio")
    BY <1>3, Zenon DEF SyncOne
  <2>2. /\ "sync" \notin HaveSynced /\ "prio" \in HaveSynced
        /\ "sync" \notin HavePrio /\ "prio" \notin HavePrio
        /\ "sync" \notin HaveSlept /\ "prio" \notin HaveSlept
        /\ "sync" \notin HaveAgain /\ "prio" \notin HaveAgain
        /\ "sync" \notin HaveMail /\ "prio" \notin HaveMail
        /\ "sync" \notin HaveSent /\ "prio" \notin HaveSent
        /\ "sync" \notin HaveLeft /\ "prio" \notin HaveLeft
    BY Zenon DEF HaveSynced, HavePrio, HaveSlept, HaveAgain, HaveMail, HaveSent, HaveLeft
  <2>3. /\ Count(HaveSynced)' = Count(HaveSynced) + 1 /\ Count(HaveSynced) < NUM_TASKS
        /\ Count(HavePrio)' = Count(HavePrio)
        /\ Count(HaveSlept)' = Count(HaveSlept)
        /\ Count(HaveAgain)' = Count(HaveAgain)
        /\ Count(HaveMail)' = Count(HaveMail)
        /\ Count(HaveSent)' = Count(HaveSent)
        /\ Count(HaveLeft)' = Count(HaveLeft)
    BY <1>0, <2>1, <2>2, CountStay, CountEnter, Zenon
  <2>4. where' \in [RingTask -> Before \cup HaveSynced]
    BY Zenon, <1>0, <2>1, <2>2 DEF Goes, Before, HaveSynced
  <2>6. RingTypes'
    BY <1>0, <1>3, <2>4, Z3 DEF SyncOne, RingTypes, TaskOnly, startVars, semVars, mbxVars
  <2>7. Counted'
    <3>1. synced < NUM_TASKS
      BY <1>e, <1>3, <2>3, Z3 DEF SyncOne
    <3>2. Tally(start, lp, sync + 1, prio, in, out, synced + 1, prios, slept, again, mail,
                sent, left)
      BY <1>o, <1>t, <3>1, Z3 DEF Tally
    <3> QED BY <1>e, <1>3, <2>3, <3>2, Z3
            DEF SyncOne, Counted, TaskOnly, startVars, semVars, mbxVars
  <2> QED BY <2>6, <2>7, Zenon DEF SyncInv
<1>4. CASE Prio(t)
  <2>1. Goes(t, "prio", "sleep")
    BY <1>4, Zenon DEF Prio
  <2>2. /\ "prio" \in HaveSynced /\ "sleep" \in HaveSynced
        /\ "prio" \notin HavePrio /\ "sleep" \in HavePrio
        /\ "prio" \notin HaveSlept /\ "sleep" \notin HaveSlept
        /\ "prio" \notin HaveAgain /\ "sleep" \notin HaveAgain
        /\ "prio" \notin HaveMail /\ "sleep" \notin HaveMail
        /\ "prio" \notin HaveSent /\ "sleep" \notin HaveSent
        /\ "prio" \notin HaveLeft /\ "sleep" \notin HaveLeft
    BY Zenon DEF HaveSynced, HavePrio, HaveSlept, HaveAgain, HaveMail, HaveSent, HaveLeft
  <2>3. /\ Count(HaveSynced)' = Count(HaveSynced) /\ Count(HaveSynced) > 0
        /\ Count(HavePrio)' = Count(HavePrio) + 1 /\ Count(HavePrio) < NUM_TASKS
        /\ Count(HaveSlept)' = Count(HaveSlept)
        /\ Count(HaveAgain)' = Count(HaveAgain)
        /\ Count(HaveMail)' = Count(HaveMail)
        /\ Count(HaveSent)' = Count(HaveSent)
        /\ Count(HaveLeft)' = Count(HaveLeft)
    BY <1>0, <2>1, <2>2, CountStay, CountEnter, Zenon
  <2>4. where' \in [RingTask -> Before \cup HaveSynced]
    BY Zenon, <1>0, <2>1, <2>2 DEF Goes, Before, HaveSynced
  <2>6. RingTypes'
    BY <1>0, <1>4, <2>4, Z3 DEF Prio, RingTypes, TaskOnly, startVars, semVars, mbxVars
  <2>7. Counted'
    <3>1. prio > 0 /\ prios < NUM_TASKS
      BY <1>e, <1>4, <2>3, Z3 DEF Prio
    <3>2. Tally(start, lp, sync, prio - 1, in, out, synced, prios + 1, slept, again, mail,
                sent, left)
      BY <1>o, <1>t, <3>1, Z3 DEF Tally
    <3> QED BY <1>e, <1>4, <2>3, <3>2, Z3
            DEF Prio, Counted, TaskOnly, startVars, semVars, mbxVars
  <2> QED BY <2>6, <2>7, Zenon DEF SyncInv
<1>5. CASE SleepEnds(t)
  <2>1. Goes(t, "sleep", "timed")
    BY <1>5, Zenon DEF SleepEnds
  <2>2. /\ "sleep" \in HaveSynced /\ "timed" \in HaveSynced
        /\ "sleep" \in HavePrio /\ "timed" \in HavePrio
        /\ "sleep" \notin HaveSlept /\ "timed" \in HaveSlept
        /\ "sleep" \notin HaveAgain /\ "timed" \notin HaveAgain
        /\ "sleep" \notin HaveMail /\ "timed" \notin HaveMail
        /\ "sleep" \notin HaveSent /\ "timed" \notin HaveSent
        /\ "sleep" \notin HaveLeft /\ "timed" \notin HaveLeft
    BY Zenon DEF HaveSynced, HavePrio, HaveSlept, HaveAgain, HaveMail, HaveSent, HaveLeft
  <2>3. /\ Count(HaveSynced)' = Count(HaveSynced) /\ Count(HaveSynced) > 0
        /\ Count(HavePrio)' = Count(HavePrio) /\ Count(HavePrio) > 0
        /\ Count(HaveSlept)' = Count(HaveSlept) + 1 /\ Count(HaveSlept) < NUM_TASKS
        /\ Count(HaveAgain)' = Count(HaveAgain)
        /\ Count(HaveMail)' = Count(HaveMail)
        /\ Count(HaveSent)' = Count(HaveSent)
        /\ Count(HaveLeft)' = Count(HaveLeft)
    BY <1>0, <2>1, <2>2, CountStay, CountEnter, Zenon
  <2>4. where' \in [RingTask -> Before \cup HaveSynced]
    BY Zenon, <1>0, <2>1, <2>2 DEF Goes, Before, HaveSynced
  <2>5. start = "regather" /\ Count(HavePrio) = NUM_TASKS /\ prio_sem = 0
    BY <1>5, <2>1, SleepersAlone, Zenon DEF SleepEnds, Goes
  <2>6. RingTypes'
    BY <1>0, <1>5, <2>4, Z3 DEF SleepEnds, RingTypes, TaskOnly, startVars, semVars, mbxVars
  <2>7. Counted'
    <3>1. slept < NUM_TASKS /\ start = "regather" /\ prio = 0
      BY <1>e, <1>5, <2>3, <2>5, Z3 DEF SleepEnds
    <3>2. Tally(start, lp, sync, prio, in, out, synced, prios, slept + 1, again, mail, sent, left)
      BY <1>o, <1>t, <3>1, Z3 DEF Tally
    <3> QED BY <1>e, <1>5, <2>3, <3>2, Z3
            DEF SleepEnds, Counted, TaskOnly, startVars, semVars, mbxVars
  <2> QED BY <2>6, <2>7, Zenon DEF SyncInv
<1>6. CASE PrioTimed(t)
  <2>1. Goes(t, "timed", "resync")
    BY <1>6, Zenon DEF PrioTimed
  <2>2. /\ "timed" \in HaveSynced /\ "resync" \in HaveSynced
        /\ "timed" \in HavePrio /\ "resync" \in HavePrio
        /\ "timed" \in HaveSlept /\ "resync" \in HaveSlept
        /\ "timed" \notin HaveAgain /\ "resync" \notin HaveAgain
        /\ "timed" \notin HaveMail /\ "resync" \notin HaveMail
        /\ "timed" \notin HaveSent /\ "resync" \notin HaveSent
        /\ "timed" \notin HaveLeft /\ "resync" \notin HaveLeft
    BY Zenon DEF HaveSynced, HavePrio, HaveSlept, HaveAgain, HaveMail, HaveSent, HaveLeft
  <2>3. /\ Count(HaveSynced)' = Count(HaveSynced) /\ Count(HaveSynced) > 0
        /\ Count(HavePrio)' = Count(HavePrio) /\ Count(HavePrio) > 0
        /\ Count(HaveSlept)' = Count(HaveSlept) /\ Count(HaveSlept) > 0
        /\ Count(HaveAgain)' = Count(HaveAgain)
        /\ Count(HaveMail)' = Count(HaveMail)
        /\ Count(HaveSent)' = Count(HaveSent)
        /\ Count(HaveLeft)' = Count(HaveLeft)
    BY <1>0, <2>1, <2>2, CountStay, CountEnter, Zenon
  <2>4. where' \in [RingTask -> Before \cup HaveSynced]
    BY Zenon, <1>0, <2>1, <2>2 DEF Goes, Before, HaveSynced
  <2>6. RingTypes'
    BY <1>0, <1>6, <2>4, Z3 DEF PrioTimed, RingTypes, TaskOnly, startVars, semVars, mbxVars,
       OneLess
  <2>7. Counted'
    <3>1. slept > 0
      BY <1>e, <1>6, <2>3, Z3 DEF PrioTimed
    <3>0. prio = 0
      BY <1>o, <1>s, <1>t, <3>1, Z3 DEF Tally
    <3> QED BY <1>e, <1>t, <1>6, <2>3, <3>0, Z3
            DEF PrioTimed, Counted, TaskOnly, startVars, semVars, mbxVars, OneLess
  <2> QED BY <2>6, <2>7, Zenon DEF SyncInv
<1>7. CASE SyncTwo(t)
  <2>1. Goes(t, "resync", "receive")
    BY <1>7, Zenon DEF SyncTwo
  <2>2. /\ "resync" \in HaveSynced /\ "receive" \in HaveSynced
        /\ "resync" \in HavePrio /\ "receive" \in HavePrio
        /\ "resync" \in HaveSlept /\ "receive" \in HaveSlept
        /\ "resync" \notin HaveAgain /\ "receive" \in HaveAgain
        /\ "resync" \notin HaveMail /\ "receive" \notin HaveMail
        /\ "resync" \notin HaveSent /\ "receive" \notin HaveSent
        /\ "resync" \notin HaveLeft /\ "receive" \notin HaveLeft
    BY Zenon DEF HaveSynced, HavePrio, HaveSlept, HaveAgain, HaveMail, HaveSent, HaveLeft
  <2>3. /\ Count(HaveSynced)' = Count(HaveSynced) /\ Count(HaveSynced) > 0
        /\ Count(HavePrio)' = Count(HavePrio) /\ Count(HavePrio) > 0
        /\ Count(HaveSlept)' = Count(HaveSlept) /\ Count(HaveSlept) > 0
        /\ Count(HaveAgain)' = Count(HaveAgain) + 1 /\ Count(HaveAgain) < NUM_TASKS
        /\ Count(HaveMail)' = Count(HaveMail)
        /\ Count(HaveSent)' = Count(HaveSent)
        /\ Count(HaveLeft)' = Count(HaveLeft)
    BY <1>0, <2>1, <2>2, CountStay, CountEnter, Zenon
  <2>4. where' \in [RingTask -> Before \cup HaveSynced]
    BY Zenon, <1>0, <2>1, <2>2 DEF Goes, Before, HaveSynced
  <2>6. RingTypes'
    BY <1>0, <1>7, <2>4, Z3 DEF SyncTwo, RingTypes, TaskOnly, startVars, semVars, mbxVars
  <2>7. Counted'
    <3>1. again < NUM_TASKS /\ slept > 0
      BY <1>e, <1>7, <2>3, Z3 DEF SyncTwo
    <3>2. Tally(start, lp, sync + 1, prio, in, out, synced, prios, slept, again + 1, mail,
                sent, left)
      BY <1>o, <1>t, <3>1, Z3 DEF Tally
    <3> QED BY <1>e, <1>7, <2>3, <3>2, Z3
            DEF SyncTwo, Counted, TaskOnly, startVars, semVars, mbxVars
  <2> QED BY <2>6, <2>7, Zenon DEF SyncInv
<1>8. CASE Receive(t)
  <2>1. Goes(t, "receive", "send")
    BY <1>8, Zenon DEF Receive
  <2>2. /\ "receive" \in HaveSynced /\ "send" \in HaveSynced
        /\ "receive" \in HavePrio /\ "send" \in HavePrio
        /\ "receive" \in HaveSlept /\ "send" \in HaveSlept
        /\ "receive" \in HaveAgain /\ "send" \in HaveAgain
        /\ "receive" \notin HaveMail /\ "send" \in HaveMail
        /\ "receive" \notin HaveSent /\ "send" \notin HaveSent
        /\ "receive" \notin HaveLeft /\ "send" \notin HaveLeft
    BY Zenon DEF HaveSynced, HavePrio, HaveSlept, HaveAgain, HaveMail, HaveSent, HaveLeft
  <2>3. /\ Count(HaveSynced)' = Count(HaveSynced) /\ Count(HaveSynced) > 0
        /\ Count(HavePrio)' = Count(HavePrio) /\ Count(HavePrio) > 0
        /\ Count(HaveSlept)' = Count(HaveSlept) /\ Count(HaveSlept) > 0
        /\ Count(HaveAgain)' = Count(HaveAgain) /\ Count(HaveAgain) > 0
        /\ Count(HaveMail)' = Count(HaveMail) + 1 /\ Count(HaveMail) < NUM_TASKS
        /\ Count(HaveSent)' = Count(HaveSent)
        /\ Count(HaveLeft)' = Count(HaveLeft)
    BY <1>0, <2>1, <2>2, CountStay, CountEnter, Zenon
  <2>4. where' \in [RingTask -> Before \cup HaveSynced]
    BY Zenon, <1>0, <2>1, <2>2 DEF Goes, Before, HaveSynced
  <2>6. RingTypes'
    BY <1>0, <1>8, <2>4, Z3 DEF Receive, RingTypes, TaskOnly, startVars, semVars, mbxVars
  <2>7. Counted'
    <3>1. in > 0 /\ mail < NUM_TASKS
      BY <1>e, <1>8, <2>3, Z3 DEF Receive
    <3>2. Tally(start, lp, sync, prio, in - 1, out, synced, prios, slept, again, mail + 1,
                sent, left)
      BY <1>o, <1>t, <3>1, Z3 DEF Tally
    <3> QED BY <1>e, <1>8, <2>3, <3>2, Z3
            DEF Receive, Counted, TaskOnly, startVars, semVars, mbxVars
  <2> QED BY <2>6, <2>7, Zenon DEF SyncInv
<1>9. CASE Send(t)
  <2>1. Goes(t, "send", "released")
    BY <1>9, Zenon DEF Send
  <2>2. /\ "send" \in HaveSynced /\ "released" \in HaveSynced
        /\ "send" \in HavePrio /\ "released" \in HavePrio
        /\ "send" \in HaveSlept /\ "released" \in HaveSlept
        /\ "send" \in HaveAgain /\ "released" \in HaveAgain
        /\ "send" \in HaveMail /\ "released" \in HaveMail
        /\ "send" \notin HaveSent /\ "released" \in HaveSent
        /\ "send" \notin HaveLeft /\ "released" \notin HaveLeft
    BY Zenon DEF HaveSynced, HavePrio, HaveSlept, HaveAgain, HaveMail, HaveSent, HaveLeft
  <2>3. /\ Count(HaveSynced)' = Count(HaveSynced) /\ Count(HaveSynced) > 0
        /\ Count(HavePrio)' = Count(HavePrio) /\ Count(HavePrio) > 0
        /\ Count(HaveSlept)' = Count(HaveSlept) /\ Count(HaveSlept) > 0
        /\ Count(HaveAgain)' = Count(HaveAgain) /\ Count(HaveAgain) > 0
        /\ Count(HaveMail)' = Count(HaveMail) /\ Count(HaveMail) > 0
        /\ Count(HaveSent)' = Count(HaveSent) + 1 /\ Count(HaveSent) < NUM_TASKS
        /\ Count(HaveLeft)' = Count(HaveLeft)
    BY <1>0, <2>1, <2>2, CountStay, CountEnter, Zenon
  <2>4. where' \in [RingTask -> Before \cup HaveSynced]
    BY Zenon, <1>0, <2>1, <2>2 DEF Goes, Before, HaveSynced
  <2>6. RingTypes'
    BY <1>0, <1>9, <2>4, Z3 DEF Send, RingTypes, TaskOnly, startVars, semVars, mbxVars
  <2>7. Counted'
    <3>1. sent < NUM_TASKS /\ mail > 0
      BY <1>e, <1>9, <2>3, Z3 DEF Send
    <3>2. Tally(start, lp, sync, prio, in, out + 1, synced, prios, slept, again, mail,
                sent + 1, left)
      BY <1>o, <1>t, <3>1, Z3 DEF Tally
    <3> QED BY <1>e, <1>9, <2>3, <3>2, Z3
            DEF Send, Counted, TaskOnly, startVars, semVars, mbxVars
  <2> QED BY <2>6, <2>7, Zenon DEF SyncInv
<1>10. CASE Released(t)
  <2>1. Goes(t, "released", "mbxtimed")
    BY <1>10, Zenon DEF Released
  <2>2. /\ "released" \in HaveSynced /\ "mbxtimed" \in HaveSynced
        /\ "released" \in HavePrio /\ "mbxtimed" \in HavePrio
        /\ "released" \in HaveSlept /\ "mbxtimed" \in HaveSlept
        /\ "released" \in HaveAgain /\ "mbxtimed" \in HaveAgain
        /\ "released" \in HaveMail /\ "mbxtimed" \in HaveMail
        /\ "released" \in HaveSent /\ "mbxtimed" \in HaveSent
        /\ "released" \notin HaveLeft /\ "mbxtimed" \in HaveLeft
    BY Zenon DEF HaveSynced, HavePrio, HaveSlept, HaveAgain, HaveMail, HaveSent, HaveLeft
  <2>3. /\ Count(HaveSynced)' = Count(HaveSynced) /\ Count(HaveSynced) > 0
        /\ Count(HavePrio)' = Count(HavePrio) /\ Count(HavePrio) > 0
        /\ Count(HaveSlept)' = Count(HaveSlept) /\ Count(HaveSlept) > 0
        /\ Count(HaveAgain)' = Count(HaveAgain) /\ Count(HaveAgain) > 0
        /\ Count(HaveMail)' = Count(HaveMail) /\ Count(HaveMail) > 0
        /\ Count(HaveSent)' = Count(HaveSent) /\ Count(HaveSent) > 0
        /\ Count(HaveLeft)' = Count(HaveLeft) + 1 /\ Count(HaveLeft) < NUM_TASKS
    BY <1>0, <2>1, <2>2, CountStay, CountEnter, Zenon
  <2>4. where' \in [RingTask -> Before \cup HaveSynced]
    BY Zenon, <1>0, <2>1, <2>2 DEF Goes, Before, HaveSynced
  <2>6. RingTypes'
    BY <1>0, <1>10, <2>4, Z3 DEF Released, RingTypes, TaskOnly, startVars, semVars, mbxVars
  <2>7. Counted'
    <3>1. sync > 0 /\ left < NUM_TASKS /\ sent > 0
      BY <1>e, <1>10, <2>3, Z3 DEF Released
    <3>2. Tally(start, lp, sync - 1, prio, in, out, synced, prios, slept, again, mail, sent,
                left + 1)
      BY <1>o, <1>t, <3>1, Z3 DEF Tally
    <3> QED BY <1>e, <1>10, <2>3, <3>2, Z3
            DEF Released, Counted, TaskOnly, startVars, semVars, mbxVars
  <2> QED BY <2>6, <2>7, Zenon DEF SyncInv
<1>11. CASE MbxTimed(t)
  <2>1. Goes(t, "mbxtimed", "complete")
    BY <1>11, Zenon DEF MbxTimed
  <2>2. /\ "mbxtimed" \in HaveSynced /\ "complete" \in HaveSynced
        /\ "mbxtimed" \in HavePrio /\ "complete" \in HavePrio
        /\ "mbxtimed" \in HaveSlept /\ "complete" \in HaveSlept
        /\ "mbxtimed" \in HaveAgain /\ "complete" \in HaveAgain
        /\ "mbxtimed" \in HaveMail /\ "complete" \in HaveMail
        /\ "mbxtimed" \in HaveSent /\ "complete" \in HaveSent
        /\ "mbxtimed" \in HaveLeft /\ "complete" \in HaveLeft
    BY Zenon DEF HaveSynced, HavePrio, HaveSlept, HaveAgain, HaveMail, HaveSent, HaveLeft
  <2>3. /\ Count(HaveSynced)' = Count(HaveSynced) /\ Count(HaveSynced) > 0
        /\ Count(HavePrio)' = Count(HavePrio) /\ Count(HavePrio) > 0
        /\ Count(HaveSlept)' = Count(HaveSlept) /\ Count(HaveSlept) > 0
        /\ Count(HaveAgain)' = Count(HaveAgain) /\ Count(HaveAgain) > 0
        /\ Count(HaveMail)' = Count(HaveMail) /\ Count(HaveMail) > 0
        /\ Count(HaveSent)' = Count(HaveSent) /\ Count(HaveSent) > 0
        /\ Count(HaveLeft)' = Count(HaveLeft) /\ Count(HaveLeft) > 0
    BY <1>0, <2>1, <2>2, CountStay, CountEnter, Zenon
  <2>4. where' \in [RingTask -> Before \cup HaveSynced]
    BY Zenon, <1>0, <2>1, <2>2 DEF Goes, Before, HaveSynced
  <2>6. RingTypes'
    BY <1>0, <1>11, <2>4, Z3 DEF MbxTimed, RingTypes, TaskOnly, startVars, semVars, mbxVars,
       OneLess
  <2>7. Counted'
    <3>1. left > 0
      BY <1>e, <1>11, <2>3, Z3 DEF MbxTimed
    <3>0. in = 0
      BY <1>o, <1>s, <1>t, <3>1, Z3 DEF Tally
    <3> QED BY <1>e, <1>t, <1>11, <2>3, <3>0, Z3
            DEF MbxTimed, Counted, TaskOnly, startVars, semVars, mbxVars, OneLess
  <2> QED BY <2>6, <2>7, Zenon DEF SyncInv
<1>12. CASE Pass(t)
  <2>1. PICK to \in {"ring", "sync"} : Goes(t, "pass", to)
    BY <1>12, Zenon DEF Pass
  <2>2. /\ "pass" \notin HaveSynced /\ "pass" \notin HavePrio /\ "pass" \notin HaveSlept
        /\ "pass" \notin HaveAgain /\ "pass" \notin HaveMail /\ "pass" \notin HaveSent
        /\ "pass" \notin HaveLeft /\ to \notin HaveSynced /\ to \notin HavePrio
        /\ to \notin HaveSlept /\ to \notin HaveAgain /\ to \notin HaveMail
        /\ to \notin HaveSent /\ to \notin HaveLeft
    BY Zenon DEF HaveSynced, HavePrio, HaveSlept, HaveAgain, HaveMail, HaveSent, HaveLeft
  <2>3. Same
    BY <1>0, <2>1, <2>2, CountStay, Zenon DEF Same
  <2>4. where' \in [RingTask -> Before \cup HaveSynced]
    BY Zenon, <1>0, <2>1 DEF Goes, Before
  <2>6. RingTypes'
    BY <1>0, <1>12, <2>4, Z3 DEF Pass, RingTypes, TaskOnly, startVars, mbxVars
  <2>7. Counted'
    BY <1>e, <1>t, <1>12, <2>3, Z3 DEF Pass, Counted, Same, TaskOnly, startVars, semVars, mbxVars
  <2> QED BY <2>6, <2>7, Zenon DEF SyncInv
<1> QED BY <1>1, <1>2, <1>3, <1>4, <1>5, <1>6, <1>7, <1>8, <1>9, <1>10, <1>11, <1>12,
    Zenon DEF TaskStep, Untimed

\* At the start nothing is counted.
LEMMA RingInitSync == RingInit => SyncInv
<1> SUFFICES ASSUME RingInit PROVE SyncInv
  BY Zenon
<1>1. where = [t \in RingTask |-> "ring"] /\ "ring" \in Before
  BY Zenon DEF RingInit, RingStarts, Before
<1>2. /\ "ring" \notin HaveSynced /\ "ring" \notin HavePrio
  BY Zenon DEF HaveSynced, HavePrio, HaveSlept, HaveAgain, HaveMail, HaveSent, HaveLeft
<1>3. ASSUME NEW S, "ring" \notin S PROVE Count(S) = 0
  <2>1. At(S) = {}
    BY <1>1, <1>3, Zenon DEF At
  <2> QED BY <2>1, FS_EmptySet, Zenon DEF Count
<1>4. Count(HaveSynced) = 0 /\ Count(HavePrio) = 0
  BY <1>2, <1>3, Zenon
<1>5. RingTypes
  <2>1. where \in [RingTask -> Before \cup HaveSynced]
    BY <1>1, Zenon
  <2> QED BY <2>1, RingAssumption, Z3 DEF RingInit, RingStarts, RingTypes
<1>6. Counted
  BY <1>4, Z3 DEF RingInit, RingStarts, Counted, Tally
<1> QED BY <1>5, <1>6, Zenon DEF SyncInv

\* The counts are right whenever the demo runs.
THEOREM SyncAlways == RingSpec => []SyncInv
<1>1. ASSUME SyncInv, [RingNext]_ringVars PROVE SyncInv'
  <2>1. CASE UNCHANGED ringVars
    <3>1. /\ where' = where /\ start' = start /\ lap' = lap /\ sync_sem' = sync_sem
          /\ prio_sem' = prio_sem /\ mbx_in' = mbx_in /\ mbx_out' = mbx_out
      BY <2>1, Zenon DEF ringVars, semVars, mbxVars, taskVars, startVars
    <3> QED BY <1>1, <3>1, Zenon DEF SyncInv, RingTypes, Counted, Count, At
  <2>2. CASE \E t \in RingTask : TaskStep(t)
    BY <1>1, <2>2, TaskSync, Zenon
  <2> QED BY <1>1, <2>1, <2>2, StartTaskSync, Zenon DEF RingNext, RingEnded
<1> QED BY <1>1, RingInitSync, PTL DEF RingSpec

\* Every token is taken by the task it is meant for: the time-outs are real, and no task
\* takes the signal of another to the start task (rt_process.c:67, 71, 85-86).
THEOREM RingTokensMeant == RingSpec => []TokensMeant
<1>1. SyncInv => TokensMeant
  <2> SUFFICES ASSUME SyncInv PROVE TokensMeant
    BY Zenon
  <2>1. ASSUME NEW t \in RingTask, where[t] = "timed" PROVE prio_sem = 0
    <3>1. where[t] \in HaveSlept
      BY <2>1, Zenon DEF HaveSlept
    <3>2. Count(HaveSlept) # 0
      BY <3>1, CountType, Zenon
    <3> QED BY <3>2, CountsMean, Zenon
  <2>2. ASSUME NEW t \in RingTask, where[t] = "mbxtimed" PROVE mbx_in = 0
    <3>1. where[t] \in HaveLeft
      BY <2>2, Zenon DEF HaveLeft
    <3>2. Count(HaveLeft) # 0
      BY <3>1, CountType, Zenon
    <3> QED BY <3>2, CountsMean, Zenon
  <2>3. ASSUME NEW t \in RingTask, where[t] = "released", sync_sem > 0
        PROVE  start \in {"release", "complete"}
    <3>1. where[t] \in HaveSent
      BY <2>3, Zenon DEF HaveSent
    <3>2. Count(HaveSent) # 0
      BY <3>1, CountType, Zenon
    <3> QED BY <2>3, <3>2, CountsMean, Zenon
  <2> QED BY <2>1, <2>2, <2>3, Zenon DEF TokensMeant, TimeoutsReal, NotStolen
<1> QED BY <1>1, SyncAlways, PTL

\* The turn is h's in round r: it is not given yet, or it is in the semaphore of h, or h has
\* it and prints or has printed; the tasks before h have printed once more than those after.
Printing == {"print", "pass"}
InHand(h) ==
  \/ start = "begin" /\ h = 0 /\ sems[h] = 0 /\ where[h] = "ring"
  \/ start # "begin" /\ sems[h] = 1 /\ where[h] \notin Printing
  \/ start # "begin" /\ sems[h] = 0 /\ where[h] \in Printing
Holds(h, r) ==
  /\ sems \in [RingTask -> Nat] /\ turns \in [RingTask -> Nat]
  /\ InHand(h)
  /\ \A t \in RingTask : t < h => turns[t] = r + 1
  /\ \A t \in RingTask : t > h => turns[t] = r
  /\ turns[h] = IF where[h] = "pass" THEN r + 1 ELSE r
  /\ \A t \in RingTask : t # h => sems[t] = 0 /\ where[t] \notin Printing
  /\ \A t \in RingTask : where[t] \notin Printing => (where[t] = "ring" <=> turns[t] < ROUNDS)
  /\ where[h] \in Printing => r < ROUNDS
  /\ r = ROUNDS => h = 0
TurnInv == RingTypes /\ \E h \in RingTask, r \in 0 .. ROUNDS : Holds(h, r)

\* The turn goes round as rt_process.c:50-59 passes it.
LEMMA TurnTurn ==
  ASSUME RingTypes, NEW h \in RingTask, NEW r \in 0 .. ROUNDS, Holds(h, r),
         NEW t \in RingTask, Turn(t)
  PROVE  Holds(h, r)'
<1> USE RingAssumption
<1>1. t = h
  BY Z3 DEF Holds, Turn
<1>2. /\ where[h] = "ring" /\ where' = [where EXCEPT ![h] = "print"]
      /\ sems[h] > 0 /\ sems' = [sems EXCEPT ![h] = @ - 1]
      /\ turns' = turns /\ start' = start
  BY <1>1, Zenon DEF Turn, Goes, TaskOnly, startVars
<1>3. start # "begin" /\ sems[h] = 1
  BY <1>2, Z3 DEF Holds, InHand
<1>4. where'[h] = "print" /\ sems'[h] = 0
      /\ \A u \in RingTask : u # h => where'[u] = where[u] /\ sems'[u] = sems[u]
  BY <1>2, <1>3, Z3 DEF RingTypes, Holds
<1>5. sems' \in [RingTask -> Nat]
  BY <1>2, <1>3, Z3 DEF Holds
<1>6. "ring" \notin Printing /\ "print" \in Printing /\ "print" # "pass" /\ "ring" # "pass"
  BY Zenon DEF Printing
<1>7. r < ROUNDS
  BY <1>2, <1>6, Z3 DEF Holds
<1> QED BY <1>2, <1>3, <1>4, <1>5, <1>6, <1>7, Z3 DEF Holds, InHand

\* A task that prints keeps the turn.
LEMMA PrintTurnTurn ==
  ASSUME RingTypes, NEW h \in RingTask, NEW r \in 0 .. ROUNDS, Holds(h, r),
         NEW t \in RingTask, PrintTurn(t)
  PROVE  Holds(h, r)'
<1> USE RingAssumption
<1>0. "print" \in Printing /\ "pass" \in Printing /\ "print" # "pass"
  BY Zenon DEF Printing
<1>1. t = h
  BY <1>0, Zenon DEF Holds, PrintTurn, Goes
<1>2. /\ where[h] = "print" /\ where' = [where EXCEPT ![h] = "pass"]
      /\ turns' = [turns EXCEPT ![h] = @ + 1] /\ sems' = sems /\ start' = start
  BY <1>1, Zenon DEF PrintTurn, Goes, semVars, startVars
<1>3. turns[h] = r
  BY <1>0, <1>2, Zenon DEF Holds
<1>4. where'[h] = "pass" /\ turns'[h] = r + 1
      /\ \A u \in RingTask : u # h => where'[u] = where[u] /\ turns'[u] = turns[u]
  BY <1>2, <1>3, Z3 DEF RingTypes, Holds
<1>5. turns' \in [RingTask -> Nat]
  BY <1>2, <1>3, Z3 DEF Holds
<1>6. \A u \in RingTask : (u < h => u # h) /\ (u > h => u # h)
  BY Z3 DEF RingTask
<1>7. InHand(h)'
  BY <1>0, <1>2, <1>4, Zenon DEF Holds, InHand
<1> QED BY <1>0, <1>2, <1>4, <1>5, <1>6, <1>7, Zenon DEF Holds

\* A task passes the turn to the next, the last one to the first of the next round.
LEMMA PassTurn ==
  ASSUME RingTypes, NEW h \in RingTask, NEW r \in 0 .. ROUNDS, Holds(h, r),
         NEW t \in RingTask, Pass(t)
  PROVE  \E g \in RingTask, q \in 0 .. ROUNDS : Holds(g, q)'
<1> USE RingAssumption
<1>0. /\ "pass" \in Printing /\ "ring" \notin Printing /\ "sync" \notin Printing
      /\ "ring" # "pass" /\ "sync" # "pass" /\ "ring" # "sync"
  BY Zenon DEF Printing
<1>1. t = h
  BY <1>0, Zenon DEF Holds, Pass, Goes
<1>2. PICK to : /\ to = (IF turns[h] < ROUNDS THEN "ring" ELSE "sync")
                /\ where' = [where EXCEPT ![h] = to]
  BY <1>1, Zenon DEF Pass, Goes
<1>3. /\ where[h] = "pass" /\ turns' = turns /\ start' = start
      /\ sems' = [sems EXCEPT ![(h + 1) % NUM_TASKS] = @ + 1]
  BY <1>1, Zenon DEF Pass, Goes, TaskOnly, startVars
<1>4. turns[h] = r + 1 /\ r < ROUNDS /\ start # "begin" /\ sems[h] = 0
  BY <1>0, <1>3, Zenon DEF Holds, InHand
<1>5. where'[h] = to /\ to \notin Printing /\ (to = "ring" <=> turns[h] < ROUNDS)
  BY <1>0, <1>2, Zenon DEF RingTypes
<1>6. \A u \in RingTask : u # h => where'[u] = where[u]
  BY <1>2, Zenon DEF RingTypes
<1>7. h + 1 \in Nat /\ h + 1 <= NUM_TASKS
  BY Z3 DEF RingTask
<1>8. (h + 1) % NUM_TASKS = IF h + 1 = NUM_TASKS THEN 0 ELSE h + 1
  BY <1>7, ModSmall, Zenon
<1>9. \A u \in RingTask : sems[u] = 0
  BY <1>4, Zenon DEF Holds
<1>10. \A u \in RingTask : where'[u] \notin Printing
  BY <1>5, <1>6, Zenon DEF Holds
<1>11. \A u \in RingTask : where'[u] = "ring" <=> turns'[u] < ROUNDS
  BY <1>3, <1>5, <1>6, Zenon DEF Holds
<1>12. CASE h + 1 = NUM_TASKS
  <2>0. (h + 1) % NUM_TASKS = 0 /\ 0 \in RingTask /\ r + 1 \in 0 .. ROUNDS
    BY <1>4, <1>8, <1>12, Z3 DEF RingTask
  <2>1. sems' = [sems EXCEPT ![0] = @ + 1]
    BY <1>3, <2>0, Zenon
  <2>2. sems'[0] = 1 /\ sems' \in [RingTask -> Nat] /\ \A u \in RingTask : u # 0 => sems'[u] = 0
    BY <1>9, <2>0, <2>1, Z3 DEF Holds
  <2>3. \A u \in RingTask : turns'[u] = r + 1
    <3> SUFFICES ASSUME NEW u \in RingTask PROVE turns[u] = r + 1
      BY <1>3, Zenon
    <3>1. u < h \/ u = h
      BY <1>12, Z3 DEF RingTask
    <3> QED BY <1>4, <3>1, Zenon DEF Holds
  <2>4. where'[0] # "pass"
    BY <1>0, <1>10, <2>0, Zenon
  <2>5. turns' \in [RingTask -> Nat]
    BY <1>3, Zenon DEF Holds
  <2>6. Holds(0, r + 1)'
    <3>1. \A u \in RingTask : ~ (u < 0)
      BY Z3 DEF RingTask
    <3>2. InHand(0)'
      BY <1>3, <1>4, <1>10, <2>0, <2>2, Zenon DEF InHand
    <3> QED BY <1>10, <1>11, <2>0, <2>2, <2>3, <2>4, <2>5, <3>1, <3>2, Zenon DEF Holds
  <2> QED BY <2>0, <2>6, Zenon
<1>13. CASE h + 1 # NUM_TASKS
  <2>0. PICK g \in RingTask : g = h + 1
    BY <1>7, <1>13, Z3 DEF RingTask
  <2>1. sems' = [sems EXCEPT ![g] = @ + 1]
    <3>1. (h + 1) % NUM_TASKS = g
      BY <1>8, <1>13, <2>0, Zenon
    <3> QED BY <1>3, <3>1, Zenon
  <2>2. sems'[g] = 1 /\ sems' \in [RingTask -> Nat] /\ \A u \in RingTask : u # g => sems'[u] = 0
    BY <1>9, <2>1, Z3 DEF Holds
  <2>3. /\ \A u \in RingTask : u < g => turns'[u] = r + 1
        /\ \A u \in RingTask : u > g => turns'[u] = r
        /\ turns'[g] = r
    <3>1. ASSUME NEW u \in RingTask, u < g PROVE turns[u] = r + 1
      <4>1. u < h \/ u = h
        BY <2>0, <3>1, Z3 DEF RingTask
      <4> QED BY <1>4, <4>1, Zenon DEF Holds
    <3>2. ASSUME NEW u \in RingTask, u > g \/ u = g PROVE turns[u] = r
      <4>1. u > h
        BY <2>0, <3>2, Z3 DEF RingTask
      <4> QED BY <4>1, Zenon DEF Holds
    <3> QED BY <1>3, <3>1, <3>2, Zenon
  <2>4. where'[g] # "pass" /\ where'[g] \notin Printing
    BY <1>0, <1>10, Zenon
  <2>5. turns' \in [RingTask -> Nat]
    BY <1>3, Zenon DEF Holds
  <2>6. Holds(g, r)'
    <3>1. r # ROUNDS
      BY <1>4, Z3
    <3>2. InHand(g)'
      BY <1>3, <1>4, <2>2, <2>4, Zenon DEF InHand
    <3> QED BY <1>10, <1>11, <2>2, <2>3, <2>4, <2>5, <3>1, <3>2, Zenon DEF Holds
  <2> QED BY <2>6, Zenon
<1> QED BY Zenon, <1>12, <1>13

\* The tasks that are through with the ring leave the turn alone.
LEMMA ElsewhereTurn ==
  ASSUME RingTypes, NEW h \in RingTask, NEW r \in 0 .. ROUNDS, Holds(h, r),
         NEW t \in RingTask, NEW from, NEW to, Goes(t, from, to),
         from \notin {"ring", "print", "pass"}, to \notin {"ring", "print", "pass"},
         sems' = sems, turns' = turns, start' = start
  PROVE  Holds(h, r)'
<1>1. where[t] = from /\ where'[t] = to /\ \A u \in RingTask : u # t => where'[u] = where[u]
  BY Zenon DEF Goes, RingTypes
<1>2. from \notin Printing /\ to \notin Printing /\ from # "ring" /\ to # "ring"
      /\ from # "pass" /\ to # "pass"
  BY Zenon DEF Printing
<1>3. /\ where'[h] \in Printing <=> where[h] \in Printing
      /\ where'[h] = "ring" <=> where[h] = "ring"
      /\ where'[h] = "pass" <=> where[h] = "pass"
  BY <1>1, <1>2, Zenon
<1>4. \A u \in RingTask : /\ where'[u] \in Printing <=> where[u] \in Printing
                          /\ where'[u] = "ring" <=> where[u] = "ring"
  BY <1>1, <1>2, Zenon
<1> QED BY <1>3, <1>4, Zenon DEF Holds, InHand

\* The start task gives the turn once.
LEMMA StartTurn ==
  ASSUME RingTypes, NEW h \in RingTask, NEW r \in 0 .. ROUNDS, Holds(h, r), StartTask
  PROVE  Holds(h, r)'
<1>1. CASE Begin
  <2>1. /\ start = "begin" /\ start' = "gather" /\ sems' = [sems EXCEPT ![0] = @ + 1]
        /\ where' = where /\ turns' = turns
    BY <1>1, Zenon DEF Begin, taskVars
  <2>2. h = 0 /\ sems[h] = 0 /\ where[h] = "ring"
    BY <2>1, Zenon DEF Holds, InHand
  <2>3. sems' = [sems EXCEPT ![h] = @ + 1]
    BY <2>1, <2>2, Zenon
  <2>4. sems'[h] = 1 /\ sems' \in [RingTask -> Nat]
        /\ \A u \in RingTask : u # h => sems'[u] = sems[u]
    BY <2>2, <2>3, Z3 DEF Holds
  <2>5. "ring" \notin Printing /\ "gather" # "begin"
    BY Zenon DEF Printing
  <2> QED BY <2>1, <2>2, <2>4, <2>5, Zenon DEF Holds, InHand
<1>2. ASSUME ~ Begin PROVE Holds(h, r)'
  <2>1. /\ start # "begin" /\ start' # "begin" /\ sems' = sems /\ where' = where
        /\ turns' = turns
    BY <1>2, Zenon DEF StartTask, Gather, Post, Posts, Mail, Replies, Release, Loop, taskVars
  <2> QED BY <2>1, Zenon DEF Holds, InHand
<1> QED BY Zenon, <1>1, <1>2

\* Only the ring moves the turn.
LEMMA TaskTurn ==
  ASSUME RingTypes, NEW h \in RingTask, NEW r \in 0 .. ROUNDS, Holds(h, r),
         NEW t \in RingTask, TaskStep(t)
  PROVE  \E g \in RingTask, q \in 0 .. ROUNDS : Holds(g, q)'
<1>1. CASE Turn(t) \/ PrintTurn(t) \/ Pass(t)
  BY <1>1, TurnTurn, PrintTurnTurn, PassTurn, Zenon
<1>2. CASE ~ (Turn(t) \/ PrintTurn(t) \/ Pass(t))
  <2>1. \E from, to : /\ Goes(t, from, to)
                      /\ from \notin {"ring", "print", "pass"}
                      /\ to \notin {"ring", "print", "pass"}
    <3>1. \/ Goes(t, "sync", "prio") \/ Goes(t, "prio", "sleep") \/ Goes(t, "sleep", "timed")
          \/ Goes(t, "timed", "resync") \/ Goes(t, "resync", "receive")
          \/ Goes(t, "receive", "send") \/ Goes(t, "send", "released")
          \/ Goes(t, "released", "mbxtimed") \/ Goes(t, "mbxtimed", "complete")
      BY <1>2, Zenon DEF TaskStep, Untimed, SyncOne, Prio, SleepEnds, PrioTimed, SyncTwo,
         Receive, Send, Released, MbxTimed
    <3>2. \A w \in {"sync", "prio", "sleep", "timed", "resync", "receive", "send", "released",
                    "mbxtimed", "complete"} : w \notin {"ring", "print", "pass"}
      BY Zenon
    <3> QED BY <3>1, <3>2, Zenon
  <2>2. sems' = sems /\ turns' = turns /\ start' = start
    BY <1>2, Zenon DEF TaskStep, Untimed, SyncOne, Prio, SleepEnds, PrioTimed, SyncTwo, Receive,
       Send, Released, MbxTimed, TaskOnly, startVars, semVars
  <2> QED BY <2>1, <2>2, ElsewhereTurn, Zenon
<1> QED BY Zenon, <1>1, <1>2

\* There is one turn whenever the demo runs.
THEOREM TurnAlways == RingSpec => []TurnInv
<1>1. RingInit => TurnInv
  <2> SUFFICES ASSUME RingInit PROVE TurnInv
    BY Zenon
  <2>1. /\ sems = [t \in RingTask |-> 0] /\ turns = [t \in RingTask |-> 0]
        /\ where = [t \in RingTask |-> "ring"] /\ start = "begin"
    BY Zenon DEF RingInit, RingStarts
  <2>2. 0 \in RingTask /\ 0 \in 0 .. ROUNDS /\ 0 < ROUNDS /\ 0 # ROUNDS
    BY RingAssumption, Z3 DEF RingTask
  <2>3. "ring" \notin Printing /\ "ring" # "pass"
    BY Zenon DEF Printing
  <2>4. InHand(0)
    BY <2>1, <2>2, Zenon DEF InHand
  <2>5. Holds(0, 0)
    BY <2>1, <2>2, <2>3, <2>4, Z3 DEF Holds, RingTask
  <2> QED BY <2>2, <2>5, RingInitSync, Zenon DEF TurnInv, SyncInv
<1>2. ASSUME TurnInv, SyncInv', [RingNext]_ringVars PROVE TurnInv'
  <2>1. PICK h \in RingTask, r \in 0 .. ROUNDS : Holds(h, r)
    BY <1>2, Zenon DEF TurnInv
  <2>2. CASE UNCHANGED ringVars
    <3>1. where' = where /\ start' = start /\ sems' = sems /\ turns' = turns
      BY <2>2, Zenon DEF ringVars, semVars, taskVars, startVars
    <3>2. Holds(h, r)'
      BY <2>1, <3>1, Zenon DEF Holds, InHand
    <3> QED BY <1>2, <3>2, Zenon DEF TurnInv, SyncInv
  <2>3. CASE StartTask
    <3>1. Holds(h, r)'
      BY <1>2, <2>1, <2>3, StartTurn, Zenon DEF TurnInv
    <3> QED BY <1>2, <3>1, Zenon DEF TurnInv, SyncInv
  <2>4. CASE \E t \in RingTask : TaskStep(t)
    <3>1. \E g \in RingTask, q \in 0 .. ROUNDS : Holds(g, q)'
      BY <1>2, <2>1, <2>4, TaskTurn, Zenon DEF TurnInv
    <3> QED BY <1>2, <3>1, Zenon DEF TurnInv, SyncInv
  <2> QED BY <1>2, <2>2, <2>3, <2>4, Zenon DEF RingNext, RingEnded
<1> QED BY <1>1, <1>2, SyncAlways, PTL DEF RingSpec

\* The names are printed in the order of the ring, round by round (rt_process.c:50-59).
THEOREM RingInOrder == RingSpec => []RingOrder
<1>1. TurnInv => RingOrder
  <2> SUFFICES ASSUME TurnInv, NEW s \in RingTask, NEW t \in RingTask, s < t
               PROVE  turns[s] - turns[t] \in {0, 1}
    BY Zenon DEF RingOrder
  <2>1. PICK h \in RingTask, r \in 0 .. ROUNDS : Holds(h, r)
    BY Zenon DEF TurnInv
  <2>2. turns[s] \in {r, r + 1} /\ turns[t] \in {r, r + 1}
    BY <2>1, RingAssumption, Z3 DEF Holds, RingTask
  <2>3. turns[t] = r + 1 => turns[s] = r + 1
    BY <2>1, <2>2, RingAssumption, Z3 DEF Holds, RingTask
  <2> QED BY <2>2, <2>3, RingAssumption, Z3
<1> QED BY <1>1, TurnAlways, PTL

\* No semaphore or mailbox ever holds more than one token per task (rt_process.c:50-90,
\* 125-157): a mailbox of NUM_TASKS messages is large enough.
THEOREM RingTypesRight == RingSpec => []RingTypeOK
<1>1. TurnInv /\ SyncInv => RingTypeOK
  <2> SUFFICES ASSUME TurnInv, SyncInv PROVE RingTypeOK
    BY Zenon
  <2>1. PICK h \in RingTask, r \in 0 .. ROUNDS : Holds(h, r)
    BY Zenon DEF TurnInv
  <2>2. ASSUME NEW t \in RingTask PROVE sems[t] \in 0 .. 1
    BY <2>1, Z3 DEF Holds, InHand
  <2>3. ASSUME NEW t \in RingTask PROVE turns[t] \in 0 .. ROUNDS
    <3>1. h = 0 \/ r < ROUNDS
      BY <2>1, RingAssumption, Z3 DEF Holds
    <3>2. turns[h] \in 0 .. ROUNDS
      <4>1. CASE where[h] = "pass"
        <5>1. r < ROUNDS /\ turns[h] = r + 1
          BY <2>1, <4>1, Zenon DEF Holds, Printing
        <5> QED BY <5>1, RingAssumption, Z3
      <4> QED BY <2>1, <4>1, Zenon DEF Holds
    <3>3. CASE t < h
      <4>1. turns[t] = r + 1 /\ h # 0
        BY <2>1, <3>3, Z3 DEF Holds, RingTask
      <4> QED BY <3>1, <4>1, RingAssumption, Z3
    <3>4. CASE t > h
      BY <2>1, <3>4, Zenon DEF Holds
    <3> QED BY <3>2, <3>3, <3>4, Z3 DEF RingTask
  <2>4. /\ sync_sem \in 0 .. NUM_TASKS /\ prio_sem \in 0 .. NUM_TASKS
        /\ mbx_in \in 0 .. NUM_TASKS /\ mbx_out \in 0 .. NUM_TASKS /\ lap \in 0 .. NUM_TASKS - 1
    BY CountsMean, Zenon DEF SyncInv, RingTypes
  <2> QED BY <2>2, <2>3, <2>4, Zenon DEF RingTypeOK
<1> QED BY <1>1, TurnAlways, SyncAlways, PTL
-----------------------------------------------------------------------------
(* The copies of a queue's description.                                    *)

\* A queue's description, a copy in the new and a copy in the old format.
Queues == [qbytes : Nat, cbytes : Nat, mode : PermModes]
Sizes64 == [version : {"IPC_64"}, mode : PermModes, qbytes : Nat, cbytes : Nat]
SizesOld == [version : {"IPC_OLD"}, mode : PermModes, qbytes : Nat, lqbytes : Nat,
             cbytes : Nat, lcbytes : Nat]

\* An unchanged copy is what copy_msqid_to_user made of the queue that was read.
Copied(v) ==
  IF v = "IPC_64"
  THEN [version |-> v, mode |-> read.mode, qbytes |-> read.qbytes, cbytes |-> read.cbytes]
  ELSE [version |-> v, mode |-> read.mode,
        qbytes |-> Saturated(read.qbytes), lqbytes |-> read.qbytes,
        cbytes |-> Saturated(read.cbytes), lcbytes |-> read.cbytes]

\* The inductive invariant: types, and an unchanged copy is a copy.
CopyInv ==
  /\ queue \in Queues
  /\ buf \in {NoCopy} \cup Sizes64 \cup SizesOld
  /\ read # NoCopy => read \in Queues
  /\ buf # NoCopy /\ read # NoCopy => \E v \in {"IPC_64", "IPC_OLD"} : buf = Copied(v)

\* There is no copy at the start.
LEMMA CopyInitInv == CopyInit => CopyInv
<1> SUFFICES ASSUME CopyInit PROVE CopyInv
  BY Zenon
<1>1. queue \in Queues
  BY SMT, Z3, CopyAssumption DEF CopyInit, Queues
<1> QED BY <1>1, Zenon DEF CopyInit, CopyInv

\* IPC_STAT, the caller and IPC_SET keep it.
LEMMA CopyStepInv == CopyInv /\ CopyNext => CopyInv'
<1> SUFFICES ASSUME CopyInv, CopyNext PROVE CopyInv'
  BY Zenon
<1>0. queue \in Queues /\ buf \in {NoCopy} \cup Sizes64 \cup SizesOld
  BY Zenon DEF CopyInv
<1>1. CASE CopyOut
  <2>1. PICK v \in {"IPC_64", "IPC_OLD"} : buf' = copy_msqid_to_user(v)
    BY <1>1, Zenon DEF CopyOut
  <2>2. read' = queue /\ queue' = queue
    BY <1>1, Zenon DEF CopyOut
  <2>3. buf' = Copied(v)'
    BY <2>1, <2>2, Zenon DEF copy_msqid_to_user, Copied
  <2>4. \A n \in Nat : Saturated(n) \in Nat
    BY CopyAssumption, Z3 DEF Saturated
  <2>5. buf' \in Sizes64 \cup SizesOld
    BY Zenon, <1>0, <2>1, <2>4 DEF copy_msqid_to_user, Sizes64, SizesOld, Queues
  <2> QED BY <1>0, <2>2, <2>3, <2>5, Zenon DEF CopyInv
<1>2. CASE Edit
  <2>1. read' = NoCopy /\ queue' = queue /\ buf \in Sizes64 \cup SizesOld
    BY <1>0, <1>2, Zenon DEF Edit
  <2>2. buf' \in Sizes64 \cup SizesOld
    <3>1. CASE \E m \in PermModes : buf' = [buf EXCEPT !.mode = m]
      BY Zenon, <2>1, <3>1 DEF Sizes64, SizesOld
    <3>2. CASE \E n \in 0 .. SHORT_MAX : buf' = [buf EXCEPT !.qbytes = n]
      BY SMT, Z3, <2>1, <3>2, CopyAssumption DEF Sizes64, SizesOld
    <3>3. CASE /\ buf.version = "IPC_OLD"
               /\ \E n \in 0 .. MaxQbytes : buf' = [buf EXCEPT !.qbytes = 0, !.lqbytes = n]
      <4>1. buf \in SizesOld
        BY Zenon, <2>1, <3>3 DEF Sizes64
      <4>2. PICK n \in 0 .. MaxQbytes : buf' = [buf EXCEPT !.qbytes = 0, !.lqbytes = n]
        BY <3>3, Zenon
      <4>3. n \in Nat /\ 0 \in Nat
        BY CopyAssumption, Z3
      <4>4. [buf EXCEPT !.qbytes = 0] \in SizesOld
        BY Zenon, <4>1, <4>3 DEF SizesOld
      <4>5. [[buf EXCEPT !.qbytes = 0] EXCEPT !.lqbytes = n] \in SizesOld
        BY Zenon, <4>3, <4>4 DEF SizesOld
      <4>6. buf' = [[buf EXCEPT !.qbytes = 0] EXCEPT !.lqbytes = n]
        BY Zenon, <4>2, <4>1 DEF SizesOld
      <4> QED BY <4>5, <4>6, Zenon
    <3> QED BY <1>2, <3>1, <3>2, <3>3, Zenon DEF Edit
  <2> QED BY <1>0, <2>1, <2>2, Zenon DEF CopyInv
<1>3. CASE CopyIn
  <2>1. buf' = buf /\ read' = read /\ buf \in Sizes64 \cup SizesOld
    BY <1>0, <1>3, Zenon DEF CopyIn
  <2>2. copy_msqid_from_user.qbytes \in Nat /\ copy_msqid_from_user.mode \in PermModes
    BY Zenon, <2>1 DEF copy_msqid_from_user, Sizes64, SizesOld
  <2>3. queue' = [queue EXCEPT !.qbytes = copy_msqid_from_user.qbytes,
        !.mode = copy_msqid_from_user.mode]
    BY <1>3, Zenon DEF CopyIn
  <2>4. queue' \in Queues
    BY Zenon, <1>0, <2>2, <2>3 DEF Queues
  <2> QED BY <2>1, <2>4, Zenon DEF CopyInv, Copied
<1> QED BY <1>1, <1>2, <1>3, Zenon DEF CopyNext

\* Setting an unchanged copy leaves mode and size as they were read, or the largest size the
\* old format holds; that USHRT_MAX is not 0 is needed, because 0 stands for the long field.
THEOREM CopiesLeadBack == CopySpec => []CopyLeadsBack
<1>1. CopyInv /\ UNCHANGED copyVars => CopyInv'
  BY Zenon DEF copyVars, CopyInv, Copied
<1>2. CopyInv /\ [CopyNext]_copyVars => CopyInv'
  BY <1>1, CopyStepInv, Zenon
<1>3. CopyInv => CopyLeadsBack
  <2> SUFFICES ASSUME CopyInv, buf # NoCopy, read # NoCopy
               PROVE  /\ copy_msqid_from_user.mode = read.mode
                      /\ copy_msqid_from_user.qbytes =
                           IF buf.version = "IPC_64" \/ read.qbytes <= SHORT_MAX
                           THEN read.qbytes ELSE SHORT_MAX
    BY Zenon DEF CopyLeadsBack
  <2>1. PICK v \in {"IPC_64", "IPC_OLD"} : buf = Copied(v)
    BY Zenon DEF CopyInv
  <2>2. read.qbytes \in Nat
    BY Zenon DEF CopyInv, Queues
  <2>3. CASE v = "IPC_64"
    BY Zenon, <2>1, <2>2, <2>3, CopyAssumption DEF Copied, copy_msqid_from_user
  <2>4. CASE v = "IPC_OLD"
    <3>1. /\ buf.version = "IPC_OLD" /\ buf.mode = read.mode
          /\ buf.qbytes = Saturated(read.qbytes) /\ buf.lqbytes = read.qbytes
      BY <2>1, <2>4, Zenon DEF Copied
    <3>2. PICK n \in Nat : n = read.qbytes
      BY <2>2, Zenon
    <3>m. PICK m \in Nat : m = SHORT_MAX /\ m > 0
      BY CopyAssumption, Zenon
    <3>3. (IF Saturated(n) = 0 THEN n ELSE Saturated(n)) = IF n <= SHORT_MAX THEN n ELSE SHORT_MAX
      <4>1. (IF (IF n > m THEN m ELSE n) = 0 THEN n ELSE (IF n > m THEN m ELSE n))
              = IF n <= m THEN n ELSE m
        BY <3>m, Z3
      <4> QED BY <3>m, <4>1, Zenon DEF Saturated
    <3>4. copy_msqid_from_user.mode = buf.mode
          /\ copy_msqid_from_user.qbytes = IF buf.qbytes = 0 THEN buf.lqbytes ELSE buf.qbytes
      BY <3>1, Zenon DEF copy_msqid_from_user
    <3> QED BY <3>1, <3>2, <3>3, <3>4, Zenon
  <2> QED BY Zenon, <2>3, <2>4
<1> QED BY <1>2, <1>3, CopyInitInv, PTL DEF CopySpec
=============================================================================
