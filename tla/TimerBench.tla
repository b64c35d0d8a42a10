----------------------------- MODULE TimerBench -----------------------------
(***************************************************************************)
(* The timer latency benchmark (user/benchrtdm): the driver timerbench.c    *)
(* and the two threads of latency.c that use it, display, which starts the  *)
(* benchmark and reads its results, and cleanup, which stops it and closes  *)
(* the device whenever the user or an alarm says so.                        *)
(*                                                                         *)
(* nrt_mutex makes a step of what it protects, except that START sees       *)
(* RTDM_CLOSING later than it sets the state up.  START is three steps: it  *)
(* may enter before rt_dev_close sets the flag and lock nrt_mutex after     *)
(* rt_tmbench_close has unlocked it.                                        *)
(* One sample of the timer task or timer handler is a step; the two differ  *)
(* in where the number of samples is kept and not in what they do.          *)
(***************************************************************************)
EXTENDS Integers, FiniteSets, Functions, FiniteSetsExt

CONSTANTS
  Period, Samples,     \* period and samples_per_sec
  WarmupLoops,         \* warmup_loops
  Sizes, BucketSize,   \* the values of histogram_size, and histogram_bucketsize
  Far,                 \* the first minimum, 10000000
  Latencies,           \* the latencies a sample may have, in units of time
  MaxLoops             \* bound on test_loops

\* With warmup_loops = 0 the warm-up never ends (latency.c asks for one loop).
ASSUME BenchAssumption ==
  /\ Period \in Nat \ {0} /\ Samples \in Nat \ {0} /\ BucketSize \in Nat \ {0}
  /\ WarmupLoops \in Nat \ {0} /\ MaxLoops \in Nat
  /\ Sizes \subseteq Nat /\ Far \in Nat
  /\ Latencies \subseteq (-Far) .. Far

VARIABLES
  display, cleanup,    \* where the two threads are
  closing,             \* RTDM_CLOSING
  mode, size,          \* mode and histogram_size
  buffer,              \* whether histogram_min points to a buffer
  event,               \* whether result_event can be waited for
  alive,               \* the timer task or the started timer
  histogram,           \* the three histograms in the buffer
  warmup, count,       \* warmup; the samples of this second so far
  curr, last, overall, \* curr, result.last and result.overall
  test_loops,          \* result.overall.test_loops
  lead,                \* the next release date, seen from now
  measured             \* history: the seconds measured since the warm-up

ctlVars == <<closing, mode, size, buffer, event, alive>>
resVars == <<histogram, warmup, count, curr, last, overall, test_loops, lead,
             measured>>
benchVars == <<display, cleanup, ctlVars, resVars>>

NoSample == [min |-> Far, max |-> -Far, avg |-> 0, overruns |-> 0]
NoHits(n) == [h \in {"min", "max", "avg"} |-> [i \in 0 .. n - 1 |-> 0]]
Fresh(n) ==
  /\ histogram' = NoHits(n) /\ warmup' = TRUE /\ count' = 0
  /\ curr' = NoSample /\ overall' = NoSample /\ test_loops' = 1
  /\ measured' = 0 /\ lead' = 0 /\ UNCHANGED last

BenchInit ==
  /\ display = "start" /\ cleanup = "stop"
  /\ closing = FALSE /\ mode = "INVALID" /\ size = 0
  /\ buffer = FALSE /\ event = FALSE /\ alive = FALSE
  /\ histogram = NoHits(0) /\ warmup = TRUE /\ count = 0 /\ test_loops = 1
  /\ curr = NoSample /\ last = NoSample /\ overall = NoSample
  /\ lead = 0 /\ measured = 0

-----------------------------------------------------------------------------
\* The ioctl of a device that is closing is refused.
StartEnter ==
  /\ display = "start"
  /\ display' = IF closing THEN "end" ELSE "entered"
  /\ UNCHANGED <<cleanup, ctlVars, resVars>>

\* rt_tmbench_start up to the test of RTDM_CLOSING; nrt_mutex stays locked.  The
\* arguments cannot be read, or there is no memory for the histograms.
IgnoresNoMemory(n) ==
  /\ display = "entered"
  /\ size' = n /\ buffer' \in {n > 0, FALSE}
  /\ Fresh(n)
  /\ mode' = "INVALID" /\ event' = TRUE
  /\ display' = "launch"
  /\ UNCHANGED <<cleanup, closing, alive>>
StartPrepare(n) ==
  /\ display = "entered"
  /\ size' = n /\ buffer' = (n > 0)
  /\ Fresh(n)
  /\ mode' = "INVALID" /\ event' = TRUE
  /\ display' = "launch"
  /\ UNCHANGED <<cleanup, closing, alive>>

StartFault(n) ==
  /\ display = "entered"
  /\ \/ UNCHANGED size
     \/ n > 0 /\ size' = n
  /\ display' = "end"
  /\ UNCHANGED <<cleanup, closing, mode, buffer, event, alive, resVars>>

\* The rest of it.  A task that cannot be created leaves the mode invalid; a timer
\* that cannot be started does not.
LaunchAnyway(m) == mode' = m /\ alive' = TRUE /\ display' = "read"
Launch(m) ==
  \/ ~ closing /\ mode' = m /\ alive' = TRUE /\ display' = "read"
  \/ closing /\ display' = "read" /\ UNCHANGED <<mode, alive>>
LaunchFails(m) ==
  /\ ~ closing /\ display' = "end" /\ UNCHANGED alive
  /\ mode' = IF m = "HANDLER" THEN m ELSE mode

StartLaunch ==
  /\ display = "launch"
  /\ \E m \in {"TASK", "HANDLER"} : Launch(m) \/ LaunchFails(m)
  /\ UNCHANGED <<cleanup, closing, size, buffer, event, resVars>>

\* RTTST_RTIOC_INTERM_BENCH_RES: the wait, which fails on a closed device and on
\* a destroyed event (Wait, Destroyed), and the copy of the results.
Wait ==
  /\ display = "read"
  /\ display' = IF closing \/ ~ event THEN "end" ELSE "wait"
  /\ UNCHANGED <<cleanup, ctlVars, resVars>>

Destroyed ==
  /\ display = "wait" /\ ~ event
  /\ display' = "end"
  /\ UNCHANGED <<cleanup, ctlVars, resVars>>

CopyResult ==
  /\ display = "woken"
  /\ display' = "read"
  /\ UNCHANGED <<cleanup, ctlVars, resVars>>

-----------------------------------------------------------------------------
\* slldiv: the quotient rounded towards zero.
slldiv(x, d) == IF x >= 0 THEN x \div d ELSE -((-x) \div d)

\* add_histogram: what does not fit counts in the last cell.
Unclamped(dt) == (IF dt >= 0 THEN dt ELSE -dt) \div BucketSize
Cell(dt) ==
  LET inabs == (IF dt >= 0 THEN dt ELSE -dt) \div BucketSize
  IN  IF inabs < size THEN inabs ELSE size - 1
add_histogram(hist, h, dt) ==
  [hist EXCEPT ![h] = [i \in DOMAIN @ |-> IF i = Cell(dt) THEN @[i] + 1 ELSE @[i]]]

\* The overruns eval_inner_loop counts: the release dates a late sample missed.
Overruns[dt \in Int] == IF dt > Period THEN 1 + Overruns[dt - Period] ELSE 0

\* eval_inner_loop: the statistics of this second.
InnerCurr(dt) ==
  [min |-> IF dt < curr.min THEN dt ELSE curr.min,
   max |-> IF dt > curr.max THEN dt ELSE curr.max,
   avg |-> curr.avg + dt,
   overruns |-> curr.overruns + Overruns[dt]]
OnePeriodOn(dt) == Period - dt
NextLead(dt) == Period * (1 + Overruns[dt]) - dt

\* eval_outer_loop.  c are the statistics of the second, h the histograms.
NewLast(c) == [c EXCEPT !.avg = slldiv(c.avg, Samples)]
NewOverall(c) ==
  [min |-> IF c.min < overall.min THEN c.min ELSE overall.min,
   max |-> IF c.max > overall.max THEN c.max ELSE overall.max,
   avg |-> overall.avg + NewLast(c).avg,
   overruns |-> overall.overruns + c.overruns]

OuterMeasured(c, h) ==
  /\ ~ warmup
  /\ histogram' = IF size = 0 THEN h
                  ELSE add_histogram(add_histogram(h, "max", c.max), "min", c.min)
  /\ last' = NewLast(c) /\ overall' = NewOverall(c)
  /\ display' = IF display = "wait" /\ event THEN "woken" ELSE display
  /\ test_loops' = test_loops + 1 /\ measured' = measured + 1
  /\ UNCHANGED warmup

\* The last second of the warm-up starts the count again.
WarmupEnds ==
  /\ warmup' = (test_loops # WarmupLoops)
  /\ test_loops' = IF warmup' THEN test_loops + 1 ELSE 1
OuterWarmup(h) ==
  /\ warmup /\ WarmupEnds
  /\ histogram' = h
  /\ UNCHANGED <<last, overall, display, measured>>

\* A sample of timer_task_proc or timer_proc.
Sample(dt) ==
  /\ alive /\ test_loops <= MaxLoops
  /\ lead' = NextLead(dt)
  /\ LET c == InnerCurr(dt)
         h == IF warmup \/ size = 0 THEN histogram ELSE add_histogram(histogram, "avg", dt)
     IN  \/ /\ count + 1 < Samples
            /\ count' = count + 1 /\ curr' = c /\ histogram' = h
            /\ UNCHANGED <<warmup, last, overall, test_loops, measured, display>>
         \/ /\ count + 1 >= Samples
            /\ count' = 0 /\ curr' = NoSample
            /\ OuterMeasured(c, h) \/ OuterWarmup(h)
  /\ UNCHANGED <<cleanup, ctlVars>>

-----------------------------------------------------------------------------
\* rt_tmbench_stop, and the report: the average of the averages.
LoopsBegun == test_loops
Divisor == (IF test_loops > 1 THEN test_loops ELSE 2) - 1
Shutdown == alive' = FALSE /\ event' = FALSE /\ mode' = "INVALID"

Stop ==
  /\ cleanup = "stop" /\ display # "launch"
  /\ \/ mode = "INVALID" /\ UNCHANGED <<ctlVars, overall>>
     \/ /\ mode # "INVALID" /\ Shutdown
        /\ buffer' = (buffer /\ size = 0)
        /\ overall' = [overall EXCEPT !.avg = slldiv(@, Divisor)]
        /\ UNCHANGED <<closing, size>>
  /\ cleanup' = IF mode = "INVALID" THEN "close" ELSE "report"
  /\ UNCHANGED <<display, histogram, warmup, count, curr, last, test_loops, lead,
                 measured>>

Report ==
  /\ cleanup = "report" /\ cleanup' = "close"
  /\ UNCHANGED <<display, ctlVars, resVars>>

\* rt_dev_close: the flag is set before rt_tmbench_close runs.
CloseFlag ==
  /\ cleanup = "close"
  /\ closing' = TRUE /\ cleanup' = "closing"
  /\ UNCHANGED <<display, mode, size, buffer, event, alive, resVars>>

Close ==
  /\ cleanup = "closing" /\ display # "launch"
  /\ \/ mode = "INVALID" /\ UNCHANGED <<mode, size, buffer, event, alive>>
     \/ /\ mode # "INVALID" /\ Shutdown
        /\ buffer' = (buffer /\ size = 0) /\ size' = 0
  /\ cleanup' = "end"
  /\ UNCHANGED <<display, closing, resVars>>

Finished == display = "end" /\ cleanup = "end" /\ UNCHANGED benchVars

-----------------------------------------------------------------------------
Display ==
  \/ StartEnter \/ \E n \in Sizes : StartPrepare(n) \/ StartFault(n)
  \/ StartLaunch \/ Wait \/ Destroyed \/ CopyResult
Timer == \E dt \in Latencies : Sample(dt)
Cleanup == Stop \/ Report \/ CloseFlag \/ Close

BenchNext == Display \/ Timer \/ Cleanup \/ Finished
BenchSpec == BenchInit /\ [][BenchNext]_benchVars

\* The timer fires, the threads run, and the user ends the benchmark.
BenchFairSpec ==
  /\ BenchSpec
  /\ WF_benchVars(Display) /\ WF_benchVars(Timer) /\ WF_benchVars(Cleanup)

-----------------------------------------------------------------------------
\* Types; a second is counted as soon as it begins.
BenchTypeOK ==
  /\ display \in {"start", "entered", "launch", "read", "wait", "woken", "end"}
  /\ cleanup \in {"stop", "report", "close", "closing", "end"}
  /\ closing \in BOOLEAN /\ buffer \in BOOLEAN /\ event \in BOOLEAN
  /\ alive \in BOOLEAN /\ warmup \in BOOLEAN
  /\ mode \in {"INVALID", "TASK", "HANDLER"} /\ size \in Sizes \cup {0}
  /\ count \in 0 .. Samples - 1 /\ test_loops \in 1 .. MaxLoops + 1
  /\ measured \in Nat

\* Nothing uses a device that was closed: once rt_tmbench_close has run, no timer
\* task or timer runs and none is started, also by a START that was under way.
ClosedIsQuiet == cleanup = "end" => ~ alive /\ mode = "INVALID"

\* While samples are taken, and when the buffer is freed, there is one: a failed
\* START, a STOP and a close leave no mode that says otherwise.
HistogramHeld == (alive \/ mode # "INVALID") /\ size > 0 => buffer

\* The results of a second and of the whole run are in order: what latency prints
\* as best, minimum, average, maximum and worst case never crosses.  The average
\* STOP reports lies between the best and the worst case of the run: the sum is
\* divided by the seconds that went into it (timerbench.c:357).
ResultsOrdered ==
  measured > 0 =>
    /\ overall.min <= last.min /\ last.max <= overall.max
    /\ last.min <= last.avg /\ last.avg <= last.max
    /\ cleanup = "report" => overall.min <= overall.avg /\ overall.avg <= overall.max

\* Every sample after the warm-up is in one cell of histogram_avg, and every second
\* in one cell of the other two (dump_stats takes their sums for the numbers).
Hits(h) == MapThenSumSet(LAMBDA i : histogram[h][i], DOMAIN histogram[h])
HistogramsComplete ==
  DOMAIN histogram["avg"] # {} =>
    /\ Hits("min") = measured /\ Hits("max") = measured
    /\ Hits("avg") = measured * Samples + (IF warmup THEN 0 ELSE count)

\* The next release date is not in the past, is within a period when the sample
\* was late, and the overruns are the release dates that passed meanwhile.
NextDateAhead ==
  [][\A dt \in Latencies :
       Sample(dt) =>
         /\ lead' >= 0 /\ (dt > 0 => lead' <= Period)
         /\ InnerCurr(dt).overruns - curr.overruns
              = Cardinality({k \in 1 .. Far : k * Period < dt})]_benchVars

\* A reader does not wait for ever: a second ends or the event is destroyed.
WaitEnds == display = "wait" ~> display # "wait"
=============================================================================
