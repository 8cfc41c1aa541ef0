-------------------------------- MODULE FCyc --------------------------------
(***************************************************************************)
(* The timing package of A06-DynamicMemory: fcyc.c runs a function again   *)
(* and again and keeps the K smallest of its times, until these are close  *)
(* to each other or it gives up; clock.c measures each run, and takes the  *)
(* cost of timer interrupts off; fsecs.c sets the parameters.              *)
(*                                                                         *)
(* Time is counted in units that make the quotients of callibrate whole.   *)
(* Of the process time only differences are used: ticks is that since it   *)
(* was last stored, in oldc or start_tick.                                 *)
(***************************************************************************)
EXTENDS Clock, Sequences, FiniteSets

CONSTANTS
  RECORDTHRESH, NEVENT,
  Readings,      \* where the processor's counter may be at start_counter
  Durations,     \* cycles that a run of the function may take
  Ticks,         \* timer interrupts during a run
  Events,        \* what callibrate may see: cycles and ticks of a window
  Parameters,    \* what the set_fcyc functions may set
  FSECS,         \* what init_fsecs sets: k 3, maxsamples 20, both options on
  CacheSizes,
  EPSILON,       \* epsilon is EPSILON % (0.01 is 1)
  NULL

ASSUME FCycAssumption ==
  /\ RECORDTHRESH \in Nat /\ NEVENT \in Nat \ {0}
  /\ Readings \subseteq Counter /\ Durations \subseteq Counter /\ Ticks \subseteq Nat
  /\ \A ev \in Events : /\ ev.cycles \in Nat /\ ev.ticks \in Nat \ {0}
                        /\ ev.cycles % ev.ticks = 0
  /\ \A par \in Parameters :
       /\ par.kbest \in Nat \ {0} /\ par.maxsamples \in Int
       /\ par.compensate \in BOOLEAN /\ par.clear_cache \in BOOLEAN
  /\ FSECS \in Parameters /\ FSECS.compensate /\ FSECS.clear_cache
  /\ CacheSizes \subseteq Nat
  /\ EPSILON \in Nat
  /\ NULL \notin Nat

VARIABLES
  params,         \* kbest, maxsamples, compensate, clear_cache
  cache_bytes,
  cache_buf,      \* NULL, or the size of the buffer
  values,         \* the array: NULL, or its kbest elements
  samplecount,
  pos,            \* add_sample
  cyc_per_tick,
  e,              \* callibrate: events seen
  cyc,            \* cyc_hi and cyc_lo
  elapsed,        \* cycles that have in fact passed since start_counter
  ticks,
  time,           \* what get_counter has returned, and the sample
  pc,
  result,
  samples         \* history variable, not in the code: what add_sample got

setting == <<params, cache_bytes>>
clock == <<cyc_per_tick, e, cyc, elapsed, ticks, time>>
sampler == <<values, samplecount, pos, samples>>
vars == <<setting, cache_buf, sampler, clock, pc, result>>

kbest == params.kbest

\* The defaults of fcyc.c, with kbest and maxsamples from the parameters.
Init ==
  /\ params \in Parameters /\ ~params.compensate /\ ~params.clear_cache
  /\ cache_bytes \in CacheSizes
  /\ cache_buf = NULL
  /\ values = NULL /\ samplecount = 0 /\ pos = 0
  /\ cyc_per_tick = 0 /\ e = 0
  /\ cyc = [hi |-> 0, lo |-> 0] /\ elapsed = 0 /\ ticks = 0 /\ time = 0
  /\ pc = "idle" /\ result = 0
  /\ samples = <<>>
-----------------------------------------------------------------------------
(* The parameters are set between two measurements. *)

init_fsecs ==
  /\ pc = "idle"
  /\ params' = FSECS
  /\ UNCHANGED <<cache_bytes, cache_buf, sampler, clock, pc, result>>

\* set_fcyc_k and its like.
set_fcyc ==
  /\ pc = "idle"
  /\ params' \in Parameters
  /\ UNCHANGED <<cache_bytes, cache_buf, sampler, clock, pc, result>>

set_fcyc_cache_size ==
  /\ pc = "idle"
  /\ cache_bytes' \in CacheSizes
  /\ cache_buf' = IF cache_bytes' # cache_bytes THEN NULL ELSE cache_buf
  /\ UNCHANGED <<params, sampler, clock, pc, result>>
-----------------------------------------------------------------------------
(* fcyc *)

\* A call of fcyc; init_sampler.
Start ==
  /\ pc = "idle"
  /\ values' = [q \in 1 .. kbest |-> 0]
  /\ samplecount' = 0
  /\ pc' = "clear"
  /\ UNCHANGED <<setting, cache_buf, pos, samples, clock, result>>

\* The buffer is allocated once, and read from end to end before each run.
\* Without memory the program ends.
clear ==
  /\ pc = "clear"
  /\ IF params.clear_cache /\ cache_buf = NULL
       THEN \/ cache_buf' = cache_bytes /\ pc' = "start"
            \/ UNCHANGED cache_buf /\ pc' = "exited"
       ELSE UNCHANGED cache_buf /\ pc' = "start"
  /\ UNCHANGED <<setting, sampler, clock, result>>

\* start_comp_counter has to callibrate first as long as nothing is known.
NeedsCallibration ==
  /\ pc = "start" /\ params.compensate /\ cyc_per_tick = 0
  /\ e' = 0 /\ pc' = "callibrate"
  /\ UNCHANGED <<setting, cache_buf, sampler, cyc_per_tick, cyc, elapsed,
                 ticks, time, result>>

\* Mutant: only windows that are recorded count.
CountPlausible ==
  /\ pc = "callibrate" /\ e < NEVENT
  /\ \E ev \in Events :
       LET cpt == ev.cycles \div ev.ticks
       IN  IF (cyc_per_tick = 0 \/ cyc_per_tick > cpt) /\ cpt > RECORDTHRESH
             THEN cyc_per_tick' = cpt /\ e' = e + 1
             ELSE UNCHANGED <<cyc_per_tick, e>>
  /\ UNCHANGED <<setting, cache_buf, sampler, cyc, elapsed, ticks, time, pc, result>>

\* A window in which the process time has advanced: its cycles per tick are
\* recorded when they are the fewest so far and plausible.
SawTick ==
  /\ pc = "callibrate" /\ e < NEVENT
  /\ \E ev \in Events :
       LET cpt == ev.cycles \div ev.ticks
       IN  cyc_per_tick' =
             IF (cyc_per_tick = 0 \/ cyc_per_tick > cpt) /\ cpt > RECORDTHRESH
             THEN cpt ELSE cyc_per_tick
  /\ e' = e + 1
  /\ UNCHANGED <<setting, cache_buf, sampler, cyc, elapsed, ticks, time, pc, result>>

\* start_counter, and the process time before it; callibrate is over.
StartCounter ==
  /\ \/ pc = "start" /\ (params.compensate => cyc_per_tick # 0)
     \/ pc = "callibrate" /\ e = NEVENT
  /\ \E c \in Readings : cyc' = access_counter(c)
  /\ e' = 0 /\ pc' = "run"
  /\ UNCHANGED <<setting, cache_buf, sampler, cyc_per_tick, elapsed, ticks,
                 time, result>>

\* The function runs; it may be interrupted by the timer.
RunFunction ==
  /\ pc = "run"
  /\ elapsed' \in Durations
  /\ ticks' \in Ticks
  /\ pc' = "read"
  /\ UNCHANGED <<setting, cache_buf, sampler, cyc_per_tick, e, cyc, time, result>>

\* get_counter: the processor's counter has gone on from where it was.
GetCounter ==
  /\ pc = "read"
  /\ time' = get_counter(cyc.hi * BASE + cyc.lo, elapsed)
  /\ pc' = IF params.compensate THEN "times" ELSE "add"
  /\ UNCHANGED <<setting, cache_buf, sampler, cyc_per_tick, e, cyc, elapsed,
                 ticks, result>>

\* get_comp_counter, once it has called get_counter: one more tick may come
\* before the process time is read.  The sample may be negative.
Compensate ==
  /\ pc = "times"
  /\ \E late \in {0, 1} : time' = time - (ticks + late) * cyc_per_tick
  /\ pc' = "add"
  /\ UNCHANGED <<setting, cache_buf, sampler, cyc_per_tick, e, cyc, elapsed,
                 ticks, result>>

\* Mutant: the sample is kept only if it is smaller than the smallest value.
OnlyIfBest ==
  /\ pc = "add"
  /\ samplecount' = samplecount + 1 /\ samples' = Append(samples, time)
  /\ LET kept == samplecount < kbest \/ time < values[1]
     IN  /\ pos' = IF ~kept THEN 1 ELSE IF samplecount < kbest THEN samplecount + 1
                                    ELSE kbest
         /\ values' = IF kept THEN [values EXCEPT ![pos'] = time] ELSE values
  /\ elapsed' = 0 /\ ticks' = 0 /\ time' = 0
  /\ pc' = "sort"
  /\ UNCHANGED <<setting, cache_buf, cyc_per_tick, e, cyc, result>>

\* add_sample: a place at the end while there is one, or else that of the
\* largest value, if the sample is smaller.  pos counts from 1.  The sample
\* itself was a local variable.
add_sample ==
  /\ pc = "add"
  /\ samplecount' = samplecount + 1 /\ samples' = Append(samples, time)
  /\ \/ /\ samplecount < kbest
        /\ pos' = samplecount + 1
        /\ values' = [values EXCEPT ![pos'] = time]
     \/ /\ samplecount >= kbest /\ time < values[kbest]
        /\ pos' = kbest
        /\ values' = [values EXCEPT ![pos'] = time]
     \/ /\ samplecount >= kbest /\ time >= values[kbest]
        /\ pos' = 1
        /\ UNCHANGED values
  /\ elapsed' = 0 /\ ticks' = 0 /\ time' = 0
  /\ pc' = "sort"
  /\ UNCHANGED <<setting, cache_buf, cyc_per_tick, e, cyc, result>>

\* Its insertion sort: one exchange.
Exchange ==
  /\ pc = "sort" /\ pos > 1 /\ values[pos - 1] > values[pos]
  /\ values' = [values EXCEPT ![pos - 1] = values[pos], ![pos] = values[pos - 1]]
  /\ pos' = pos - 1
  /\ UNCHANGED <<setting, cache_buf, samplecount, samples, clock, pc, result>>

\* (1 + epsilon) * values[0] >= values[kbest-1]: never if values[0] is negative
\* and epsilon is not 0.
has_converged ==
  samplecount >= kbest /\ (100 + EPSILON) * values[1] >= 100 * values[kbest]

Sorted == pc = "sort" /\ (pos > 1 => values[pos - 1] <= values[pos])

\* The head of the do loop again.
Again ==
  /\ Sorted
  /\ ~has_converged /\ samplecount < params.maxsamples
  /\ pos' = 0 /\ pc' = "clear"
  /\ UNCHANGED <<setting, cache_buf, values, samplecount, samples, clock, result>>

Return ==
  /\ Sorted
  /\ has_converged \/ samplecount >= params.maxsamples
  /\ result' = values[1] /\ values' = NULL
  /\ pos' = 0 /\ pc' = "done"
  /\ UNCHANGED <<setting, cache_buf, samplecount, samples, clock>>

\* The caller has the result and will time something else.
Done ==
  /\ pc = "done"
  /\ result' = 0 /\ samples' = <<>> /\ pc' = "idle"
  /\ UNCHANGED <<setting, cache_buf, values, samplecount, pos, clock>>

Measure ==
  \/ clear \/ NeedsCallibration \/ SawTick \/ StartCounter \/ RunFunction
  \/ GetCounter \/ Compensate \/ add_sample \/ Exchange \/ Again \/ Return

Next == init_fsecs \/ set_fcyc \/ set_fcyc_cache_size \/ Start \/ Measure \/ Done

Spec == Init /\ [][Next]_vars

\* The process runs and its time advances; the function that is timed ends.
FairSpec == Spec /\ WF_vars(Measure)
-----------------------------------------------------------------------------
(* Properties *)

\* fcyc has begun and not returned.
Measuring == pc \notin {"idle", "done"}

\* How many elements of values are samples.
held == IF samplecount < kbest THEN samplecount ELSE kbest

TypeOK ==
  /\ params \in Parameters /\ cache_bytes \in CacheSizes
  /\ cache_buf \in CacheSizes \union {NULL}
  /\ pc \in {"idle", "clear", "start", "callibrate", "run", "read", "times",
             "add", "sort", "done", "exited"}
  /\ Measuring => values \in [1 .. kbest -> Int]
  /\ samplecount \in Nat /\ samples \in Seq(Int)
  /\ pos \in Nat /\ (pc = "sort" => pos \in 1 .. held)
  /\ cyc_per_tick \in Nat /\ e \in 0 .. NEVENT
  /\ cyc \in [hi : Unsigned, lo : Unsigned]
  /\ elapsed \in Counter /\ ticks \in Nat
  /\ time \in Int /\ result \in Int

\* get_counter returns the cycles that have passed since start_counter,
\* wherever the counter was then, and also if its low word, or all of it, has
\* begun again meanwhile.
ElapsedExact ==
  pc = "times" \/ (pc = "add" /\ ~params.compensate) => time = elapsed

\* v is the q-th smallest of the first n samples.
IsSmallest(v, q, n) ==
  /\ Cardinality({s \in 1 .. n : samples[s] < v}) < q
  /\ q <= Cardinality({s \in 1 .. n : samples[s] <= v})

\* Has fcyc enough with n samples?
Suffices(n) ==
  \/ n >= params.maxsamples
  \/ n >= kbest /\ \E v, w \in 1 .. n :
       /\ IsSmallest(samples[v], 1, n) /\ IsSmallest(samples[w], kbest, n)
       /\ (100 + EPSILON) * samples[v] >= 100 * samples[w]

\* The K-best scheme: fcyc stops at the first sample that makes the kbest
\* smallest of all samples close to each other, or at the last one allowed,
\* and returns the smallest of all.
ResultBest ==
  pc = "done" =>
    /\ IsSmallest(result, 1, Len(samples))
    /\ \A n \in 1 .. Len(samples) : Suffices(n) <=> n = Len(samples)

\* Every call of fcyc returns, or the program ends for want of memory: also
\* if the times do not come close to each other.
FcycReturns == pc = "clear" ~> pc \in {"done", "exited"}
=============================================================================
