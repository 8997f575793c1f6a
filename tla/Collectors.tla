----------------------------- MODULE Collectors -----------------------------
(***************************************************************************)
(* How the agent turns counters that only grow into the change over the    *)
(* time since the last reading (sampler.rs).  The collections of one       *)
(* metric share its sampler: normally one runs at a time, two when the     *)
(* metric leaves the agent's list and comes back while the first one still *)
(* runs, on threads of their own.  The sampler's lock is held for one      *)
(* statement at a time.  What is counted (cpu times, pages, bytes of a     *)
(* disk or an interface), its resets, and devices that come and go belong  *)
(* to the host.                                                            *)
(***************************************************************************)
EXTENDS Naturals, Sequences

CONSTANTS
    Counters,       \* the devices of a DeviceCounterRate, the fields of a CpuTimeShare
    Collections,
    StartCount,     \* what the counters show when the agent starts
    MaxTime,        \* bound: seconds, FIRST_GAP each
    Null

ASSUME CollectorsAssumption == StartCount \in Nat /\ MaxTime \in Nat

VARIABLES
    perDevice,      \* DeviceCounterRate, or a host-wide collector (CounterRate, CpuTimeShare)
    history,        \* by second: the counters, what was counted up to it, how often each began anew
    present,
    baseline,       \* Sampler.last
    collections

samplerVars == <<perDevice, history, present, baseline, collections>>

Time == Len(history)
From(count) == [c \in Counters |-> count]

SamplerInit ==
    /\ perDevice \in BOOLEAN
    /\ history = <<[counters |-> From(StartCount), counted |-> From(0), resets |-> From(0)]>>
    /\ present = Counters
    /\ baseline = Null
    /\ collections = [k \in Collections |-> [stage |-> "idle", reading |-> Null]]

\* A second passes on the host.
SecondPasses ==
    /\ Time < MaxTime
    /\ \E grow \in [Counters -> 0..1], reset \in [Counters -> 0..1] :
          history' = Append(history,
              [counters |-> [c \in Counters |->
                   grow[c] + (IF reset[c] = 1 THEN 0 ELSE history[Time].counters[c])],
               counted |-> [c \in Counters |-> history[Time].counted[c] + grow[c]],
               resets |-> [c \in Counters |-> history[Time].resets[c] + reset[c]]])
    /\ present' \in IF perDevice THEN SUBSET Counters ELSE {Counters}
    /\ UNCHANGED <<perDevice, baseline, collections>>

-----------------------------------------------------------------------------

Sample == [at |-> Time, values |-> [c \in present |-> history[Time].counters[c]]]

\* Counters in both samples that did not go backwards.
Comparable(before, now) ==
    {c \in DOMAIN before.values \cap DOMAIN now.values : before.values[c] <= now.values[c]}

\* Mutant: a device without a baseline is counted from zero.
MutantChanges(before, now) ==
    [c \in DOMAIN now.values |->
        IF c \in Comparable(before, now) THEN now.values[c] - before.values[c] ELSE now.values[c]]

Changes(before, now) ==
    [c \in Comparable(before, now) |-> now.values[c] - before.values[c]]

\* `diff` returned None: one counter of a host-wide metric went backwards.  (The
\* shares of cpu_time.rs look at the two counters they are made of only, their
\* state's and the total's: those are its Counters.)
Backwards(before, now) == ~perDevice /\ Comparable(before, now) # Counters

\* A reading covers the time from one sample to the other; without a device
\* there is nothing to send (reading_values).
Reading(before, now) ==
    IF Comparable(before, now) = {} THEN Null
    ELSE [at |-> now.at, seconds |-> now.at - before.at, changes |-> Changes(before, now)]

Ended(reading) == [stage |-> "idle", reading |-> reading]

\* pair: the baseline is taken out; without one, a first sample is taken and
\* the gap begins.
Take(k) ==
    /\ collections[k].stage \in {"idle", "again"}
    /\ baseline' = Null
    /\ collections' = [collections EXCEPT ![k] =
          [stage |-> IF baseline = Null THEN "gap" ELSE "taken",
           retried |-> collections[k].stage = "again",
           before |-> IF baseline = Null THEN Sample ELSE baseline]]
    /\ UNCHANGED <<perDevice, history, present>>

\* The second sample.
SecondSampleDue(k) ==
    \/ collections[k].stage = "taken"
    \/ collections[k].stage = "gap" /\ Time > collections[k].before.at

Read(k) ==
    /\ SecondSampleDue(k)
    /\ collections' = [collections EXCEPT ![k] =
          [stage |-> "read", retried |-> @.retried, before |-> @.before, now |-> Sample]]
    /\ UNCHANGED <<perDevice, history, present, baseline>>

\* A sample cannot be read: no reading, and no baseline for the next.
FailRead(k) ==
    /\ \/ SecondSampleDue(k)
       \/ collections[k].stage \in {"idle", "again"} /\ baseline = Null
    /\ collections' = [collections EXCEPT ![k] = Ended(Null)]
    /\ UNCHANGED <<perDevice, history, present, baseline>>

\* The sample becomes the baseline, and is compared.
Store(k) ==
    LET task == collections[k] IN
    /\ task.stage = "read"
    /\ baseline' = task.now
    /\ collections' = [collections EXCEPT ![k] =
          IF ~Backwards(task.before, task.now) THEN Ended(Reading(task.before, task.now))
          ELSE IF task.retried THEN Ended(Null)
          ELSE [stage |-> "drop"]]
    /\ UNCHANGED <<perDevice, history, present>>

\* change: a counter went backwards, so the baseline is thrown away.
Drop(k) ==
    /\ collections[k].stage = "drop"
    /\ baseline' = Null
    /\ collections' = [collections EXCEPT ![k] = [stage |-> "again"]]
    /\ UNCHANGED <<perDevice, history, present>>

-----------------------------------------------------------------------------

SamplerNext ==
    \/ SecondPasses
    \/ \E k \in Collections : Take(k) \/ Read(k) \/ FailRead(k) \/ Store(k) \/ Drop(k)

SamplerSpec == SamplerInit /\ [][SamplerNext]_samplerVars

-----------------------------------------------------------------------------
(* Properties. *)

IsSample(sample) ==
    /\ sample.at \in 1..Time
    /\ DOMAIN sample.values \in SUBSET Counters
    /\ \A c \in DOMAIN sample.values : sample.values[c] = history[sample.at].counters[c]

IsReading(reading) ==
    /\ reading.at \in 1..Time
    /\ reading.seconds \in 0..(reading.at - 1)
    /\ DOMAIN reading.changes \in (SUBSET Counters) \ {{}}
    /\ \A c \in DOMAIN reading.changes : reading.changes[c] \in Nat

IsCollection(task) ==
    /\ task.stage = "idle" => task.reading = Null \/ IsReading(task.reading)
    /\ task.stage \in {"gap", "taken", "read"} => task.retried \in BOOLEAN /\ IsSample(task.before)
    /\ task.stage = "read" => IsSample(task.now) /\ task.before.at <= task.now.at

\* Type correctness; a sample holds the counters of its time, and is compared
\* with an older one.
SamplerTypeOK ==
    /\ perDevice \in BOOLEAN
    /\ history \in Seq([counters : [Counters -> Nat], counted : [Counters -> Nat], resets : [Counters -> Nat]])
    /\ present \in SUBSET Counters
    /\ baseline = Null \/ IsSample(baseline)
    /\ DOMAIN collections = Collections
    /\ \A k \in Collections :
          /\ collections[k].stage \in {"idle", "gap", "taken", "read", "drop", "again"}
          /\ IsCollection(collections[k])

\* A reading is what was counted in the time it claims to cover, or less when
\* the counter began anew in it; whatever other collection of the metric took
\* or replaced the baseline meanwhile, a reset or a device that vanished never
\* shows as a rate that did not occur ("each reading covers the whole time
\* since the last one", sampler.rs:15).
ReadingIsWhatWasCounted ==
    \A k \in Collections :
        collections[k].stage = "idle" /\ collections[k].reading # Null =>
            LET reading == collections[k].reading
                from == history[reading.at - reading.seconds]
                to == history[reading.at]
            IN \A c \in DOMAIN reading.changes :
                  /\ reading.changes[c] <= to.counted[c] - from.counted[c]
                  /\ to.resets[c] = from.resets[c] =>
                        reading.changes[c] = to.counted[c] - from.counted[c]
=============================================================================
