------------------------------- MODULE Sensors -------------------------------
(***************************************************************************)
(* The sensors HAL (libsensors/libsensor_lsm3dh.cpp): poll reads the input *)
(* device of the accelerometer event by event.  An event carries one axis, *)
(* and only if its value has changed; a sync event ends a reading.         *)
(* SensorService polls from one thread, which has g_lock all the time.     *)
(***************************************************************************)
EXTENDS Naturals, Sequences, FiniteSets

CONSTANTS
    Axes, Values,   \* the axes and the values they take
    Count,          \* size of the array SensorService gives to poll
    QueueSize       \* events the kernel keeps for the reader

ASSUME SensorAssumption ==
    /\ 0 \in Values
    /\ Count \in Nat \ {0}
    /\ IsFiniteSet(Axes)
    /\ QueueSize \in Nat /\ QueueSize > Cardinality(Axes) + 2

VARIABLES
    axes,           \* the kernel's last reported value of each axis
    queue,          \* input events; a sync event carries the reading, for checking
    raw,            \* ctx->raw_data
    polling,        \* poll is running
    filled,         \* its loop variable i
    sample,         \* the element of data filled last, and
    reading,        \* what the accelerometer had read when it was reported
    stale,          \* history: axes whose last event poll never got: the kernel
                    \* dropped it, or reported it before open_sensors
    trusted         \* history: those not stale when the sample was taken

sensorVars == <<axes, queue, raw, polling, filled, sample, reading, stale, trusted>>

Readings == [Axes -> Values]
AxisEvents == [type : {"abs"}, code : Axes, value : Values]
SyncEvents == [type : {"syn"}, read : Readings, lost : SUBSET Axes]

SensorTypeOK ==
    /\ {axes, raw, sample, reading} \subseteq Readings
    /\ queue \in Seq(AxisEvents \union SyncEvents) /\ Len(queue) < QueueSize
    /\ polling \in BOOLEAN
    /\ filled \in 0..(Count - 1)
    /\ stale \subseteq Axes /\ trusted \subseteq Axes

Zero == [a \in Axes |-> 0]
(* open_sensors clears raw_data and does not ask for the values the kernel *)
(* has, which a reader before it may have left at anything.                *)
SensorInit ==
    /\ axes \in Readings /\ reading = axes
    /\ raw = Zero /\ sample = Zero
    /\ queue = << >> /\ polling = FALSE /\ filled = 0
    /\ stale = {a \in Axes : axes[a] # raw[a]} /\ trusted = Axes \ stale

-----------------------------------------------------------------------------
\* the events of reading r: the axes that changed, in some order, and the sync
Packets(r) ==
    LET changed == {a \in Axes : r[a] # axes[a]} IN
    {[k \in DOMAIN order |-> [type |-> "abs", code |-> order[k], value |-> r[order[k]]]]
        \o <<[type |-> "syn", read |-> r, lost |-> {}]>> :
        order \in {f \in [1..Cardinality(changed) -> changed] :
                     \A a \in changed : \E k \in DOMAIN f : f[k] = a}}

\* the axes that events tell of, or told before they were dropped themselves
Told(events) ==
    UNION {IF events[k].type = "abs" THEN {events[k].code} ELSE events[k].lost :
             k \in DOMAIN events}

\* the input core: a reading like the last one reports nothing.  When the
\* queue is full the kernel drops it, for a SYN_DROPPED, which is a sync event
\* too, and the events from the one that did not fit
report ==
    \E r \in Readings \ {axes} : \E packet \in Packets(r) :
      LET all == queue \o packet IN
      /\ axes' = r
      /\ queue' = IF Len(all) < QueueSize THEN all
                  ELSE <<[type |-> "syn", read |-> axes,
                          lost |-> Told(SubSeq(all, 1, QueueSize - 1))]>>
                       \o SubSeq(all, QueueSize, Len(all))
      /\ UNCHANGED <<raw, polling, filled, sample, reading, stale, trusted>>

poll ==
    /\ ~ polling
    /\ polling' = TRUE /\ filled' = 0
    /\ UNCHANGED <<axes, queue, raw, sample, reading, stale, trusted>>

\* Mutant: each reading starts from nothing
get_axis_only ==
    /\ polling /\ queue # << >> /\ Head(queue).type = "abs"
    /\ raw' = [Zero EXCEPT ![Head(queue).code] = Head(queue).value]
    /\ queue' = Tail(queue) /\ stale' = stale \ {Head(queue).code}
    /\ UNCHANGED <<axes, polling, filled, sample, reading, trusted>>

\* get_events_val reads the event of an axis
get_axis ==
    /\ polling /\ queue # << >> /\ Head(queue).type = "abs"
    /\ raw' = [raw EXCEPT ![Head(queue).code] = Head(queue).value]
    /\ queue' = Tail(queue) /\ stale' = stale \ {Head(queue).code}
    /\ UNCHANGED <<axes, polling, filled, sample, reading, trusted>>

\* it reads a sync event: an element of data is filled, and the last one
\* ends poll
get_sync ==
    /\ polling /\ queue # << >> /\ Head(queue).type = "syn"
    /\ sample' = raw /\ reading' = Head(queue).read
    /\ queue' = Tail(queue)
    /\ stale' = stale \union Head(queue).lost /\ trusted' = Axes \ stale'
    /\ IF filled + 1 < Count THEN filled' = filled + 1 /\ UNCHANGED polling
       ELSE filled' = 0 /\ polling' = FALSE
    /\ UNCHANGED <<axes, raw>>

SensorNext == report \/ poll \/ get_axis \/ get_sync
-----------------------------------------------------------------------------
(* Properties *)

(* Each element of data is what the accelerometer read, although events     *)
(* carry only what changed and a reading may be spread over several polls:  *)
(* the axes without an event keep their value.  An axis that was not zero   *)
(* when the device was opened is delivered as zero until its value changes, *)
(* and after a full queue an axis is wrong until it changes again; only     *)
(* such axes are.                                                           *)
SampleIsReading == \A a \in trusted : sample[a] = reading[a]
=============================================================================
