---------------------------- MODULE VisitorEvents ----------------------------
(***************************************************************************)
(* The analytics of the visitors: the queue of events of a page, flushed   *)
(* by a timer, by its length and when the page closes; and the batches on  *)
(* their way, whose answer comes before the server writes them. Events are  *)
(* numbered as they happen; what one says, whose it is, and the third      *)
(* party's copy of it are left out.                                        *)
(* Source: lib/analytics/client.ts, analytics.controller.ts,               *)
(* analytics-ingest.service.ts                                             *)
(***************************************************************************)
EXTENDS Naturals, FiniteSets, SequencesExt

CONSTANTS MaxEvents,    \* bound: events that happen
          MaxBatch,     \* MAX_BATCH
          MaxQueue,     \* three batches, in the code
          Flights,      \* bound: numbers of the batches on their way at the same time
          MaxNetFaults, \* bound: batches that fail, answers that are lost
          MaxCloses     \* bound: pages closed

ASSUME EventAssumption ==
    /\ MaxEvents \in Nat /\ MaxBatch \in Nat \ {0} /\ MaxQueue \in Nat /\ MaxQueue >= MaxBatch
    /\ MaxNetFaults \in Nat
    /\ IsFiniteSet(Flights) /\ Flights \subseteq Nat /\ MaxCloses \in Nat

VARIABLES
    tracked,   \* events so far
    queue,     \* of the page that is open
    flushTimer,
    flight,    \* the batches on their way
    eventRows,   \* AnalyticsEvent: how many rows each event has
    faults, closes,
    forgotten  \* history: events dropped by a page that closed, a cut or the server

eventVars == <<tracked, queue, flushTimer, flight, eventRows, faults, closes, forgotten>>

NoFlight == [step |-> "none"]
Events == 1 .. MaxEvents
Batch(f) == IF flight[f] = NoFlight THEN <<>> ELSE flight[f].batch

EventTypeOK ==
    /\ tracked \in 0 .. MaxEvents
    /\ queue \in Seq(Events) /\ flushTimer \in BOOLEAN
    /\ \A f \in Flights : Len(Batch(f)) <= MaxBatch
    /\ eventRows \in [Events -> Nat] /\ forgotten \subseteq Events

EventInit ==
    /\ tracked = 0 /\ queue = <<>> /\ flushTimer = FALSE
    /\ flight = [f \in Flights |-> NoFlight] /\ eventRows = [e \in Events |-> 0]
    /\ faults = 0 /\ closes = 0 /\ forgotten = {}

-----------------------------------------------------------------------------
(* The page. *)

Least(n, m) == IF n < m THEN n ELSE m
Leading(s, n) == SubSeq(s, 1, Least(n, Len(s)))
Beyond(s, n) == SubSeq(s, n + 1, Len(s))

\* flushQueue(q), up to its await: at most one batch leaves, and takes the lowest number.
Flush(q) ==
    IF q = <<>> THEN queue' = q /\ UNCHANGED flight
    ELSE /\ queue' = Beyond(q, MaxBatch)
         /\ \E f \in Flights :
               /\ flight[f] = NoFlight /\ \A g \in Flights : g < f => flight[g] # NoFlight
               /\ flight' = [flight EXCEPT ![f] = [step |-> "sent", page |-> closes,
                                                   batch |-> Leading(q, MaxBatch)]]

\* Mutant: a full queue waits for its timer, which nobody has set.
TrackQuiet ==
    /\ tracked < MaxEvents /\ tracked' = tracked + 1
    /\ queue' = Append(queue, tracked + 1)
    /\ flushTimer' = (flushTimer \/ Len(queue) + 1 < MaxBatch)
    /\ UNCHANGED <<flight, eventRows, faults, closes, forgotten>>

\* trackAnalytics: a full queue is flushed at once, and otherwise the timer is set.
Track ==
    LET q == Append(queue, tracked + 1) IN
    /\ tracked < MaxEvents /\ tracked' = tracked + 1
    /\ IF Len(q) >= MaxBatch THEN Flush(q) /\ UNCHANGED flushTimer
       ELSE queue' = q /\ flushTimer' = TRUE /\ UNCHANGED flight
    /\ UNCHANGED <<eventRows, faults, closes, forgotten>>

TimerFires ==
    /\ flushTimer /\ flushTimer' = FALSE
    /\ Flush(queue)
    /\ UNCHANGED <<tracked, eventRows, faults, closes, forgotten>>

\* beforeunload flushes one batch; the rest goes with the page. Another page opens.
Close ==
    /\ closes < MaxCloses /\ closes' = closes + 1
    /\ IF queue = <<>> THEN UNCHANGED <<queue, flight, forgotten>>
       ELSE /\ queue' = <<>> /\ forgotten' = forgotten \cup ToSet(Beyond(queue, MaxBatch))
            /\ \E f \in Flights :
                  /\ flight[f] = NoFlight
                  /\ \A g \in Flights : g < f => flight[g] # NoFlight
                  /\ flight' = [flight EXCEPT ![f] = [step |-> "sent", page |-> closes,
                                                      batch |-> Leading(queue, MaxBatch)]]
    /\ flushTimer' = FALSE
    /\ UNCHANGED <<tracked, eventRows, faults>>

-----------------------------------------------------------------------------
(* The batches. *)

\* Mutant: what was put into the queue meanwhile is dropped.
RestoredAlone(batch) == batch
\* Mutant: the queue grows without a bound.
RestoredAll(batch) == batch \o queue
\* The batch goes back in front of the queue, which is cut to MaxQueue.
Restored(batch) == Leading(batch \o queue, MaxQueue)

\* fetch fails, before the server had the batch or after: nothing sets the timer again.
FlightFails(f) ==
    /\ flight[f].step \in {"sent", "had"} /\ faults < MaxNetFaults
    /\ faults' = faults + 1
    /\ flight' = [flight EXCEPT ![f] = IF @.step = "had" THEN [@ EXCEPT !.step = "lost"]
                                       ELSE NoFlight]
    /\ IF flight[f].page = closes
       THEN /\ queue' = Restored(flight[f].batch)
            /\ forgotten' = forgotten \cup
                 ToSet(Beyond(flight[f].batch \o queue, MaxQueue))
       ELSE /\ UNCHANGED queue
            /\ forgotten' = forgotten \cup ToSet(flight[f].batch)
    /\ UNCHANGED <<tracked, flushTimer, eventRows, closes>>

\* The server has the batch; ingestBatch lets it be written and answers.
Ingest(f) ==
    /\ flight[f].step = "sent"
    /\ flight' = [flight EXCEPT ![f].step = "had"]
    /\ UNCHANGED <<tracked, queue, flushTimer, eventRows, faults, closes, forgotten>>

\* persistBatch: one createMany, whose failure is logged.
Persist(f) ==
    /\ flight[f].step \in {"had", "lost"}
    /\ flight' = [flight EXCEPT ![f] = NoFlight]
    /\ \/ /\ eventRows' = [e \in Events |-> IF e \in ToSet(flight[f].batch)
                                          THEN eventRows[e] + 1 ELSE eventRows[e]]
          /\ UNCHANGED <<faults, forgotten>>
       \/ /\ faults < MaxNetFaults /\ faults' = faults + 1
          /\ forgotten' = forgotten \cup ToSet(flight[f].batch)
          /\ UNCHANGED eventRows
    /\ UNCHANGED <<tracked, queue, flushTimer, closes>>

EventNext ==
    \/ Track \/ TimerFires \/ Close
    \/ \E f \in Flights : FlightFails(f) \/ Ingest(f) \/ Persist(f)

EventSpec == EventInit /\ [][EventNext]_eventVars

-----------------------------------------------------------------------------
(* Properties. *)

\* An event that happened is queued, on its way or written, unless a page that closed, the
\* cut of a long queue or a failed write dropped it; and it is never queued twice.
NoneVanishes ==
    \A e \in 1 .. tracked :
        \/ e \in ToSet(queue) \cup forgotten \/ eventRows[e] > 0
        \/ \E f \in Flights : e \in ToSet(Batch(f))

QueuedOnce == \A i, j \in 1 .. Len(queue) : queue[i] = queue[j] => i = j

\* However batches fail, the queue stays within its bound.
QueueBounded == Len(queue) <= MaxQueue

\* An event is written twice only when the answer of its batch was lost.
TwiceNeedsFault == \A e \in Events : eventRows[e] <= 1 + faults

\* What is queued leaves: without a failure, after which the queue rests until the next
\* event, a timer runs for it.
TimerRuns == queue # <<>> /\ faults = 0 => flushTimer

\* The events of the visitors reach the reports as the code promises.
EventsSound ==
    /\ EventTypeOK /\ NoneVanishes /\ QueuedOnce /\ QueueBounded /\ TwiceNeedsFault
    /\ TimerRuns
=============================================================================
