--------------------------- MODULE PipelineProofs ---------------------------
(***************************************************************************)
(* Theorems about Pipeline, for any number of workers, keys, scores,       *)
(* frames and events, any window, cooldown and kind of handler: the        *)
(* bookkeeping of triggers, the refinement of Dispatch, and in which order *)
(* and how many triggers are queued.                                       *)
(***************************************************************************)
EXTENDS Pipeline, FiniteSetTheorems, TLAPS

-----------------------------------------------------------------------------
(* The bookkeeping of the pool.                                            *)

\* The finally block is where outcome is known.
OutcomeInv == outcome = "none" <=> ~Cancelled

\* A worker holds a trigger exactly while it is busy.
JobInv == \A w \in Workers : wpc[w] = "busy" <=> job[w] # NoJob

\* A stopped worker means the finally block was reached.
StoppedInv == \A w \in Workers : wpc[w] = "stopped" => Cancelled

CountInv == IsFiniteSet(queue) /\ UnfinishedCount

PoolInv == TypeOK /\ OutcomeInv /\ JobInv /\ StoppedInv /\ CountInv

-----------------------------------------------------------------------------
(* Lemmas about the data.                                                  *)

\* Whatever the detectors report is a list of well-typed events.
LEMMA DetectionsType ==
    ASSUME rolling_frames \subseteq Nat
    PROVE  Detections \subseteq Seq(AnomalyEvent)
<1> DEFINE Reports == [key : Keys, ts : rolling_frames, score : Scores]
<1>1. Reports \subseteq AnomalyEvent
  BY DEF AnomalyEvent
<1>2. ASSUME NEW n \in 0..MaxBatch, NEW f \in [1..n -> Reports]
      PROVE  f \in Seq(AnomalyEvent)
  <2>1. f \in [1..n -> AnomalyEvent]
    BY <1>1
  <2>2. n \in Nat
    BY SettingsAssumption
  <2>3. QED
    BY <2>1, <2>2
<1>3. QED
  BY <1>2 DEF Detections

\* The next element of a list of events, and the rest of it.
LEMMA BatchType ==
    ASSUME batch \in Seq(AnomalyEvent), batch # <<>>
    PROVE  Head(batch) \in AnomalyEvent /\ Tail(batch) \in Seq(AnomalyEvent)
  OBVIOUS

LEMMA TriggerType ==
    ASSUME NEW e \in AnomalyEvent, seq \in Nat, frames \in Nat
    PROVE  /\ AsTrigger(e) \in Trigger
           /\ AsTrigger(e).seq = seq
           /\ AsTrigger(e).key = e.key
           /\ AsTrigger(e).ts = e.ts
  BY DEF AsTrigger, Trigger, AnomalyEvent

\* No trigger is the mark of a worker without one.
LEMMA NoJobIsNoTrigger == \A t \in Trigger : t # NoJob
<1> SUFFICES ASSUME NEW t \in Trigger PROVE t # NoJob
  OBVIOUS
<1>1. t.seq \in Nat
  BY DEF Trigger
<1>2. NoJob.seq = -1
  BY DEF NoJob
<1>3. QED
  BY <1>1, <1>2

LEMMA BusyFinite == IsFiniteSet(Busy) /\ Cardinality(Busy) \in Nat
<1>1. Busy \in SUBSET Workers
  BY DEF Busy
<1>2. QED
  BY <1>1, PoolAssumption, FS_Subset, FS_CardinalityType

-----------------------------------------------------------------------------
(* What a worker does to the count when it takes its next trigger.         *)

LEMMA TakeNextPool ==
    ASSUME NEW w \in Workers, TypeOK, IsFiniteSet(queue), TakeNext(w)
    PROVE  /\ queue' \subseteq queue /\ IsFiniteSet(queue')
           /\ wpc' \in [Workers -> {"idle", "busy", "stopped"}]
           /\ job' \in [Workers -> Trigger \cup {NoJob}]
           /\ wpc'[w] \in {"idle", "busy"}
           /\ wpc'[w] = "busy" <=> job'[w] # NoJob
           /\ \A v \in Workers \ {w} : wpc'[v] = wpc[v] /\ job'[v] = job[v]
           /\ Cardinality(queue') + Cardinality(Busy') =
                Cardinality(queue) + Cardinality(Busy \ {w})
<1>1. IsFiniteSet(Busy \ {w}) /\ Cardinality(Busy \ {w}) \in Nat
  BY BusyFinite, FS_RemoveElement, FS_CardinalityType
<1>2. Cardinality(queue) \in Nat
  BY FS_CardinalityType
<1>3. CASE /\ queue = {}
           /\ wpc' = [wpc EXCEPT ![w] = "idle"]
           /\ job' = [job EXCEPT ![w] = NoJob]
           /\ UNCHANGED queue
  <2>1. Busy' = Busy \ {w}
    BY <1>3 DEF Busy, TypeOK
  <2>2. QED
    BY <1>3, <2>1 DEF TypeOK
<1>4. ASSUME NEW t \in queue,
             queue' = queue \ {t},
             wpc' = [wpc EXCEPT ![w] = "busy"],
             job' = [job EXCEPT ![w] = t]
      PROVE  /\ queue' \subseteq queue /\ IsFiniteSet(queue')
             /\ wpc' \in [Workers -> {"idle", "busy", "stopped"}]
             /\ job' \in [Workers -> Trigger \cup {NoJob}]
             /\ wpc'[w] \in {"idle", "busy"}
             /\ wpc'[w] = "busy" <=> job'[w] # NoJob
             /\ \A v \in Workers \ {w} : wpc'[v] = wpc[v] /\ job'[v] = job[v]
             /\ Cardinality(queue') + Cardinality(Busy') =
                  Cardinality(queue) + Cardinality(Busy \ {w})
  <2>1. Busy' = (Busy \ {w}) \cup {w}
    BY <1>4 DEF Busy, TypeOK
  <2>2. Cardinality(Busy') = Cardinality(Busy \ {w}) + 1
    BY <1>1, <2>1, FS_AddElement
  <2>3. IsFiniteSet(queue') /\ Cardinality(queue') = Cardinality(queue) - 1
    BY <1>4, FS_RemoveElement
  <2>4. t \in Trigger /\ t # NoJob
    BY <1>4, NoJobIsNoTrigger DEF TypeOK
  <2>5. job'[w] = t /\ wpc'[w] = "busy"
    BY <1>4 DEF TypeOK
  <2>6. Cardinality(queue') + Cardinality(Busy') =
          Cardinality(queue) + Cardinality(Busy \ {w})
    BY <1>1, <1>2, <2>2, <2>3
  <2>7. /\ wpc' \in [Workers -> {"idle", "busy", "stopped"}]
        /\ job' \in [Workers -> Trigger \cup {NoJob}]
        /\ \A v \in Workers \ {w} : wpc'[v] = wpc[v] /\ job'[v] = job[v]
    BY <1>4, <2>4 DEF TypeOK
  <2>8. QED
    BY <1>4, <2>3, <2>4, <2>5, <2>6, <2>7
<1>5. QED
  BY <1>3, <1>4 DEF TakeNext

\* Steps of the main task that leave queue and workers alone.
LEMMA QueueUntouched ==
    ASSUME CountInv, UNCHANGED <<queueVars, workerVars>>
    PROVE  CountInv'
<1>1. Busy' = Busy
  BY DEF Busy, workerVars
<1>2. QED
  BY <1>1 DEF CountInv, UnfinishedCount, queueVars

-----------------------------------------------------------------------------
THEOREM PoolInvInit == Init => PoolInv
<1> SUFFICES ASSUME Init PROVE PoolInv
  OBVIOUS
<1>1. TypeOK
  BY DEF Init, TypeOK
<1>2. Busy = {}
  BY DEF Init, Busy
<1>3. CountInv
  BY <1>2, FS_EmptySet DEF Init, CountInv, UnfinishedCount
<1>4. OutcomeInv /\ JobInv /\ StoppedInv
  BY DEF Init, OutcomeInv, JobInv, StoppedInv, Cancelled
<1>5. QED
  BY <1>1, <1>3, <1>4 DEF PoolInv

\* Every step of the main task that leaves queue and workers alone.
LEMMA MainStepPool ==
    ASSUME PoolInv,
           \/ NextFrame \/ FrameEmitted \/ Detected \/ Suppress \/ Announce
           \/ BatchConsumed \/ StreamEnded \/ Joined \/ Raise \/ CancelMain
           \/ WorkersGathered
    PROVE  PoolInv'
<1> USE DEF PoolInv
<1>1. CountInv'
  BY QueueUntouched
     DEF NextFrame, FrameEmitted, Detected, Suppress, Announce, BatchConsumed,
         StreamEnded, Joined, Raise, CancelMain, WorkersGathered, LeaveTry
<1>2. OutcomeInv' /\ JobInv' /\ StoppedInv'
  BY DEF OutcomeInv, JobInv, StoppedInv, Cancelled, NextFrame, FrameEmitted,
         Detected, Suppress, Announce, BatchConsumed, StreamEnded, Joined,
         Raise, CancelMain, WorkersGathered, LeaveTry, workerVars, mainVars
<1>3. TypeOK'
  <2> USE DEF TypeOK, mainVars, streamVars, queueVars, workerVars, historyVars
  <2>1. CASE NextFrame
    BY <2>1, SettingsAssumption DEF NextFrame
  <2>2. CASE FrameEmitted
    BY <2>2 DEF FrameEmitted, Ingest
  <2>3. CASE Detected
    BY <2>3, DetectionsType DEF Detected
  <2>4. CASE Suppress
    BY <2>4, BatchType DEF Suppress
  <2>5. CASE Announce
    <3>1. Head(batch) \in AnomalyEvent
      BY <2>5, BatchType DEF Announce
    <3>2. announced' \subseteq Trigger
      BY <2>5, <3>1, TriggerType DEF Announce
    <3>3. dedup_cache' \in [Keys -> Nat \cup {Never}]
      BY <2>5, <3>1 DEF Announce, Remember, AnomalyEvent
    <3>4. QED
      BY <2>5, <3>2, <3>3 DEF Announce
  <2>6. CASE BatchConsumed \/ StreamEnded \/ WorkersGathered
    BY <2>6 DEF BatchConsumed, StreamEnded, WorkersGathered
  <2>7. CASE Joined \/ Raise \/ CancelMain
    BY <2>7 DEF Joined, Raise, CancelMain, LeaveTry
  <2>8. QED
    BY <2>1, <2>2, <2>3, <2>4, <2>5, <2>6, <2>7
<1>4. QED
  BY <1>1, <1>2, <1>3

\* Enqueue needs to know that the trigger it puts is a new one.
LEMMA EnqueuePool ==
    ASSUME PoolInv, Enqueue, batch # <<>>,
           AsTrigger(Head(batch)) \notin queue
    PROVE  PoolInv'
<1> USE DEF PoolInv
<1>1. Head(batch) \in AnomalyEvent /\ Tail(batch) \in Seq(AnomalyEvent)
  BY BatchType DEF TypeOK
<1>2. AsTrigger(Head(batch)) \in Trigger
  BY <1>1, TriggerType DEF TypeOK
<1>3. TypeOK'
  BY <1>1, <1>2
     DEF TypeOK, Enqueue, streamVars, workerVars, historyVars
<1>4. OutcomeInv' /\ JobInv' /\ StoppedInv'
  BY DEF OutcomeInv, JobInv, StoppedInv, Cancelled, Enqueue, workerVars
<1>5. CountInv'
  <2>1. Busy' = Busy
    BY DEF Enqueue, Busy, workerVars
  <2>2. /\ IsFiniteSet(queue')
        /\ Cardinality(queue') = Cardinality(queue) + 1
    BY FS_AddElement DEF Enqueue, CountInv
  <2>3. Cardinality(queue) \in Nat /\ Cardinality(Busy) \in Nat
    BY FS_CardinalityType, BusyFinite DEF CountInv
  <2>4. QED
    BY <2>1, <2>2, <2>3 DEF Enqueue, CountInv, UnfinishedCount
<1>6. QED
  BY <1>3, <1>4, <1>5

LEMMA WorkerStepPool ==
    ASSUME PoolInv, NEW w \in Workers, Worker(w)
    PROVE  PoolInv'
<1> USE DEF PoolInv
<1>1. Cardinality(queue) \in Nat /\ IsFiniteSet(Busy) /\ Cardinality(Busy) \in Nat
  BY FS_CardinalityType, BusyFinite DEF CountInv
<1>2. /\ w \in Busy => Cardinality(Busy \ {w}) = Cardinality(Busy) - 1
      /\ w \notin Busy => Cardinality(Busy \ {w}) = Cardinality(Busy)
  BY <1>1, FS_RemoveElement
<1>3. w \in Busy => unfinished - 1 \in Nat
  <2>1. w \in Busy => Cardinality(Busy) # 0
    BY <1>1, FS_EmptySet
  <2>2. QED
    BY <1>1, <2>1 DEF CountInv, UnfinishedCount, TypeOK
<1>4. CASE Get(w)
  <2>1. w \notin Busy
    BY <1>4 DEF Get, Busy
  <2>2. TypeOK'
    BY <1>4, TakeNextPool
       DEF CountInv, Get, TypeOK, mainVars, streamVars, historyVars
  <2>3. OutcomeInv' /\ JobInv' /\ StoppedInv'
    BY <1>4, TakeNextPool
       DEF CountInv, Get, OutcomeInv, JobInv, StoppedInv, Cancelled, mainVars
  <2>4. CountInv'
    BY <1>1, <1>2, <1>4, <2>1, TakeNextPool
       DEF CountInv, UnfinishedCount, Get
  <2>5. QED
    BY <2>2, <2>3, <2>4
<1>5. CASE Finish(w)
  <2>1. w \in Busy
    BY <1>5 DEF Finish, Busy
  <2>2. job[w] \in Trigger
    BY <1>5 DEF Finish, JobInv, TypeOK
  <2>3. TypeOK'
    <3>1. unfinished' \in Nat /\ settled' \subseteq Trigger
      BY <1>3, <1>5, <2>1, <2>2 DEF Finish, TaskDone, TypeOK
    <3>2. QED
      BY <1>5, <3>1, TakeNextPool
         DEF CountInv, Finish, TypeOK, mainVars, streamVars
  <2>4. OutcomeInv' /\ JobInv' /\ StoppedInv'
    BY <1>5, TakeNextPool
       DEF CountInv, Finish, OutcomeInv, JobInv, StoppedInv, Cancelled, mainVars
  <2>5. CountInv'
    <3>1. /\ IsFiniteSet(queue')
          /\ Cardinality(queue') + Cardinality(Busy') =
               Cardinality(queue) + Cardinality(Busy \ {w})
      BY <1>5, TakeNextPool DEF Finish, CountInv
    <3>2. unfinished' = unfinished - 1
      BY <1>5 DEF Finish, TaskDone
    <3>3. QED
      BY <1>1, <1>2, <2>1, <3>1, <3>2 DEF CountInv, UnfinishedCount
  <2>6. QED
    BY <2>3, <2>4, <2>5
<1>6. CASE StopIdle(w)
  <2>1. TypeOK' /\ OutcomeInv'
    BY <1>6 DEF StopIdle, TypeOK, OutcomeInv, Cancelled, mainVars, streamVars,
                queueVars, historyVars
  <2>2. JobInv' /\ StoppedInv'
    BY <1>6 DEF StopIdle, TypeOK, JobInv, StoppedInv, Cancelled, mainVars
  <2>3. Busy' = Busy
    BY <1>6 DEF StopIdle, TypeOK, Busy
  <2>4. QED
    BY <1>6, <2>1, <2>2, <2>3 DEF StopIdle, CountInv, UnfinishedCount, queueVars
<1>7. CASE StopBusy(w)
  <2>1. w \in Busy /\ Busy' = Busy \ {w}
    BY <1>7 DEF StopBusy, TypeOK, Busy
  <2>2. job[w] \in Trigger
    BY <1>7 DEF StopBusy, JobInv, TypeOK
  <2>3. TypeOK' /\ OutcomeInv'
    BY <1>3, <1>7, <2>1, <2>2
       DEF StopBusy, TaskDone, TypeOK, OutcomeInv, Cancelled, mainVars,
           streamVars
  <2>4. JobInv' /\ StoppedInv'
    BY <1>7 DEF StopBusy, TypeOK, JobInv, StoppedInv, Cancelled, mainVars
  <2>5. CountInv'
    BY <1>1, <1>2, <1>7, <2>1
       DEF StopBusy, TaskDone, CountInv, UnfinishedCount
  <2>6. QED
    BY <2>3, <2>4, <2>5
<1>8. QED
  BY <1>4, <1>5, <1>6, <1>7 DEF Worker

-----------------------------------------------------------------------------
(* The histories: where every announced trigger is.                        *)

\* Sequence numbers identify triggers; only the trigger the handler is being
\* told of, or was when the try block was left, is not on the queue yet.
AnnouncedInv ==
    /\ \A t \in announced : t.seq <= seq
    /\ \A a, b \in announced : a.seq = b.seq => a = b
    /\ main = "emitAnomaly" =>
          batch # <<>> /\ AsTrigger(Head(batch)) \in announced
    /\ ~Cancelled /\ main # "emitAnomaly" => announced = Enqueued

\* After an orderly end nothing is queued, running or unsettled.
OrderlyInv ==
    /\ ~Cancelled => abandoned = {}
    /\ outcome = "ok" => /\ queue = {} /\ Busy = {} /\ abandoned = {}
                         /\ announced = Enqueued

HistoryInv == AnnouncedInv /\ OrderlyInv /\ Conservation

\* The cache holds, for each key, the latest timestamp it was announced with.
CacheInv ==
    /\ \A a \in announced :
          dedup_cache[a.key] # Never /\ a.ts <= dedup_cache[a.key]
    /\ \A k \in Keys : dedup_cache[k] # Never =>
          \E a \in announced : a.key = k /\ a.ts = dedup_cache[k]
    /\ DedupSpacing

\* Nothing the detectors or the pool look at is newer than the store.
EvidenceInv ==
    /\ ingested <= now
    /\ \A t \in rolling_frames : t <= ingested
    /\ \A i \in DOMAIN batch : batch[i].ts <= ingested
    /\ EvidenceIngested

IInv == PoolInv /\ HistoryInv /\ CacheInv /\ EvidenceInv

Others(w) == {job[v] : v \in Busy \ {w}}
DistinctJobs == \A v, w \in Busy : job[v] = job[w] => v = w

\* Taking the next trigger moves it from the queue to the worker's hands.
LEMMA TakeNextJobs ==
    ASSUME PoolInv, NEW w \in Workers, TakeNext(w), DistinctJobs,
           queue \cap Jobs = {}
    PROVE  /\ queue' \cup Jobs' = queue \cup Others(w)
           /\ queue' \cap Jobs' = {}
           /\ DistinctJobs'
<1> USE DEF PoolInv, TypeOK
<1>1. CASE /\ queue = {}
           /\ wpc' = [wpc EXCEPT ![w] = "idle"]
           /\ job' = [job EXCEPT ![w] = NoJob]
           /\ UNCHANGED queue
  <2>1. Busy' = Busy \ {w} /\ \A v \in Busy' : job'[v] = job[v]
    BY <1>1 DEF Busy
  <2>2. Jobs' = Others(w)
    BY <2>1 DEF Jobs, Others
  <2>3. QED
    BY <1>1, <2>1, <2>2 DEF DistinctJobs
<1>2. ASSUME NEW t \in queue,
             queue' = queue \ {t},
             wpc' = [wpc EXCEPT ![w] = "busy"],
             job' = [job EXCEPT ![w] = t]
      PROVE  /\ queue' \cup Jobs' = queue \cup Others(w)
             /\ queue' \cap Jobs' = {}
             /\ DistinctJobs'
  <2>1. /\ Busy' = Busy \cup {w}
        /\ \A v \in Busy \ {w} : job'[v] = job[v]
        /\ job'[w] = t
    BY <1>2 DEF Busy
  <2>2. Jobs' = Others(w) \cup {t}
    BY <2>1 DEF Jobs, Others
  <2>3. Others(w) \subseteq Jobs
    BY DEF Jobs, Others
  <2>4. DistinctJobs'
    <3>1. \A v \in Busy : job[v] # t
      BY <1>2 DEF Jobs
    <3>2. QED
      BY <2>1, <3>1 DEF DistinctJobs
  <2>5. QED
    BY <1>2, <2>2, <2>3, <2>4
<1>3. QED
  BY <1>1, <1>2 DEF TakeNext

\* The histories only look at these variables.
LEMMA HistoryUntouched ==
    ASSUME HistoryInv, UNCHANGED <<queueVars, workerVars, historyVars>>,
           main' # "emitAnomaly",
           Cancelled => Cancelled',
           main = "emitAnomaly" => Cancelled',
           outcome' = "ok" => outcome = "ok"
    PROVE  HistoryInv'
<1> USE DEF HistoryInv, queueVars, workerVars, historyVars
<1>1. Busy' = Busy /\ Jobs' = Jobs /\ Enqueued' = Enqueued
  BY DEF Busy, Jobs, Enqueued
<1>2. Conservation'
  BY <1>1 DEF Conservation
<1>3. AnnouncedInv'
  BY <1>1 DEF AnnouncedInv
<1>4. OrderlyInv'
  BY <1>1 DEF OrderlyInv
<1>5. QED
  BY <1>2, <1>3, <1>4

LEMMA MainStepHistory ==
    ASSUME PoolInv, HistoryInv,
           \/ NextFrame \/ FrameEmitted \/ Detected \/ Suppress
           \/ BatchConsumed \/ StreamEnded \/ Raise \/ CancelMain
           \/ WorkersGathered
    PROVE  HistoryInv'
  BY HistoryUntouched
     DEF PoolInv, OutcomeInv, Cancelled, NextFrame, FrameEmitted, Detected,
         Suppress, BatchConsumed, StreamEnded, Raise, CancelMain,
         WorkersGathered, LeaveTry, mainVars, streamVars

LEMMA AnnounceHistory ==
    ASSUME PoolInv, HistoryInv, Announce
    PROVE  HistoryInv'
<1> DEFINE new == AsTrigger(Head(batch))
<1> USE DEF PoolInv, HistoryInv
<1>1. Head(batch) \in AnomalyEvent
  BY BatchType DEF Announce, TypeOK
<1>2. new.seq = seq /\ seq \in Nat
  BY <1>1, TriggerType DEF TypeOK
<1>3. announced = Enqueued
  BY DEF Announce, AnnouncedInv, Cancelled
<1>4. \A t \in announced : t.seq < seq
  BY <1>3 DEF Enqueued
<1>5. /\ announced' = announced \cup {new} /\ main' = "emitAnomaly"
      /\ UNCHANGED <<outcome, streamVars, batch, queueVars, workerVars,
                     settled, abandoned>>
  BY DEF Announce
<1>6. Enqueued' = Enqueued /\ Busy' = Busy /\ Jobs' = Jobs
  BY <1>2, <1>5 DEF Enqueued, Busy, Jobs, queueVars, workerVars
<1>7. Conservation'
  BY <1>5, <1>6 DEF Conservation, queueVars, workerVars
<1>8. AnnouncedInv'
  <2>1. AsTrigger(Head(batch))' = new
    BY <1>5 DEF AsTrigger, queueVars, streamVars
  <2>2. \A t \in announced' : t.seq <= seq'
    BY <1>2, <1>4, <1>5 DEF queueVars, AnnouncedInv
  <2>3. \A a, b \in announced' : a.seq = b.seq => a = b
    BY <1>2, <1>4, <1>5 DEF AnnouncedInv
  <2>4. QED
    BY <1>5, <2>1, <2>2, <2>3 DEF AnnouncedInv, Announce
<1>9. OrderlyInv'
  BY <1>5, <1>6 DEF OrderlyInv, OutcomeInv, Announce, Cancelled
<1>10. QED
  BY <1>7, <1>8, <1>9

\* The trigger Enqueue puts on the queue was announced and is new.
LEMMA EnqueueNew ==
    ASSUME PoolInv, HistoryInv, Enqueue
    PROVE  LET new == AsTrigger(Head(batch))
           IN  /\ batch # <<>> /\ new.seq = seq
               /\ new \notin Enqueued
               /\ announced = Enqueued \cup {new}
<1> DEFINE new == AsTrigger(Head(batch))
<1> USE DEF PoolInv, HistoryInv
<1>1. batch # <<>> /\ new \in announced
  BY DEF Enqueue, AnnouncedInv
<1>2. new.seq = seq /\ seq \in Nat
  BY <1>1, BatchType, TriggerType DEF TypeOK
<1>3. new \notin Enqueued
  BY <1>2 DEF Enqueued
<1>4. ASSUME NEW t \in announced, t \notin Enqueued PROVE t = new
  <2>1. t.seq \in Nat
    BY DEF TypeOK, Trigger
  <2>2. t.seq = seq
    BY <1>2, <1>4, <2>1 DEF Enqueued, AnnouncedInv
  <2>3. QED
    BY <1>1, <1>2, <2>2 DEF AnnouncedInv
<1>5. QED
  BY <1>1, <1>2, <1>3, <1>4 DEF Enqueued

LEMMA EnqueueHistory ==
    ASSUME PoolInv, HistoryInv, Enqueue
    PROVE  HistoryInv'
<1> DEFINE new == AsTrigger(Head(batch))
<1> USE DEF PoolInv, HistoryInv
<1>1. /\ new \notin Enqueued /\ announced = Enqueued \cup {new}
      /\ new.seq = seq
  BY EnqueueNew
<1>2. /\ announced' = announced /\ queue' = queue \cup {new}
      /\ seq' = seq + 1 /\ settled' = settled /\ abandoned' = abandoned
      /\ main = "emitAnomaly" /\ main' = "dedup" /\ outcome' = outcome
      /\ UNCHANGED workerVars
  BY DEF Enqueue, historyVars
<1>3. Busy' = Busy /\ Jobs' = Jobs
  BY <1>2 DEF Busy, Jobs, workerVars
<1>4. Enqueued' = announced
  <2>1. \A t \in announced : t.seq \in Nat /\ t.seq <= seq
    BY DEF AnnouncedInv, TypeOK, Trigger
  <2>2. seq \in Nat
    BY DEF TypeOK
  <2>3. \A t \in announced : t.seq < seq'
    BY <1>2, <2>1, <2>2
  <2>4. QED
    BY <1>2, <2>3 DEF Enqueued
<1>5. Conservation'
  BY <1>1, <1>2, <1>3, <1>4 DEF Conservation, workerVars
<1>6. AnnouncedInv'
  <2>1. \A t \in announced' : t.seq <= seq'
    BY <1>2, <1>4 DEF AnnouncedInv, TypeOK, Trigger
  <2>2. QED
    BY <1>2, <1>4, <2>1 DEF AnnouncedInv
<1>7. OrderlyInv'
  BY <1>2 DEF OrderlyInv, OutcomeInv, Cancelled
<1>8. QED
  BY <1>5, <1>6, <1>7

\* join() returns only when nothing is queued or running.
LEMMA CountZero ==
    ASSUME PoolInv, unfinished = 0
    PROVE  queue = {} /\ Busy = {}
<1>1. /\ IsFiniteSet(queue) /\ Cardinality(queue) \in Nat
      /\ IsFiniteSet(Busy) /\ Cardinality(Busy) \in Nat
  BY BusyFinite, FS_CardinalityType DEF PoolInv, CountInv
<1>2. Cardinality(queue) = 0 /\ Cardinality(Busy) = 0
  BY <1>1 DEF PoolInv, CountInv, UnfinishedCount
<1>3. QED
  BY <1>1, <1>2, FS_EmptySet

\* The drain: a count of zero leaves no trigger unsettled.
LEMMA JoinedHistory ==
    ASSUME PoolInv, HistoryInv, Joined
    PROVE  HistoryInv'
<1> USE DEF PoolInv, HistoryInv
<1>1. main = "join" /\ unfinished = 0 /\ main' = "shutdown" /\ outcome' = "ok"
  BY DEF Joined, LeaveTry
<1>2. queue = {} /\ Busy = {}
  BY <1>1, CountZero
<1>3. announced = Enqueued /\ abandoned = {}
  BY <1>1 DEF AnnouncedInv, OrderlyInv, Cancelled
<1>4. Busy' = Busy /\ Jobs' = Jobs /\ Enqueued' = Enqueued
  BY DEF Joined, LeaveTry, queueVars, workerVars, historyVars, Busy, Jobs,
         Enqueued
<1>5. UNCHANGED <<queueVars, historyVars, workerVars>>
  BY DEF Joined, LeaveTry
<1>6. Conservation'
  BY <1>4, <1>5 DEF Conservation, queueVars, workerVars, historyVars
<1>7. AnnouncedInv'
  BY <1>1, <1>4, <1>5 DEF AnnouncedInv, queueVars, historyVars, Cancelled
<1>8. OrderlyInv'
  BY <1>1, <1>2, <1>3, <1>4, <1>5
     DEF OrderlyInv, queueVars, historyVars, Cancelled
<1>9. QED
  BY <1>6, <1>7, <1>8

LEMMA WorkerStepHistory ==
    ASSUME PoolInv, HistoryInv, NEW w \in Workers, Worker(w)
    PROVE  HistoryInv'
<1> USE DEF PoolInv, HistoryInv
<1>1. UNCHANGED <<mainVars, streamVars, batch, seq, announced>>
  BY DEF Worker, Get, Finish, StopIdle, StopBusy, queueVars, historyVars
<1>2. Enqueued' = Enqueued
  BY <1>1 DEF Enqueued
<1>3. AnnouncedInv'
  <2>1. AsTrigger(Head(batch))' = AsTrigger(Head(batch))
    BY <1>1 DEF AsTrigger, streamVars
  <2>2. QED
    BY <1>1, <1>2, <2>1 DEF AnnouncedInv, mainVars, Cancelled
<1>4. DistinctJobs /\ queue \cap Jobs = {}
  BY DEF Conservation, DistinctJobs
<1>5. CASE Get(w)
  <2>1. Others(w) = Jobs
    BY <1>5 DEF Get, Busy, Others, Jobs
  <2>2. /\ queue' \cup Jobs' = queue \cup Jobs
        /\ queue' \cap Jobs' = {} /\ DistinctJobs'
    BY <1>4, <1>5, <2>1, TakeNextJobs DEF Get
  <2>3. settled' = settled /\ abandoned' = abandoned /\ ~Cancelled
    BY <1>5 DEF Get, historyVars
  <2>4. Conservation'
    BY <1>2, <2>2, <2>3 DEF Conservation, DistinctJobs
  <2>5. OrderlyInv'
    BY <1>1, <2>3 DEF OrderlyInv, OutcomeInv, mainVars
  <2>6. QED
    BY <1>3, <2>4, <2>5
<1>6. CASE Finish(w)
  <2>1. w \in Busy
    BY <1>6 DEF Finish, Busy
  <2>2. Jobs = Others(w) \cup {job[w]} /\ job[w] \notin Others(w)
    BY <1>4, <2>1 DEF Others, Jobs, DistinctJobs
  <2>3. /\ queue' \cup Jobs' = queue \cup Others(w)
        /\ queue' \cap Jobs' = {} /\ DistinctJobs'
    BY <1>4, <1>6, TakeNextJobs DEF Finish
  <2>4. /\ settled' = settled \cup {job[w]} /\ abandoned' = abandoned
        /\ ~Cancelled
    BY <1>6 DEF Finish
  <2>5. Conservation'
    <3>1. job[w] \notin queue' \cup Jobs'
      BY <1>4, <2>2, <2>3
    <3>2. /\ (queue \cup Jobs) \cap (settled \cup abandoned) = {}
          /\ settled \cap abandoned = {}
          /\ Enqueued = queue \cup Jobs \cup settled \cup abandoned
      BY DEF Conservation
    <3>3. Enqueued' = queue' \cup Jobs' \cup settled' \cup abandoned'
      BY <1>2, <2>2, <2>3, <2>4, <3>2
    <3>4. (queue' \cup Jobs') \cap (settled' \cup abandoned') = {}
      BY <2>2, <2>3, <2>4, <3>1, <3>2
    <3>5. settled' \cap abandoned' = {}
      BY <2>2, <2>4, <3>2
    <3>6. QED
      BY <2>3, <3>3, <3>4, <3>5 DEF Conservation, DistinctJobs
  <2>6. OrderlyInv'
    BY <1>1, <2>4 DEF OrderlyInv, OutcomeInv, mainVars
  <2>7. QED
    BY <1>3, <2>5, <2>6
<1>7. CASE StopIdle(w)
  <2>1. Busy' = Busy /\ Jobs' = Jobs /\ job' = job
    BY <1>7 DEF StopIdle, TypeOK, Busy, Jobs
  <2>2. Conservation' /\ OrderlyInv'
    BY <1>1, <1>2, <1>7, <2>1
       DEF StopIdle, Conservation, OrderlyInv, Cancelled, queueVars, mainVars,
           historyVars
  <2>3. QED
    BY <1>3, <2>2
<1>8. CASE StopBusy(w)
  <2>1. w \in Busy /\ Busy' = Busy \ {w} /\ \A v \in Busy' : job'[v] = job[v]
    BY <1>8 DEF StopBusy, TypeOK, Busy
  <2>2. Jobs = Jobs' \cup {job[w]} /\ job[w] \notin Jobs'
    BY <1>4, <2>1 DEF Jobs, DistinctJobs
  <2>3. /\ queue' = queue /\ settled' = settled
        /\ abandoned' = abandoned \cup {job[w]}
    BY <1>8 DEF StopBusy
  <2>4. DistinctJobs'
    BY <1>4, <2>1 DEF DistinctJobs
  <2>5. Conservation'
    <3>1. Enqueued' = queue' \cup Jobs' \cup settled' \cup abandoned'
      BY <1>2, <2>2, <2>3 DEF Conservation
    <3>2. /\ queue' \cap (Jobs' \cup settled' \cup abandoned') = {}
          /\ Jobs' \cap (settled' \cup abandoned') = {}
          /\ settled' \cap abandoned' = {}
      BY <2>2, <2>3 DEF Conservation
    <3>3. QED
      BY <2>4, <3>1, <3>2 DEF Conservation, DistinctJobs
  <2>6. OrderlyInv'
    BY <1>1, <1>8, <2>1 DEF OrderlyInv, StopBusy, Cancelled, mainVars
  <2>7. QED
    BY <1>3, <2>5, <2>6
<1>9. QED
  BY <1>5, <1>6, <1>7, <1>8 DEF Worker

-----------------------------------------------------------------------------
(* Dedup and evidence.                                                     *)

LEMMA AnnounceCache ==
    ASSUME PoolInv, HistoryInv, CacheInv, Announce
    PROVE  CacheInv'
<1> DEFINE e == Head(batch)
           new == AsTrigger(e)
<1> USE DEF PoolInv, TypeOK
<1>1. e \in AnomalyEvent
  BY BatchType DEF Announce
<1>2. new \in Trigger /\ new.seq = seq /\ new.key = e.key /\ new.ts = e.ts
  BY <1>1, TriggerType
<1>3. /\ ~Suppressed(e)
      /\ dedup_cache' = [dedup_cache EXCEPT ![e.key] = e.ts]
      /\ announced' = announced \cup {new}
  BY DEF Announce, Remember
<1>4. \A a \in announced : a.seq < seq /\ a \in Trigger
  BY DEF HistoryInv, AnnouncedInv, Announce, Cancelled, Enqueued
<1>5. e.key \in Keys /\ e.ts \in Nat /\ e.ts # Never
  BY <1>1 DEF AnomalyEvent, Never
<1>6. \A a \in announced : a.key = e.key => e.ts - a.ts >= Cooldown
  <2>1. SUFFICES ASSUME NEW a \in announced, a.key = e.key
                 PROVE  e.ts - a.ts >= Cooldown
    OBVIOUS
  <2>2. /\ dedup_cache[e.key] # Never /\ dedup_cache[e.key] \in Nat
        /\ a.ts <= dedup_cache[e.key] /\ a.ts \in Nat
    BY <1>4, <1>5, <2>1 DEF CacheInv, Trigger
  <2>3. e.ts - dedup_cache[e.key] >= Cooldown
    BY <1>3, <1>5, <2>2, SettingsAssumption DEF Suppressed
  <2>4. QED
    BY <1>5, <2>2, <2>3, SettingsAssumption
<1>7. DedupSpacing'
  <2>1. SUFFICES ASSUME NEW a \in announced', NEW b \in announced',
                        a.key = b.key, a.seq < b.seq
                 PROVE  b.ts - a.ts >= Cooldown
    BY DEF DedupSpacing
  <2>2. CASE a \in announced /\ b \in announced
    BY <2>1, <2>2 DEF CacheInv, DedupSpacing
  <2>3. CASE a \in announced /\ b = new
    BY <1>2, <1>6, <2>1, <2>3
  <2>4. CASE a = new
    BY <1>2, <1>3, <1>4, <2>1, <2>4 DEF Trigger
  <2>5. QED
    BY <1>3, <2>2, <2>3, <2>4
<1>8. \A a \in announced' :
        dedup_cache'[a.key] # Never /\ a.ts <= dedup_cache'[a.key]
  <2>1. \A a \in announced : a.key = e.key => a.ts <= e.ts
    BY <1>4, <1>5, <1>6, SettingsAssumption DEF Trigger
  <2>2. QED
    BY <1>2, <1>3, <1>4, <1>5, <2>1 DEF CacheInv, Trigger
<1>9. \A k \in Keys : dedup_cache'[k] # Never =>
        \E a \in announced' : a.key = k /\ a.ts = dedup_cache'[k]
  BY <1>2, <1>3, <1>5 DEF CacheInv
<1>10. QED
  BY <1>7, <1>8, <1>9 DEF CacheInv

LEMMA OtherStepCache ==
    ASSUME CacheInv, UNCHANGED <<dedup_cache, announced>>
    PROVE  CacheInv'
  BY DEF CacheInv, DedupSpacing

LEMMA StepEvidence ==
    ASSUME PoolInv, HistoryInv, EvidenceInv, [Next]_vars
    PROVE  EvidenceInv'
<1> USE DEF PoolInv, TypeOK
<1>1. CASE NextFrame
  <2>1. now <= now' /\ ingested <= now'
    BY <1>1, SettingsAssumption DEF NextFrame, EvidenceInv, Never
  <2>2. QED
    BY <1>1, <2>1 DEF NextFrame, EvidenceInv, EvidenceIngested, historyVars
<1>2. CASE FrameEmitted
  <2>1. ingested <= now /\ ingested' = now /\ now \in Nat /\ now' = now
    BY <1>2 DEF EvidenceInv, FrameEmitted, Ingest
  <2>2. \A t \in rolling_frames' : t <= ingested'
    BY <1>2, <2>1 DEF EvidenceInv, FrameEmitted, Never
  <2>3. \A i \in DOMAIN batch' : batch'[i].ts <= ingested'
    <3>1. \A i \in DOMAIN batch : batch[i].ts \in Nat
      <4>1. \A i \in DOMAIN batch : batch[i] \in AnomalyEvent
        OBVIOUS
      <4>2. QED
        BY <4>1 DEF AnomalyEvent
    <3>2. batch' = batch
      BY <1>2 DEF FrameEmitted
    <3>3. QED
      BY <2>1, <3>1, <3>2 DEF EvidenceInv, Never
  <2>4. EvidenceIngested'
    <3>1. announced' = announced /\ \A t \in announced : t.ts \in Nat
      BY <1>2 DEF FrameEmitted, historyVars, Trigger
    <3>2. QED
      BY <2>1, <3>1 DEF EvidenceInv, EvidenceIngested, Never
  <2>5. QED
    BY <2>1, <2>2, <2>3, <2>4 DEF EvidenceInv
<1>3. CASE Detected
  <2>1. \A i \in DOMAIN batch' : batch'[i].ts \in rolling_frames
    BY <1>3 DEF Detected, Detections
  <2>2. QED
    BY <1>3, <2>1
       DEF Detected, EvidenceInv, EvidenceIngested, streamVars, historyVars
<1>4. CASE Suppress \/ Enqueue
  <2>1. /\ UNCHANGED <<streamVars, announced>>
        /\ batch # <<>> /\ batch' = Tail(batch)
    BY <1>4 DEF Suppress, Enqueue, historyVars, HistoryInv, AnnouncedInv
  <2>2. \A i \in DOMAIN batch' : i + 1 \in DOMAIN batch
                                 /\ batch'[i] = batch[i + 1]
    BY <2>1
  <2>3. QED
    BY <2>1, <2>2 DEF EvidenceInv, EvidenceIngested, streamVars
<1>5. CASE Announce
  <2>1. Head(batch).ts <= ingested
    BY <1>5 DEF Announce, EvidenceInv
  <2>2. AsTrigger(Head(batch)).ts = Head(batch).ts
    BY DEF AsTrigger
  <2>3. QED
    BY <1>5, <2>1, <2>2
       DEF Announce, EvidenceInv, EvidenceIngested, streamVars
<1>6. CASE UNCHANGED <<streamVars, batch, announced>>
  BY <1>6 DEF EvidenceInv, EvidenceIngested, streamVars
<1>7. QED
  BY <1>1, <1>2, <1>3, <1>4, <1>5, <1>6
     DEF Next, Progress, Worker, BatchConsumed, StreamEnded, Joined, Raise,
         CancelMain, LeaveTry, WorkersGathered, Get, Finish, StopIdle,
         StopBusy, Ended, vars, historyVars

-----------------------------------------------------------------------------
(* The theorems.                                                           *)

LEMMA IInvInit == Init => IInv
<1> SUFFICES ASSUME Init PROVE IInv
  OBVIOUS
<1>1. PoolInv
  BY PoolInvInit
<1>2. Busy = {} /\ Jobs = {} /\ Enqueued = {}
  BY DEF Init, Busy, Jobs, Enqueued
<1>3. HistoryInv
  BY <1>2
     DEF Init, HistoryInv, AnnouncedInv, OrderlyInv, Conservation
<1>4. CacheInv
  BY DEF Init, CacheInv, DedupSpacing
<1>5. EvidenceInv
  BY DEF Init, EvidenceInv, EvidenceIngested, Never
<1>6. QED
  BY <1>1, <1>3, <1>4, <1>5 DEF IInv

LEMMA IInvStep == IInv /\ [Next]_vars => IInv'
<1> SUFFICES ASSUME IInv, [Next]_vars PROVE IInv'
  OBVIOUS
<1> USE DEF IInv
<1>1. EvidenceInv'
  BY StepEvidence
<1>2. CASE \/ NextFrame \/ FrameEmitted \/ Detected \/ Suppress
           \/ BatchConsumed \/ StreamEnded \/ Raise \/ CancelMain
           \/ WorkersGathered \/ Joined
  <2>1. PoolInv' /\ HistoryInv'
    BY <1>2, MainStepPool, MainStepHistory, JoinedHistory
  <2>2. CacheInv'
    BY <1>2, OtherStepCache
       DEF NextFrame, FrameEmitted, Detected, Suppress, BatchConsumed,
           StreamEnded, Raise, CancelMain, WorkersGathered, Joined, LeaveTry,
           historyVars
  <2>3. QED
    BY <1>1, <2>1, <2>2
<1>3. CASE Announce
  BY <1>1, <1>3, MainStepPool, AnnounceHistory, AnnounceCache
<1>4. CASE Enqueue
  <2>1. batch # <<>> /\ AsTrigger(Head(batch)) \notin queue
    BY <1>4, EnqueueNew DEF HistoryInv, Conservation
  <2>2. CacheInv'
    BY <1>4, OtherStepCache DEF Enqueue, historyVars
  <2>3. QED
    BY <1>1, <1>4, <2>1, <2>2, EnqueuePool, EnqueueHistory
<1>5. ASSUME NEW w \in Workers, Worker(w) PROVE IInv'
  <2>1. CacheInv'
    BY <1>5, OtherStepCache
       DEF Worker, Get, Finish, StopIdle, StopBusy, historyVars
  <2>2. QED
    BY <1>1, <1>5, <2>1, WorkerStepPool, WorkerStepHistory
<1>6. CASE UNCHANGED vars
  <2>1. Busy' = Busy /\ Jobs' = Jobs /\ Enqueued' = Enqueued
    BY <1>6 DEF vars, queueVars, workerVars, historyVars, Busy, Jobs, Enqueued
  <2>2. AsTrigger(Head(batch))' = AsTrigger(Head(batch))
    BY <1>6 DEF vars, AsTrigger, queueVars, streamVars
  <2>3. PoolInv'
    BY <1>6, <2>1
       DEF PoolInv, TypeOK, OutcomeInv, JobInv, StoppedInv, CountInv,
           UnfinishedCount, Cancelled, vars, mainVars, streamVars, queueVars,
           workerVars, historyVars
  <2>4. HistoryInv'
    BY <1>6, <2>1, <2>2
       DEF HistoryInv, AnnouncedInv, OrderlyInv, Conservation, Cancelled,
           vars, mainVars, queueVars, workerVars, historyVars
  <2>5. CacheInv'
    BY <1>6, OtherStepCache DEF vars, historyVars
  <2>6. QED
    BY <1>1, <2>3, <2>4, <2>5
<1>7. QED
  BY <1>2, <1>3, <1>4, <1>5, <1>6 DEF Next, Progress, Ended

\* The inductive invariant holds in every reachable state.
THEOREM Invariance == Spec => []IInv
<1>1. Init => IInv
  BY IInvInit
<1>2. IInv /\ [Next]_vars => IInv'
  BY IInvStep
<1>3. QED
  BY <1>1, <1>2, PTL DEF Spec

\* run_pipeline's variables keep their types; in particular task_done() is
\* never called more often than put_nowait().
THEOREM TypeCorrect == Spec => []TypeOK
<1>1. IInv => TypeOK
  BY DEF IInv, PoolInv
<1>2. QED
  BY <1>1, Invariance, PTL

\* The count join() waits on is exact, for any number of workers.
THEOREM CountCorrect == Spec => []UnfinishedCount
<1>1. IInv => UnfinishedCount
  BY DEF IInv, PoolInv, CountInv
<1>2. QED
  BY <1>1, Invariance, PTL

\* No trigger on the queue is lost or investigated twice.
THEOREM ConservationCorrect == Spec => []Conservation
<1>1. IInv => Conservation
  BY DEF IInv, HistoryInv
<1>2. QED
  BY <1>1, Invariance, PTL

\* A normal return means every announced anomaly was investigated.
THEOREM DrainCorrect == Spec => []NothingLeftBehind
<1>1. IInv => NothingLeftBehind
  <2> SUFFICES ASSUME IInv, outcome = "ok" PROVE settled = announced
    BY DEF NothingLeftBehind
  <2>1. queue = {} /\ Busy = {} /\ abandoned = {} /\ announced = Enqueued
    BY DEF IInv, HistoryInv, OrderlyInv
  <2>2. Jobs = {}
    BY <2>1 DEF Jobs
  <2>3. QED
    BY <2>1, <2>2 DEF IInv, HistoryInv, Conservation
<1>2. QED
  BY <1>1, Invariance, PTL

\* A (detector, sensor) pair is announced at most once per cooldown, for any
\* cooldown, window, and order of the detectors' timestamps.
THEOREM DedupCorrect == Spec => []DedupSpacing
<1>1. IInv => DedupSpacing
  BY DEF IInv, CacheInv
<1>2. QED
  BY <1>1, Invariance, PTL

\* The store is never behind a trigger.
THEOREM EvidenceCorrect == Spec => []EvidenceIngested
<1>1. IInv => EvidenceIngested
  BY DEF IInv, EvidenceInv
<1>2. QED
  BY <1>1, Invariance, PTL

\* What dedup swallows lies within the cooldown of an announced event.
THEOREM SuppressionCorrect == Spec => SuppressionJustified
<1> DEFINE Justified ==
      main = "dedup" /\ batch # <<>> /\ batch' # batch =>
         \E a \in announced : /\ a.key = Head(batch).key
                              /\ Head(batch).ts - a.ts < Cooldown
<1>1. IInv /\ [Next]_vars => Justified
  <2> SUFFICES ASSUME IInv, [Next]_vars, main = "dedup", batch # <<>>,
                      batch' # batch
               PROVE  \E a \in announced :
                         /\ a.key = Head(batch).key
                         /\ Head(batch).ts - a.ts < Cooldown
    OBVIOUS
  <2>1. Suppress
    BY DEF Next, NextFrame, FrameEmitted, Detected, Announce, Enqueue,
           BatchConsumed, StreamEnded, Raise, CancelMain, WorkersGathered,
           Joined, LeaveTry, Progress, Worker, Get, Finish, StopIdle,
           StopBusy, Ended, vars
  <2>2. Head(batch) \in AnomalyEvent
    BY BatchType DEF IInv, PoolInv, TypeOK
  <2>3. /\ Head(batch).key \in Keys
        /\ dedup_cache[Head(batch).key] # Never
        /\ Head(batch).ts - dedup_cache[Head(batch).key] < Cooldown
    BY <2>1, <2>2 DEF Suppress, Suppressed, AnomalyEvent
  <2>4. QED
    BY <2>3 DEF IInv, CacheInv
<1>2. Spec => [][Justified]_vars
  BY <1>1, Invariance, PTL DEF Spec
<1>3. QED
  BY <1>2 DEF SuppressionJustified

-----------------------------------------------------------------------------
(* run_pipeline implements the pool of Dispatch.                           *)


\* Tickets tell the triggers of the queue apart.
LEMMA TicketsDistinct ==
    ASSUME IInv
    PROVE  \A a, b \in queue : a.seq = b.seq => a = b
<1>1. queue \subseteq announced
  BY DEF IInv, HistoryInv, Conservation, Enqueued
<1>2. QED
  BY <1>1 DEF IInv, HistoryInv, AnnouncedInv

\* A busy worker holds a ticket, which is not the mark of an idle one.
LEMMA HeldType ==
    ASSUME IInv, NEW w \in Workers
    PROVE  /\ wpc[w] = "busy" => Held[w] = job[w].seq /\ Held[w] # Pool!Nothing
           /\ wpc[w] # "busy" => Held[w] = Pool!Nothing
<1>1. wpc[w] = "busy" => job[w] \in Trigger
  BY DEF IInv, PoolInv, JobInv, TypeOK
<1>2. wpc[w] = "busy" => job[w].seq \in Nat
  BY <1>1 DEF Trigger
<1>3. QED
  BY <1>2 DEF Held, Pool!Nothing

\* Only the worker that steps changes what it holds.
LEMMA HeldStep ==
    ASSUME IInv, NEW w \in Workers, NEW t,
           \A v \in Workers \ {w} : wpc'[v] = wpc[v] /\ job'[v] = job[v],
           IF wpc'[w] = "busy" THEN t = job'[w].seq ELSE t = -1
    PROVE  Held' = [Held EXCEPT ![w] = t]
  BY DEF Held

\* Taking the next trigger, seen as tickets.
LEMMA TakeNextTickets ==
    ASSUME IInv, NEW w \in Workers, TakeNext(w)
    PROVE  \/ /\ Held' = [Held EXCEPT ![w] = -1]
              /\ UNCHANGED Tickets(queue)
           \/ \E t \in Tickets(queue) :
                 /\ Tickets(queue') = Tickets(queue) \ {t}
                 /\ Held' = [Held EXCEPT ![w] = t]
<1> USE DEF IInv, PoolInv, TypeOK
<1>1. CASE /\ queue = {}
           /\ wpc' = [wpc EXCEPT ![w] = "idle"]
           /\ job' = [job EXCEPT ![w] = NoJob]
           /\ UNCHANGED queue
  BY <1>1, HeldStep
<1>2. ASSUME NEW t \in queue,
             queue' = queue \ {t},
             wpc' = [wpc EXCEPT ![w] = "busy"],
             job' = [job EXCEPT ![w] = t]
      PROVE  \E n \in Tickets(queue) :
                 /\ Tickets(queue') = Tickets(queue) \ {n}
                 /\ Held' = [Held EXCEPT ![w] = n]
  <2>1. Held' = [Held EXCEPT ![w] = t.seq]
    <3>1. /\ wpc'[w] = "busy" /\ job'[w] = t
          /\ \A v \in Workers \ {w} : wpc'[v] = wpc[v] /\ job'[v] = job[v]
      BY <1>2
    <3>2. QED
      BY <3>1, HeldStep
  <2>2. Tickets(queue') = Tickets(queue) \ {t.seq}
    BY <1>2, TicketsDistinct DEF Tickets
  <2>3. t.seq \in Tickets(queue)
    BY <1>2 DEF Tickets
  <2>4. QED
    BY <2>1, <2>2, <2>3
<1>3. QED
  BY <1>1, <1>2 DEF TakeNext

LEMMA PoolInit == Init => Pool!Init
  BY DEF Init, Pool!Init, Tickets, Held, Status, Pool!Nothing

LEMMA PoolStep == IInv /\ [Next]_vars => [Pool!Next]_Pool!vars
<1> SUFFICES ASSUME IInv, [Next]_vars PROVE [Pool!Next]_Pool!vars
  OBVIOUS
<1>1. CASE \/ NextFrame \/ FrameEmitted \/ Detected \/ Suppress \/ Announce
           \/ BatchConsumed \/ StreamEnded \/ WorkersGathered
           \/ UNCHANGED vars
  <2>1. UNCHANGED <<outcome, queueVars, workerVars, settled, abandoned>>
    BY <1>1 DEF NextFrame, FrameEmitted, Detected, Suppress, Announce,
                BatchConsumed, StreamEnded, WorkersGathered, vars, mainVars,
                historyVars
  <2>2. QED
    BY <2>1 DEF Pool!vars, queueVars, workerVars, Held, Status
<1>2. CASE Enqueue
  <2>1. /\ outcome = "none" /\ outcome' = "none"
        /\ queue' = queue \cup {AsTrigger(Head(batch))}
        /\ seq' = seq + 1
        /\ UNCHANGED <<workerVars, settled, abandoned>>
    BY <1>2 DEF Enqueue, IInv, PoolInv, OutcomeInv, Cancelled, historyVars
  <2>2. AsTrigger(Head(batch)).seq = seq
    BY DEF AsTrigger
  <2>3. Tickets(queue') = Tickets(queue) \cup {seq}
    BY <2>1, <2>2 DEF Tickets
  <2>4. Pool!Submit
    BY <2>1, <2>3 DEF Pool!Submit, Held, Status, workerVars
  <2>5. QED
    BY <2>4 DEF Pool!Next
<1>3. CASE Joined
  <2>1. queue = {} /\ Busy = {}
    BY <1>3, CountZero DEF IInv, Joined
  <2>2. /\ outcome = "none" /\ outcome' = "ok"
        /\ UNCHANGED <<queueVars, workerVars, settled, abandoned>>
    BY <1>3 DEF Joined, LeaveTry, IInv, PoolInv, OutcomeInv, Cancelled,
                historyVars
  <2>3. \A w \in Workers : Held[w] = Pool!Nothing
    BY <2>1, HeldType DEF Busy
  <2>4. Tickets(queue) = {}
    BY <2>1 DEF Tickets
  <2>5. Pool!Drain
    BY <2>2, <2>3, <2>4
       DEF Pool!Drain, queueVars, workerVars, Held, Status
  <2>6. QED
    BY <2>5 DEF Pool!Next
<1>4. CASE Raise \/ CancelMain
  <2>1. /\ outcome' \in {"error", "cancelled"}
        /\ UNCHANGED <<queueVars, workerVars, settled, abandoned>>
    BY <1>4 DEF Raise, CancelMain, LeaveTry, historyVars
  <2>2. Pool!Abort
    BY <2>1 DEF Pool!Abort, queueVars, workerVars, Held, Status
  <2>3. QED
    BY <2>2 DEF Pool!Next
<1>5. ASSUME NEW w \in Workers, Get(w) \/ Finish(w)
      PROVE  Pool!Advance(w)
  <2>1. /\ outcome = "none" /\ outcome' = "none" /\ TakeNext(w)
        /\ UNCHANGED <<seq, abandoned>>
        /\ wpc[w] = "busy" => settled' = settled \cup {job[w]}
        /\ wpc[w] # "busy" => settled' = settled
    BY <1>5 DEF Get, Finish, IInv, PoolInv, OutcomeInv, historyVars, mainVars
  <2>2. Tickets(settled') = Tickets(settled) \cup ({Held[w]} \ {Pool!Nothing})
    BY <2>1, HeldType DEF Tickets
  <2>3. QED
    BY <2>1, <2>2, TakeNextTickets DEF Pool!Advance, Pool!Nothing, Status
<1>6. ASSUME NEW w \in Workers, StopIdle(w)
      PROVE  UNCHANGED Pool!vars
  <2>1. Held' = Held
    BY <1>6 DEF StopIdle, Held, IInv, PoolInv, TypeOK
  <2>2. QED
    BY <1>6, <2>1
       DEF StopIdle, Pool!vars, mainVars, queueVars, historyVars, Status
<1>7. ASSUME NEW w \in Workers, StopBusy(w)
      PROVE  Pool!Drop(w)
  <2>1. /\ w \in Busy
        /\ wpc'[w] = "stopped"
        /\ \A v \in Workers \ {w} : wpc'[v] = wpc[v] /\ job'[v] = job[v]
    BY <1>7 DEF StopBusy, Busy, IInv, PoolInv, TypeOK
  <2>2. /\ outcome \notin {"none", "ok"} /\ outcome' = outcome
    BY <1>7, <2>1
       DEF StopBusy, IInv, PoolInv, OutcomeInv, HistoryInv, OrderlyInv,
           Cancelled, mainVars
  <2>3. Held' = [Held EXCEPT ![w] = -1]
    BY <2>1, HeldStep
  <2>4. Held[w] = job[w].seq /\ Held[w] # Pool!Nothing
    BY <2>1, HeldType DEF Busy
  <2>5. Tickets(abandoned') = Tickets(abandoned) \cup {Held[w]}
    BY <1>7, <2>4 DEF StopBusy, Tickets
  <2>6. UNCHANGED <<queue, seq, settled>>
    BY <1>7 DEF StopBusy
  <2>7. QED
    BY <2>2, <2>3, <2>4, <2>5, <2>6 DEF Pool!Drop, Pool!Nothing, Status
<1>8. QED
  BY <1>1, <1>2, <1>3, <1>4, <1>5, <1>6, <1>7
     DEF Next, Progress, Worker, Ended, Pool!Next

\* Every behaviour of the pipeline is, seen as tickets, one of the pool.
THEOREM Refinement == Spec => PoolSpec
<1>1. Init => Pool!Init
  BY PoolInit
<1>2. IInv /\ [Next]_vars => [Pool!Next]_Pool!vars
  BY PoolStep
<1>3. Spec => Pool!Spec
  BY <1>1, <1>2, Invariance, PTL DEF Spec, Pool!Spec
<1>4. QED
  BY <1>3 DEF PoolSpec

-----------------------------------------------------------------------------
(* Waiting.                                                                *)

\* Whoever takes a trigger overtakes none that scores as high and is older.
LEMMA TakeOvertakes ==
    ASSUME PoolInv, HistoryInv, NeverOvertaken, NEW w \in Workers, TakeNext(w),
           UNCHANGED <<announced, seq>>
    PROVE  NeverOvertaken'
<1> USE DEF PoolInv, HistoryInv
<1>1. Enqueued' = Enqueued
  BY DEF Enqueued
<1>2. CASE queue' = queue
  BY <1>1, <1>2 DEF NeverOvertaken, Started
<1>3. ASSUME NEW t \in queue, IsHead(t), queue' = queue \ {t}
      PROVE  NeverOvertaken'
  <2>1. Started \subseteq Started' /\ Started' \subseteq Started \cup {t}
    BY <1>1, <1>3 DEF Started
  <2>2. t.score \in Int /\ t.seq \in Nat /\ seq \in Nat
    BY DomainAssumption DEF TypeOK, Trigger
  <2>3. SUFFICES ASSUME NEW a \in announced, NEW b \in announced,
                        a.seq < b.seq, a.score >= b.score, b \in Started'
                 PROVE  a \in Started'
    BY <1>3 DEF NeverOvertaken
  <2>4. /\ a.seq \in Nat /\ b.seq \in Nat /\ a.score \in Int /\ b.score \in Int
        /\ b.seq <= seq
    BY DomainAssumption DEF AnnouncedInv, TypeOK, Trigger
  <2>5. CASE b \in Started
    BY <2>1, <2>3, <2>5 DEF NeverOvertaken
  <2>6. CASE b = t
    <3>1. a \in Enqueued
      BY <2>2, <2>3, <2>4 DEF Enqueued
    <3>2. a # t /\ ~Precedes(t, a)
      BY <2>3, <2>4, <2>6 DEF Precedes
    <3>3. a \notin queue
      BY <1>3, <3>2 DEF IsHead
    <3> QED
      BY <2>1, <3>1, <3>3 DEF Started
  <2> QED
    BY <2>1, <2>3, <2>5, <2>6
<1> QED
  BY <1>2, <1>3 DEF TakeNext

\* A trigger announced or queued is not started yet, and no older one loses its
\* place among the started.
LEMMA StartedKept ==
    ASSUME NeverOvertaken, Started' = Started, Started \subseteq announced,
           announced \subseteq announced',
           \A a \in announced' \ announced, b \in Started : ~(a.seq < b.seq)
    PROVE  NeverOvertaken'
BY DEF NeverOvertaken

LEMMA OvertakenStep ==
    ASSUME PoolInv, HistoryInv, NeverOvertaken, [Next]_vars
    PROVE  NeverOvertaken'
<1> USE DEF PoolInv
<1>1. Started \subseteq announced
  BY DEF Started, Enqueued
<1>2. CASE Announce
  <2> DEFINE new == AsTrigger(Head(batch))
  <2>1. announced' = announced \cup {new} /\ UNCHANGED <<queue, seq>>
    BY <1>2 DEF Announce, queueVars
  <2>2. Head(batch) \in AnomalyEvent
    BY <1>2, BatchType DEF Announce, TypeOK
  <2>3. new.seq = seq /\ seq \in Nat
    BY <2>2, TriggerType DEF TypeOK, AsTrigger
  <2>4. Enqueued' = Enqueued
    BY <2>1, <2>3 DEF Enqueued
  <2>5. Started' = Started
    BY <2>1, <2>4 DEF Started
  <2>6. \A b \in Started : b.seq \in Nat /\ b.seq < seq
    BY DEF Started, Enqueued, TypeOK, Trigger
  <2> HIDE DEF new
  <2>7. \A a \in announced' \ announced, b \in Started : ~(a.seq < b.seq)
    BY <2>1, <2>3, <2>6
  <2> QED
    BY <1>1, <2>1, <2>5, <2>7, StartedKept
<1>3. CASE Enqueue
  <2> DEFINE new == AsTrigger(Head(batch))
  <2>1. /\ announced' = announced /\ main = "emitAnomaly"
        /\ queue' = queue \cup {new} /\ seq' = seq + 1
    BY <1>3 DEF Enqueue, historyVars
  <2>2. /\ new \notin Enqueued /\ announced = Enqueued \cup {new} /\ new.seq = seq
    BY <1>3, EnqueueNew DEF HistoryInv
  <2>3. Enqueued' = announced
    <3>1. \A t \in announced : t.seq \in Nat /\ t.seq <= seq /\ seq \in Nat
      BY DEF HistoryInv, AnnouncedInv, TypeOK, Trigger
    <3> QED
      BY <2>1, <3>1 DEF Enqueued
  <2>4. Started' = Started
    BY <2>1, <2>2, <2>3 DEF Started
  <2> QED
    BY <1>1, <2>1, <2>4, StartedKept
<1>4. ASSUME NEW w \in Workers, Get(w) \/ Finish(w) PROVE NeverOvertaken'
  <2>1. TakeNext(w) /\ UNCHANGED <<announced, seq>>
    BY <1>4 DEF Get, Finish, historyVars
  <2> QED
    BY <2>1, TakeOvertakes
<1>5. CASE \/ NextFrame \/ FrameEmitted \/ Detected \/ Suppress \/ BatchConsumed
           \/ StreamEnded \/ Raise \/ CancelMain \/ Joined \/ WorkersGathered \/ Ended
           \/ (\E w \in Workers : StopIdle(w) \/ StopBusy(w)) \/ UNCHANGED vars
  <2>1. UNCHANGED <<announced, queue, seq>>
    BY <1>5 DEF NextFrame, FrameEmitted, Detected, Suppress, BatchConsumed,
                StreamEnded, Raise, CancelMain, Joined, WorkersGathered, LeaveTry,
                Ended, StopIdle, StopBusy, vars, queueVars, historyVars
  <2> QED
    BY <2>1 DEF NeverOvertaken, Started, Enqueued
<1> QED
  BY <1>2, <1>3, <1>4, <1>5 DEF Next, Progress, Worker

\* For any number of workers, frames and anomalies, with a handler that suspends
\* or not: while an anomaly waits, none that was announced after it and scores no
\* higher is investigated.
THEOREM NeverOvertakenCorrect == Spec => []NeverOvertaken
<1>1. Init => NeverOvertaken
  BY DEF Init, NeverOvertaken, Started, Enqueued
<1>2. IInv /\ NeverOvertaken /\ [Next]_vars => NeverOvertaken'
  BY OvertakenStep DEF IInv
<1> QED
  BY <1>1, <1>2, Invariance, PTL DEF Spec

-----------------------------------------------------------------------------
(* The triggers of one frame.                                              *)

\* While the events of a frame are queued, no trigger of the frame is taken.
FrameInv ==
    /\ \A t \in announced : t.frame <= frames
    /\ main \in {"emitFrame", "detect"} =>
           \A t \in announced : t.frame < frames
    /\ main \in {"dedup", "emitAnomaly"} => \A t \in Started : t.frame # frames
    /\ SameFrameOrder

\* Nothing starts while workers do not run.
LEMMA FrameUntouched ==
    ASSUME PoolInv, FrameInv, UNCHANGED <<announced, queue, seq, frames>>,
           \/ main' \notin {"emitFrame", "detect", "dedup", "emitAnomaly"}
           \/ main = "emitFrame" /\ main' = "detect"
           \/ main = "detect" /\ main' = "dedup"
           \/ main' = main
    PROVE  FrameInv'
<1>1. Started' = Started /\ Started \subseteq announced
  BY DEF Started, Enqueued
<1>2. \A t \in announced : t.frame \in Nat /\ frames \in Nat
  BY DEF PoolInv, TypeOK, Trigger
<1> QED
  BY <1>1, <1>2 DEF FrameInv, SameFrameOrder

\* A worker takes a trigger only when all triggers of its frame are queued.
LEMMA TakeFrame ==
    ASSUME ~EmitSuspends, PoolInv, HistoryInv, FrameInv, NEW w \in Workers,
           MainSuspended, ~Cancelled, TakeNext(w),
           UNCHANGED <<announced, seq, frames, main>>
    PROVE  FrameInv'
<1> USE DEF PoolInv, HistoryInv
<1>1. main \notin {"dedup", "emitAnomaly"} /\ announced = Enqueued
  BY DEF MainSuspended, Cancelled, AnnouncedInv
<1>2. Enqueued' = Enqueued
  BY DEF Enqueued
<1>3. CASE queue' = queue
  BY <1>3, FrameUntouched
<1>4. ASSUME NEW t \in queue, IsHead(t), queue' = queue \ {t}
      PROVE  FrameInv'
  <2>1. Started' \subseteq Started \cup {t}
    BY <1>2, <1>4 DEF Started
  <2>2. Started \subseteq Started'
    BY <1>2, <1>4 DEF Started
  <2>3. \A b \in announced : b \in Started \/ b \in queue
    BY <1>1 DEF Started
  <2>4. \A b \in queue : b.score \in Int /\ t.score \in Int
    BY DomainAssumption DEF TypeOK, Trigger
  <2>5. \A b \in queue : b # t => ~(t.score < b.score)
    BY <1>4, <2>4 DEF IsHead, Precedes
  <2>6. SameFrameOrder'
    <3> SUFFICES ASSUME NEW a \in announced, NEW b \in announced,
                        a.frame = b.frame, a.score < b.score, a \in Started'
                 PROVE  b \in Started'
      BY DEF SameFrameOrder
    <3>1. CASE a \in Started
      BY <2>2, <3>1 DEF FrameInv, SameFrameOrder
    <3>2. CASE a = t
      <4>1. b # t
        BY <2>4, <3>2
      <4>2. b \notin queue
        BY <2>5, <3>2, <4>1
      <4> QED
        BY <2>2, <2>3, <4>2
    <3> QED
      BY <2>1, <3>1, <3>2
  <2> QED
    BY <1>1, <2>6 DEF FrameInv
<1> QED
  BY <1>3, <1>4 DEF TakeNext

LEMMA AnnounceFrame ==
    ASSUME PoolInv, HistoryInv, FrameInv, Announce
    PROVE  FrameInv'
<1> DEFINE new == AsTrigger(Head(batch))
<1> USE DEF PoolInv, HistoryInv
<1>1. /\ announced' = announced \cup {new} /\ main = "dedup"
      /\ main' = "emitAnomaly" /\ UNCHANGED <<queue, seq, frames>>
  BY DEF Announce, queueVars, streamVars
<1>2. Head(batch) \in AnomalyEvent
  BY BatchType DEF Announce, TypeOK
<1>3. new.seq = seq /\ new.frame = frames /\ seq \in Nat /\ frames \in Nat
  BY <1>2, TriggerType DEF TypeOK, AsTrigger
<1>4. Enqueued' = Enqueued /\ new \notin Enqueued
  BY <1>1, <1>3 DEF Enqueued
<1>5. Started' = Started /\ new \notin Started /\ Started \subseteq announced
  BY <1>1, <1>4 DEF Started, Enqueued
<1>6. \A t \in Started : t.frame # frames
  BY <1>1 DEF FrameInv
<1>7. SameFrameOrder'
  BY <1>1, <1>3, <1>5, <1>6 DEF SameFrameOrder, FrameInv
<1> QED
  BY <1>1, <1>3, <1>5, <1>6, <1>7 DEF FrameInv

LEMMA EnqueueFrame ==
    ASSUME PoolInv, HistoryInv, FrameInv, Enqueue
    PROVE  FrameInv'
<1> DEFINE new == AsTrigger(Head(batch))
<1> USE DEF PoolInv, HistoryInv
<1>1. /\ announced' = announced /\ main = "emitAnomaly" /\ main' = "dedup"
      /\ queue' = queue \cup {new} /\ seq' = seq + 1 /\ frames' = frames
  BY DEF Enqueue, historyVars, streamVars
<1>2. /\ new \notin Enqueued /\ announced = Enqueued \cup {new} /\ new.seq = seq
  BY EnqueueNew
<1>3. Enqueued' = announced
  <2>1. \A t \in announced : t.seq \in Nat /\ t.seq <= seq /\ seq \in Nat
    BY DEF AnnouncedInv, TypeOK, Trigger
  <2> QED
    BY <1>1, <2>1 DEF Enqueued
<1>4. Started' = Started
  BY <1>1, <1>2, <1>3 DEF Started
<1> QED
  BY <1>1, <1>4 DEF FrameInv, SameFrameOrder

LEMMA FrameStep ==
    ASSUME ~EmitSuspends, PoolInv, HistoryInv, FrameInv, [Next]_vars
    PROVE  FrameInv'
<1> USE DEF PoolInv
<1>1. CASE NextFrame
  <2>1. /\ UNCHANGED <<announced, queue, seq>> /\ frames' = frames + 1
        /\ main' = "emitFrame"
    BY <1>1 DEF NextFrame, queueVars, historyVars
  <2>2. Started' = Started
    BY <2>1 DEF Started, Enqueued
  <2>3. \A t \in announced : t.frame \in Nat /\ frames \in Nat
    BY DEF TypeOK, Trigger
  <2> QED
    BY <2>1, <2>2, <2>3 DEF FrameInv, SameFrameOrder
<1>2. CASE \/ FrameEmitted \/ Detected \/ Suppress \/ BatchConsumed \/ StreamEnded
           \/ Raise \/ CancelMain \/ Joined \/ WorkersGathered \/ Ended
           \/ UNCHANGED vars
  <2>1. UNCHANGED <<announced, queue, seq, frames>>
    BY <1>2 DEF FrameEmitted, Detected, Suppress, BatchConsumed, StreamEnded,
                Raise, CancelMain, Joined, WorkersGathered, LeaveTry, Ended,
                vars, queueVars, historyVars, streamVars
  <2>2. \/ main' \notin {"emitFrame", "detect", "dedup", "emitAnomaly"}
        \/ main = "emitFrame" /\ main' = "detect"
        \/ main = "detect" /\ main' = "dedup"
        \/ main' = main
    BY <1>2 DEF FrameEmitted, Detected, Suppress, BatchConsumed, StreamEnded,
                Raise, CancelMain, Joined, WorkersGathered, LeaveTry, Ended,
                vars, mainVars
  <2> QED
    BY <2>1, <2>2, FrameUntouched
<1>3. ASSUME NEW w \in Workers, Worker(w) PROVE FrameInv'
  <2>1. UNCHANGED <<announced, seq, frames, main>>
    BY <1>3 DEF Worker, Get, Finish, StopIdle, StopBusy, queueVars, historyVars,
                streamVars, mainVars
  <2>2. CASE Get(w) \/ Finish(w)
    <3>1. MainSuspended /\ ~Cancelled /\ TakeNext(w)
      BY <2>2 DEF Get, Finish
    <3> QED
      BY <2>1, <3>1, TakeFrame
  <2>3. CASE StopIdle(w) \/ StopBusy(w)
    <3>1. queue' = queue
      BY <2>3 DEF StopIdle, StopBusy, queueVars
    <3> QED
      BY <2>1, <3>1, FrameUntouched
  <2> QED
    BY <1>3, <2>2, <2>3 DEF Worker
<1> QED
  BY <1>1, <1>2, <1>3, AnnounceFrame, EnqueueFrame DEF Next, Progress

\* When the handler does not suspend the task, the triggers of a frame are
\* investigated in the order of their scores.
THEOREM SameFrameCorrect == ~EmitSuspends => (Spec => []SameFrameOrder)
<1> SUFFICES ASSUME ~EmitSuspends PROVE Spec => []SameFrameOrder
  OBVIOUS
<1>1. Init => FrameInv
  BY DEF Init, FrameInv, SameFrameOrder, Started, Enqueued
<1>2. IInv /\ FrameInv /\ [Next]_vars => FrameInv'
  BY FrameStep DEF IInv
<1>3. FrameInv => SameFrameOrder
  BY DEF FrameInv
<1> QED
  BY <1>1, <1>2, <1>3, Invariance, PTL DEF Spec

-----------------------------------------------------------------------------
(* The number of triggers.                                                 *)

\* Time begins with the first frame.
SinceInv ==
    /\ main = "emitFrame" => now >= 1
    /\ \A t \in rolling_frames : t >= 1
    /\ \A i \in DOMAIN batch : batch[i].ts >= 1
    /\ \A t \in announced : t.ts >= 1

LEMMA SinceStep ==
    ASSUME PoolInv, HistoryInv, SinceInv, [Next]_vars
    PROVE  SinceInv'
<1> USE DEF PoolInv, TypeOK
<1>1. CASE NextFrame
  BY <1>1 DEF NextFrame, SinceInv, historyVars
<1>2. CASE FrameEmitted
  BY <1>2 DEF FrameEmitted, SinceInv, historyVars
<1>3. CASE Detected
  <2>1. UNCHANGED <<rolling_frames, announced, now>> /\ main' = "dedup"
    BY <1>3 DEF Detected, streamVars, historyVars
  <2>2. PICK n \in 0..MaxBatch :
           batch' \in [1..n -> [key : Keys, ts : rolling_frames, score : Scores]]
    BY <1>3 DEF Detected, Detections
  <2>3. \A i \in DOMAIN batch' : batch'[i].ts \in rolling_frames
    BY <2>2
  <2> QED
    BY <2>1, <2>3 DEF SinceInv
<1>4. CASE Suppress \/ (Enqueue /\ batch # <<>>)
  <2>1. UNCHANGED <<rolling_frames, announced, now>> /\ batch' = Tail(batch)
        /\ main' = "dedup" /\ batch # <<>> /\ batch \in Seq(AnomalyEvent)
    BY <1>4 DEF Suppress, Enqueue, streamVars, historyVars, mainVars
  <2>2. \A i \in DOMAIN batch' : i + 1 \in DOMAIN batch /\ batch'[i] = batch[i + 1]
    BY <2>1
  <2> QED
    BY <2>1, <2>2 DEF SinceInv
<1>5. CASE Announce
  <2>1. /\ announced' = announced \cup {AsTrigger(Head(batch))} /\ batch # <<>>
        /\ batch' = batch /\ main' = "emitAnomaly"
        /\ UNCHANGED <<rolling_frames, now>>
    BY <1>5 DEF Announce, streamVars
  <2>2. Head(batch) = batch[1] /\ 1 \in DOMAIN batch
    BY <2>1
  <2>3. AsTrigger(Head(batch)).ts >= 1
    BY <2>2 DEF AsTrigger, SinceInv
  <2> QED
    BY <2>1, <2>3 DEF SinceInv
<1>6. CASE \/ BatchConsumed \/ StreamEnded \/ Raise \/ CancelMain \/ Joined
           \/ WorkersGathered \/ (\E w \in Workers : Worker(w)) \/ Ended
           \/ UNCHANGED vars
  <2>1. UNCHANGED <<rolling_frames, now, batch, announced>>
    BY <1>6 DEF BatchConsumed, StreamEnded, Raise, CancelMain, Joined,
                WorkersGathered, LeaveTry, Worker, Get, Finish, StopIdle,
                StopBusy, Ended, vars, streamVars, historyVars
  <2>2. main' = "emitFrame" => main = "emitFrame"
    BY <1>6 DEF BatchConsumed, StreamEnded, Raise, CancelMain, Joined,
                WorkersGathered, LeaveTry, Worker, Get, Finish, StopIdle,
                StopBusy, Ended, vars, mainVars
  <2> QED
    BY <2>1, <2>2 DEF SinceInv
<1> QED
  BY <1>1, <1>2, <1>3, <1>4, <1>5, <1>6, EnqueueNew DEF Next, Progress

\* Division by the cooldown puts events a cooldown apart into different slots.
LEMMA Slots ==
    ASSUME NEW c \in Nat, c > 0, NEW x \in Nat
    PROVE  /\ x \div c \in Nat
           /\ (x + c) \div c = x \div c + 1
           /\ \A y \in Nat : x <= y => x \div c <= y \div c
           /\ \A y \in Nat : y - x >= c => x \div c < y \div c
  OBVIOUS

LEMMA BacklogFromInv == IInv /\ SinceInv => BacklogBound
<1> SUFFICES ASSUME IInv, SinceInv, Cooldown > 0
             PROVE  Cardinality(announced) <=
                       Cardinality(Keys) * ((now + Cooldown - 1) \div Cooldown)
  BY DEF BacklogBound
<1> DEFINE slots == (now + Cooldown - 1) \div Cooldown
           slot(t) == (t.ts - 1) \div Cooldown
           cells == Keys \X (0..(slots - 1))
           f == [t \in announced |-> <<t.key, slot(t)>>]
<1>1. Cooldown \in Nat /\ now \in Nat
  BY SettingsAssumption DEF IInv, PoolInv, TypeOK
<1>2. \A t \in announced : /\ t.key \in Keys /\ t.ts \in Nat /\ t.ts - 1 \in Nat
                           /\ t.ts <= now /\ t.seq \in Nat
  <2> SUFFICES ASSUME NEW t \in announced
               PROVE  /\ t.key \in Keys /\ t.ts \in Nat /\ t.ts - 1 \in Nat
                      /\ t.ts <= now /\ t.seq \in Nat
    OBVIOUS
  <2>1. t \in Trigger
    BY DEF IInv, PoolInv, TypeOK
  <2>2. t.key \in Keys /\ t.ts \in Nat /\ t.seq \in Nat
    BY <2>1 DEF Trigger
  <2>3. t.ts <= ingested /\ ingested <= now /\ ingested \in Int /\ t.ts >= 1
    BY DEF IInv, PoolInv, TypeOK, EvidenceInv, EvidenceIngested, SinceInv, Never
  <2> QED
    BY <1>1, <2>2, <2>3
<1>3. slots \in Nat
  <2>1. CASE now = 0
    BY <1>1, <2>1, Slots
  <2>2. CASE now # 0
    <3>1. now - 1 \in Nat /\ now + Cooldown - 1 = now - 1 + Cooldown
      BY <1>1, <2>2
    <3> QED
      BY <1>1, <3>1, Slots
  <2> QED
    BY <2>1, <2>2
<1>4. \A t \in announced : slot(t) \in 0..(slots - 1)
  <2> SUFFICES ASSUME NEW t \in announced PROVE slot(t) \in 0..(slots - 1)
    OBVIOUS
  <2>1. now - 1 \in Nat /\ t.ts - 1 <= now - 1
    BY <1>1, <1>2
  <2>2. slot(t) <= (now - 1) \div Cooldown /\ slot(t) \in Nat
    BY <1>1, <1>2, <2>1, Slots
  <2>3. slots = (now - 1) \div Cooldown + 1
    <3>1. (now - 1) + Cooldown = now + Cooldown - 1
      BY <1>1, <2>1
    <3> QED
      BY <1>1, <2>1, <3>1, Slots
  <2>4. (now - 1) \div Cooldown \in Nat
    BY <1>1, <2>1, Slots
  <2> HIDE DEF slots, slot
  <2> QED
    BY <2>2, <2>3, <2>4
<1>5. \A a, b \in announced : a.key = b.key /\ slot(a) = slot(b) => a = b
  <2> SUFFICES ASSUME NEW a \in announced, NEW b \in announced, a.key = b.key,
                      slot(a) = slot(b), a.seq < b.seq
               PROVE  FALSE
    BY <1>2 DEF IInv, HistoryInv, AnnouncedInv
  <2>1. b.ts - a.ts >= Cooldown
    BY DEF IInv, CacheInv, DedupSpacing
  <2>2. (b.ts - 1) - (a.ts - 1) >= Cooldown
    BY <1>1, <1>2, <2>1
  <2>3. slot(a) < slot(b)
    BY <1>1, <1>2, <2>2, Slots
  <2>4. slot(a) \in Nat
    BY <1>1, <1>2, Slots
  <2> HIDE DEF slot
  <2> QED
    BY <2>3, <2>4
<1> HIDE DEF slots, slot
<1>6. f \in Injection(announced, cells)
  <2>1. f \in [announced -> cells]
    BY <1>2, <1>4
  <2>2. \A a, b \in announced : f[a] = f[b] => a = b
    BY <1>5
  <2> QED
    BY <2>1, <2>2 DEF Injection, IsInjective
<1>7. /\ IsFiniteSet(Keys) /\ IsFiniteSet(0..(slots - 1))
      /\ Cardinality(0..(slots - 1)) = slots
  BY <1>3, DomainAssumption, FS_Interval
<1>8. IsFiniteSet(cells) /\ Cardinality(cells) = Cardinality(Keys) * slots
  BY <1>7, FS_Product
<1> HIDE DEF f, cells
<1>9. Cardinality(announced) <= Cardinality(cells)
  BY <1>6, <1>8, FS_Injection
<1> QED
  BY <1>8, <1>9 DEF slots

\* The cooldown bounds the number of triggers, and with it the queue.
THEOREM BacklogCorrect == Spec => []BacklogBound
<1>1. Init => SinceInv
  BY DEF Init, SinceInv
<1>2. IInv /\ SinceInv /\ [Next]_vars => SinceInv'
  BY SinceStep DEF IInv
<1> QED
  BY <1>1, <1>2, BacklogFromInv, Invariance, PTL DEF Spec
=============================================================================
