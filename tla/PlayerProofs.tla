---------------------------- MODULE PlayerProofs ----------------------------
(* Theorems about Player for any number of tasks, queues, chunks and          *)
(* settings values, and for every build configuration.                        *)
EXTENDS Player, FiniteSetTheorems, TLAPS

-----------------------------------------------------------------------------
(* One consumer *)

\* The part of the state SingleConsumer speaks about.
ConsumerInv == ppc \in [Tasks -> PlayerStates] /\ SingleConsumer

\* There are no tasks at start-up.
LEMMA ConsumerInit == Init => ConsumerInv
  BY DEF Init, ConsumerInv, SingleConsumer, Active, ActiveStates, PlayerStates

\* A step that moves one task within its active states, or leaves all of them,
\* and does not touch playerstarted.
LEMMA MoveInside ==
  ASSUME ConsumerInv, NEW t \in Tasks, Active(t),
         NEW l \in ActiveStates, Goto(t, l), UNCHANGED playerstarted
  PROVE  ConsumerInv'
  BY DEF ConsumerInv, SingleConsumer, Active, Goto, PlayerStates

\* A step that leaves all tasks where they are keeps the invariant.
LEMMA Unmoved ==
  ASSUME ConsumerInv, UNCHANGED <<ppc, playerstarted>>
  PROVE  ConsumerInv'
  BY DEF ConsumerInv, SingleConsumer, Active

\* http steps other than StartPlayer leave the tasks alone.
LEMMA HttpStepUnmoved ==
  ASSUME HttpStep, ~StartPlayer
  PROVE  UNCHANGED <<ppc, playerstarted>>
  BY DEF HttpStep, ServerSettings, StreamSettings, SetSettings, CheckHandle,
         OverwriteMailbox, Reconnect, TimeMessage, LatencyInsert,
         AllocateChunk, InsertChunk, SendChunk, ResumeSend, Panic, vars, task

\* start_player creates a task only while none is active.
LEMMA ConsumerStart == ConsumerInv /\ StartPlayer => ConsumerInv'
<1> SUFFICES ASSUME ConsumerInv, StartPlayer PROVE ConsumerInv'
  OBVIOUS
<1>1. CASE UNCHANGED <<ppc, playerstarted>>
  BY <1>1, Unmoved
<1>2. CASE /\ MayStart /\ playerstarted' = TRUE
           /\ \E t \in Tasks : ppc[t] = "none" /\ Goto(t, "begin")
  BY <1>2 DEF ConsumerInv, SingleConsumer, MayStart, Active, ActiveStates,
              PlayerStates, Goto
<1> QED
  BY <1>1, <1>2 DEF StartPlayer, task

\* What a step of player task t does to the tasks' positions.
LEMMA PlayerMoves ==
  ASSUME NEW t \in Tasks, PlayerStep(t)
  PROVE  \/ UNCHANGED <<ppc, playerstarted>>
         \/ /\ Active(t) /\ UNCHANGED playerstarted
            /\ \E l \in ActiveStates : Goto(t, l)
         \/ ppc[t] = "leave" /\ playerstarted' = FALSE /\ Goto(t, "log")
         \/ /\ ppc[t] = "log" /\ UNCHANGED playerstarted /\ Goto(t, "none")
<1> USE DEF Active, ActiveStates, task
<1>1. CASE PlayerBegin(t) \/ LatencyReady(t) \/ NothingChanged(t)
  BY <1>1 DEF PlayerBegin, LatencyReady, NothingChanged
<1>2. CASE ApplySettings(t)
  BY <1>2 DEF ApplySettings, Panic
<1>3. CASE DelayOver(t) \/ NoServerTime(t) \/ ChunkEarly(t) \/ ChunkLate(t)
  BY <1>3 DEF DelayOver, NoServerTime, ChunkEarly, ChunkLate
<1>4. CASE ReceiveChunk(t)
  BY <1>4 DEF ReceiveChunk
<1>5. CASE PreloadChunk(t)
  BY <1>5 DEF PreloadChunk, Panic
<1>6. CASE StartPlayback(t) \/ Unmute(t) \/ ChunkWritten(t)
  BY <1>6 DEF StartPlayback, Unmute, ChunkWritten
<1>7. CASE StayInSync(t) \/ HardResync(t)
  BY <1>7 DEF StayInSync, HardResync
<1>8. CASE StreamTimeout(t) \/ DeleteMailbox(t) \/ DestroyQueue(t)
  BY <1>8 DEF StreamTimeout, DeleteMailbox, DestroyQueue
<1>9. CASE DeclareStopped(t) \/ ForgetTask(t)
  BY <1>9 DEF DeclareStopped, ForgetTask
<1> QED
  BY <1>1, <1>2, <1>3, <1>4, <1>5, <1>6, <1>7, <1>8, <1>9 DEF PlayerStep

\* A player task hands over to nobody: it leaves before playerstarted is cleared.
LEMMA ConsumerPlayer ==
  ASSUME ConsumerInv, NEW t \in Tasks, PlayerStep(t)
  PROVE  ConsumerInv'
<1>1. CASE UNCHANGED <<ppc, playerstarted>>
  BY <1>1, Unmoved
<1>2. CASE /\ Active(t) /\ UNCHANGED playerstarted
           /\ \E l \in ActiveStates : Goto(t, l)
  BY <1>2, MoveInside
<1>3. CASE ppc[t] = "leave" /\ playerstarted' = FALSE /\ Goto(t, "log")
  BY <1>3 DEF ConsumerInv, SingleConsumer, Active, ActiveStates, PlayerStates,
              Goto
<1>4. CASE ppc[t] = "log" /\ UNCHANGED playerstarted /\ Goto(t, "none")
  BY <1>4 DEF ConsumerInv, SingleConsumer, Active, ActiveStates, PlayerStates,
              Goto
<1> QED
  BY <1>1, <1>2, <1>3, <1>4, PlayerMoves

\* The invariant is inductive.
LEMMA ConsumerNext == ConsumerInv /\ [Next]_vars => ConsumerInv'
<1> SUFFICES ASSUME ConsumerInv, [Next]_vars PROVE ConsumerInv'
  OBVIOUS
<1>1. CASE HttpStep
  BY <1>1, HttpStepUnmoved, Unmoved, ConsumerStart
<1>2. CASE \E t \in Tasks : PlayerStep(t)
  BY <1>2, ConsumerPlayer
<1>3. CASE TimerAlarm
  BY <1>3, Unmoved DEF TimerAlarm, Panic, task
<1>4. CASE UNCHANGED vars
  BY <1>4, Unmoved DEF vars, task
<1> QED
  BY <1>1, <1>2, <1>3, <1>4 DEF Next, Halted

\* start_player's guard and the order of the player task's last lines keep two
\* tasks from ever sharing the queue, the mailbox, the timer and the channel.
THEOREM OneConsumer == Spec => []SingleConsumer
<1>1. ConsumerInv => SingleConsumer
  BY DEF ConsumerInv
<1> QED
  BY <1>1, ConsumerInit, ConsumerNext, PTL DEF Spec


-----------------------------------------------------------------------------
(* What is released *)

\* Clearing up, in the order in which the task that stops does it.
Cleared(t) ==
  /\ ppc[t] \in {"stop", "drop", "leave"} => ~enabled /\ ~chan /\ ~i2sEnabled
  /\ ppc[t] \in {"drop", "leave"} => mailbox = "null"
  /\ ppc[t] = "leave" => timer = "off" /\ qid = NoQueue /\ queue = <<>>

\* A sender is only blocked on a queue that was there.
BlockedOnQueue == hpc = "blocked" => hq # NoQueue

ReleaseInv ==
  /\ ConsumerInv /\ BlockedOnQueue /\ ReleasedAfterStop
  /\ \A t \in Tasks : Cleared(t)

\* Nothing is there at start-up.
LEMMA ReleaseInit == Init => ReleaseInv
<1>1. Init => ReleasedAfterStop /\ BlockedOnQueue /\ \A t \in Tasks : Cleared(t)
  BY DEF Init, ReleasedAfterStop, BlockedOnQueue, Cleared
<1> QED BY <1>1, ConsumerInit DEF ReleaseInv

\* While http runs no task is clearing up.
LEMMA NobodyClears ==
  ASSUME HttpRuns, NEW t \in Tasks
  PROVE  ppc[t] \notin {"begin", "top", "sync", "age", "stop", "drop", "leave"}
BY DEF HttpRuns, Parked

\* Steps of http that leave the queue and the mailbox alone.
LEMMA ReleaseKept ==
  ASSUME ReleaseInv,
         UNCHANGED <<ppc, playerstarted, enabled, chan, i2sEnabled, timer, mailbox, qid, queue>>
  PROVE  ReleasedAfterStop' /\ \A t \in Tasks : Cleared(t)'
BY DEF ReleaseInv, ReleasedAfterStop, Cleared

\* http only touches what belongs to a player task that is not clearing up.
LEMMA ReleaseHttp ==
  ASSUME ReleaseInv, HttpStep
  PROVE  BlockedOnQueue' /\ ReleasedAfterStop' /\ \A t \in Tasks : Cleared(t)'
<1> USE DEF http, pcmq, i2s, dac, latency, task, memory, BlockedOnQueue
<1>1. CASE \/ \E b \in Buffers, m \in BOOLEAN : ServerSettings(b, m)
           \/ \E s \in NewStreams : StreamSettings(s)
           \/ SetSettings \/ CheckHandle \/ Reconnect
  BY <1>1, ReleaseKept DEF ServerSettings, StreamSettings, SetSettings, CheckHandle,
     Reconnect, ReleaseInv
<1>2. CASE \/ \E gap \in BOOLEAN : TimeMessage(gap)
           \/ LatencyInsert
           \/ \E c \in Chunks, s \in BOOLEAN : AllocateChunk(c, s)
           \/ InsertChunk
  BY <1>2, ReleaseKept DEF TimeMessage, LatencyInsert, AllocateChunk, InsertChunk, ReleaseInv
<1>3. CASE OverwriteMailbox
  BY <1>3, NobodyClears DEF OverwriteMailbox, Panic, ReleaseInv, ReleasedAfterStop, Cleared
<1>4. CASE SendChunk
  BY <1>4, NobodyClears DEF SendChunk, Panic, ReleaseInv, ReleasedAfterStop, Cleared
<1>5. CASE ResumeSend
  BY <1>5, NobodyClears DEF ResumeSend, Panic, ReleaseInv, ReleasedAfterStop, Cleared
<1>6. CASE StartPlayer
  <2>1. CASE UNCHANGED <<playerstarted, handle, pcmq, mailbox, i2s, latency, timer, notified, task>>
    BY <1>6, <2>1, ReleaseKept DEF StartPlayer, ReleaseInv
  <2>2. CASE /\ playerstarted' = TRUE
             /\ \E t \in Tasks : ppc[t] = "none" /\ Goto(t, "begin")
    <3>1. \A t \in Tasks : ppc'[t] \notin {"stop", "drop", "leave"}
      BY <1>6, <2>2, NobodyClears DEF StartPlayer, Goto, ReleaseInv, ConsumerInv
    <3> QED BY <1>6, <2>2, <3>1 DEF StartPlayer, ReleaseInv, ReleasedAfterStop, Cleared
  <2> QED BY <1>6, <2>1, <2>2 DEF StartPlayer
<1> QED BY <1>1, <1>2, <1>3, <1>4, <1>5, <1>6 DEF HttpStep

\* A step of an active task is undone by no other: there is none.
LEMMA OnlyOne ==
  ASSUME ConsumerInv, NEW t \in Tasks, Active(t)
  PROVE  playerstarted /\ \A u \in Tasks : u # t => ppc[u] \in {"none", "log"}
BY DEF ConsumerInv, SingleConsumer, Active, PlayerStates

\* A task that is not active only forgets itself.
LEMMA PlayerIdle ==
  ASSUME NEW t \in Tasks, PlayerStep(t), ~Active(t)
  PROVE  ForgetTask(t)
BY DEF PlayerStep, Active, ActiveStates, PlayerBegin, LatencyReady, NothingChanged,
       ApplySettings, DelayOver, ReceiveChunk, NoServerTime, ChunkEarly, ChunkLate,
       PreloadChunk, StartPlayback, Unmute, ChunkWritten, StayInSync, HardResync,
       StreamTimeout, DeleteMailbox, DestroyQueue, DeclareStopped

\* Each of the last steps releases what the next position says is gone.
LEMMA ReleasePlayer ==
  ASSUME ReleaseInv, NEW t \in Tasks, PlayerStep(t)
  PROVE  BlockedOnQueue' /\ ReleasedAfterStop' /\ \A u \in Tasks : Cleared(u)'
<1> USE DEF ReleaseInv, http, pcmq, i2s, dac, latency, task, memory, BlockedOnQueue,
            ReleasedAfterStop, Cleared, Goto, Panic
<1>0. ppc \in [Tasks -> PlayerStates] /\ ConsumerInv
  BY DEF ConsumerInv
<1>a. CASE Active(t)
  <2>1. playerstarted /\ \A u \in Tasks : u # t => ppc[u] \in {"none", "log"}
    BY <1>a, OnlyOne
  <2>2. CASE PlayerBegin(t) \/ LatencyReady(t) \/ NothingChanged(t) \/ DelayOver(t)
    BY <1>0, <2>1, <2>2 DEF PlayerBegin, LatencyReady, NothingChanged, DelayOver
  <2>3. CASE ApplySettings(t)
    BY <1>0, <2>1, <2>3 DEF ApplySettings
  <2>4. CASE ReceiveChunk(t)
    BY <1>0, <2>1, <2>4 DEF ReceiveChunk
  <2>5. CASE NoServerTime(t) \/ ChunkEarly(t) \/ ChunkLate(t)
    BY <1>0, <2>1, <2>5 DEF NoServerTime, ChunkEarly, ChunkLate
  <2>6. CASE PreloadChunk(t)
    BY <1>0, <2>1, <2>6 DEF PreloadChunk
  <2>7. CASE StartPlayback(t) \/ Unmute(t) \/ ChunkWritten(t)
    BY <1>0, <2>1, <2>7 DEF StartPlayback, Unmute, ChunkWritten
  <2>8. CASE StayInSync(t) \/ HardResync(t)
    BY <1>0, <2>1, <2>8 DEF StayInSync, HardResync
  <2>9. CASE StreamTimeout(t)
    BY <1>0, <2>1, <2>9 DEF StreamTimeout
  <2>10. CASE DeleteMailbox(t)
    BY <1>0, <2>1, <2>10 DEF DeleteMailbox
  <2>11. CASE DestroyQueue(t)
    BY <1>0, <2>1, <2>11 DEF DestroyQueue
  <2>12. CASE DeclareStopped(t)
    BY <1>0, <2>1, <2>12 DEF DeclareStopped
  <2>13. ~ForgetTask(t)
    BY <1>a DEF ForgetTask, Active, ActiveStates
  <2> QED BY <2>2, <2>3, <2>4, <2>5, <2>6, <2>7, <2>8, <2>9, <2>10, <2>11, <2>12, <2>13
          DEF PlayerStep
<1>b. CASE ~Active(t)
  <2>1. ForgetTask(t)
    BY <1>b, PlayerIdle
  <2> QED BY <1>0, <2>1 DEF ForgetTask
<1> QED BY <1>a, <1>b

\* The invariant is inductive.
LEMMA ReleaseNext == ReleaseInv /\ [Next]_vars => ReleaseInv'
<1> SUFFICES ASSUME ReleaseInv, [Next]_vars PROVE ReleaseInv'
  OBVIOUS
<1>1. ConsumerInv'
  BY ConsumerNext DEF ReleaseInv
<1>2. CASE HttpStep
  BY <1>1, <1>2, ReleaseHttp DEF ReleaseInv
<1>3. CASE \E t \in Tasks : PlayerStep(t)
  BY <1>1, <1>3, ReleasePlayer DEF ReleaseInv
<1>4. CASE TimerAlarm
  BY <1>1, <1>4 DEF TimerAlarm, Panic, ReleaseInv, ReleasedAfterStop, Cleared,
     BlockedOnQueue, http, pcmq, i2s, dac, task
<1>5. CASE UNCHANGED vars
  BY <1>1, <1>5 DEF vars, ReleaseInv, ReleasedAfterStop, Cleared,
     BlockedOnQueue, http, pcmq, i2s, dac, task
<1> QED BY <1>2, <1>3, <1>4, <1>5 DEF Next, Halted

\* A player task that stopped left nothing behind: the output is shut down, the
\* alarm is off, mailbox and queue are gone (player.c:2116-2138).
THEOREM StoppedReleases == Spec => []ReleasedAfterStop
<1>1. ReleaseInv => ReleasedAfterStop BY DEF ReleaseInv
<1> QED BY <1>1, ReleaseInit, ReleaseNext, PTL DEF Spec


-----------------------------------------------------------------------------
(* The I2S channel *)

\* In sync or not, as the position in the loop says; in sync the channel runs.
Positioned(t) ==
  /\ ppc[t] \in {"sync", "preload", "notify"} => initialSync[t] = FALSE
  /\ ppc[t] \in {"settle", "write", "age"} => initialSync[t] = TRUE
  /\ Active(t) /\ ppc[t] \notin {"stop", "drop", "leave"} => chan = TRUE
  /\ ppc[t] = "preload" => i2sEnabled = FALSE
  /\ Active(t) /\ ppc[t] # "begin" /\ initialSync[t] = TRUE => i2sEnabled = TRUE

ChannelInv ==
  /\ ConsumerInv /\ initialSync \in [Tasks -> BOOLEAN]
  /\ \A t \in Tasks : Positioned(t)

\* There are no tasks at start-up.
LEMMA ChannelInit == Init => ChannelInv
<1>1. Init => /\ initialSync \in [Tasks -> BOOLEAN]
              /\ \A t \in Tasks : Positioned(t)
  BY DEF Init, Positioned, Active, ActiveStates
<1> QED BY <1>1, ConsumerInit DEF ChannelInv

\* Only start_player touches the channel from the side of http.
LEMMA ChannelHttpKept ==
  ASSUME HttpStep, ~StartPlayer
  PROVE  UNCHANGED <<task, timer, notified, handle, playerstarted, i2s>>
BY DEF HttpStep, ServerSettings, StreamSettings, SetSettings, CheckHandle,
       OverwriteMailbox, Reconnect, TimeMessage, LatencyInsert,
       AllocateChunk, InsertChunk, SendChunk, ResumeSend, Panic

\* A new task finds the channel set up.
LEMMA ChannelHttp ==
  ASSUME ChannelInv, HttpStep
  PROVE  initialSync' \in [Tasks -> BOOLEAN] /\ \A t \in Tasks : Positioned(t)'
<1> USE DEF ChannelInv, Positioned, Active, ActiveStates
<1>1. CASE ~StartPlayer
  BY <1>1, ChannelHttpKept DEF task, i2s
<1>2. CASE StartPlayer /\ UNCHANGED <<ppc, initialSync, i2s>>
  BY <1>2 DEF i2s
<1>3. CASE StartPlayer /\ ~UNCHANGED <<ppc, initialSync, i2s>>
  <2>1. /\ chan' = TRUE /\ ~playerstarted /\ initialSync' = initialSync
        /\ \E t \in Tasks : Goto(t, "begin")
    BY <1>3 DEF StartPlayer, MayStart, task
  <2>2. \A t \in Tasks : ppc[t] \in {"none", "log"}
    BY <2>1 DEF ConsumerInv, SingleConsumer, PlayerStates
  <2> QED BY <2>1, <2>2 DEF Goto, ConsumerInv
<1> QED BY <1>1, <1>2, <1>3

\* Only a resync and the end of the stream switch the channel off, and out of sync.
LEMMA ChannelPlayer ==
  ASSUME ChannelInv, NEW t \in Tasks, PlayerStep(t)
  PROVE  initialSync' \in [Tasks -> BOOLEAN] /\ \A u \in Tasks : Positioned(u)'
<1> USE DEF ChannelInv, i2s, task, Positioned, Goto, Panic, Active, ActiveStates
<1>0. ppc \in [Tasks -> PlayerStates] /\ ConsumerInv
  BY DEF ConsumerInv
<1>a. CASE Active(t)
  <2>1. playerstarted /\ \A u \in Tasks : u # t => ppc[u] \in {"none", "log"}
    BY <1>a, <1>0, OnlyOne
  <2>2. CASE PlayerBegin(t)
    BY <1>0, <2>1, <2>2 DEF PlayerBegin
  <2>3. CASE LatencyReady(t)
    BY <1>0, <2>1, <2>3 DEF LatencyReady
  <2>4. CASE NothingChanged(t)
    BY <1>0, <2>1, <2>4 DEF NothingChanged
  <2>5. CASE DelayOver(t)
    BY <1>0, <2>1, <2>5 DEF DelayOver
  <2>6. CASE ApplySettings(t)
    <3>1. CASE Panic("task_returned")
      BY <3>1
    <3>2. CASE ppc' = [ppc EXCEPT ![t] = "recv"]
      BY <1>0, <2>1, <2>6, <3>2 DEF ApplySettings
    <3> QED BY <2>6, <3>1, <3>2 DEF ApplySettings
  <2>7. CASE ReceiveChunk(t)
    BY <1>0, <2>1, <2>7 DEF ReceiveChunk
  <2>8. CASE NoServerTime(t)
    BY <1>0, <2>1, <2>8 DEF NoServerTime
  <2>9. CASE ChunkEarly(t)
    BY <1>0, <2>1, <2>9 DEF ChunkEarly
  <2>10. CASE ChunkLate(t)
    BY <1>0, <2>1, <2>10 DEF ChunkLate
  <2>11. CASE PreloadChunk(t)
    BY <1>0, <2>1, <2>11 DEF PreloadChunk
  <2>12. CASE StartPlayback(t)
    BY <1>0, <2>1, <2>12 DEF StartPlayback
  <2>13. CASE Unmute(t)
    BY <1>0, <2>1, <2>13 DEF Unmute
  <2>14. CASE ChunkWritten(t)
    BY <1>0, <2>1, <2>14 DEF ChunkWritten
  <2>15. CASE StayInSync(t)
    BY <1>0, <2>1, <2>15 DEF StayInSync
  <2>16. CASE HardResync(t)
    BY <1>0, <2>1, <2>16 DEF HardResync
  <2>17. CASE StreamTimeout(t)
    BY <1>0, <2>1, <2>17 DEF StreamTimeout
  <2>18. CASE DeleteMailbox(t)
    BY <1>0, <2>1, <2>18 DEF DeleteMailbox
  <2>19. CASE DestroyQueue(t)
    BY <1>0, <2>1, <2>19 DEF DestroyQueue
  <2>20. CASE DeclareStopped(t)
    BY <1>0, <2>1, <2>20 DEF DeclareStopped
  <2>21. ~ForgetTask(t)
    BY <1>a DEF ForgetTask
  <2> QED BY <2>2, <2>3, <2>4, <2>5, <2>6, <2>7, <2>8, <2>9, <2>10, <2>11, <2>12, <2>13,
            <2>14, <2>15, <2>16, <2>17, <2>18, <2>19, <2>20, <2>21 DEF PlayerStep
<1>b. CASE ~Active(t)
  <2>1. ForgetTask(t)
    BY <1>b, PlayerIdle
  <2> QED BY <1>0, <2>1 DEF ForgetTask
<1> QED BY <1>a, <1>b

\* The invariant is inductive.
LEMMA ChannelNext == ChannelInv /\ [Next]_vars => ChannelInv'
<1> SUFFICES ASSUME ChannelInv, [Next]_vars PROVE ChannelInv'
  OBVIOUS
<1>1. ConsumerInv'
  BY ConsumerNext DEF ChannelInv
<1>2. CASE HttpStep
  BY <1>1, <1>2, ChannelHttp DEF ChannelInv
<1>3. CASE \E t \in Tasks : PlayerStep(t)
  BY <1>1, <1>3, ChannelPlayer DEF ChannelInv
<1>4. CASE TimerAlarm
  BY <1>1, <1>4 DEF TimerAlarm, Panic, ChannelInv, Positioned, Active, i2s, task
<1>5. CASE UNCHANGED vars
  BY <1>1, <1>5 DEF vars, ChannelInv, Positioned, Active, i2s, task
<1> QED BY <1>2, <1>3, <1>4, <1>5 DEF Next, Halted

\* The channel is off when the task preloads and on when it writes
\* (player.c:1664, 1792), after any sequence of resyncs and new formats.
THEOREM ChannelAlwaysFits == Spec => []ChannelDiscipline
<1>1. ChannelInv => ChannelDiscipline
  BY DEF ChannelInv, Positioned, ChannelDiscipline, Active, ActiveStates
<1> QED BY <1>1, ChannelInit, ChannelNext, PTL DEF Spec

-----------------------------------------------------------------------------
(* The alarm *)

\* A task that preloads or waits has an alarm coming or taken, which can only
\* be its own, as the handle the interrupt reads names it or nobody.
Alarmed(t) ==
  /\ notified[t] => ppc[t] \in {"preload", "notify"} /\ timer = "fired"
  /\ ppc[t] \in {"preload", "notify"} => timer = "armed" \/ notified[t]
  /\ Active(t) => handle \in {t, NoTask}

AlarmOK ==
  /\ notified \in [Tasks -> BOOLEAN]
  /\ \A t \in Tasks : Alarmed(t)
  /\ timer # "off" => \E u \in Tasks : ppc[u] \in {"preload", "notify"}

AlarmInv == ConsumerInv /\ AlarmOK

\* The timer is off and nobody is notified at start-up.
LEMMA AlarmInit == Init => AlarmInv
<1>1. Init => /\ notified \in [Tasks -> BOOLEAN] /\ timer = "off"
              /\ \A t \in Tasks : Alarmed(t)
  BY DEF Init, Alarmed, Active, ActiveStates
<1> QED BY <1>1, ConsumerInit DEF AlarmInv, AlarmOK

\* A new task starts with the alarm off and no notification left over.
LEMMA AlarmHttp ==
  ASSUME AlarmInv, HttpStep
  PROVE  AlarmOK'
<1> USE DEF AlarmInv, AlarmOK, Alarmed, Active, ActiveStates
<1>1. CASE ~StartPlayer
  BY <1>1, ChannelHttpKept DEF task
<1>2. CASE StartPlayer /\ UNCHANGED <<ppc, timer, notified, handle>>
  BY <1>2
<1>3. CASE StartPlayer /\ ~UNCHANGED <<ppc, timer, notified, handle>>
  <2>1. /\ timer' = "off" /\ ~playerstarted
        /\ \E t \in Tasks : /\ Goto(t, "begin") /\ handle' = t
                            /\ notified' = [notified EXCEPT ![t] = FALSE]
    BY <1>3 DEF StartPlayer, MayStart, task
  <2>2. \A t \in Tasks : ppc[t] \in {"none", "log"}
    BY <2>1 DEF ConsumerInv, SingleConsumer, PlayerStates
  <2> QED BY <2>1, <2>2 DEF Goto, ConsumerInv
<1> QED BY <1>1, <1>2, <1>3

\* The alarm is armed after every notification was taken, and switched off with it.
LEMMA AlarmPlayer ==
  ASSUME AlarmInv, NEW t \in Tasks, PlayerStep(t)
  PROVE  AlarmOK'
<1> USE DEF AlarmInv, AlarmOK, task, Alarmed, Goto, Panic, Active, ActiveStates
<1>0. ppc \in [Tasks -> PlayerStates] /\ ConsumerInv
  BY DEF ConsumerInv
<1>a. CASE Active(t)
  <2>1. playerstarted /\ \A u \in Tasks : u # t => ppc[u] \in {"none", "log"}
    BY <1>a, <1>0, OnlyOne
  <2>2. CASE PlayerBegin(t) \/ LatencyReady(t) \/ NothingChanged(t) \/ DelayOver(t)
    BY <1>0, <2>1, <2>2 DEF PlayerBegin, LatencyReady, NothingChanged, DelayOver
  <2>3. CASE ApplySettings(t)
    BY <1>0, <2>1, <2>3 DEF ApplySettings
  <2>4. CASE ReceiveChunk(t)
    BY <1>0, <2>1, <2>4 DEF ReceiveChunk
  <2>5. CASE NoServerTime(t) \/ ChunkEarly(t) \/ ChunkLate(t)
    BY <1>0, <2>1, <2>5 DEF NoServerTime, ChunkEarly, ChunkLate
  <2>6. CASE PreloadChunk(t)
    BY <1>0, <2>1, <2>6 DEF PreloadChunk
  <2>7. CASE StartPlayback(t) \/ Unmute(t) \/ ChunkWritten(t)
    BY <1>0, <2>1, <2>7 DEF StartPlayback, Unmute, ChunkWritten
  <2>8. CASE StayInSync(t) \/ HardResync(t)
    BY <1>0, <2>1, <2>8 DEF StayInSync, HardResync
  <2>9. CASE StreamTimeout(t) \/ DeleteMailbox(t) \/ DestroyQueue(t) \/ DeclareStopped(t)
    BY <1>0, <2>1, <2>9 DEF StreamTimeout, DeleteMailbox, DestroyQueue, DeclareStopped
  <2>10. ~ForgetTask(t)
    BY <1>a DEF ForgetTask
  <2> QED BY <2>2, <2>3, <2>4, <2>5, <2>6, <2>7, <2>8, <2>9, <2>10 DEF PlayerStep
<1>b. CASE ~Active(t)
  <2>1. ForgetTask(t)
    BY <1>b, PlayerIdle
  <2> QED BY <1>0, <2>1 DEF ForgetTask
<1> QED BY <1>a, <1>b

\* The interrupt finds the handle of the task that armed the timer, or none.
LEMMA AlarmFires == AlarmInv /\ TimerAlarm => AlarmOK'
<1> SUFFICES ASSUME AlarmInv, TimerAlarm PROVE AlarmOK'
  OBVIOUS
<1> USE DEF AlarmInv, AlarmOK, Alarmed
<1>1. CASE handle = NoTask
  BY <1>1 DEF TimerAlarm, Panic, Active, task
<1>2. CASE handle # NoTask
  <2>1. PICK u \in Tasks : ppc[u] \in {"preload", "notify"}
    BY DEF TimerAlarm
  <2>2. Active(u) /\ handle = u
    BY <1>2, <2>1 DEF Active, ActiveStates
  <2>3. \A v \in Tasks : v # u => ppc[v] \in {"none", "log"}
    BY <2>2, OnlyOne
  <2> QED BY <1>2, <2>1, <2>2, <2>3 DEF TimerAlarm, Active, ActiveStates, task
<1> QED BY <1>1, <1>2

\* The invariant is inductive.
LEMMA AlarmNext == AlarmInv /\ [Next]_vars => AlarmInv'
<1> SUFFICES ASSUME AlarmInv, [Next]_vars PROVE AlarmInv'
  OBVIOUS
<1>1. ConsumerInv'
  BY ConsumerNext DEF AlarmInv
<1>2. AlarmOK'
  <2>1. CASE HttpStep
    BY <2>1, AlarmHttp
  <2>2. CASE \E t \in Tasks : PlayerStep(t)
    BY <2>2, AlarmPlayer
  <2>3. CASE TimerAlarm
    BY <2>3, AlarmFires
  <2>4. CASE UNCHANGED vars
    BY <2>4 DEF vars, AlarmInv, AlarmOK, Alarmed, Active, task
  <2> QED BY <2>1, <2>2, <2>3, <2>4 DEF Next, Halted
<1> QED BY <1>1, <1>2 DEF AlarmInv

\* No notification outlives its initial sync, and no wait is without its alarm
\* (player.c:1634, 1699).
THEOREM AlarmsPair == Spec => []AlarmPairing
<1>1. AlarmInv => AlarmPairing
  BY DEF AlarmInv, AlarmOK, Alarmed, AlarmPairing
<1> QED BY <1>1, AlarmInit, AlarmNext, PTL DEF Spec


-----------------------------------------------------------------------------
(* Settings *)

\* The handle names the active task, whose mailbox is there until it stops; a
\* task on its last log line is gone before the next one starts.
Reachable(t) ==
  /\ Active(t) => handle = t
  /\ playerstarted => ppc[t] # "log"
  /\ Active(t) /\ ppc[t] \notin {"drop", "leave"} => mailbox # "null"

InformOK ==
  /\ DOMAIN scSet = Tasks
  /\ \A t \in Tasks : Reachable(t) /\ Informed(t)

InformInv == ConsumerInv /\ InformOK

\* There are no tasks at start-up.
LEMMA InformInit == Init => InformInv
<1>1. Init => InformOK
  BY DEF Init, InformOK, Reachable, Informed, Active, ActiveStates
<1> QED BY <1>1, ConsumerInit DEF InformInv

\* While http runs no task is in its last lines, unless the log may block.
LEMMA NobodyLogs ==
  ASSUME HttpRuns, ~LogBlocks, NEW t \in Tasks
  PROVE  ppc[t] \notin {"begin", "stop", "drop", "leave", "log"}
BY DEF HttpRuns, Parked

\* http compares, stores, checks and announces.
LEMMA InformHttp ==
  ASSUME InformInv, ~LogBlocks, HttpStep
  PROVE  InformOK'
<1> USE DEF InformInv, InformOK, Reachable, Informed, Active, ActiveStates, task
<1>1. ASSUME hpc \notin {"check", "overwrite"},
             UNCHANGED <<cur, playerstarted, handle, mailbox, task>>
      PROVE  InformOK'
  BY <1>1
<1>2. CASE \/ \E b \in Buffers, m \in BOOLEAN : ServerSettings(b, m)
           \/ \E s \in NewStreams : StreamSettings(s)
           \/ Reconnect
  BY <1>1, <1>2 DEF ServerSettings, StreamSettings, Reconnect
<1>3. CASE SetSettings
  BY <1>3 DEF SetSettings
<1>4. CASE CheckHandle
  BY <1>4, NobodyLogs, PlayerAssumption DEF CheckHandle
<1>5. CASE OverwriteMailbox
  BY <1>5 DEF OverwriteMailbox, Panic, http
<1>6. CASE SendChunk \/ ResumeSend
  BY <1>6 DEF SendChunk, ResumeSend, Panic, http
<1>7. CASE StartPlayer
  <2>1. CASE UNCHANGED <<playerstarted, handle, mailbox, task>>
    BY <1>7, <2>1 DEF StartPlayer
  <2>2. CASE /\ ~playerstarted /\ mailbox' = "empty" /\ UNCHANGED scSet
             /\ \E t \in Tasks : ppc[t] = "none" /\ Goto(t, "begin") /\ handle' = t
    <3>1. \A t \in Tasks : ppc[t] = "none"
      BY <1>7, <2>2, NobodyLogs DEF StartPlayer, ConsumerInv, SingleConsumer, PlayerStates
    <3> QED BY <2>2, <3>1 DEF Goto, ConsumerInv
  <2> QED BY <1>7, <2>1, <2>2 DEF StartPlayer, MayStart
<1>8. CASE \/ \E gap \in BOOLEAN : TimeMessage(gap)
           \/ LatencyInsert
           \/ \E c \in Chunks, s \in BOOLEAN : AllocateChunk(c, s)
           \/ InsertChunk
  <2>1. hpc \notin {"check", "overwrite"} /\ UNCHANGED <<cur, playerstarted, handle, mailbox, task>>
    BY <1>8 DEF TimeMessage, LatencyInsert, AllocateChunk, InsertChunk
  <2> QED BY <1>1, <2>1
<1> QED BY <1>2, <1>3, <1>4, <1>5, <1>6, <1>7, <1>8 DEF HttpStep

\* The player only takes a notification to use what it announces.
LEMMA InformPlayer ==
  ASSUME InformInv, NEW t \in Tasks, PlayerStep(t)
  PROVE  InformOK'
<1> USE DEF InformInv, InformOK, Reachable, Informed, Goto, Panic, Active, ActiveStates,
            http, task
<1>0. ppc \in [Tasks -> PlayerStates] /\ ConsumerInv
  BY DEF ConsumerInv
<1>a. CASE Active(t)
  <2>1. playerstarted /\ \A u \in Tasks : u # t => ppc[u] = "none"
    BY <1>a, <1>0, OnlyOne
  <2>2. ASSUME ppc[t] \notin {"begin", "stop", "drop", "leave"},
               UNCHANGED <<hpc, cur, handle, mailbox, playerstarted, scSet>>,
               UNCHANGED ppc \/ \E l \in ActiveStates \ {"drop", "leave"} : Goto(t, l)
        PROVE  InformOK'
    BY <1>a, <1>0, <2>1, <2>2
  <2>3. CASE PlayerBegin(t)
    BY <1>0, <2>1, <2>3 DEF PlayerBegin
  <2>4. CASE \/ LatencyReady(t) \/ NothingChanged(t) \/ DelayOver(t) \/ ReceiveChunk(t)
             \/ NoServerTime(t) \/ ChunkEarly(t) \/ ChunkLate(t)
    BY <2>2, <2>4 DEF LatencyReady, NothingChanged, DelayOver, ReceiveChunk, NoServerTime,
       ChunkEarly, ChunkLate
  <2>5. CASE PreloadChunk(t)
    BY <2>2, <2>5 DEF PreloadChunk
  <2>6. CASE \/ StartPlayback(t) \/ Unmute(t) \/ ChunkWritten(t) \/ StayInSync(t)
             \/ HardResync(t) \/ StreamTimeout(t)
    BY <2>2, <2>6 DEF StartPlayback, Unmute, ChunkWritten, StayInSync, HardResync,
       StreamTimeout
  <2>7. CASE ApplySettings(t)
    <3>1. CASE Panic("task_returned")
      BY <1>a, <2>2, <2>7, <3>1 DEF ApplySettings
    <3>2. CASE ~Panic("task_returned")
      <4>1. /\ UNCHANGED <<hpc, cur, handle, playerstarted>>
            /\ mailbox' = "empty" /\ ppc' = [ppc EXCEPT ![t] = "recv"]
            /\ scSet' = IF Complete(cur) THEN [scSet EXCEPT ![t] = cur] ELSE scSet
        BY <2>7, <3>2 DEF ApplySettings
      <4> QED BY <1>0, <1>a, <2>1, <4>1
    <3> QED BY <3>1, <3>2
  <2>8. CASE DeleteMailbox(t)
    BY <1>0, <2>1, <2>8 DEF DeleteMailbox
  <2>9. CASE DestroyQueue(t)
    BY <1>0, <2>1, <2>9 DEF DestroyQueue
  <2>10. CASE DeclareStopped(t)
    BY <1>0, <2>1, <2>10 DEF DeclareStopped
  <2>11. ~ForgetTask(t)
    BY <1>a DEF ForgetTask
  <2> QED BY <2>3, <2>4, <2>5, <2>6, <2>7, <2>8, <2>9, <2>10, <2>11 DEF PlayerStep
<1>b. CASE ~Active(t)
  <2>1. ForgetTask(t)
    BY <1>b, PlayerIdle
  <2>2. \A u \in Tasks : ~Active(u) /\ ppc'[u] = (IF u = t THEN "none" ELSE ppc[u])
    BY <1>0, <2>1 DEF ForgetTask, ConsumerInv, SingleConsumer
  <2> QED BY <1>0, <2>1, <2>2 DEF ForgetTask
<1> QED BY <1>a, <1>b

\* The invariant is inductive.
LEMMA InformNext ==
  ASSUME ~LogBlocks, InformInv, [Next]_vars
  PROVE  InformInv'
<1>1. ConsumerInv'
  BY ConsumerNext DEF InformInv
<1>2. InformOK'
  <2>1. CASE HttpStep
    BY <2>1, InformHttp
  <2>2. CASE \E t \in Tasks : PlayerStep(t)
    BY <2>2, InformPlayer
  <2>3. CASE TimerAlarm
    BY <2>3 DEF TimerAlarm, Panic, InformInv, InformOK, Reachable, Informed, Active, http, task
  <2>4. CASE UNCHANGED vars
    BY <2>4 DEF vars, InformInv, InformOK, Reachable, Informed, Active, http, task
  <2> QED BY <2>1, <2>2, <2>3, <2>4 DEF Next, Halted
<1> QED BY <1>1, <1>2 DEF InformInv

\* A running player task that does not use the current settings will be told,
\* whenever they change in its life (player.c:674, 1509), if its last log line
\* does not let the next task start before it has cleared the handle.
THEOREM SettingsArrive ==
  ASSUME ~LogBlocks
  PROVE  Spec => []SettingsNotLost
<1>1. InformInv => SettingsNotLost
  BY DEF InformInv, InformOK, SettingsNotLost
<1>2. InformInv /\ [Next]_vars => InformInv'
  BY InformNext
<1> QED BY <1>1, <1>2, InformInit, PTL DEF Spec

-----------------------------------------------------------------------------
(* Types *)

\* The types in parts; chunks on their way to the queue are chunks.
HttpTypes ==
  /\ hpc \in HttpStates /\ hchunk \in Chunks \cup {NoChunk}
  /\ hpc \in {"insert", "send", "blocked"} => hchunk \in Chunks
  /\ hq \in Queues \cup {NoQueue} /\ hset \in Settings /\ cur \in Settings
  /\ gotSettings \in BOOLEAN
QueueTypes ==
  /\ qid \in Queues \cup {NoQueue} /\ queue \in Seq(Chunks)
  /\ qcap \in Buffers \cup {0} /\ qchk \in ChunkSizes \cup {0}
  /\ mailbox \in {"null", "empty", "full"}
  /\ heap \in SUBSET Chunks /\ silent \in SUBSET Chunks
OutputTypes ==
  /\ chan \in BOOLEAN /\ i2sEnabled \in BOOLEAN
  /\ mute \in BOOLEAN /\ muteLeft \in BOOLEAN /\ enabled \in BOOLEAN
  /\ latFull \in BOOLEAN /\ latSem \in BOOLEAN /\ known \in BOOLEAN
  /\ timer \in {"off", "armed", "fired"} /\ fault \in Faults
TaskTypes ==
  /\ playerstarted \in BOOLEAN /\ handle \in Tasks \cup {NoTask}
  /\ notified \in [Tasks -> BOOLEAN] /\ ppc \in [Tasks -> PlayerStates]
  /\ initialSync \in [Tasks -> BOOLEAN]
  /\ chnk \in [Tasks -> Chunks \cup {NoChunk}]
  /\ scSet \in [Tasks -> Settings]

TypesInv == HttpTypes /\ QueueTypes /\ OutputTypes /\ TaskTypes

\* What the settings' fields range over.
LEMMA SettingsInRange ==
  /\ NoSettings \in Settings /\ ConnectionDefault \in Settings
  /\ \A s \in Settings : /\ s.buf \in Buffers \cup {0} /\ s.chk \in ChunkSizes \cup {0}
                         /\ s.muted \in BOOLEAN
<1>1. (CHOOSE f \in Formats : TRUE) \in Formats /\ (CHOOSE b \in Buffers : TRUE) \in Buffers
  BY PlayerAssumption
<1> QED BY <1>1 DEF Settings, NoSettings, ConnectionDefault

LEMMA NoChunksTyped == <<>> \in Seq(Chunks)
OBVIOUS

\* The types hold at start-up.
LEMMA TypesInit == Init => TypesInv
<1> SUFFICES ASSUME Init PROVE TypesInv
  OBVIOUS
<1>1. HttpTypes
  BY SettingsInRange DEF Init, HttpTypes, HttpStates
<1>2. QueueTypes
  BY NoChunksTyped DEF Init, QueueTypes
<1>3. OutputTypes
  BY DEF Init, OutputTypes, Faults
<1>4. TaskTypes
  BY SettingsInRange DEF Init, TaskTypes, PlayerStates
<1> QED BY <1>1, <1>2, <1>3, <1>4 DEF TypesInv

\* A reset changes the fault only.
LEMMA PanicTypes ==
  ASSUME TypesInv, NEW what \in Faults, Panic(what)
  PROVE  TypesInv'
<1> USE DEF TypesInv, Panic, http, pcmq, i2s, dac, latency, task, memory
<1>1. HttpTypes' BY DEF HttpTypes
<1>2. QueueTypes' BY DEF QueueTypes
<1>3. OutputTypes' BY DEF OutputTypes
<1>4. TaskTypes' BY DEF TaskTypes
<1> QED BY <1>1, <1>2, <1>3, <1>4

\* Freed chunks are back on the heap.
LEMMA FreeTypes ==
  ASSUME QueueTypes, NEW cs \in SUBSET (Chunks \cup {NoChunk}), Free(cs)
  PROVE  heap' \in SUBSET Chunks /\ silent' \in SUBSET Chunks
BY DEF QueueTypes, Free

\* The parts under the steps of http.
LEMMA HttpTypesHttp ==
  ASSUME TypesInv, HttpStep, ~StartPlayer
  PROVE  HttpTypes'
<1> USE DEF TypesInv, HttpTypes, HttpStates, http
<1>1. ASSUME NEW b \in Buffers, NEW m \in BOOLEAN, ServerSettings(b, m) PROVE HttpTypes'
  <2>1. hset' \in Settings
    BY <1>1 DEF ServerSettings, Settings
  <2> QED BY <1>1, <2>1 DEF ServerSettings
<1>2. ASSUME NEW s \in NewStreams, StreamSettings(s) PROVE HttpTypes'
  <2>1. s \in Settings
    BY DEF NewStreams, Settings
  <2> QED BY <1>2, <2>1 DEF StreamSettings
<1>3. CASE SetSettings
  <2>1. gotSettings' \in BOOLEAN
    BY <1>3 DEF SetSettings
  <2> QED BY <1>3, <2>1 DEF SetSettings
<1>4. CASE CheckHandle
  BY <1>4 DEF CheckHandle
<1>5. CASE OverwriteMailbox
  BY <1>5 DEF OverwriteMailbox, Panic
<1>6. CASE Reconnect
  BY <1>6, SettingsInRange DEF Reconnect
<1>7. CASE \/ \E gap \in BOOLEAN : TimeMessage(gap)
           \/ LatencyInsert
  BY <1>7 DEF TimeMessage, LatencyInsert
<1>8. CASE \E c \in Chunks, s \in BOOLEAN : AllocateChunk(c, s)
  BY <1>8 DEF AllocateChunk
<1>9. CASE InsertChunk
  BY <1>9 DEF InsertChunk
<1>10. CASE SendChunk
  BY <1>10 DEF SendChunk, Panic, QueueTypes
<1>11. CASE ResumeSend
  BY <1>11 DEF ResumeSend, Panic
<1> QED BY <1>1, <1>2, <1>3, <1>4, <1>5, <1>6, <1>7, <1>8, <1>9, <1>10, <1>11 DEF HttpStep

LEMMA QueueTypesHttp ==
  ASSUME TypesInv, HttpStep, ~StartPlayer
  PROVE  QueueTypes'
<1> USE DEF TypesInv, QueueTypes, pcmq, memory
<1>1. CASE \/ \E b \in Buffers, m \in BOOLEAN : ServerSettings(b, m)
           \/ \E s \in NewStreams : StreamSettings(s)
           \/ SetSettings \/ CheckHandle \/ Reconnect
           \/ \E gap \in BOOLEAN : TimeMessage(gap)
           \/ LatencyInsert
  <2>1. UNCHANGED <<pcmq, mailbox, memory>>
    BY <1>1 DEF ServerSettings, StreamSettings, SetSettings, CheckHandle, Reconnect,
       TimeMessage, LatencyInsert
  <2> QED BY <2>1
<1>2. CASE OverwriteMailbox
  BY <1>2 DEF OverwriteMailbox, Panic
<1>3. CASE \E c \in Chunks, s \in BOOLEAN : AllocateChunk(c, s)
  BY <1>3 DEF AllocateChunk
<1>4. CASE InsertChunk
  <2>1. hchunk \in Chunks
    BY <1>4 DEF InsertChunk, HttpTypes
  <2> QED BY <1>4, <2>1 DEF InsertChunk, Free
<1>5. hpc \in {"send", "blocked"} => Append(queue, hchunk) \in Seq(Chunks)
  BY DEF HttpTypes
<1>6. CASE SendChunk
  BY <1>5, <1>6 DEF SendChunk, Panic
<1>7. CASE ResumeSend
  <2>1. hchunk \in Chunks
    BY <1>7 DEF ResumeSend, HttpTypes
  <2> QED BY <1>5, <1>7, <2>1 DEF ResumeSend, Panic, Free
<1> QED BY <1>1, <1>2, <1>3, <1>4, <1>6, <1>7 DEF HttpStep

LEMMA OutputTypesHttp ==
  ASSUME TypesInv, HttpStep, ~StartPlayer
  PROVE  OutputTypes'
<1> USE DEF TypesInv, OutputTypes, i2s, dac, latency
<1>1. ASSUME NEW b \in Buffers, NEW m \in BOOLEAN, ServerSettings(b, m) PROVE OutputTypes'
  <2>1. mute' \in BOOLEAN
    BY <1>1 DEF ServerSettings
  <2> QED BY <1>1, <2>1 DEF ServerSettings
<1>2. CASE \/ \E s \in NewStreams : StreamSettings(s)
           \/ SetSettings \/ CheckHandle \/ Reconnect
           \/ \E c \in Chunks, s \in BOOLEAN : AllocateChunk(c, s)
           \/ InsertChunk
  <2>1. UNCHANGED <<i2s, dac, latency, timer, fault>>
    BY <1>2 DEF StreamSettings, SetSettings, CheckHandle, Reconnect, AllocateChunk, InsertChunk
  <2> QED BY <2>1
<1>3. CASE OverwriteMailbox \/ SendChunk \/ ResumeSend
  <2>1. UNCHANGED <<i2s, dac, latency, timer>> /\ fault' \in Faults
    BY <1>3 DEF OverwriteMailbox, SendChunk, ResumeSend, Panic, Faults
  <2> QED BY <2>1
<1>4. ASSUME NEW gap \in BOOLEAN, TimeMessage(gap) PROVE OutputTypes'
  <2>1. latFull' \in BOOLEAN /\ latSem' \in BOOLEAN /\ known' \in BOOLEAN
    BY <1>4 DEF TimeMessage, ResetLatency
  <2> QED BY <1>4, <2>1 DEF TimeMessage
<1>5. CASE LatencyInsert
  <2>1. latFull' \in BOOLEAN /\ known' \in BOOLEAN
    BY <1>5 DEF LatencyInsert
  <2>2. latSem' \in BOOLEAN
    BY <1>5 DEF LatencyInsert
  <2> QED BY <1>5, <2>1, <2>2 DEF LatencyInsert
<1> QED BY <1>1, <1>2, <1>3, <1>4, <1>5 DEF HttpStep

\* start_player.
LEMMA StartTypes == TypesInv /\ StartPlayer => TypesInv'
<1> SUFFICES ASSUME TypesInv, StartPlayer PROVE TypesInv'
  OBVIOUS
<1> USE DEF TypesInv, pcmq, i2s, dac, latency, task, memory
<1>1. HttpTypes'
  BY DEF StartPlayer, HttpTypes, HttpStates
<1>2. CASE UNCHANGED <<playerstarted, handle, pcmq, mailbox, i2s, latency, timer, notified, task>>
  <2>1. QueueTypes' BY <1>2 DEF StartPlayer, QueueTypes
  <2>2. OutputTypes' BY <1>2 DEF StartPlayer, OutputTypes
  <2>3. TaskTypes' BY <1>2 DEF TaskTypes
  <2> QED BY <1>1, <2>1, <2>2, <2>3
<1>3. CASE ~UNCHANGED <<playerstarted, handle, pcmq, mailbox, i2s, latency, timer, notified, task>>
  <2>1. /\ playerstarted' = TRUE /\ chan' = TRUE /\ i2sEnabled' = FALSE
        /\ timer' = "off" /\ mailbox' = "empty"
        /\ IF PmEnabled THEN ResetLatency ELSE UNCHANGED latency
        /\ IF qid = NoQueue THEN NewQueue(cur) ELSE UNCHANGED <<qid, queue, qcap>>
        /\ \E t \in Tasks : /\ Goto(t, "begin") /\ handle' = t
                            /\ notified' = [notified EXCEPT ![t] = FALSE]
        /\ UNCHANGED <<qchk, initialSync, chnk, scSet, dac, memory, fault>>
    BY <1>3 DEF StartPlayer
  <2>2. QueueTypes'
    <3>1. cur.buf \in Buffers \cup {0}
      BY SettingsInRange DEF HttpTypes
    <3>2. /\ qid' \in Queues \cup {NoQueue} /\ queue' \in Seq(Chunks)
          /\ qcap' \in Buffers \cup {0}
      BY <2>1, <3>1, NoChunksTyped DEF NewQueue, QueueTypes
    <3> QED BY <2>1, <3>2 DEF QueueTypes
  <2>3. OutputTypes'
    <3>1. latFull' \in BOOLEAN /\ latSem' \in BOOLEAN /\ known' \in BOOLEAN
      BY <2>1 DEF ResetLatency, OutputTypes
    <3> QED BY <2>1, <3>1 DEF OutputTypes
  <2>4. TaskTypes'
    BY <2>1 DEF TaskTypes, Goto, PlayerStates, ActiveStates
  <2> QED BY <1>1, <2>2, <2>3, <2>4
<1> QED BY <1>2, <1>3

\* No step of a player task changes what belongs to http.
LEMMA PlayerLeavesHttp ==
  ASSUME NEW t \in Tasks, PlayerStep(t)
  PROVE  UNCHANGED <<http, cur>>
BY DEF PlayerStep, PlayerBegin, LatencyReady, NothingChanged, DelayOver, ApplySettings, ReceiveChunk, NoServerTime, ChunkEarly, ChunkLate, PreloadChunk, StartPlayback, Unmute, ChunkWritten, StayInSync, HardResync, StreamTimeout, DeleteMailbox, DestroyQueue, DeclareStopped, ForgetTask, Panic

\* The parts under the steps of a player task.
LEMMA QueueTypesPlayer ==
  ASSUME TypesInv, NEW t \in Tasks, PlayerStep(t)
  PROVE  QueueTypes'
<1> USE DEF TypesInv, QueueTypes, pcmq, memory
<1>0. chnk[t] \in Chunks \cup {NoChunk} /\ queue \in Seq(Chunks)
  BY DEF TaskTypes
<1>1. SeqSet(queue) \in SUBSET Chunks
  BY <1>0 DEF SeqSet
<1>2. CASE \/ LatencyReady(t) \/ NothingChanged(t) \/ DelayOver(t) \/ ChunkEarly(t)
           \/ StartPlayback(t) \/ Unmute(t) \/ StayInSync(t) \/ HardResync(t)
           \/ StreamTimeout(t) \/ DeclareStopped(t) \/ ForgetTask(t)
  <2>1. UNCHANGED <<pcmq, memory>> /\ mailbox' = mailbox
    BY <1>2 DEF LatencyReady, NothingChanged, DelayOver, ChunkEarly, StartPlayback, Unmute,
       StayInSync, HardResync, StreamTimeout, DeclareStopped, ForgetTask
  <2> QED BY <2>1
<1>3. CASE PlayerBegin(t)
  <2>1. qchk' \in ChunkSizes \cup {0}
    BY <1>3, SettingsInRange DEF PlayerBegin, HttpTypes
  <2> QED BY <1>3, <2>1 DEF PlayerBegin
<1>4. CASE ApplySettings(t)
  <2>1. CASE Panic("task_returned")
    BY <2>1 DEF Panic
  <2>2. CASE mailbox' = "empty"
    <3>1. cur.buf \in Buffers \cup {0} /\ cur.chk \in ChunkSizes \cup {0}
      BY SettingsInRange DEF HttpTypes
    <3>2. CASE UNCHANGED <<memory, pcmq>>
      BY <2>2, <3>2
    <3>3. CASE Free(Drained) /\ NewQueue(cur) /\ qchk' = cur.chk
      <4>1. heap' \in SUBSET Chunks /\ silent' \in SUBSET Chunks
        BY <1>1, <3>3 DEF Drained, Free
      <4>2. qid' \in Queues /\ queue' \in Seq(Chunks) /\ qcap' \in Buffers \cup {0}
        BY <3>1, <3>3, NoChunksTyped DEF NewQueue
      <4> QED BY <2>2, <3>1, <3>3, <4>1, <4>2
    <3> QED BY <1>4, <2>1, <3>2, <3>3 DEF ApplySettings
  <2> QED BY <1>4, <2>1, <2>2 DEF ApplySettings
<1>5. CASE ReceiveChunk(t)
  <2>1. queue' \in Seq(Chunks)
    BY <1>5 DEF ReceiveChunk
  <2> QED BY <1>5, <2>1 DEF ReceiveChunk
<1>6. CASE NoServerTime(t) \/ ChunkWritten(t)
  <2>1. Free({chnk[t]}) /\ UNCHANGED <<pcmq, mailbox>>
    BY <1>6 DEF NoServerTime, ChunkWritten
  <2> QED BY <1>0, <2>1 DEF Free
<1>7. CASE ChunkLate(t)
  <2>1. PICK n \in 0..Len(queue) :
          /\ Free({chnk[t]} \cup {queue[i] : i \in 1..n})
          /\ queue' = SubSeq(queue, n + 1, Len(queue))
    BY <1>7 DEF ChunkLate
  <2>2. queue' \in Seq(Chunks)
    BY <1>0, <2>1
  <2>3. {chnk[t]} \cup {queue[i] : i \in 1..n} \in SUBSET (Chunks \cup {NoChunk})
    BY <1>0
  <2>4. heap' \in SUBSET Chunks /\ silent' \in SUBSET Chunks
    BY <2>1, <2>3, FreeTypes
  <2> QED BY <1>7, <2>2, <2>4 DEF ChunkLate
<1>8. CASE PreloadChunk(t)
  <2>1. UNCHANGED <<pcmq, mailbox>> /\ (Free({chnk[t]}) \/ UNCHANGED memory)
    BY <1>8 DEF PreloadChunk, Panic
  <2> QED BY <1>0, <2>1 DEF Free
<1>9. CASE DeleteMailbox(t)
  BY <1>9 DEF DeleteMailbox
<1>10. CASE DestroyQueue(t)
  <2>1. heap' \in SUBSET Chunks /\ silent' \in SUBSET Chunks
    BY <1>1, <1>10 DEF DestroyQueue, Drained, Free
  <2> QED BY <1>10, <2>1, NoChunksTyped DEF DestroyQueue
<1> QED BY <1>2, <1>3, <1>4, <1>5, <1>6, <1>7, <1>8, <1>9, <1>10 DEF PlayerStep

LEMMA OutputTypesPlayer ==
  ASSUME TypesInv, NEW t \in Tasks, PlayerStep(t)
  PROVE  OutputTypes'
<1> USE DEF TypesInv, OutputTypes, i2s, dac, latency
<1>0. cur.muted \in BOOLEAN /\ scSet[t].muted \in BOOLEAN
  BY SettingsInRange DEF HttpTypes, TaskTypes
<1>1. CASE \/ LatencyReady(t) \/ NothingChanged(t) \/ DelayOver(t) \/ ReceiveChunk(t)
           \/ NoServerTime(t) \/ ChunkWritten(t) \/ StayInSync(t) \/ DeleteMailbox(t)
           \/ DeclareStopped(t) \/ ForgetTask(t)
  <2>1. UNCHANGED <<i2s, dac, latency, timer, fault>>
    BY <1>1 DEF LatencyReady, NothingChanged, DelayOver, ReceiveChunk, NoServerTime,
       ChunkWritten, StayInSync, DeleteMailbox, DeclareStopped, ForgetTask
  <2> QED BY <2>1
<1>2. CASE PlayerBegin(t)
  <2>1. mute' \in BOOLEAN
    BY <1>0, <1>2 DEF PlayerBegin
  <2> QED BY <1>2, <2>1 DEF PlayerBegin
<1>3. CASE ApplySettings(t)
  <2>1. CASE Panic("task_returned")
    BY <2>1 DEF Panic, Faults
  <2>2. CASE ~Panic("task_returned")
    <3>1. UNCHANGED <<enabled, latency, timer, fault>>
      BY <1>3, <2>2 DEF ApplySettings
    <3>2. UNCHANGED i2s \/ (chan' = TRUE /\ i2sEnabled' = FALSE)
      BY <1>3, <2>2 DEF ApplySettings
    <3>3. mute' = mute \/ mute' = MuteAfter(scSet[t], cur)
      BY <1>3, <2>2 DEF ApplySettings
    <3>4. mute' \in BOOLEAN
      BY <1>0, <3>3 DEF MuteAfter
    <3>5. muteLeft' \in BOOLEAN
      <4>1. muteLeft' = muteLeft \/ muteLeft' = LeavesMute(scSet[t], cur)
        BY <1>3, <2>2 DEF ApplySettings
      <4> QED BY <4>1 DEF LeavesMute
    <3> QED BY <3>1, <3>2, <3>4, <3>5
  <2> QED BY <2>1, <2>2
<1>4. CASE ChunkEarly(t) \/ ChunkLate(t) \/ HardResync(t)
  BY <1>4 DEF ChunkEarly, ChunkLate, HardResync
<1>5. CASE PreloadChunk(t)
  <2>1. UNCHANGED <<i2s, dac, latency, timer>> /\ fault' \in Faults
    BY <1>5 DEF PreloadChunk, Panic, Faults
  <2> QED BY <2>1
<1>6. CASE StartPlayback(t)
  BY <1>6 DEF StartPlayback
<1>7. CASE Unmute(t)
  <2>1. mute' \in BOOLEAN
    BY <1>0, <1>7 DEF Unmute
  <2> QED BY <1>7, <2>1 DEF Unmute
<1>8. CASE StreamTimeout(t)
  BY <1>8 DEF StreamTimeout
<1>9. CASE DestroyQueue(t)
  BY <1>9 DEF DestroyQueue
<1> QED BY <1>1, <1>2, <1>3, <1>4, <1>5, <1>6, <1>7, <1>8, <1>9 DEF PlayerStep

LEMMA TaskTypesPlayer ==
  ASSUME TypesInv, NEW t \in Tasks, PlayerStep(t)
  PROVE  TaskTypes'
<1> USE DEF TypesInv, TaskTypes, Goto, PlayerStates, ActiveStates
<1>1. CASE \/ LatencyReady(t) \/ NothingChanged(t) \/ DelayOver(t) \/ ChunkEarly(t)
           \/ Unmute(t) \/ StayInSync(t) \/ DeleteMailbox(t) \/ DestroyQueue(t)
  <2>1. /\ UNCHANGED <<playerstarted, handle, notified, initialSync, chnk, scSet>>
        /\ \E l \in PlayerStates : Goto(t, l)
    BY <1>1 DEF LatencyReady, NothingChanged, DelayOver, ChunkEarly, Unmute, StayInSync,
       DeleteMailbox, DestroyQueue
  <2> QED BY <2>1
<1>2. CASE PlayerBegin(t)
  BY <1>2 DEF PlayerBegin, HttpTypes
<1>3. CASE ApplySettings(t)
  <2>1. CASE Panic("task_returned")
    BY <2>1 DEF Panic, task
  <2>2. CASE /\ UNCHANGED <<playerstarted, handle, notified, chnk>> /\ Goto(t, "recv")
             /\ UNCHANGED scSet \/ scSet' = [scSet EXCEPT ![t] = cur]
             /\ UNCHANGED initialSync \/ initialSync' = [initialSync EXCEPT ![t] = FALSE]
    BY <2>2 DEF HttpTypes
  <2> QED BY <1>3, <2>1, <2>2 DEF ApplySettings, i2s
<1>4. CASE ReceiveChunk(t)
  <2>1. Head(queue) \in Chunks
    BY <1>4 DEF ReceiveChunk, QueueTypes
  <2>2. chnk' \in [Tasks -> Chunks \cup {NoChunk}]
    BY <1>4, <2>1 DEF ReceiveChunk
  <2>3. ppc' \in [Tasks -> PlayerStates]
    BY <1>4 DEF ReceiveChunk
  <2> QED BY <1>4, <2>2, <2>3 DEF ReceiveChunk
<1>5. CASE NoServerTime(t) \/ ChunkLate(t) \/ ChunkWritten(t)
  <2>1. /\ UNCHANGED <<playerstarted, handle, notified, initialSync, scSet>>
        /\ chnk' = [chnk EXCEPT ![t] = NoChunk]
        /\ \E l \in PlayerStates : Goto(t, l)
    BY <1>5 DEF NoServerTime, ChunkLate, ChunkWritten
  <2> QED BY <2>1
<1>6. CASE PreloadChunk(t)
  <2>1. /\ UNCHANGED <<playerstarted, handle, notified, initialSync, scSet>>
        /\ UNCHANGED chnk \/ chnk' = [chnk EXCEPT ![t] = NoChunk]
        /\ UNCHANGED ppc \/ Goto(t, "notify")
    BY <1>6 DEF PreloadChunk, Panic, task
  <2> QED BY <2>1
<1>7. CASE StartPlayback(t)
  BY <1>7 DEF StartPlayback
<1>8. CASE HardResync(t) \/ StreamTimeout(t)
  BY <1>8 DEF HardResync, StreamTimeout
<1>9. CASE DeclareStopped(t)
  BY <1>9 DEF DeclareStopped
<1>10. CASE ForgetTask(t)
  BY <1>10, SettingsInRange DEF ForgetTask
<1> QED BY <1>1, <1>2, <1>3, <1>4, <1>5, <1>6, <1>7, <1>8, <1>9, <1>10 DEF PlayerStep

\* The types are inductive.
LEMMA TypesNext == TypesInv /\ [Next]_vars => TypesInv'
<1> SUFFICES ASSUME TypesInv, [Next]_vars PROVE TypesInv'
  OBVIOUS
<1>1. CASE HttpStep /\ ~StartPlayer
  <2>1. TaskTypes'
    BY <1>1, ChannelHttpKept DEF TypesInv, TaskTypes, task
  <2> QED BY <1>1, <2>1, HttpTypesHttp, QueueTypesHttp, OutputTypesHttp DEF TypesInv
<1>2. CASE StartPlayer
  BY <1>2, StartTypes
<1>3. ASSUME NEW t \in Tasks, PlayerStep(t) PROVE TypesInv'
  <2>1. HttpTypes'
    BY <1>3, PlayerLeavesHttp DEF TypesInv, HttpTypes, http
  <2> QED BY <1>3, <2>1, QueueTypesPlayer, OutputTypesPlayer, TaskTypesPlayer DEF TypesInv
<1>4. CASE TimerAlarm
  <2>1. CASE Panic("notify_null_task")
    BY <2>1, PanicTypes DEF Faults
  <2>2. CASE /\ handle # NoTask /\ notified' = [notified EXCEPT ![handle] = TRUE]
             /\ timer' = "fired"
             /\ UNCHANGED <<http, cur, playerstarted, handle, pcmq, mailbox, i2s, dac,
                            latency, task, memory, fault>>
    <3> USE DEF TypesInv, http, pcmq, i2s, dac, latency, task, memory
    <3>1. HttpTypes' BY <2>2 DEF HttpTypes
    <3>2. QueueTypes' BY <2>2 DEF QueueTypes
    <3>3. OutputTypes' BY <2>2 DEF OutputTypes
    <3>4. TaskTypes' BY <2>2 DEF TaskTypes
    <3> QED BY <3>1, <3>2, <3>3, <3>4
  <2> QED BY <1>4, <2>1, <2>2 DEF TimerAlarm
<1>5. CASE UNCHANGED vars
  <2> USE DEF TypesInv, vars, http, pcmq, i2s, dac, latency, task, memory
  <2>1. HttpTypes' BY <1>5 DEF HttpTypes
  <2>2. QueueTypes' BY <1>5 DEF QueueTypes
  <2>3. OutputTypes' BY <1>5 DEF OutputTypes
  <2>4. TaskTypes' BY <1>5 DEF TaskTypes
  <2> QED BY <2>1, <2>2, <2>3, <2>4
<1> QED BY <1>1, <1>2, <1>3, <1>4, <1>5 DEF Next, Halted

\* The types hold in every reachable state.
THEOREM PlayerTypes == Spec => []TypeOK
<1>1. TypesInv => TypeOK
  BY DEF TypesInv, HttpTypes, QueueTypes, OutputTypes, TaskTypes, TypeOK
<1> QED BY <1>1, TypesInit, TypesNext, PTL DEF Spec


-----------------------------------------------------------------------------
(* The mute *)

\* A change the player task has not used yet.
Pending ==
  \/ mailbox = "full" \/ hpc \in {"check", "overwrite"}
  \/ hpc = "set" /\ hset # cur

\* http's settings are those announced last, or those of a connection that has
\* not seen a chunk.
SettingsKnown == hpc # "set" => hset = cur \/ hset.chk = 0

\* In sync, the DAC is muted as the settings in use say, or as they were before
\* a buffer length was taken over.
MuteKept(t) ==
  /\ ppc[t] = "wait" => initialSync[t] = FALSE
  /\ Complete(cur) /\ ~Pending /\ initialSync[t] = TRUE
       /\ ppc[t] \in {"top", "recv", "write", "age", "delay"}
     => mute = cur.muted \/ muteLeft = TRUE

MuteOK == SettingsKnown /\ \A t \in Tasks : MuteKept(t)

MuteInv == TypesInv /\ ChannelInv /\ InformInv /\ MuteOK

\* Nothing is known and nothing runs at start-up.
LEMMA MuteInit == Init => MuteInv
<1> SUFFICES ASSUME Init PROVE MuteInv
  OBVIOUS
<1>1. SettingsKnown
  BY DEF Init, SettingsKnown, ConnectionDefault
<1>2. \A t \in Tasks : MuteKept(t)
  BY DEF Init, MuteKept
<1> QED BY <1>1, <1>2, TypesInit, ChannelInit, InformInit DEF MuteInv, MuteOK

\* What http stores.
LEMMA SettingsKnownHttp ==
  ASSUME MuteInv, HttpStep
  PROVE  SettingsKnown'
<1> USE DEF SettingsKnown
<1>0. SettingsKnown
  BY DEF MuteInv, MuteOK
<1>1. CASE \/ \E b \in Buffers, m \in BOOLEAN : ServerSettings(b, m)
           \/ \E s \in NewStreams : StreamSettings(s)
  BY <1>1 DEF ServerSettings, StreamSettings
<1>2. CASE SetSettings
  BY <1>0, <1>2 DEF SetSettings
<1>3. CASE Reconnect
  BY <1>0, <1>3 DEF Reconnect, ConnectionDefault
<1>4. CASE CheckHandle \/ OverwriteMailbox \/ SendChunk \/ ResumeSend
  BY <1>0, <1>4 DEF CheckHandle, OverwriteMailbox, SendChunk, ResumeSend, Panic, http
<1>5. CASE \/ \E gap \in BOOLEAN : TimeMessage(gap)
           \/ LatencyInsert
           \/ \E c \in Chunks, s \in BOOLEAN : AllocateChunk(c, s)
           \/ InsertChunk \/ StartPlayer
  <2>1. UNCHANGED <<hset, cur>> /\ hpc # "set"
    BY <1>5 DEF TimeMessage, LatencyInsert, AllocateChunk, InsertChunk, StartPlayer
  <2> QED BY <1>0, <2>1
<1> QED BY <1>1, <1>2, <1>3, <1>4, <1>5 DEF HttpStep

\* The mute http writes is followed by a notification.
LEMMA MuteHttp ==
  ASSUME MuteInv, ~LogBlocks, HttpStep
  PROVE  \A t \in Tasks : MuteKept(t)'
<1> USE DEF MuteKept, Pending, task
<1>0. /\ SettingsKnown /\ hset \in Settings /\ cur \in Settings
      /\ \A t \in Tasks : MuteKept(t) /\ Reachable(t)
      /\ ppc \in [Tasks -> PlayerStates]
  BY DEF MuteInv, MuteOK, TypesInv, HttpTypes, TaskTypes, InformInv, InformOK
<1>1. ASSUME UNCHANGED <<cur, mailbox, mute, muteLeft, task>>, Pending => Pending' \/ ~Complete(cur)
      PROVE  \A t \in Tasks : MuteKept(t)'
  <2>1. Complete(cur)' = Complete(cur)
    BY <1>1 DEF Complete
  <2> HIDE DEF Pending
  <2> QED BY <1>0, <1>1, <2>1 DEF Active
<1>2. ASSUME NEW b \in Buffers, NEW m \in BOOLEAN, ServerSettings(b, m)
      PROVE  \A t \in Tasks : MuteKept(t)'
  <2>1. CASE hset = cur /\ hset.muted = m
    <3>1. UNCHANGED <<cur, mailbox, mute, muteLeft, task>>
      BY <1>2, <2>1 DEF ServerSettings
    <3> QED BY <1>1, <1>2, <3>1 DEF ServerSettings
  <2>2. CASE Complete(cur) /\ (hset.chk = 0 \/ hset.muted # m)
    <3>1. hset'.chk = hset.chk /\ hset'.muted = m
      BY <1>0, <1>2 DEF ServerSettings, Settings
    <3>2. hpc' = "set" /\ hset' # cur' /\ UNCHANGED <<task, cur>>
      <4>1. hpc = "idle" /\ hpc' = "set" /\ UNCHANGED <<task, cur>>
        BY <1>2 DEF ServerSettings
      <4>2. CASE hset.chk = 0
        BY <2>2, <3>1, <4>1, <4>2 DEF Complete
      <4>3. CASE hset = cur /\ hset.muted # m
        BY <3>1, <4>1, <4>3
      <4> QED BY <1>0, <2>2, <4>1, <4>2, <4>3 DEF SettingsKnown
    <3>3. Pending' /\ ppc' = ppc /\ scSet' = scSet /\ initialSync' = initialSync
      BY <3>2
    <3> HIDE DEF Pending
    <3> QED BY <1>0, <3>3 DEF Active
  <2>3. CASE ~Complete(cur)
    <3>1. UNCHANGED <<task, cur>>
      BY <1>2 DEF ServerSettings
    <3> QED BY <1>0, <2>3, <3>1 DEF Active, Complete
  <2> QED BY <1>0, <1>2, <2>1, <2>2, <2>3 DEF SettingsKnown, ServerSettings
<1>3. CASE (\E s \in NewStreams : StreamSettings(s)) \/ Reconnect
  <2>1. UNCHANGED <<cur, mailbox, mute, muteLeft, task>> /\ (Pending => Pending')
    BY <1>3 DEF StreamSettings, Reconnect, dac
  <2> QED BY <1>1, <2>1
<1>4. CASE SetSettings
  <2>1. CASE hset = cur
    <3>1. UNCHANGED <<cur, mailbox, mute, muteLeft, task>> /\ (Pending => Pending')
      BY <1>4, <2>1 DEF SetSettings, dac
    <3> QED BY <1>1, <3>1
  <2>2. CASE hset # cur
    BY <1>0, <1>4, <2>2 DEF SetSettings, Active
  <2> QED BY <2>1, <2>2
<1>5. CASE CheckHandle
  <2>1. CASE hpc' = "overwrite"
    BY <1>0, <1>5, <2>1 DEF CheckHandle, Active
  <2>2. CASE hpc' = "idle"
    <3>1. \A t \in Tasks : ppc[t] \notin {"top", "recv", "write", "age", "delay"}
      BY <1>0, <1>5, <2>2, PlayerAssumption DEF CheckHandle, Reachable, Active, ActiveStates
    <3> QED BY <1>0, <1>5, <3>1 DEF CheckHandle, Active
  <2> QED BY <1>5, <2>1, <2>2 DEF CheckHandle
<1>6. CASE OverwriteMailbox
  <2>1. CASE mailbox' = "full"
    BY <1>0, <1>6, <2>1 DEF OverwriteMailbox, Panic, Active
  <2>2. CASE Panic("overwrite_deleted_mailbox")
    BY <1>1, <2>2 DEF Panic, http, dac
  <2> QED BY <1>6, <2>1, <2>2 DEF OverwriteMailbox
<1>7. CASE \/ \E gap \in BOOLEAN : TimeMessage(gap)
           \/ LatencyInsert
           \/ \E c \in Chunks, s \in BOOLEAN : AllocateChunk(c, s)
           \/ InsertChunk
  <2>1. UNCHANGED <<cur, mailbox, mute, muteLeft, task>> /\ (Pending => Pending')
    BY <1>7 DEF TimeMessage, LatencyInsert, AllocateChunk, InsertChunk, dac
  <2> QED BY <1>1, <2>1
<1>8. CASE SendChunk \/ ResumeSend
  <2>1. UNCHANGED <<cur, mailbox, mute, muteLeft, task>> /\ (Pending => Pending')
    BY <1>8 DEF SendChunk, ResumeSend, Panic, http, dac
  <2> QED BY <1>1, <2>1
<1>9. CASE StartPlayer
  <2>1. CASE UNCHANGED <<mailbox, task>>
    <3>1. UNCHANGED <<cur, mailbox, mute, muteLeft, task>> /\ (Pending => Pending')
      BY <1>9, <2>1 DEF StartPlayer, dac
    <3> QED BY <1>1, <3>1
  <2>2. CASE ~UNCHANGED <<mailbox, task>>
    <3>1. ~playerstarted /\ \E t \in Tasks : Goto(t, "begin")
      BY <1>9, <2>2 DEF StartPlayer, MayStart
    <3>2. \A t \in Tasks : ppc'[t] \in {"begin", "none", "log"}
      BY <1>0, <3>1 DEF Goto, MuteInv, InformInv, ConsumerInv, SingleConsumer, Active, PlayerStates
    <3> QED BY <3>2 DEF Active, ActiveStates
  <2> QED BY <2>1, <2>2
<1> QED BY <1>2, <1>3, <1>4, <1>5, <1>6, <1>7, <1>8, <1>9 DEF HttpStep

\* The player mutes and leaves sync together, and unmutes as its settings say.
LEMMA MutePlayer ==
  ASSUME MuteInv, NEW t \in Tasks, PlayerStep(t)
  PROVE  MuteOK'
<1> DEFINE Q == {"top", "recv", "write", "age", "delay"}
<1>0. /\ SettingsKnown /\ cur \in Settings
      /\ \A u \in Tasks : MuteKept(u) /\ Informed(u) /\ Positioned(u)
      /\ ppc \in [Tasks -> PlayerStates] /\ initialSync \in [Tasks -> BOOLEAN]
      /\ scSet \in [Tasks -> Settings] /\ ConsumerInv
  BY DEF MuteInv, MuteOK, TypesInv, HttpTypes, TaskTypes, InformInv, InformOK, ChannelInv
<1>1. UNCHANGED <<http, cur>>
  BY PlayerLeavesHttp
<1>2. SettingsKnown'
  BY <1>0, <1>1 DEF SettingsKnown, http
<1>a. CASE Active(t)
  <2>1. playerstarted /\ \A u \in Tasks : u # t => ppc[u] \in {"none", "log"}
    BY <1>a, <1>0, OnlyOne
  <2>2. ASSUME MuteKept(t)', \A u \in Tasks : u # t => ppc'[u] = ppc[u]
        PROVE  \A u \in Tasks : MuteKept(u)'
    <3>1. \A u \in Tasks : u # t => ppc'[u] \in {"none", "log"}
      BY <2>1, <2>2
    <3> QED BY <2>2, <3>1 DEF MuteKept, Active, ActiveStates
  <2>3. Complete(cur)' = Complete(cur) /\ cur' = cur /\ hpc' = hpc /\ hset' = hset
    BY <1>1 DEF Complete, http
  <2>4. \A u \in Tasks : u # t => ppc'[u] = ppc[u]
    BY <1>a, <1>0, PlayerMoves DEF Goto, ActiveStates, Active
  <2>5. ASSUME ppc[t] # "begin", ppc'[t] \notin {"begin", "wait"}, UNCHANGED scSet,
               initialSync'[t] = TRUE /\ ppc'[t] \in Q =>
                 initialSync[t] = TRUE /\ ppc[t] \in Q /\ UNCHANGED <<mute, muteLeft, mailbox>>
        PROVE  MuteKept(t)'
    <3>1. mailbox' = mailbox => Pending' = Pending
      BY <2>3 DEF Pending
    <3>2. CASE initialSync'[t] = TRUE /\ ppc'[t] \in Q
      BY <1>0, <2>3, <2>5, <3>1, <3>2 DEF MuteKept
    <3>3. CASE ~(initialSync'[t] = TRUE /\ ppc'[t] \in Q)
      BY <2>5, <3>3 DEF MuteKept
    <3> QED BY <3>2, <3>3
  <2>6. MuteKept(t)'
    <3> USE DEF Goto
    <3>1. CASE LatencyReady(t) \/ NothingChanged(t) \/ DelayOver(t) \/ StayInSync(t)
      BY <1>0, <2>5, <3>1 DEF LatencyReady, NothingChanged, DelayOver, StayInSync, MuteKept, dac
    <3>2. CASE ReceiveChunk(t)
      BY <1>0, <2>5, <3>2 DEF ReceiveChunk, dac
    <3>3. CASE NoServerTime(t) \/ ChunkEarly(t)
      BY <1>0, <2>5, <3>3 DEF NoServerTime, ChunkEarly, Positioned
    <3>4. CASE ChunkLate(t)
      BY <1>0, <2>5, <3>4 DEF ChunkLate, Positioned
    <3>5. CASE PreloadChunk(t)
      BY <1>0, <2>5, <3>5 DEF PreloadChunk, Panic, task
    <3>6. CASE StartPlayback(t) \/ ChunkWritten(t)
      BY <1>0, <2>5, <3>6 DEF StartPlayback, ChunkWritten, dac
    <3>7. CASE HardResync(t) \/ StreamTimeout(t)
      BY <1>0, <2>5, <3>7 DEF HardResync, StreamTimeout
    <3>8. CASE DeleteMailbox(t) \/ DestroyQueue(t) \/ DeclareStopped(t)
      BY <1>0, <2>5, <3>8 DEF DeleteMailbox, DestroyQueue, DeclareStopped
    <3>9. CASE PlayerBegin(t)
      BY <1>0, <3>9 DEF PlayerBegin, MuteKept
    <3>10. CASE Unmute(t)
      <4>1. Complete(cur) /\ ~Pending => scSet[t] = cur
        BY <1>0, <1>a, <3>10 DEF Unmute, Informed, Pending
      <4>2. Pending' = Pending /\ scSet' = scSet /\ mute' = scSet[t].muted /\ ppc'[t] = "write"
        BY <1>0, <2>3, <3>10 DEF Unmute, Pending
      <4> QED BY <2>3, <4>1, <4>2 DEF MuteKept
    <3>11. CASE ApplySettings(t)
      <4>1. CASE Panic("task_returned")
        BY <1>0, <2>5, <3>11, <4>1 DEF ApplySettings, Panic, task, dac
      <4>2. CASE ~Panic("task_returned")
        <5>1. ppc[t] = "top" /\ ppc'[t] = "recv"
          BY <1>0, <3>11, <4>2 DEF ApplySettings
        <5>2. CASE ~Complete(cur)
          BY <2>3, <5>1, <5>2 DEF MuteKept
        <5>3. CASE Complete(cur)
          <6>1. /\ scSet[t].fmt # cur.fmt => initialSync' = [initialSync EXCEPT ![t] = FALSE]
                /\ mute' = MuteAfter(scSet[t], cur)
                /\ muteLeft' = LeavesMute(scSet[t], cur)
            BY <3>11, <4>2, <5>3 DEF ApplySettings
          <6>2. CASE scSet[t].fmt # cur.fmt
            BY <1>0, <5>1, <6>1, <6>2 DEF MuteKept
          <6>3. CASE scSet[t].fmt = cur.fmt /\ scSet[t].buf = cur.buf
            BY <2>3, <5>1, <6>1, <6>3 DEF MuteKept, MuteAfter
          <6>4. CASE scSet[t].fmt = cur.fmt /\ scSet[t].buf # cur.buf
            <7>1. mute' = cur.muted \/ muteLeft' = TRUE
              BY <6>1, <6>4 DEF MuteAfter, LeavesMute
            <7> QED BY <2>3, <5>1, <7>1 DEF MuteKept
          <6> QED BY <6>2, <6>3, <6>4
        <5> QED BY <5>2, <5>3
      <4> QED BY <4>1, <4>2
    <3>12. ~ForgetTask(t)
      BY <1>a DEF ForgetTask, Active, ActiveStates
    <3> QED BY <3>1, <3>2, <3>3, <3>4, <3>5, <3>6, <3>7, <3>8, <3>9, <3>10, <3>11, <3>12
            DEF PlayerStep
  <2> QED BY <1>2, <2>2, <2>4, <2>6 DEF MuteOK
<1>b. CASE ~Active(t)
  <2>1. ForgetTask(t)
    BY <1>b, PlayerIdle
  <2>2. \A u \in Tasks : ~Active(u)
    <3>1. ~playerstarted
      BY <2>1 DEF ForgetTask, MuteInv, InformInv, InformOK, Reachable
    <3> QED BY <1>0, <3>1 DEF ConsumerInv, SingleConsumer
  <2>3. \A u \in Tasks : ppc'[u] \in {"none", "log"}
    BY <1>0, <2>1, <2>2 DEF ForgetTask, Goto, Active, PlayerStates
  <2> QED BY <1>2, <2>3 DEF MuteOK, MuteKept, Active, ActiveStates
<1> QED BY <1>a, <1>b

\* The invariant is inductive.
LEMMA MuteNext ==
  ASSUME ~LogBlocks, MuteInv, [Next]_vars
  PROVE  MuteInv'
<1>1. TypesInv' /\ ChannelInv' /\ InformInv'
  BY TypesNext, ChannelNext, InformNext DEF MuteInv
<1>2. MuteOK'
  <2>1. CASE HttpStep
    BY <2>1, SettingsKnownHttp, MuteHttp DEF MuteOK
  <2>2. CASE \E t \in Tasks : PlayerStep(t)
    BY <2>2, MutePlayer
  <2>3. CASE TimerAlarm \/ UNCHANGED vars
    <3>1. UNCHANGED <<http, cur, playerstarted, mailbox, dac, task>>
      BY <2>3 DEF TimerAlarm, Panic, vars
    <3> QED BY <3>1 DEF MuteInv, MuteOK, SettingsKnown, MuteKept, Pending, Complete, Active,
             http, dac, task
  <2> QED BY <2>1, <2>2, <2>3 DEF Next, Halted
<1> QED BY <1>1, <1>2 DEF MuteInv

\* As long as the log does not block, and for any buffer lengths, the DAC is
\* muted in sync exactly when the server says so, once the notifications are
\* handled and unless the last one left the mute for a new buffer length
\* (main.c:569, player.c:1566, 1725).
THEOREM MuteAsServerSays ==
  ASSUME ~LogBlocks
  PROVE  Spec => []MuteFollowsServer
<1>1. MuteInv => MuteFollowsServer
  <2> SUFFICES ASSUME MuteInv, Settled, Complete(cur), NEW t \in Tasks,
                      initialSync[t], ppc[t] \in {"recv", "write", "age"}
               PROVE  mute = cur.muted \/ muteLeft
    BY DEF MuteFollowsServer
  <2>1. ~Pending /\ MuteKept(t) /\ initialSync[t] = TRUE
    BY DEF MuteInv, MuteOK, Settled, Pending, TypesInv, TaskTypes
  <2> QED BY <2>1 DEF MuteKept
<1>2. MuteInv /\ [Next]_vars => MuteInv'
  BY MuteNext
<1> QED BY <1>1, <1>2, MuteInit, PTL DEF Spec


-----------------------------------------------------------------------------
(* The chunks *)

\* c is somewhere in the queue.
Queued(c) == \E i \in 1..Len(queue) : queue[i] = c

\* Nothing is in two hands.
NotShared ==
  /\ \A i, j \in 1..Len(queue) : queue[i] = queue[j] => i = j
  /\ \A i \in 1..Len(queue) : queue[i] \notin heap /\ queue[i] # hchunk
  /\ \A t \in Tasks, i \in 1..Len(queue) : queue[i] # chnk[t]
  /\ hchunk \notin heap
  /\ \A t \in Tasks : chnk[t] \notin heap /\ (chnk[t] # NoChunk => chnk[t] # hchunk)

\* Nothing is lost, and a chunk is only held where it is handled.
Accounted ==
  /\ \A c \in Chunks : c \in heap \/ c = hchunk \/ (\E t \in Tasks : c = chnk[t]) \/ Queued(c)
  /\ hchunk # NoChunk => hpc \in {"insert", "send", "blocked"}
  /\ \A t \in Tasks :
       chnk[t] # NoChunk => ppc[t] \in {"sync", "preload", "notify", "settle", "write"}

OwnOK == NotShared /\ Accounted

OwnInv == TypesInv /\ ReleaseInv /\ OwnOK

\* All chunks are on the heap at start-up.
LEMMA OwnInit == Init => OwnInv
<1> SUFFICES ASSUME Init PROVE OwnInv
  OBVIOUS
<1>1. OwnOK
  BY PlayerAssumption DEF Init, OwnOK, NotShared, Accounted
<1> QED BY <1>1, TypesInit, ReleaseInit DEF OwnInv

\* http takes a chunk from the heap, and queues or frees it.
LEMMA OwnHttp ==
  ASSUME OwnInv, HttpStep
  PROVE  OwnOK'
<1> USE DEF OwnOK, NotShared, Accounted, Queued
<1>0. /\ OwnOK /\ queue \in Seq(Chunks) /\ heap \subseteq Chunks /\ NoChunk \notin Chunks
      /\ hpc \in {"insert", "send", "blocked"} => hchunk \in Chunks
      /\ chnk \in [Tasks -> Chunks \cup {NoChunk}]
  BY PlayerAssumption DEF OwnInv, TypesInv, QueueTypes, HttpTypes, TaskTypes
<1>1. ASSUME UNCHANGED <<queue, hchunk, chnk, ppc, heap>>,
             hpc' = hpc \/ hpc \notin {"insert", "send", "blocked"}
      PROVE  OwnOK'
  BY <1>0, <1>1
<1>2. CASE \/ \E b \in Buffers, m \in BOOLEAN : ServerSettings(b, m)
           \/ \E s \in NewStreams : StreamSettings(s)
           \/ SetSettings \/ CheckHandle \/ Reconnect
           \/ \E gap \in BOOLEAN : TimeMessage(gap)
           \/ LatencyInsert \/ OverwriteMailbox
  <2>1. /\ UNCHANGED <<queue, hchunk, chnk, ppc, heap>>
        /\ hpc' = hpc \/ hpc \notin {"insert", "send", "blocked"}
    BY <1>2 DEF ServerSettings, StreamSettings, SetSettings, CheckHandle, Reconnect,
       TimeMessage, LatencyInsert, OverwriteMailbox, Panic, http, pcmq, task, memory
  <2> QED BY <1>1, <2>1
<1>3. ASSUME NEW c \in Chunks, NEW s \in BOOLEAN, AllocateChunk(c, s) PROVE OwnOK'
  <2>1. /\ c \in heap /\ heap' = heap \ {c} /\ hchunk' = c /\ hchunk = NoChunk
        /\ hpc' = "insert" /\ UNCHANGED <<queue, chnk, ppc>>
    BY <1>0, <1>3 DEF AllocateChunk, pcmq, task
  <2> QED BY <1>0, <2>1
<1>4. CASE InsertChunk
  <2>1. CASE hpc' = "send"
    <3>1. UNCHANGED <<queue, hchunk, chnk, ppc, heap>>
      BY <1>4, <2>1 DEF InsertChunk, pcmq, task, memory
    <3> QED BY <1>0, <2>1, <3>1
  <2>2. CASE hpc' # "send"
    <3>1. hchunk' = NoChunk /\ heap' = heap \cup {hchunk} /\ UNCHANGED <<queue, chnk, ppc>>
          /\ hchunk \in Chunks
      BY <1>0, <1>4, <2>2 DEF InsertChunk, Free, pcmq, task
    <3> QED BY <1>0, <3>1
  <2> QED BY <2>1, <2>2
<1>5. ASSUME hchunk \in Chunks, hchunk' = NoChunk, queue' = Append(queue, hchunk),
             UNCHANGED <<chnk, ppc, heap>>
      PROVE  OwnOK'
  <2>1. /\ Len(queue') = Len(queue) + 1 /\ queue'[Len(queue) + 1] = hchunk
        /\ \A i \in 1..Len(queue) : queue'[i] = queue[i]
    BY <1>0, <1>5
  <2>2. \A c : Queued(c)' <=> Queued(c) \/ c = hchunk
    BY <1>0, <2>1
  <2>3. NotShared'
    BY <1>0, <1>5, <2>1
  <2>4. Accounted'
    <3> HIDE DEF Queued
    <3> QED BY <1>0, <1>5, <2>2
  <2> QED BY <2>3, <2>4
<1>6. CASE SendChunk
  <2>1. CASE queue' = Append(queue, hchunk) /\ hchunk' = NoChunk
    BY <1>0, <1>5, <1>6, <2>1 DEF SendChunk, Panic, http, pcmq, task, memory
  <2>2. CASE UNCHANGED <<queue, hchunk, chnk, ppc, heap>> /\ hpc' \in {hpc, "blocked"}
    BY <1>0, <2>2
  <2> QED BY <1>6, <2>1, <2>2 DEF SendChunk, Panic, http, pcmq, task, memory
<1>7. CASE ResumeSend
  <2>1. CASE queue' = Append(queue, hchunk) /\ hchunk' = NoChunk /\ UNCHANGED memory
    BY <1>0, <1>5, <1>7, <2>1 DEF ResumeSend, Panic, http, pcmq, task, memory
  <2>2. CASE Free({hchunk}) /\ hchunk' = NoChunk /\ UNCHANGED queue
    <3>1. heap' = heap \cup {hchunk} /\ UNCHANGED <<queue, chnk, ppc>> /\ hchunk \in Chunks
      BY <1>0, <1>7, <2>2 DEF ResumeSend, Panic, Free, task
    <3> QED BY <1>0, <2>2, <3>1
  <2>3. CASE Panic("send_deleted_queue")
    BY <1>1, <2>3 DEF Panic, http, pcmq, task, memory
  <2> QED BY <1>7, <2>1, <2>2, <2>3 DEF ResumeSend
<1>8. CASE StartPlayer
  <2>1. queue' = queue
    BY <1>0, <1>8 DEF StartPlayer, MayStart, NewQueue, pcmq, OwnInv, ReleaseInv, ReleasedAfterStop
  <2>2. hchunk' = hchunk /\ hchunk = NoChunk /\ UNCHANGED <<heap, chnk>>
    BY <1>0, <1>8 DEF StartPlayer, task, memory
  <2>3. \A t \in Tasks : ppc'[t] = ppc[t] \/ ppc[t] = "none"
    BY <1>8 DEF StartPlayer, Goto, task, OwnInv, TypesInv, TaskTypes
  <2> QED BY <1>0, <2>1, <2>2, <2>3
<1> QED BY <1>2, <1>3, <1>4, <1>6, <1>7, <1>8 DEF HttpStep

\* The player takes a chunk from the queue, and frees it; a queue that is
\* replaced or deleted is drained first.
LEMMA OwnPlayer ==
  ASSUME OwnInv, NEW t \in Tasks, PlayerStep(t)
  PROVE  OwnOK'
<1> USE DEF OwnOK, NotShared, Accounted, Queued
<1> DEFINE Holds == {"sync", "preload", "notify", "settle", "write"}
<1>0. /\ OwnOK /\ queue \in Seq(Chunks) /\ heap \subseteq Chunks /\ NoChunk \notin Chunks
      /\ chnk \in [Tasks -> Chunks \cup {NoChunk}] /\ ppc \in [Tasks -> PlayerStates]
  BY PlayerAssumption DEF OwnInv, TypesInv, QueueTypes, TaskTypes
<1>1. hchunk' = hchunk /\ hpc' = hpc
  BY PlayerLeavesHttp DEF http
<1>2. \A u \in Tasks : u # t => ppc'[u] = ppc[u]
  <2>1. UNCHANGED ppc \/ \E l \in PlayerStates : Goto(t, l)
    BY PlayerMoves DEF PlayerStates
  <2> QED BY <1>0, <2>1 DEF Goto
<1>3. Active(t) => \A u \in Tasks : u # t => chnk[u] = NoChunk
  <2>1. Active(t) => \A u \in Tasks : u # t => ppc[u] \in {"none", "log"}
    BY OnlyOne DEF OwnInv, ReleaseInv
  <2> QED BY <1>0, <2>1
<1>4. ASSUME UNCHANGED <<queue, chnk, heap>>, ppc'[t] \in Holds \/ ppc[t] \notin Holds
      PROVE  OwnOK'
  BY <1>0, <1>1, <1>2, <1>4
<1>5. ASSUME Active(t), UNCHANGED queue, chnk' = [chnk EXCEPT ![t] = NoChunk], Free({chnk[t]})
      PROVE  OwnOK'
  BY <1>0, <1>1, <1>2, <1>3, <1>5 DEF Free
<1>6. ASSUME UNCHANGED chnk, queue' = <<>>, Free(Drained), ppc'[t] \in Holds \/ ppc[t] \notin Holds
      PROVE  OwnOK'
  <2>1. heap' = heap \cup {queue[i] : i \in 1..Len(queue)} /\ Len(queue') = 0
    BY <1>0, <1>6 DEF Free, Drained, SeqSet
  <2> QED BY <1>0, <1>1, <1>2, <1>6, <2>1
<1>7. CASE \/ LatencyReady(t) \/ NothingChanged(t) \/ DelayOver(t) \/ ChunkEarly(t)
           \/ StartPlayback(t) \/ Unmute(t) \/ StayInSync(t) \/ HardResync(t)
           \/ StreamTimeout(t) \/ DeleteMailbox(t) \/ DeclareStopped(t) \/ ForgetTask(t)
  <2>1. UNCHANGED <<queue, chnk, heap>> /\ (ppc'[t] \in Holds \/ ppc[t] \notin Holds)
    BY <1>0, <1>7 DEF LatencyReady, NothingChanged, DelayOver, ChunkEarly, StartPlayback,
       Unmute, StayInSync, HardResync, StreamTimeout, DeleteMailbox, DeclareStopped,
       ForgetTask, Goto, pcmq, memory
  <2> QED BY <1>4, <2>1
<1>8. CASE PlayerBegin(t)
  <2>1. UNCHANGED <<queue, chnk, heap>> /\ ppc[t] \notin Holds
    BY <1>0, <1>8 DEF PlayerBegin, memory
  <2> QED BY <1>4, <2>1
<1>9. CASE ApplySettings(t)
  <2>1. CASE Panic("task_returned")
    BY <1>4, <1>9, <2>1 DEF ApplySettings, Panic, task, pcmq, memory
  <2>2. CASE ~Panic("task_returned")
    <3>1. /\ UNCHANGED chnk /\ ppc[t] \notin Holds
          /\ UNCHANGED <<pcmq, memory>> \/ (Free(Drained) /\ queue' = <<>>)
      BY <1>9, <2>2 DEF ApplySettings, NewQueue
    <3> QED BY <1>4, <1>6, <3>1 DEF pcmq, memory
  <2> QED BY <2>1, <2>2
<1>10. CASE ReceiveChunk(t)
  <2>1. /\ Active(t) /\ chnk[t] = NoChunk /\ queue # <<>> /\ heap' = heap
        /\ chnk' = [chnk EXCEPT ![t] = queue[1]] /\ queue' = Tail(queue)
        /\ ppc'[t] \in Holds
    BY <1>0, <1>10 DEF ReceiveChunk, Active, ActiveStates, Goto, memory
  <2>2. /\ Len(queue) \in Nat \ {0} /\ Len(queue') = Len(queue) - 1
        /\ \A i \in 1..(Len(queue) - 1) : queue'[i] = queue[i + 1]
    BY <1>0, <2>1
  <2>3. \A c : Queued(c) <=> Queued(c)' \/ c = queue[1]
    <3> SUFFICES ASSUME NEW c PROVE Queued(c) <=> Queued(c)' \/ c = queue[1]
      OBVIOUS
    <3>1. ASSUME NEW i \in 1..Len(queue), queue[i] = c, i # 1 PROVE Queued(c)'
      <4>1. i - 1 \in 1..Len(queue') /\ queue'[i - 1] = c
        BY <2>2, <3>1
      <4> QED BY <4>1
    <3>2. ASSUME NEW i \in 1..Len(queue'), queue'[i] = c PROVE Queued(c)
      <4>1. i + 1 \in 1..Len(queue) /\ queue[i + 1] = c
        BY <2>2, <3>2
      <4> QED BY <4>1
    <3> QED BY <2>2, <3>1, <3>2
  <2>4. queue[1] \in Chunks
    BY <1>0, <2>2
  <2>5. NotShared'
    BY <1>0, <1>1, <1>3, <2>1, <2>2, <2>4
  <2>6. Accounted'
    <3> HIDE DEF Queued
    <3> QED BY <1>0, <1>1, <1>2, <1>3, <2>1, <2>3, <2>4
  <2> QED BY <2>5, <2>6
<1>11. CASE NoServerTime(t) \/ ChunkWritten(t)
  BY <1>5, <1>11 DEF NoServerTime, ChunkWritten, pcmq, Active, ActiveStates
<1>12. CASE ChunkLate(t)
  <2>1. PICK n \in 0..Len(queue) :
          /\ Free({chnk[t]} \cup {queue[i] : i \in 1..n})
          /\ queue' = SubSeq(queue, n + 1, Len(queue))
    BY <1>12 DEF ChunkLate
  <2>2. Active(t) /\ chnk' = [chnk EXCEPT ![t] = NoChunk] /\ ppc'[t] = "top"
    BY <1>0, <1>12 DEF ChunkLate, Active, ActiveStates, Goto
  <2>3. /\ Len(queue') = Len(queue) - n
        /\ \A i \in 1..(Len(queue) - n) : queue'[i] = queue[n + i]
    BY <1>0, <2>1
  <2>4. heap' = heap \cup (({chnk[t]} \cup {queue[i] : i \in 1..n}) \ {NoChunk})
    BY <2>1 DEF Free
  <2>5. \A c : Queued(c) <=> Queued(c)' \/ \E i \in 1..n : c = queue[i]
    <3> SUFFICES ASSUME NEW c PROVE Queued(c) <=> Queued(c)' \/ \E i \in 1..n : c = queue[i]
      OBVIOUS
    <3>1. ASSUME NEW i \in 1..Len(queue), queue[i] = c, i \notin 1..n PROVE Queued(c)'
      <4>1. i - n \in 1..Len(queue') /\ queue'[i - n] = c
        BY <1>0, <2>3, <3>1
      <4> QED BY <4>1
    <3>2. ASSUME NEW i \in 1..Len(queue'), queue'[i] = c PROVE Queued(c)
      <4>1. n + i \in 1..Len(queue) /\ queue[n + i] = c
        BY <1>0, <2>3, <3>2
      <4> QED BY <4>1
    <3>3. 1..n \subseteq 1..Len(queue)
      BY <1>0
    <3> QED BY <3>1, <3>2, <3>3
  <2>6. NotShared'
    <3>1. \A i \in 1..(Len(queue) - n) : n + i \in 1..Len(queue) /\ n + i \notin 1..n
      BY <1>0
    <3>2. ASSUME NEW i \in 1..Len(queue'), NEW j \in 1..Len(queue'), queue'[i] = queue'[j]
          PROVE  i = j
      <4>1. n + i \in 1..Len(queue) /\ n + j \in 1..Len(queue) /\ queue[n + i] = queue[n + j]
        BY <1>0, <2>3, <3>1, <3>2
      <4>2. n + i = n + j
        BY <1>0, <4>1
      <4> QED BY <4>2
    <3>3. ASSUME NEW i \in 1..Len(queue')
          PROVE  queue'[i] \notin heap' /\ queue'[i] # hchunk
      <4>1. n + i \in 1..Len(queue) /\ n + i \notin 1..n /\ queue'[i] = queue[n + i]
        BY <1>0, <2>3, <3>1
      <4>2. \A m \in 1..n : m \in 1..Len(queue) /\ queue[m] # queue[n + i]
        BY <1>0, <4>1
      <4>3. queue[n + i] \notin heap /\ queue[n + i] # hchunk /\ queue[n + i] # chnk[t]
        BY <1>0, <4>1
      <4> QED BY <2>4, <4>1, <4>2, <4>3
    <3>4. \A u \in Tasks, i \in 1..Len(queue') : queue'[i] # chnk'[u]
      BY <1>0, <1>3, <2>2, <2>3, <3>1
    <3>5. hchunk \notin heap'
      BY <1>0, <2>4
    <3>6. \A u \in Tasks : chnk'[u] = NoChunk
      BY <1>0, <1>3, <2>2
    <3>7. NoChunk \notin heap'
      BY <1>0, <2>4
    <3> QED BY <1>1, <3>2, <3>3, <3>4, <3>5, <3>6, <3>7
  <2>7. Accounted'
    <3> HIDE DEF Queued
    <3> QED BY <1>0, <1>1, <1>2, <1>3, <2>2, <2>4, <2>5
  <2> QED BY <2>6, <2>7
<1>13. CASE PreloadChunk(t)
  <2>1. CASE Free({chnk[t]}) /\ chnk' = [chnk EXCEPT ![t] = NoChunk]
    BY <1>5, <1>13, <2>1 DEF PreloadChunk, Panic, pcmq, Active, ActiveStates
  <2>2. CASE UNCHANGED <<memory, chnk>> /\ (UNCHANGED ppc \/ Goto(t, "notify"))
    <3>1. queue' = queue /\ (ppc'[t] \in Holds \/ ppc[t] \notin Holds)
      BY <1>0, <1>13, <2>2 DEF PreloadChunk, Panic, pcmq, Goto
    <3> QED BY <1>4, <2>2, <3>1 DEF memory
  <2> QED BY <1>13, <2>1, <2>2 DEF PreloadChunk, Panic, task
<1>14. CASE DestroyQueue(t)
  BY <1>6, <1>14 DEF DestroyQueue
<1> QED BY <1>7, <1>8, <1>9, <1>10, <1>11, <1>12, <1>13, <1>14 DEF PlayerStep

\* The invariant is inductive.
LEMMA OwnNext == OwnInv /\ [Next]_vars => OwnInv'
<1> SUFFICES ASSUME OwnInv, [Next]_vars PROVE OwnInv'
  OBVIOUS
<1>1. TypesInv' /\ ReleaseInv'
  BY TypesNext, ReleaseNext DEF OwnInv
<1>2. CASE HttpStep
  BY <1>1, <1>2, OwnHttp DEF OwnInv
<1>3. CASE \E t \in Tasks : PlayerStep(t)
  BY <1>1, <1>3, OwnPlayer DEF OwnInv
<1>4. CASE TimerAlarm \/ UNCHANGED vars
  <2>1. UNCHANGED <<http, queue, task, heap>>
    BY <1>4 DEF TimerAlarm, Panic, vars, pcmq, memory
  <2> QED BY <1>1, <2>1 DEF OwnInv, OwnOK, NotShared, Accounted, Queued, http, task
<1> QED BY <1>2, <1>3, <1>4 DEF Next, Halted

\* Counting hands: a sequence without repetitions has as many members as places.
LEMMA SeqCounts ==
  ASSUME NEW s \in Seq(Chunks), \A i, j \in 1..Len(s) : s[i] = s[j] => i = j
  PROVE  IsFiniteSet(SeqSet(s)) /\ Cardinality(SeqSet(s)) = Len(s)
<1>1. IsFiniteSet(1..Len(s)) /\ Cardinality(1..Len(s)) = Len(s)
  <2>1. Len(s) \in Nat /\ Len(s) \in Int /\ 1 \in Int
    OBVIOUS
  <2>2. /\ IsFiniteSet(1..Len(s))
        /\ Cardinality(1..Len(s)) = IF 1 > Len(s) THEN 0 ELSE Len(s) - 1 + 1
    BY <2>1, FS_Interval
  <2> QED BY <2>1, <2>2
<1>2. s \in Bijection(1..Len(s), SeqSet(s))
  <2>1. DOMAIN s = 1..Len(s) /\ s \in [1..Len(s) -> SeqSet(s)]
    BY DEF SeqSet
  <2>2. IsInjective(s)
    BY <2>1 DEF IsInjective
  <2>3. \A c \in SeqSet(s) : \E i \in 1..Len(s) : s[i] = c
    BY <2>1 DEF SeqSet
  <2> QED BY <2>1, <2>2, <2>3 DEF Bijection, Injection, Surjection
<1>3. ExistsBijection(1..Len(s), SeqSet(s))
  BY <1>2 DEF ExistsBijection
<1> QED BY <1>1, <1>3, FS_Bijection

\* The chunks player tasks hold, and the tasks that hold one.
Held == {chnk[t] : t \in Tasks} \ {NoChunk}
Holders == {t \in Tasks : chnk[t] # NoChunk}

\* One holder at most: as many holding tasks as chunks held.
LEMMA HoldersCount ==
  ASSUME OwnInv
  PROVE  IsFiniteSet(Held) /\ Cardinality(Held) = Cardinality(Holders)
<1>1. \A t, u \in Holders : t = u
  BY DEF Holders, OwnInv, OwnOK, Accounted, ReleaseInv, ConsumerInv, SingleConsumer, Active,
     ActiveStates
<1>2. CASE Holders = {}
  <2>1. Held = {}
    BY <1>2 DEF Held, Holders
  <2> QED BY <1>2, <2>1, FS_EmptySet
<1>3. ASSUME NEW t \in Holders PROVE Holders = {t} /\ Held = {chnk[t]}
  BY <1>1, <1>3 DEF Held, Holders
<1>4. CASE Holders # {}
  <2>1. PICK t \in Holders : TRUE
    BY <1>4
  <2>2. Holders = {t} /\ Held = {chnk[t]}
    BY <1>3, <2>1
  <2>3. IsFiniteSet({t}) /\ Cardinality({t}) = 1
    BY FS_Singleton, Zenon
  <2>4. IsFiniteSet({chnk[t]}) /\ Cardinality({chnk[t]}) = 1
    BY FS_Singleton, Zenon
  <2> QED BY <2>2, <2>3, <2>4
<1> QED BY <1>2, <1>4

\* Free, queued, in the hand of http or of a task: that is all, and no two at once.
LEMMA OwnCounts ==
  ASSUME IsFiniteSet(Chunks), OwnInv
  PROVE  ChunkOwnership
<1> DEFINE hand == {hchunk} \ {NoChunk}
           q == SeqSet(queue)
<1>0. /\ OwnOK /\ queue \in Seq(Chunks) /\ heap \subseteq Chunks /\ NoChunk \notin Chunks
      /\ chnk \in [Tasks -> Chunks \cup {NoChunk}] /\ hchunk \in Chunks \cup {NoChunk}
  BY PlayerAssumption DEF OwnInv, TypesInv, QueueTypes, TaskTypes, HttpTypes
<1>1. \A c : c \in q <=> Queued(c)
  BY <1>0 DEF SeqSet, Queued
<1>2. InHand = hand \cup Held
  BY DEF InHand, Held
<1>3. heap \cup q \cup InHand = Chunks
  <2>1. \A c \in Chunks : c \in heap \/ c \in q \/ c \in hand \/ c \in Held
    BY <1>0, <1>1 DEF OwnOK, Accounted, Held
  <2>2. q \subseteq Chunks
    BY <1>0 DEF SeqSet
  <2> QED BY <1>0, <1>2, <2>1, <2>2 DEF Held
<1>4. heap \cap q = {} /\ (heap \cup q) \cap hand = {} /\ (heap \cup q \cup hand) \cap Held = {}
  <2>1. \A i \in DOMAIN queue : i \in 1..Len(queue)
    BY <1>0
  <2> QED BY <1>0, <2>1 DEF OwnOK, NotShared, SeqSet, Held
<1>5. IsFiniteSet(q) /\ Cardinality(q) = Len(queue) /\ Len(queue) \in Nat
  BY <1>0, SeqCounts DEF OwnOK, NotShared
<1>6. /\ IsFiniteSet(Held) /\ Cardinality(Held) = Cardinality(Holders)
      /\ Cardinality(Held) \in Nat
  BY HoldersCount, FS_CardinalityType
<1>7. IsFiniteSet(hand) /\ Cardinality(hand) = IF hchunk = NoChunk THEN 0 ELSE 1
  <2>1. CASE hchunk = NoChunk
    <3>1. hand = {}
      BY <2>1
    <3> QED BY <2>1, <3>1, FS_EmptySet
  <2>2. CASE hchunk # NoChunk
    <3>1. hand = {hchunk}
      BY <2>2
    <3>2. IsFiniteSet({hchunk}) /\ Cardinality({hchunk}) = 1
      BY FS_Singleton, Zenon
    <3> QED BY <2>2, <3>1, <3>2
  <2> QED BY <2>1, <2>2
<1>8. IsFiniteSet(heap) /\ Cardinality(heap) \in Nat
  BY <1>0, FS_Subset, FS_CardinalityType
<1> HIDE DEF hand, q
<1>9. IsFiniteSet(heap \cup q) /\ Cardinality(heap \cup q) = Cardinality(heap) + Len(queue)
  <2>1. Cardinality(heap \cap q) = 0
    BY <1>4, FS_EmptySet
  <2>2. /\ IsFiniteSet(heap \cup q)
        /\ Cardinality(heap \cup q) = Cardinality(heap) + Cardinality(q) - Cardinality(heap \cap q)
    BY <1>5, <1>8, FS_Union
  <2> QED BY <1>5, <1>8, <2>1, <2>2
<1>10. /\ IsFiniteSet(heap \cup q \cup hand)
       /\ Cardinality(heap \cup q \cup hand) = Cardinality(heap) + Len(queue) + Cardinality(hand)
  <2>1. Cardinality((heap \cup q) \cap hand) = 0
    BY <1>4, FS_EmptySet
  <2>2. /\ IsFiniteSet((heap \cup q) \cup hand)
        /\ Cardinality((heap \cup q) \cup hand)
             = Cardinality(heap \cup q) + Cardinality(hand) - Cardinality((heap \cup q) \cap hand)
    BY <1>7, <1>9, FS_Union
  <2> QED BY <1>5, <1>7, <1>8, <1>9, <2>1, <2>2
<1>11. Cardinality(heap \cup q \cup hand \cup Held)
         = Cardinality(heap) + Len(queue) + Cardinality(hand) + Cardinality(Held)
  <2>1. Cardinality((heap \cup q \cup hand) \cap Held) = 0
    BY <1>4, FS_EmptySet
  <2>2. Cardinality((heap \cup q \cup hand) \cup Held)
          = Cardinality(heap \cup q \cup hand) + Cardinality(Held)
              - Cardinality((heap \cup q \cup hand) \cap Held)
    BY <1>6, <1>10, FS_Union
  <2> QED BY <1>5, <1>6, <1>7, <1>8, <1>10, <2>1, <2>2
<1>12. heap \cup q \cup hand \cup Held = Chunks
  BY <1>2, <1>3
<1> QED BY <1>3, <1>6, <1>7, <1>11, <1>12 DEF ChunkOwnership, q, Holders

\* Every chunk is free or in exactly one hand (player.c:1351, 1396, 1531, 1795).
THEOREM ChunksOwnedOnce ==
  ASSUME IsFiniteSet(Chunks)
  PROVE  Spec => []ChunkOwnership
<1>1. OwnInv => ChunkOwnership
  BY OwnCounts
<1> QED BY <1>1, OwnInit, OwnNext, PTL DEF Spec
=============================================================================
