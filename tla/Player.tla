------------------------------- MODULE Player -------------------------------
(***************************************************************************)
(* The hand-over between http_get_task and player_task of                  *)
(* components/lightsnapcast/player.c: the PCM chunk queue, the one-slot    *)
(* mailbox that announces changed settings, the life cycle of the player   *)
(* task, the initial-sync timer interrupt and the I2S channel.             *)
(*                                                                         *)
(* Both tasks are pinned to core 1, the player at priority 20 and http at  *)
(* 17 (player.c:42, main.c:86).  The player therefore preempts http between*)
(* any two of its steps, while http runs only when every player task is    *)
(* parked in a blocking call (HttpRuns).                                   *)
(*                                                                         *)
(* Sample data, clocks and the latency filter's contents are abstracted:   *)
(* whether a chunk is early or late, and whether the sync error is out of  *)
(* bounds, is a free choice.                                               *)
(***************************************************************************)
EXTENDS Naturals, Sequences, FiniteSets

CONSTANTS
  Tasks,       \* identities of player task control blocks
  Queues,      \* identities of PCM queues, one per allocated address
  Chunks,      \* the PCM chunks the heap has room for
  NoTask,      \* playerTaskHandle == NULL
  NoQueue,     \* pcmChkQHdl == NULL
  NoChunk,     \* a NULL pcm_chunk_message_t pointer
  Formats,     \* sr / bits / ch combinations, positive numbers
  Buffers,     \* buf_ms values, positive; the queue holds one chunk per unit
  ChunkSizes,  \* chkInFrames values, positive
  AllocFails,  \* may the payload allocation of a chunk fail?
  SetupFails,  \* may player_setup_i2s fail? (only without sample insertion)
  PmEnabled,   \* CONFIG_PM_ENABLE
  LogBlocks    \* may the ESP_LOGI at player.c:2141 block its caller?

ASSUME PlayerAssumption ==
  /\ NoTask \notin Tasks /\ NoQueue \notin Queues /\ NoChunk \notin Chunks
  /\ Formats \subseteq Nat \ {0} /\ Formats # {}
  /\ Buffers \subseteq Nat \ {0} /\ Buffers # {}
  /\ ChunkSizes \subseteq Nat \ {0}
  /\ {AllocFails, SetupFails, PmEnabled, LogBlocks} \subseteq BOOLEAN

VARIABLES
  hpc,            \* where http_get_task is
  hchunk,         \* the chunk insert_pcm_chunk() was called with
  hq,             \* the queue handle xQueueSend() is blocked on
  hset,           \* http_get_task's local scSet
  cur,            \* currentSnapcastSetting
  gotSettings,    \* player.c gotSettings
  playerstarted,  \* player.c playerstarted
  handle,         \* playerTaskHandle
  qid,            \* pcmChkQHdl
  queue,          \* content of the queue pcmChkQHdl names
  qcap,           \* its length
  qchk,           \* static queueCreatedWithChkInFrames
  mailbox,        \* snapcastSettingQueueHandle: NULL, empty or full
  chan,           \* tx_chan # NULL
  i2sEnabled,     \* player.c i2sEnabled
  mute,           \* audioDAC_data.mute
  enabled,        \* audioDAC_data.enabled
  muteLeft,       \* history: the player took over another mute than the DAC's
                  \* together with a buffer length, and did not write it
  latFull,        \* the latency filter is full
  latSem,         \* latencyBufFullSemaphoreHandle is given
  known,          \* latencyToServer # 0
  timer,          \* the gptimer alarm: off, armed or fired
  notified,       \* pending task notification of each player task
  ppc,            \* where each player task is
  initialSync,    \* per player task
  chnk,           \* per player task
  scSet,          \* per player task
  heap,           \* chunks that are not allocated
  silent,         \* allocated chunks whose payload is NULL
  fault           \* the failed assertion that reset the chip, or "none"

http    == <<hpc, hchunk, hq, hset, gotSettings>>
latency == <<latFull, latSem, known>>
pcmq    == <<qid, queue, qcap, qchk>>
i2s     == <<chan, i2sEnabled>>
dac     == <<mute, enabled, muteLeft>>
task    == <<ppc, initialSync, chnk, scSet>>
memory  == <<heap, silent>>
vars == <<http, cur, playerstarted, handle, pcmq, mailbox, i2s, dac, latency,
          timer, notified, task, memory, fault>>

Settings == [fmt : Formats \cup {0}, buf : Buffers \cup {0},
             chk : ChunkSizes \cup {0}, muted : BOOLEAN]
NoSettings == [fmt |-> 0, buf |-> 0, chk |-> 0, muted |-> TRUE]
Complete(s) == s.fmt > 0 /\ s.buf > 0 /\ s.chk > 0

\* Mutant: the default of a connection is a chunk size, not "unknown".
ConnectionDefaultSized == [fmt |-> CHOOSE f \in Formats : TRUE,
                           buf |-> CHOOSE b \in Buffers : TRUE,
                           chk |-> 1152, muted |-> TRUE]

\* http_get_task's defaults for a new connection.
ConnectionDefault == [fmt |-> CHOOSE f \in Formats : TRUE,
                      buf |-> CHOOSE b \in Buffers : TRUE,
                      chk |-> 0, muted |-> TRUE]

HttpStates == {"idle", "set", "check", "overwrite", "latency", "insert",
               "send", "blocked", "start"}
\* A task between its creation and playerstarted = false.
ActiveStates == {"begin", "wait", "top", "recv", "sync", "delay", "preload",
                 "notify", "settle", "write", "age", "stop", "drop", "leave"}
PlayerStates == ActiveStates \cup {"none", "log"}
Faults == {"none", "send_null_queue", "send_deleted_queue",
           "overwrite_deleted_mailbox", "preload_null_payload",
           "notify_null_task", "task_returned"}

Active(t) == ppc[t] \in ActiveStates
SeqSet(s) == {s[i] : i \in DOMAIN s}

-----------------------------------------------------------------------------
Init ==
  /\ hpc = "idle" /\ hchunk = NoChunk /\ hq = NoQueue
  /\ hset = ConnectionDefault /\ gotSettings = FALSE
  /\ cur = NoSettings /\ playerstarted = FALSE /\ handle = NoTask
  /\ qid = NoQueue /\ queue = <<>> /\ qcap = 0 /\ qchk = 0
  /\ mailbox = "null" /\ chan = FALSE /\ i2sEnabled = FALSE
  /\ mute = TRUE /\ enabled = FALSE /\ muteLeft = FALSE
  /\ latFull = FALSE /\ latSem = FALSE /\ known = FALSE
  /\ timer = "off" /\ notified = [t \in Tasks |-> FALSE]
  /\ ppc = [t \in Tasks |-> "none"]
  /\ initialSync = [t \in Tasks |-> FALSE]
  /\ chnk = [t \in Tasks |-> NoChunk]
  /\ scSet = [t \in Tasks |-> NoSettings]
  /\ heap = Chunks /\ silent = {} /\ fault = "none"

\* A failed configASSERT or ESP_ERROR_CHECK, or a use of freed memory: the
\* panic handler resets the chip and nothing of this module survives.
Panic(what) ==
  /\ fault' = what
  /\ UNCHANGED <<http, cur, playerstarted, handle, pcmq, mailbox, i2s, dac,
                 latency, timer, notified, task, memory>>

\* free_pcm_chunk for a set of chunks (NoChunk: the pointer is NULL).
Free(cs) == /\ heap' = heap \cup (cs \ {NoChunk})
            /\ silent' = silent \ cs

Goto(t, l) == ppc' = [ppc EXCEPT ![t] = l]

\* Player task t has given up core 1: it waits in a FreeRTOS or driver call.
Parked(t) ==
  \/ ppc[t] \in {"none", "delay", "settle", "write"}
  \/ ppc[t] = "wait" /\ ~latSem
  \/ ppc[t] = "recv" /\ queue = <<>>
  \/ ppc[t] = "preload" /\ chnk[t] = NoChunk /\ queue = <<>>
  \/ ppc[t] = "notify" /\ ~notified[t]
  \/ ppc[t] = "log" /\ LogBlocks

HttpRuns == fault = "none" /\ \A t \in Tasks : Parked(t)
PlayerRuns(t) == fault = "none" /\ ppc[t] # "none"

\* Mutant: the queue is deleted with the chunks in it.
DrainedNot == {}

\* The chunks destroy_pcm_queue frees.
Drained == SeqSet(queue)

\* xQueueCreate for a set of settings; the heap may hand out the address of a
\* queue that was just deleted.
NewQueue(s) ==
  /\ qid' \in Queues
  /\ queue' = <<>>
  /\ qcap' = s.buf

-----------------------------------------------------------------------------
(* http_get_task: settings *)

\* server_settings_msg_received: the DAC is muted from this task when the
\* connection's view of mute changes, then the player is informed.
ServerSettings(b, m) ==
  /\ hpc = "idle" /\ HttpRuns
  /\ mute' = IF hset.muted # m THEN m ELSE mute
  /\ hset' = [hset EXCEPT !.buf = b, !.muted = m]
  /\ hpc' = "set"
  /\ UNCHANGED <<hchunk, hq, gotSettings, cur, playerstarted, handle, pcmq,
                 mailbox, i2s, enabled, muteLeft, latency, timer, notified,
                 task, memory, fault>>

\* A codec header brings a format, a decoded chunk its size.
NewStreams == {[hset EXCEPT !.fmt = f] : f \in Formats}
                \cup {[hset EXCEPT !.chk = c] : c \in ChunkSizes}

\* codec_header_received sets the stream's format; handle_chunk_message sets
\* the chunk size; both end in player_send_snapcast_setting.
StreamSettings(s) ==
  /\ hpc = "idle" /\ HttpRuns
  /\ s \in NewStreams
  /\ hset' = s
  /\ hpc' = "set"
  /\ UNCHANGED <<hchunk, hq, gotSettings, cur, playerstarted, handle, pcmq,
                 mailbox, i2s, dac, latency, timer, notified, task, memory,
                 fault>>

\* player_send_snapcast_setting: compare and store under the mutex.
SetSettings ==
  /\ hpc = "set" /\ HttpRuns
  /\ cur' = hset
  /\ gotSettings' = (gotSettings \/ Complete(hset))
  /\ hpc' = IF hset = cur THEN "idle" ELSE "check"
  /\ UNCHANGED <<hchunk, hq, hset, playerstarted, handle, pcmq, mailbox, i2s,
                 dac, latency, timer, notified, task, memory, fault>>

\* ... is there anybody to notify? (no mutex is held)
CheckHandle ==
  /\ hpc = "check" /\ HttpRuns
  /\ hpc' = IF handle # NoTask /\ mailbox # "null" THEN "overwrite" ELSE "idle"
  /\ UNCHANGED <<hchunk, hq, hset, gotSettings, cur, playerstarted, handle,
                 pcmq, mailbox, i2s, dac, latency, timer, notified, task,
                 memory, fault>>

\* ... and xQueueOverwrite on the handle as it is by now.
OverwriteMailbox ==
  /\ hpc = "overwrite" /\ HttpRuns
  /\ \/ /\ mailbox = "null"
        /\ Panic("overwrite_deleted_mailbox")
     \/ /\ mailbox # "null"
        /\ mailbox' = "full"
        /\ hpc' = "idle"
        /\ UNCHANGED <<hchunk, hq, hset, gotSettings, cur, playerstarted,
                       handle, pcmq, i2s, dac, latency, timer, notified, task,
                       memory, fault>>

\* The connection was lost and http_get_task starts over with its defaults.
Reconnect ==
  /\ hpc = "idle" /\ HttpRuns
  /\ hset' = ConnectionDefault
  /\ UNCHANGED <<hpc, hchunk, hq, gotSettings, cur, playerstarted, handle,
                 pcmq, mailbox, i2s, dac, latency, timer, notified, task,
                 memory, fault>>

-----------------------------------------------------------------------------
(* http_get_task: time messages *)

\* reset_latency_buffer
ResetLatency == latFull' = FALSE /\ latSem' = FALSE /\ known' = FALSE

\* time_sync_msg_received: after a gap of 60 s the latency filter is emptied.
TimeMessage(gap) ==
  /\ hpc = "idle" /\ HttpRuns
  /\ IF gap THEN ResetLatency ELSE UNCHANGED latency
  /\ hpc' = "latency"
  /\ UNCHANGED <<hchunk, hq, hset, gotSettings, cur, playerstarted, handle,
                 pcmq, mailbox, i2s, dac, timer, notified, task, memory,
                 fault>>

\* player_latency_insert: the filter may become full with this value.
LatencyInsert ==
  /\ hpc = "latency" /\ HttpRuns
  /\ latFull' \in {latFull, TRUE}
  /\ latSem' = (latSem \/ latFull')
  /\ known' = TRUE
  /\ hpc' = "idle"
  /\ UNCHANGED <<hchunk, hq, hset, gotSettings, cur, playerstarted, handle,
                 pcmq, mailbox, i2s, dac, timer, notified, task, memory,
                 fault>>

-----------------------------------------------------------------------------
(* http_get_task: PCM chunks *)

\* allocate_pcm_chunk_memory: without memory for the samples the chunk gets no
\* payload and stands for silence.
AllocateChunk(c, s) ==
  /\ hpc = "idle" /\ HttpRuns
  /\ c \in heap /\ s \in {FALSE, AllocFails}
  /\ heap' = heap \ {c}
  /\ silent' = IF s THEN silent \cup {c} ELSE silent
  /\ hchunk' = c
  /\ hpc' = "insert"
  /\ UNCHANGED <<hq, hset, gotSettings, cur, playerstarted, handle, pcmq,
                 mailbox, i2s, dac, latency, timer, notified, task, fault>>

\* insert_pcm_chunk up to xQueueSend: no queue, no latency yet, or go on.
InsertChunk ==
  /\ hpc = "insert" /\ HttpRuns
  /\ \/ /\ qid = NoQueue
        /\ hpc' = IF ~cur.muted /\ gotSettings THEN "start" ELSE "idle"
        /\ hchunk' = NoChunk /\ Free({hchunk})
     \/ /\ qid # NoQueue /\ ~latFull
        /\ hpc' = "idle"
        /\ hchunk' = NoChunk /\ Free({hchunk})
     \/ /\ qid # NoQueue /\ latFull
        /\ hpc' = "send"
        /\ UNCHANGED <<hchunk, memory>>
  /\ UNCHANGED <<hq, hset, gotSettings, cur, playerstarted, handle, pcmq,
                 mailbox, i2s, dac, latency, timer, notified, task, fault>>

\* xQueueSend(pcmChkQHdl, .., 1 ms): reads the handle again; a full queue
\* blocks the caller.
SendChunk ==
  /\ hpc = "send" /\ HttpRuns
  /\ \/ /\ qid = NoQueue
        /\ Panic("send_null_queue")
     \/ /\ qid # NoQueue /\ Len(queue) < qcap
        /\ queue' = Append(queue, hchunk)
        /\ hchunk' = NoChunk
        /\ hpc' = "idle"
        /\ UNCHANGED <<hq, hset, gotSettings, cur, playerstarted, handle, qid,
                       qcap, qchk, mailbox, i2s, dac, latency, timer, notified,
                       task, memory, fault>>
     \/ /\ qid # NoQueue /\ Len(queue) = qcap
        /\ hq' = qid
        /\ hpc' = "blocked"
        /\ UNCHANGED <<hchunk, hset, gotSettings, cur, playerstarted, handle,
                       pcmq, mailbox, i2s, dac, latency, timer, notified, task,
                       memory, fault>>

\* http is woken inside xQueueSend, by room in the queue or after 1 ms (the
\* chunk is then dropped), and goes back to the queue it was blocked on.
ResumeSend ==
  /\ hpc = "blocked" /\ HttpRuns
  /\ \/ /\ hq # qid
        /\ Panic("send_deleted_queue")
     \/ /\ hq = qid
        /\ \/ /\ Len(queue) < qcap
              /\ queue' = Append(queue, hchunk)
              /\ UNCHANGED memory
           \/ /\ Len(queue) = qcap
              /\ Free({hchunk})
              /\ UNCHANGED queue
        /\ hchunk' = NoChunk /\ hq' = NoQueue /\ hpc' = "idle"
        /\ UNCHANGED <<hset, gotSettings, cur, playerstarted, handle, qid,
                       qcap, qchk, mailbox, i2s, dac, latency, timer, notified,
                       task, fault>>

MayStart == ~playerstarted

\* start_player, called by insert_pcm_chunk while there is no queue.
StartPlayer ==
  /\ hpc = "start" /\ HttpRuns
  /\ hpc' = "idle"
  /\ \/ /\ ~MayStart
        /\ UNCHANGED <<playerstarted, handle, pcmq, mailbox, i2s, latency,
                       timer, notified, task>>
     \/ /\ MayStart /\ SetupFails
        /\ UNCHANGED <<playerstarted, handle, pcmq, mailbox, i2s, latency,
                       timer, notified, task>>
     \/ /\ MayStart
        /\ playerstarted' = TRUE
        /\ chan' = TRUE /\ i2sEnabled' = FALSE
        /\ timer' = "off"
        /\ IF PmEnabled THEN ResetLatency ELSE UNCHANGED latency
        /\ mailbox' = "empty"
        /\ IF qid = NoQueue THEN NewQueue(cur) ELSE UNCHANGED <<qid, queue, qcap>>
        /\ \E t \in Tasks : /\ ppc[t] = "none"
                            /\ Goto(t, "begin")
                            /\ handle' = t
                            /\ notified' = [notified EXCEPT ![t] = FALSE]
        /\ UNCHANGED <<qchk, initialSync, chnk, scSet>>
  /\ UNCHANGED <<hchunk, hq, hset, gotSettings, cur, dac, memory, fault>>

-----------------------------------------------------------------------------
(* player_task: start and settings *)

\* First lines of player_task: the settings are read, the DAC takes their mute.
PlayerBegin(t) ==
  /\ PlayerRuns(t) /\ ppc[t] = "begin"
  /\ scSet' = [scSet EXCEPT ![t] = cur]
  /\ qchk' = cur.chk
  /\ initialSync' = [initialSync EXCEPT ![t] = FALSE]
  /\ chnk' = [chnk EXCEPT ![t] = NoChunk]
  /\ mute' = cur.muted /\ muteLeft' = FALSE
  /\ Goto(t, "wait")
  /\ UNCHANGED <<http, cur, playerstarted, handle, qid, queue, qcap, mailbox,
                 i2s, enabled, latency, timer, notified, memory, fault>>

\* Mutant: notifications sent before the loop are thrown away.
LatencyReadyFlushes(t) ==
  /\ PlayerRuns(t) /\ ppc[t] = "wait" /\ latSem
  /\ mailbox' = "empty"
  /\ Goto(t, "top")
  /\ UNCHANGED <<http, cur, playerstarted, handle, pcmq, i2s, dac, latency,
                 timer, notified, initialSync, chnk, scSet, memory, fault>>

\* The full semaphore is taken and given back.
LatencyReady(t) ==
  /\ PlayerRuns(t) /\ ppc[t] = "wait" /\ latSem
  /\ Goto(t, "top")
  /\ UNCHANGED <<http, cur, playerstarted, handle, pcmq, mailbox, i2s, dac,
                 latency, timer, notified, initialSync, chnk, scSet, memory,
                 fault>>

NothingChanged(t) ==
  /\ PlayerRuns(t) /\ ppc[t] = "top" /\ mailbox = "empty"
  /\ Goto(t, "recv")
  /\ UNCHANGED <<http, cur, playerstarted, handle, pcmq, mailbox, i2s, dac,
                 latency, timer, notified, initialSync, chnk, scSet, memory,
                 fault>>

\* Mutant: the mute is left to audio_set_mute's call in http_get_task.
MuteAfterByHttp(old, s) == IF old.fmt # s.fmt THEN TRUE ELSE mute

\* The DAC's mute after new settings: another format mutes until the next
\* sync, another buffer length alone changes nothing.
MuteAfter(old, s) ==
  IF old.fmt # s.fmt THEN TRUE ELSE IF old.buf # s.buf THEN mute ELSE s.muted

\* ... which leaves the DAC with another mute than the settings'.
LeavesMute(old, s) == old.fmt = s.fmt /\ old.buf # s.buf /\ mute # s.muted

\* A settings notification: incomplete settings are ignored; otherwise the
\* channel is set up again for another format and the queue is replaced for
\* another buffer length or a smaller chunk.
ApplySettings(t) ==
  LET s          == cur
      old        == scSet[t]
      newFormat  == old.fmt # s.fmt
      newQueue   == old.buf # s.buf \/ qchk > s.chk
  IN
  /\ PlayerRuns(t) /\ ppc[t] = "top" /\ mailbox = "full"
  /\ \/ /\ Complete(s) /\ newFormat /\ SetupFails
        /\ Panic("task_returned")
     \/ /\ mailbox' = "empty"
        /\ Goto(t, "recv")
        /\ IF ~Complete(s)
           THEN UNCHANGED <<scSet, i2s, initialSync, mute, muteLeft, pcmq,
                            memory>>
           ELSE /\ scSet' = [scSet EXCEPT ![t] = s]
                /\ IF newFormat
                   THEN /\ chan' = TRUE /\ i2sEnabled' = FALSE
                        /\ initialSync' = [initialSync EXCEPT ![t] = FALSE]
                   ELSE UNCHANGED <<i2s, initialSync>>
                /\ IF newQueue
                   THEN /\ Free(Drained)
                        /\ NewQueue(s)
                        /\ qchk' = s.chk
                   ELSE UNCHANGED <<memory, pcmq>>
                /\ mute' = MuteAfter(old, s)
                /\ muteLeft' = LeavesMute(old, s)
        /\ UNCHANGED <<http, cur, playerstarted, handle, enabled, latency,
                       timer, notified, chnk, fault>>

\* vTaskDelay is over.
DelayOver(t) ==
  /\ PlayerRuns(t) /\ ppc[t] = "delay"
  /\ Goto(t, "top")
  /\ UNCHANGED <<http, cur, playerstarted, handle, pcmq, mailbox, i2s, dac,
                 latency, timer, notified, initialSync, chnk, scSet, memory,
                 fault>>

-----------------------------------------------------------------------------
(* player_task: chunks *)

ReceiveChunk(t) ==
  /\ PlayerRuns(t) /\ ppc[t] \in {"recv", "preload"}
  /\ chnk[t] = NoChunk /\ queue # <<>>
  /\ chnk' = [chnk EXCEPT ![t] = Head(queue)]
  /\ queue' = Tail(queue)
  /\ IF ppc[t] = "preload" THEN UNCHANGED ppc
     ELSE Goto(t, IF initialSync[t] THEN "write" ELSE "sync")
  /\ UNCHANGED <<http, cur, playerstarted, handle, qid, qcap, qchk, mailbox,
                 i2s, dac, latency, timer, notified, initialSync, scSet,
                 memory, fault>>

\* Not in sync and the server's time is not known: the chunk is dropped.
NoServerTime(t) ==
  /\ PlayerRuns(t) /\ ppc[t] = "sync" /\ ~known
  /\ Free({chnk[t]})
  /\ chnk' = [chnk EXCEPT ![t] = NoChunk]
  /\ Goto(t, "delay")
  /\ UNCHANGED <<http, cur, playerstarted, handle, pcmq, mailbox, i2s, dac,
                 latency, timer, notified, initialSync, scSet, fault>>

\* age < 0: arm the timer for the chunk's play-out time and preload the DMA.
ChunkEarly(t) ==
  /\ PlayerRuns(t) /\ ppc[t] = "sync" /\ known
  /\ timer' = "armed"
  /\ i2sEnabled' = FALSE
  /\ Goto(t, "preload")
  /\ UNCHANGED <<http, cur, playerstarted, handle, pcmq, mailbox, chan, dac,
                 latency, notified, initialSync, chnk, scSet, memory, fault>>

\* age >= 0 (RESYNCING HARD 1): this chunk and the n next ones, as many as the
\* age asks for and the queue holds, are dropped.
ChunkLate(t) ==
  /\ PlayerRuns(t) /\ ppc[t] = "sync" /\ known
  /\ \E n \in 0..Len(queue) :
       /\ Free({chnk[t]} \cup {queue[i] : i \in 1..n})
       /\ queue' = SubSeq(queue, n + 1, Len(queue))
  /\ chnk' = [chnk EXCEPT ![t] = NoChunk]
  /\ timer' = "off"
  /\ mute' = TRUE /\ muteLeft' = FALSE /\ i2sEnabled' = FALSE
  /\ Goto(t, "top")
  /\ UNCHANGED <<http, cur, playerstarted, handle, qid, qcap, qchk, mailbox,
                 chan, enabled, latency, notified, initialSync, scSet, fault>>

\* One turn of the preload loop: the chunk fits the DMA buffers and is freed,
\* or fills them and keeps a rest.  A chunk without payload fails the
\* ESP_ERROR_CHECK around i2s_channel_preload_data.
PreloadChunk(t) ==
  /\ PlayerRuns(t) /\ ppc[t] = "preload" /\ chnk[t] # NoChunk
  /\ \/ /\ chnk[t] \in silent
        /\ Panic("preload_null_payload")
     \/ /\ chnk[t] \notin silent
        /\ \/ /\ Free({chnk[t]})
              /\ chnk' = [chnk EXCEPT ![t] = NoChunk]
              /\ UNCHANGED ppc
           \/ /\ Goto(t, "notify")
              /\ UNCHANGED <<memory, chnk>>
        /\ UNCHANGED <<http, cur, playerstarted, handle, pcmq, mailbox, i2s,
                       dac, latency, timer, notified, initialSync, scSet,
                       fault>>

\* Mutant: an alarm that finds the task still preloading is lost.
TimerAlarmLost ==
  /\ fault = "none" /\ timer = "armed" /\ handle # NoTask
  /\ notified' = [notified EXCEPT ![handle] = ppc[handle] = "notify"]
  /\ timer' = "fired"
  /\ UNCHANGED <<http, cur, playerstarted, handle, pcmq, mailbox, i2s, dac,
                 latency, task, memory, fault>>

\* timer_group0_alarm_cb
TimerAlarm ==
  /\ fault = "none" /\ timer = "armed"
  /\ \/ /\ handle = NoTask
        /\ Panic("notify_null_task")
     \/ /\ handle # NoTask
        /\ notified' = [notified EXCEPT ![handle] = TRUE]
        /\ timer' = "fired"
        /\ UNCHANGED <<http, cur, playerstarted, handle, pcmq, mailbox, i2s,
                       dac, latency, task, memory, fault>>

\* xTaskNotifyWait returned: playback starts.
StartPlayback(t) ==
  /\ PlayerRuns(t) /\ ppc[t] = "notify" /\ notified[t]
  /\ notified' = [notified EXCEPT ![t] = FALSE]
  /\ timer' = "off"
  /\ enabled' = TRUE
  /\ i2sEnabled' = chan
  /\ initialSync' = [initialSync EXCEPT ![t] = TRUE]
  /\ Goto(t, "settle")
  /\ UNCHANGED <<http, cur, playerstarted, handle, pcmq, mailbox, chan, mute,
                 muteLeft, latency, chnk, scSet, memory, fault>>

\* After 2 ms the DAC takes the mute of the settings the task knows.
Unmute(t) ==
  /\ PlayerRuns(t) /\ ppc[t] = "settle"
  /\ mute' = scSet[t].muted /\ muteLeft' = FALSE
  /\ Goto(t, "write")
  /\ UNCHANGED <<http, cur, playerstarted, handle, pcmq, mailbox, i2s, enabled,
                 latency, timer, notified, initialSync, chnk, scSet, memory,
                 fault>>

\* i2s_channel_write took the chunk (or as many zeros); a disabled channel
\* takes nothing and the loop around the call does not end.
ChunkWritten(t) ==
  /\ PlayerRuns(t) /\ ppc[t] = "write" /\ i2sEnabled
  /\ Free({chnk[t]})
  /\ chnk' = [chnk EXCEPT ![t] = NoChunk]
  /\ Goto(t, "age")
  /\ UNCHANGED <<http, cur, playerstarted, handle, pcmq, mailbox, i2s, dac,
                 latency, timer, notified, initialSync, scSet, fault>>

\* The play-out error is fine, or there is no server time (then 1 ms delay).
StayInSync(t) ==
  /\ PlayerRuns(t) /\ ppc[t] = "age"
  /\ \/ known /\ queue # <<>> /\ Goto(t, "top")
     \/ ~known /\ Goto(t, "delay")
  /\ UNCHANGED <<http, cur, playerstarted, handle, pcmq, mailbox, i2s, dac,
                 latency, timer, notified, initialSync, chnk, scSet, memory,
                 fault>>

\* Mutant: the channel is stopped but the task still thinks it is in sync.
HardResyncInSync(t) ==
  /\ PlayerRuns(t) /\ ppc[t] = "age" /\ known
  /\ timer' = "off"
  /\ mute' = TRUE /\ muteLeft' = FALSE /\ i2sEnabled' = FALSE
  /\ Goto(t, "top")
  /\ UNCHANGED <<http, cur, playerstarted, handle, pcmq, mailbox, chan,
                 enabled, latency, notified, initialSync, chnk, scSet, memory,
                 fault>>

\* RESYNCING HARD 2: the queue ran empty or the median error is out of bounds.
HardResync(t) ==
  /\ PlayerRuns(t) /\ ppc[t] = "age" /\ known
  /\ timer' = "off"
  /\ mute' = TRUE /\ muteLeft' = FALSE /\ i2sEnabled' = FALSE
  /\ initialSync' = [initialSync EXCEPT ![t] = FALSE]
  /\ Goto(t, "top")
  /\ UNCHANGED <<http, cur, playerstarted, handle, pcmq, mailbox, chan,
                 enabled, latency, notified, chnk, scSet, memory, fault>>

-----------------------------------------------------------------------------
(* player_task: the end *)

\* No chunk for 2 s: the output is shut down and the task leaves its loop.
StreamTimeout(t) ==
  /\ PlayerRuns(t) /\ ppc[t] = "recv" /\ queue = <<>>
  /\ initialSync' = [initialSync EXCEPT ![t] = FALSE]
  /\ mute' = TRUE /\ muteLeft' = FALSE /\ enabled' = FALSE
  /\ chan' = FALSE /\ i2sEnabled' = FALSE
  /\ Goto(t, "stop")
  /\ UNCHANGED <<http, cur, playerstarted, handle, pcmq, mailbox, latency,
                 timer, notified, chnk, scSet, memory, fault>>

\* Mutant: playerstarted is cleared first, before queue and timer are gone.
DeleteMailboxStopped(t) ==
  /\ PlayerRuns(t) /\ ppc[t] = "stop"
  /\ mailbox' = "null" /\ playerstarted' = FALSE
  /\ Goto(t, "drop")
  /\ UNCHANGED <<http, cur, handle, pcmq, i2s, dac, latency, timer, notified,
                 initialSync, chnk, scSet, memory, fault>>

\* Under snapcastSettingsMux.
DeleteMailbox(t) ==
  /\ PlayerRuns(t) /\ ppc[t] = "stop"
  /\ mailbox' = "null"
  /\ Goto(t, "drop")
  /\ UNCHANGED <<http, cur, playerstarted, handle, pcmq, i2s, dac, latency,
                 timer, notified, initialSync, chnk, scSet, memory, fault>>

\* Mutant: pcmChkQHdl keeps pointing at the deleted queue.
DestroyQueueDangling(t) ==
  /\ PlayerRuns(t) /\ ppc[t] = "drop"
  /\ Free(Drained)
  /\ queue' = <<>> /\ timer' = "off"
  /\ Goto(t, "leave")
  /\ UNCHANGED <<http, cur, playerstarted, handle, qid, qcap, qchk, mailbox,
                 i2s, dac, latency, notified, initialSync, chnk, scSet, fault>>

\* destroy_pcm_queue and tg0_timer_deinit
DestroyQueue(t) ==
  /\ PlayerRuns(t) /\ ppc[t] = "drop"
  /\ Free(Drained)
  /\ qid' = NoQueue /\ queue' = <<>>
  /\ timer' = "off"
  /\ Goto(t, "leave")
  /\ UNCHANGED <<http, cur, playerstarted, handle, qcap, qchk, mailbox, i2s,
                 dac, latency, notified, initialSync, chnk, scSet, fault>>

\* playerstarted = false: from here on start_player may create another task.
DeclareStopped(t) ==
  /\ PlayerRuns(t) /\ ppc[t] = "leave"
  /\ playerstarted' = FALSE
  /\ Goto(t, "log")
  /\ UNCHANGED <<http, cur, handle, pcmq, mailbox, i2s, dac, latency, timer,
                 notified, initialSync, chnk, scSet, memory, fault>>

\* After the log line: playerTaskHandle = NULL, vTaskDelete(NULL).
ForgetTask(t) ==
  /\ PlayerRuns(t) /\ ppc[t] = "log"
  /\ handle' = NoTask
  /\ Goto(t, "none")
  /\ scSet' = [scSet EXCEPT ![t] = NoSettings]
  /\ UNCHANGED <<http, cur, playerstarted, pcmq, mailbox, i2s, dac, latency,
                 timer, notified, initialSync, chnk, memory, fault>>

-----------------------------------------------------------------------------
HttpStep ==
  \/ \E b \in Buffers, m \in BOOLEAN : ServerSettings(b, m)
  \/ \E s \in NewStreams : StreamSettings(s)
  \/ SetSettings \/ CheckHandle \/ OverwriteMailbox \/ Reconnect
  \/ \E gap \in BOOLEAN : TimeMessage(gap)
  \/ LatencyInsert
  \/ \E c \in Chunks, s \in BOOLEAN : AllocateChunk(c, s)
  \/ InsertChunk \/ SendChunk \/ ResumeSend \/ StartPlayer

PlayerStep(t) ==
  \/ PlayerBegin(t) \/ LatencyReady(t) \/ NothingChanged(t) \/ ApplySettings(t)
  \/ DelayOver(t) \/ ReceiveChunk(t) \/ NoServerTime(t) \/ ChunkEarly(t)
  \/ ChunkLate(t) \/ PreloadChunk(t) \/ StartPlayback(t) \/ Unmute(t)
  \/ ChunkWritten(t) \/ StayInSync(t) \/ HardResync(t) \/ StreamTimeout(t)
  \/ DeleteMailbox(t) \/ DestroyQueue(t) \/ DeclareStopped(t) \/ ForgetTask(t)

\* The chip was reset.
Halted == fault # "none" /\ UNCHANGED vars

Next == HttpStep \/ (\E t \in Tasks : PlayerStep(t)) \/ TimerAlarm \/ Halted

Spec == Init /\ [][Next]_vars

\* FreeRTOS runs the highest ready task, so neither task is stopped for ever
\* in the middle of its code; the alarm fires; chunks that go on coming fill the
\* DMA buffers.  The server keeps sending chunks and time messages, the latency
\* filter fills up, and not every chunk follows a gap of 60 s.
Fairness ==
  /\ \A t \in Tasks : /\ WF_vars(PlayerStep(t))
                      /\ SF_vars(PreloadChunk(t) /\ ppc'[t] = "notify")
  /\ WF_vars(TimerAlarm)
  /\ WF_vars(SetSettings) /\ WF_vars(CheckHandle) /\ WF_vars(OverwriteMailbox)
  /\ WF_vars(InsertChunk) /\ WF_vars(SendChunk) /\ WF_vars(ResumeSend)
  /\ WF_vars(StartPlayer) /\ WF_vars(LatencyInsert)
  /\ SF_vars(\E c \in Chunks : AllocateChunk(c, FALSE))
  /\ SF_vars(latFull /\ \E c \in Chunks : AllocateChunk(c, FALSE))
  /\ SF_vars(TimeMessage(FALSE)) /\ SF_vars(LatencyInsert /\ latFull')

FairSpec == Spec /\ Fairness

-----------------------------------------------------------------------------
(* Properties *)

TypeOK ==
  /\ hpc \in HttpStates /\ hchunk \in Chunks \cup {NoChunk}
  /\ hq \in Queues \cup {NoQueue} /\ hset \in Settings /\ cur \in Settings
  /\ gotSettings \in BOOLEAN /\ playerstarted \in BOOLEAN
  /\ handle \in Tasks \cup {NoTask}
  /\ qid \in Queues \cup {NoQueue} /\ queue \in Seq(Chunks)
  /\ qcap \in Buffers \cup {0} /\ qchk \in ChunkSizes \cup {0}
  /\ mailbox \in {"null", "empty", "full"}
  /\ chan \in BOOLEAN /\ i2sEnabled \in BOOLEAN
  /\ mute \in BOOLEAN /\ enabled \in BOOLEAN /\ muteLeft \in BOOLEAN
  /\ latFull \in BOOLEAN /\ latSem \in BOOLEAN /\ known \in BOOLEAN
  /\ timer \in {"off", "armed", "fired"} /\ notified \in [Tasks -> BOOLEAN]
  /\ ppc \in [Tasks -> PlayerStates] /\ initialSync \in [Tasks -> BOOLEAN]
  /\ chnk \in [Tasks -> Chunks \cup {NoChunk}]
  /\ scSet \in [Tasks -> Settings]
  /\ heap \in SUBSET Chunks /\ silent \in SUBSET Chunks
  /\ fault \in Faults

\* There is one consumer: a second player task is never started while the
\* first may still touch the queue, the mailbox, the timer or the channel, and
\* playerstarted tells exactly that (start_player's guard, player.c:519 and
\* the order of the task's last lines, player.c:2125).
SingleConsumer ==
  /\ \A t, u \in Tasks : Active(t) /\ Active(u) => t = u
  /\ playerstarted <=> \E t \in Tasks : Active(t)

\* Every PCM chunk is freed or owned by exactly one of the queue, the http
\* task and a player task: none leaks and none is freed while still in use, on
\* any path through resync, settings changes, a full queue or the shutdown.
InHand == ({hchunk} \cup {chnk[t] : t \in Tasks}) \ {NoChunk}
ChunkOwnership ==
  /\ heap \cup SeqSet(queue) \cup InHand = Chunks
  /\ Cardinality(heap) + Len(queue) + (IF hchunk = NoChunk THEN 0 ELSE 1)
       + Cardinality({t \in Tasks : chnk[t] # NoChunk}) = Cardinality(Chunks)

\* The I2S channel is off while the DMA buffers are preloaded, or the driver
\* refuses and the ESP_ERROR_CHECK at player.c:1664 resets the chip; it is on
\* whenever the task writes, or the loop at player.c:1792 never ends.
ChannelDiscipline ==
  \A t \in Tasks :
    /\ ppc[t] = "preload" => chan /\ ~i2sEnabled
    /\ ppc[t] = "write" => chan /\ i2sEnabled

\* The alarm of one initial sync is taken by that sync: no notification is
\* left over for a later one, which would then start to play too soon, and
\* the task never waits for an alarm that is not coming (player.c:1634, 1699).
AlarmPairing ==
  \A t \in Tasks :
    /\ notified[t] => ppc[t] \in {"preload", "notify"} /\ timer = "fired"
    /\ ppc[t] = "notify" => timer = "armed" \/ notified[t]
    /\ timer # "off" => \E u \in Tasks : ppc[u] \in {"preload", "notify"}

\* A running player task that does not use the current, complete settings has
\* a notification waiting or about to be sent (player.c:674, 1509).
Informed(t) ==
  Active(t) /\ ppc[t] \notin {"begin", "stop", "drop", "leave"}
    /\ Complete(cur) /\ scSet[t] # cur
  => mailbox = "full" \/ hpc \in {"check", "overwrite"}
SettingsNotLost == fault = "none" => \A t \in Tasks : Informed(t)

\* While the player is in sync and every notification has been handled, the
\* DAC is muted exactly when the server says so, although both tasks write the
\* mute and the player may write an old value (main.c:569, player.c:1725).
\* The one exception: settings that change the buffer length too do not touch
\* the mute (player.c:1566), so what the DAC has by then stays until the next
\* notification or sync.
Settled == hpc \notin {"set", "check", "overwrite"} /\ mailbox = "empty"
MuteFollowsServer ==
  fault = "none" /\ Settled /\ Complete(cur) =>
    \A t \in Tasks : initialSync[t] /\ ppc[t] \in {"recv", "write", "age"}
                       => mute = cur.muted \/ muteLeft

\* Once the last player task is gone, or on its last log line, the codec is
\* stopped, no alarm is armed, and mailbox and queue are gone (player.c:2116).
ReleasedAfterStop ==
  ~playerstarted => /\ ~enabled /\ ~chan /\ ~i2sEnabled /\ timer = "off"
                    /\ mailbox = "null" /\ qid = NoQueue /\ queue = <<>>

\* A settings notification is taken by the player task even while chunks, time
\* gaps and resyncs go on (player.c:1509): it is never stuck in the preload
\* loop, in the wait for the alarm or in the wait for the latency filter.
NotificationTaken == mailbox = "full" ~> mailbox # "full" \/ fault # "none"

\* After the stream paused and the player stopped, it is started again once
\* chunks arrive, unless the server mutes (player.c:1357).
PlayerRestarts ==
  (~playerstarted /\ gotSettings /\ ~cur.muted)
    ~> (playerstarted \/ cur.muted \/ fault # "none")

\* What the comments in the code say and the code does not do

\* The queue is not deleted under the http task: "ensure this is called after
\* http_task was killed!" (player.c:386) for deinit_player, which destroys the
\* queue as player_task does (player.c:1548, 2137) while http_get_task lives.
QueueOutlivesSender == fault \notin {"send_null_queue", "send_deleted_queue"}
=============================================================================
