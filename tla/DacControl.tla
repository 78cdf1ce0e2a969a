----------------------------- MODULE DacControl -----------------------------
(***************************************************************************)
(* The codec's mute, volume and on/off state (main/main.c): any task calls *)
(* audio_set_mute, audio_set_volume or audio_dac_enable, which change      *)
(* audioDAC_data under a mutex and put a copy of it into a one-slot        *)
(* FreeRTOS queue; dac_control_task, the rest of app_main, takes copies    *)
(* from the queue and drives the codec where they differ from the last one.*)
(***************************************************************************)
EXTENDS Integers

CONSTANTS
  Writers,   \* the tasks that call the three functions
  Volumes,   \* the volumes the server sends
  NoWriter,  \* nobody holds audioDACSemaphore
  NoData     \* the queue is empty

Field == {"mute", "volume", "enabled"}
FieldValues(f) == IF f = "volume" THEN Volumes ELSE {0, 1}

\* audioDACdata_t; 1 stands for true.
Data == {d \in [Field -> Volumes \cup {-1, 0, 1}] :
           /\ d["mute"] \in {0, 1} /\ d["enabled"] \in {0, 1}
           /\ d["volume"] \in Volumes \cup {-1}}

\* init_snapcast's values and those dac_control_task starts from.
Initial == [f \in Field |-> IF f = "mute" THEN 1
                            ELSE IF f = "volume" THEN -1 ELSE 0]

ASSUME DacAssumption ==
  NoWriter \notin Writers /\ NoData \notin Data /\ Volumes \subseteq Nat

VARIABLES
  data,     \* audioDAC_data
  lock,     \* the holder of audioDACSemaphore
  box,      \* the content of audioDACQHdl
  wpc,      \* where each writer is in its call
  call,     \* the field and the value each writer's call is about
  dpc,      \* where dac_control_task is: receiving, or at a field
  msg,      \* dac_data
  old,      \* dac_data_old
  hw        \* what the codec was told

vars == <<data, lock, box, wpc, call, dpc, msg, old, hw>>

Init ==
  /\ data = Initial /\ lock = NoWriter /\ box = NoData
  /\ wpc = [w \in Writers |-> "idle"]
  /\ call = [w \in Writers |-> <<"mute", 1>>]
  /\ dpc = "receive" /\ msg = Initial /\ old = Initial /\ hw = Initial

WriterTo(w, l) == wpc' = [wpc EXCEPT ![w] = l]

-----------------------------------------------------------------------------
(* audio_set_mute, audio_set_volume, audio_dac_enable *)

Call(w, f, v) ==
  /\ wpc[w] = "idle"
  /\ call' = [call EXCEPT ![w] = <<f, v>>]
  /\ WriterTo(w, "take")
  /\ UNCHANGED <<data, lock, box, dpc, msg, old, hw>>

TakeSemaphore(w) ==
  /\ wpc[w] = "take" /\ lock = NoWriter
  /\ lock' = w
  /\ WriterTo(w, "store")
  /\ UNCHANGED <<data, box, call, dpc, msg, old, hw>>

\* An unchanged value is not announced.
Store(w) ==
  /\ wpc[w] = "store"
  /\ LET f == call[w][1]
         v == call[w][2]
     IN IF data[f] = v
        THEN WriterTo(w, "give") /\ UNCHANGED data
        ELSE WriterTo(w, "overwrite") /\ data' = [data EXCEPT ![f] = v]
  /\ UNCHANGED <<lock, box, call, dpc, msg, old, hw>>

\* Mutant: xQueueSend without waiting, which fails while the slot is taken.
OverwriteIfFree(w) ==
  /\ wpc[w] = "overwrite"
  /\ box' = IF box = NoData THEN data ELSE box
  /\ WriterTo(w, "give")
  /\ UNCHANGED <<data, lock, call, dpc, msg, old, hw>>

\* xQueueOverwrite copies all of audioDAC_data.
Overwrite(w) ==
  /\ wpc[w] = "overwrite"
  /\ box' = data
  /\ WriterTo(w, "give")
  /\ UNCHANGED <<data, lock, call, dpc, msg, old, hw>>

GiveSemaphore(w) ==
  /\ wpc[w] = "give"
  /\ lock' = NoWriter
  /\ WriterTo(w, "idle")
  /\ UNCHANGED <<data, box, call, dpc, msg, old, hw>>

-----------------------------------------------------------------------------
(* dac_control_task *)

\* Mutant: dac_data_old is replaced before the fields are compared with it.
ReceiveAndForget ==
  /\ dpc = "receive" /\ box # NoData
  /\ msg' = box /\ old' = box /\ box' = NoData
  /\ dpc' = "mute"
  /\ UNCHANGED <<data, lock, wpc, call, hw>>

Receive ==
  /\ dpc = "receive" /\ box # NoData
  /\ msg' = box /\ box' = NoData
  /\ dpc' = "mute"
  /\ UNCHANGED <<data, lock, wpc, call, old, hw>>

\* Mutant: the stop of the codec is forgotten.
TellStart(f) ==
  hw' = IF msg[f] # old[f] /\ (f = "enabled" => msg[f] = 1)
        THEN [hw EXCEPT ![f] = msg[f]] ELSE hw

\* The codec is told the fields that changed, one driver call each.
Tell(f) == hw' = IF msg[f] # old[f] THEN [hw EXCEPT ![f] = msg[f]] ELSE hw

SetMute ==
  /\ dpc = "mute" /\ Tell("mute") /\ dpc' = "volume"
  /\ UNCHANGED <<data, lock, box, wpc, call, msg, old>>

SetVolume ==
  /\ dpc = "volume" /\ Tell("volume") /\ dpc' = "enabled"
  /\ UNCHANGED <<data, lock, box, wpc, call, msg, old>>

CtrlCodec ==
  /\ dpc = "enabled" /\ Tell("enabled") /\ dpc' = "receive"
  /\ old' = msg
  /\ UNCHANGED <<data, lock, box, wpc, call, msg>>

-----------------------------------------------------------------------------
Writing(w) == TakeSemaphore(w) \/ Store(w) \/ Overwrite(w) \/ GiveSemaphore(w)
DacTask == Receive \/ SetMute \/ SetVolume \/ CtrlCodec

Next ==
  \/ \E w \in Writers : \/ \E f \in Field : \E v \in FieldValues(f) : Call(w, f, v)
                        \/ Writing(w)
  \/ DacTask

Spec == Init /\ [][Next]_vars

\* Both kinds of tasks are scheduled; xSemaphoreTake wakes its waiters in turn.
Fairness ==
  /\ WF_vars(DacTask)
  /\ \A w \in Writers : WF_vars(Writing(w)) /\ SF_vars(TakeSemaphore(w))

FairSpec == Spec /\ Fairness

-----------------------------------------------------------------------------
TypeOK ==
  /\ data \in Data /\ lock \in Writers \cup {NoWriter}
  /\ box \in Data \cup {NoData}
  /\ wpc \in [Writers -> {"idle", "take", "store", "overwrite", "give"}]
  /\ call \in [Writers -> Field \X (Volumes \cup {0, 1})]
  /\ \A w \in Writers : call[w][2] \in FieldValues(call[w][1])
  /\ dpc \in Field \cup {"receive"}
  /\ msg \in Data /\ old \in Data /\ hw \in Data

\* The latest settings announced: in the slot, or else the last one received.
Announced == IF box # NoData THEN box ELSE msg

\* No change is lost, whatever two callers and the control task interleave:
\* unless a caller is just about to announce it, audioDAC_data as a whole is
\* in the slot or has been received (main.c:514-545).
NothingLost ==
  (\E w \in Writers : wpc[w] = "overwrite") \/ Announced = data

\* The codec's state is what dac_data_old says before the control task comes
\* to a field and what dac_data says afterwards: comparing with the last
\* message (main.c:1322-1337) never leaves the codec behind.
Passed(f) == \/ dpc = "receive"
             \/ f = "mute" /\ dpc \in {"volume", "enabled"}
             \/ f = "volume" /\ dpc = "enabled"
CodecFollows == \A f \in Field : hw[f] = IF Passed(f) THEN msg[f] ELSE old[f]

\* The slot and the task implement a register that delivers its latest value.
Latest == INSTANCE LatestValue
            WITH Value <- Data, First <- Initial,
                 want <- Announced, taken <- msg, have <- old
DeliversLatest == Latest!Spec
=============================================================================
