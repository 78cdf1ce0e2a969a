--------------------------- MODULE DacControlProofs ---------------------------
(***************************************************************************)
(* DacControl for any tasks and volumes: its types, that no change of mute,*)
(* volume or power is lost on the way to the codec, and that every step is *)
(* one of LatestValue or a stutter.                                        *)
(***************************************************************************)
EXTENDS DacControl, TLAPS

\* Between two messages the control task's two copies are equal.
AtRest == dpc = "receive" => old = msg

\* The inductive invariant: AtRest is what the step that takes the next
\* message needs for CodecFollows and for the abstract Take.
DacInv == TypeOK /\ NothingLost /\ AtRest /\ CodecFollows

-----------------------------------------------------------------------------
\* What each side leaves alone.
ControlSame == UNCHANGED <<dpc, msg, old, hw>>
CallersSame == UNCHANGED <<data, lock, wpc, call>>

\* The values both sides start from are codec states.
LEMMA InitialIsData == Initial \in Data
  BY DacAssumption DEF Initial, Data, Field

\* A call changes one field to a value of its type.
LEMMA DataUpdate ==
  ASSUME NEW d \in Data, NEW f \in Field, NEW v \in FieldValues(f)
  PROVE  [d EXCEPT ![f] = v] \in Data
  BY DacAssumption DEF Data, Field, FieldValues

\* The invariant holds at start-up (init_snapcast, dac_control_task's values).
LEMMA DacInit == Init => DacInv
  <1> SUFFICES ASSUME Init PROVE DacInv
    OBVIOUS
  <1>1. TypeOK
    BY InitialIsData DEF Init, TypeOK, Field, FieldValues
  <1>2. NothingLost /\ AtRest
    BY DEF Init, NothingLost, Announced, AtRest
  <1>3. CodecFollows
    BY DEF Init, CodecFollows, Passed
  <1> QED BY <1>1, <1>2, <1>3 DEF DacInv

\* The steps of the audio_* functions preserve every type.
LEMMA CallTypes ==
  ASSUME TypeOK, NEW w \in Writers,
         (\E f \in Field : \E v \in FieldValues(f) : Call(w, f, v)) \/ Writing(w)
  PROVE  TypeOK' /\ ControlSame
  <1> USE DEF TypeOK, WriterTo, ControlSame
  <1>1. ASSUME NEW f \in Field, NEW v \in FieldValues(f), Call(w, f, v)
        PROVE  TypeOK' /\ ControlSame
    <2>1. call' = [call EXCEPT ![w] = <<f, v>>] /\ v \in Volumes \cup {0, 1}
      BY <1>1 DEF Call, FieldValues
    <2>2. call' \in [Writers -> Field \X (Volumes \cup {0, 1})]
      BY <2>1
    <2>3. ASSUME NEW u \in Writers PROVE call'[u][2] \in FieldValues(call'[u][1])
      BY <2>1
    <2> QED BY <1>1, <2>2, <2>3 DEF Call
  <1>2. CASE TakeSemaphore(w)
    BY <1>2 DEF TakeSemaphore
  <1>3. CASE Store(w)
    <2>1. call[w][1] \in Field /\ call[w][2] \in FieldValues(call[w][1])
      OBVIOUS
    <2>2. data' \in Data
      BY <1>3, <2>1, DataUpdate DEF Store
    <2> QED BY <1>3, <2>2 DEF Store
  <1>4. CASE Overwrite(w)
    BY <1>4 DEF Overwrite
  <1>5. CASE GiveSemaphore(w)
    BY <1>5 DEF GiveSemaphore
  <1> QED BY <1>1, <1>2, <1>3, <1>4, <1>5 DEF Writing

\* A caller that has stored a change announces it before it lets go.
LEMMA CallAnnounces ==
  ASSUME TypeOK, NothingLost, NEW w \in Writers,
         (\E f \in Field : \E v \in FieldValues(f) : Call(w, f, v)) \/ Writing(w)
  PROVE  NothingLost'
  <1> USE DEF NothingLost, Announced, WriterTo, TypeOK
  <1>1. CASE \E f \in Field : \E v \in FieldValues(f) : Call(w, f, v)
    BY <1>1 DEF Call
  <1>2. CASE TakeSemaphore(w)
    BY <1>2 DEF TakeSemaphore
  <1>3. CASE Store(w)
    BY <1>3 DEF Store
  <1>4. CASE Overwrite(w)
    BY <1>4, DacAssumption DEF Overwrite
  <1>5. CASE GiveSemaphore(w)
    BY <1>5 DEF GiveSemaphore
  <1> QED BY <1>1, <1>2, <1>3, <1>4, <1>5 DEF Writing

\* A message taken from the slot is the announced one.
LEMMA ReceiveTakes ==
  ASSUME TypeOK, Receive
  PROVE  Announced' = Announced /\ msg' = Announced /\ CallersSame
  BY DacAssumption DEF Receive, Announced, TypeOK, CallersSame

\* Telling the codec one field brings that field to the received value.
LEMMA TellField ==
  ASSUME TypeOK, NEW f \in Field, Tell(f), hw[f] = old[f]
  PROVE  hw' \in Data /\ hw' = [hw EXCEPT ![f] = msg[f]]
  BY DEF Tell, TypeOK, Data, Field

\* The steps of dac_control_task preserve the invariant.
LEMMA ControlStep ==
  ASSUME DacInv, DacTask
  PROVE  DacInv'
  <1> USE DEF DacInv
  <1>1. CASE Receive
    <2>1. TypeOK'
      BY <1>1 DEF Receive, TypeOK, Field
    <2>2. NothingLost'
      BY <1>1, ReceiveTakes DEF NothingLost, CallersSame
    <2>3. AtRest' /\ CodecFollows'
      BY <1>1 DEF Receive, AtRest, CodecFollows, Passed
    <2> QED BY <2>1, <2>2, <2>3
  <1>2. CASE SetMute
    <2>1. hw["mute"] = old["mute"] /\ "mute" \in Field
      BY <1>2 DEF SetMute, CodecFollows, Passed, Field
    <2>2. hw' \in Data /\ hw' = [hw EXCEPT !["mute"] = msg["mute"]]
      BY <1>2, <2>1, TellField DEF SetMute
    <2>3. TypeOK' /\ NothingLost' /\ AtRest'
      BY <1>2, <2>2 DEF SetMute, TypeOK, Field, NothingLost, Announced, AtRest
    <2>4. CodecFollows'
      BY <1>2, <2>2 DEF SetMute, CodecFollows, Passed, TypeOK, Data, Field
    <2> QED BY <2>3, <2>4
  <1>3. CASE SetVolume
    <2>1. hw["volume"] = old["volume"] /\ "volume" \in Field
      BY <1>3 DEF SetVolume, CodecFollows, Passed, Field
    <2>2. hw' \in Data /\ hw' = [hw EXCEPT !["volume"] = msg["volume"]]
      BY <1>3, <2>1, TellField DEF SetVolume
    <2>3. TypeOK' /\ NothingLost' /\ AtRest'
      BY <1>3, <2>2 DEF SetVolume, TypeOK, Field, NothingLost, Announced, AtRest
    <2>4. CodecFollows'
      BY <1>3, <2>2 DEF SetVolume, CodecFollows, Passed, TypeOK, Data, Field
    <2> QED BY <2>3, <2>4
  <1>4. CASE CtrlCodec
    <2>1. hw["enabled"] = old["enabled"] /\ "enabled" \in Field
      BY <1>4 DEF CtrlCodec, CodecFollows, Passed, Field
    <2>2. hw' \in Data /\ hw' = [hw EXCEPT !["enabled"] = msg["enabled"]]
      BY <1>4, <2>1, TellField DEF CtrlCodec
    <2>3. TypeOK' /\ NothingLost' /\ AtRest'
      BY <1>4, <2>2 DEF CtrlCodec, TypeOK, Field, NothingLost, Announced, AtRest
    <2>4. CodecFollows'
      BY <1>4, <2>2 DEF CtrlCodec, CodecFollows, Passed, TypeOK, Data, Field
    <2> QED BY <2>3, <2>4
  <1> QED BY <1>1, <1>2, <1>3, <1>4 DEF DacTask

\* The invariant is inductive.
LEMMA DacNext == DacInv /\ [Next]_vars => DacInv'
  <1> SUFFICES ASSUME DacInv, [Next]_vars PROVE DacInv'
    OBVIOUS
  <1>1. CASE DacTask
    BY <1>1, ControlStep
  <1>2. ASSUME NEW w \in Writers,
               (\E f \in Field : \E v \in FieldValues(f) : Call(w, f, v)) \/ Writing(w)
        PROVE  DacInv'
    <2>1. TypeOK' /\ ControlSame /\ NothingLost'
      BY <1>2, CallTypes, CallAnnounces DEF DacInv
    <2>2. AtRest' /\ CodecFollows'
      BY <2>1 DEF DacInv, ControlSame, AtRest, CodecFollows, Passed
    <2> QED BY <2>1, <2>2 DEF DacInv
  <1>3. CASE UNCHANGED vars
    BY <1>3 DEF vars, DacInv, TypeOK, NothingLost, Announced, AtRest,
                CodecFollows, Passed
  <1> QED BY <1>1, <1>2, <1>3 DEF Next

-----------------------------------------------------------------------------
\* The types of main.c's DAC variables, for any callers and volumes.
THEOREM DacTypes == Spec => []TypeOK
  <1>1. DacInv => TypeOK
    BY DEF DacInv
  <1> QED BY <1>1, DacInit, DacNext, PTL DEF Spec

\* No change made by audio_set_mute, audio_set_volume or audio_dac_enable is
\* lost in the one-slot queue, however the callers and the task interleave.
THEOREM NoChangeLost == Spec => []NothingLost
  <1>1. DacInv => NothingLost
    BY DEF DacInv
  <1> QED BY <1>1, DacInit, DacNext, PTL DEF Spec

\* dac_control_task's comparison with its last message never leaves the codec
\* in another state than the two messages say.
THEOREM CodecTracks == Spec => []CodecFollows
  <1>1. DacInv => CodecFollows
    BY DEF DacInv
  <1> QED BY <1>1, DacInit, DacNext, PTL DEF Spec

\* The safety part of DeliversLatest: each step of the callers and of the
\* control task asks for, takes or delivers a value of the abstract register,
\* or is invisible there.
THEOREM DacRefinesLatest == Spec => Latest!Init /\ [][Latest!Next]_(Latest!vars)
  <1> USE DEF Latest!vars, Latest!Next, Latest!Ask, Latest!Take, Latest!Deliver
  <1>1. Init => Latest!Init
    BY DEF Init, Latest!Init, Announced
  <1>2. ASSUME DacInv, [Next]_vars PROVE [Latest!Next]_(Latest!vars)
    <2>1. CASE Receive
      <3>1. msg = old
        BY <1>2, <2>1 DEF DacInv, AtRest, Receive
      <3>2. Announced' = Announced /\ msg' = Announced /\ old' = old
        BY <1>2, <2>1, ReceiveTakes DEF DacInv, Receive
      <3> QED BY <3>1, <3>2
    <2>2. CASE SetMute \/ SetVolume
      BY <2>2 DEF SetMute, SetVolume, Announced
    <2>3. CASE CtrlCodec
      BY <2>3 DEF CtrlCodec, Announced
    <2>4. ASSUME NEW w \in Writers,
                 (\E f \in Field : \E v \in FieldValues(f) : Call(w, f, v)) \/ Writing(w)
          PROVE  [Latest!Next]_(Latest!vars)
      <3>1. TypeOK' /\ ControlSame
        BY <1>2, <2>4, CallTypes DEF DacInv
      <3>2. Announced' \in Data /\ UNCHANGED <<msg, old>>
        BY <3>1 DEF TypeOK, Announced, ControlSame
      <3> QED BY <3>2
    <2>5. CASE UNCHANGED vars
      BY <2>5 DEF vars, Announced
    <2> QED BY <1>2, <2>1, <2>2, <2>3, <2>4, <2>5 DEF Next, DacTask
  <1> QED BY <1>1, <1>2, DacInit, DacNext, PTL DEF Spec
=============================================================================
