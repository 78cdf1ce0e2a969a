------------------------------ MODULE DspProofs ------------------------------
(***************************************************************************)
(* What Dsp keeps for all flows, parameters and values, though NVS may fail  *)
(* and requests come while the settings are restored: its types, that        *)
(* no change of the parameters is forgotten, and that writers, semaphore and *)
(* worker only take steps of LatestValue; and that the processor runs what   *)
(* is stored unless one of the failures that part the two happened.          *)
(***************************************************************************)
EXTENDS Dsp, TLAPS

\* app_main goes on only to a flow there is, only one there is is stored, and
\* what is saved comes from the web interface or NVS: the defaults of
\* dsp_processor_init are met in dsp_processor_switch_flow only.
Sound == \A w \in Task : /\ At(w) = "next" => call[w].flow < NFlows - 1
                         /\ At(w) = "saveflow" => call[w].post.value \in Flow
                         /\ At(w) # "switched" => call[w].val \in [Key -> Values]

TInv == TypeOK /\ Sound

\* Someone will still announce what the active flow's parameters are now.
Pending(w) == \/ At(w) = "check" /\ call[w].flow = all.active
              \/ At(w) \in {"update", "switched"}

IInv == TInv /\ (Announced = ActiveParams \/ \E w \in Task : Pending(w))

USE DspAssumption DEF Task

-----------------------------------------------------------------------------
(* Types                                                                     *)

LEMMA NoCallTypes ==
  /\ NoCall \in Call /\ NoCall.val \in [Key -> Values] /\ NoCall.at = "wait"
  /\ [NoCall EXCEPT !.at = "wait"] = NoCall
  /\ [NoCall EXCEPT !.at = "done"] \in Call /\ [NoCall EXCEPT !.at = "active"] \in Call
<1>1. [k \in Key |-> Default] \in Params
  BY DEF Params, Value
<1>2. [key |-> 0, value |-> 0] \in Post
  BY DEF Post
<1>3. 0 \in Flow /\ 1 \in 1..NKeys + 1
  BY DEF Flow
<1>4. NoCall \in Call /\ NoCall.val \in [Key -> Values] /\ NoCall.at = "wait"
  BY <1>1, <1>2, <1>3 DEF NoCall, Call
<1>5. [NoCall EXCEPT !.at = "wait"] = NoCall
  BY <1>4 DEF Call
<1> QED BY <1>4, <1>5 DEF Call

\* A task goes on with a call that suits the types.
LEMMA GoesTypes ==
  ASSUME TInv, NEW w \in Task, NEW c \in Call, Goes(w, c),
         c.at = "next" => c.flow < NFlows - 1,
         c.at = "saveflow" => c.post.value \in Flow,
         c.at \notin {"switched", "wait", "done"} => c.val \in [Key -> Values]
  PROVE  call' \in [Task -> Call] /\ Sound'
<1> DEFINE d == IF c.at \in {"wait", "done"} THEN [NoCall EXCEPT !.at = c.at] ELSE c
<1>1. d \in Call /\ (d.at = "next" => d.flow < NFlows - 1)
                 /\ (d.at = "saveflow" => d.post.value \in Flow)
                 /\ (d.at # "switched" => d.val \in [Key -> Values])
  <2>1. CASE c.at \in {"wait", "done"}
    <3>1. d = [NoCall EXCEPT !.at = c.at] /\ d.at = c.at /\ d.val = NoCall.val
      BY <2>1 DEF NoCall
    <3>2. d \in Call /\ d.val \in [Key -> Values]
      BY <2>1, <3>1, NoCallTypes
    <3> QED BY <2>1, <3>1, <3>2
  <2>2. CASE c.at \notin {"wait", "done"}
    BY <2>2
  <2> QED BY <2>1, <2>2
<1>2. call' = [call EXCEPT ![w] = d] /\ call \in [Task -> Call]
  BY DEF Goes, TInv, TypeOK
<1> HIDE DEF d
<1>3. call' \in [Task -> Call]
  BY <1>1, <1>2
<1>4. Sound'
  <2>1. ASSUME NEW u \in Task
        PROVE  /\ call'[u].at = "next" => call'[u].flow < NFlows - 1
               /\ call'[u].at = "saveflow" => call'[u].post.value \in Flow
               /\ call'[u].at # "switched" => call'[u].val \in [Key -> Values]
    <3>1. call'[u] = d \/ call'[u] = call[u]
      BY <1>2
    <3> QED BY <1>1, <3>1 DEF TInv, Sound, At
  <2> QED BY <2>1 DEF Sound, At
<1> QED BY <1>3, <1>4

\* It goes to another place with the rest of its call as it is.
LEMMA GotoTypes ==
  ASSUME TInv, NEW w \in Task, NEW l, Goto(w, l),
         l \in {"wait", "store", "apply", "check", "update", "switch", "next", "done"},
         l = "next" => call[w].flow < NFlows - 1,
         At(w) = "switched" => l \in {"wait", "done"}
  PROVE  call' \in [Task -> Call] /\ Sound'
<1> DEFINE c == [call[w] EXCEPT !.at = l]
<1>1. call[w] \in Call
  BY DEF TInv, TypeOK
<1>2. c \in Call /\ c.at = l /\ c.flow = call[w].flow /\ c.val = call[w].val
  BY <1>1 DEF Call
<1>3. Goes(w, c)
  BY DEF Goto
<1>4. l \in {"wait", "done"} \/ call[w].val \in [Key -> Values]
  BY DEF TInv, Sound
<1> HIDE DEF c
<1> QED BY <1>2, <1>3, <1>4, GoesTypes

LEMMA AfterSetTypes ==
  ASSUME NEW w \in Task
  PROVE  /\ AfterSet(w) \in {"next", "switch", "wait"}
         /\ AfterSet(w) = "next" => call[w].flow < NFlows - 1
BY DEF AfterSet

LEMMA InitTypes == Init => TInv
<1> SUFFICES ASSUME Init PROVE TInv
  OBVIOUS
<1>1. [k \in Key |-> Own] \in Params /\ 0 \in Flow
  BY DEF Params, Value, Flow
<1>2. OwnDefaults \in Chosen
  BY <1>1 DEF OwnDefaults, Chosen
<1>3. call \in [Task -> Call]
  <2>1. ASSUME NEW w \in Task
        PROVE  [NoCall EXCEPT !.at = IF w = "main" THEN "active" ELSE "wait"] \in Call
    <3>1. CASE w = "main"
      <4>1. (IF w = "main" THEN "active" ELSE "wait") = "active"
        BY <3>1
      <4> QED BY <4>1, NoCallTypes
    <3>2. CASE w # "main"
      <4>1. (IF w = "main" THEN "active" ELSE "wait") = "wait"
        BY <3>2
      <4> QED BY <4>1, NoCallTypes
    <3> QED BY <3>1, <3>2
  <2> QED BY <2>1 DEF Init
<1>4. Sound
  BY NoCallTypes DEF Init, Sound, At, NoCall
<1>5. all \in [active : Flow, params : [Flow -> Params]]
  BY <1>1 DEF Init
<1>6. stored \in [Flow -> [Key -> Values \cup {Missing}]]
  BY DEF Init
<1> QED BY <1>1, <1>2, <1>3, <1>4, <1>5, <1>6 DEF Init, TInv, TypeOK

\* The calls of dsp_processor.c, made by either task.
LEMMA SettingTypes ==
  ASSUME TInv, NEW w \in Task, Setting(w)
  PROVE  TInv'
<1>1. /\ call \in [Task -> Call] /\ call[w] \in Call
      /\ all \in [active : Flow, params : [Flow -> Params]] /\ signal \in BOOLEAN
      /\ stored \in [Flow -> [Key -> Values \cup {Missing}]] /\ behind \in BOOLEAN
  BY DEF TInv, TypeOK
<1>2. call[w].flow \in Flow /\ call[w].target \in Flow /\ call[w].val \in Params
      /\ call[w].post \in Post /\ call[w].key \in 1..NKeys + 1
  BY <1>1 DEF Call
<1>10. At(w) # "switched" => call[w].val \in [Key -> Values]
  BY DEF TInv, Sound
<1>3. SUFFICES /\ call' \in [Task -> Call] /\ Sound'
               /\ all' \in [active : Flow, params : [Flow -> Params]] /\ signal' \in BOOLEAN
               /\ behind' \in BOOLEAN /\ UNCHANGED <<active, stored, worker>>
  BY DEF TInv, TypeOK, worker
<1>4. CASE StoreParams(w)
  <2>1. call' \in [Task -> Call] /\ Sound'
    BY <1>4, GotoTypes DEF StoreParams, At
  <2> QED BY <1>1, <1>2, <1>4, <2>1 DEF StoreParams, nvs
<1>5. CASE CheckActive(w)
  <2>1. call' \in [Task -> Call] /\ Sound'
    BY <1>5, GotoTypes, AfterSetTypes DEF CheckActive, At
  <2> QED BY <1>1, <1>5, <2>1 DEF CheckActive, nvs, shared
<1>6. CASE UpdateFilterParams(w)
  <2>1. /\ AfterUpdate(w) \in {"next", "switch", "wait", "done"}
        /\ AfterUpdate(w) = "next" => call[w].flow < NFlows - 1
        /\ At(w) = "switched" => AfterUpdate(w) \in {"wait", "done"}
    BY AfterSetTypes DEF AfterUpdate
  <2>2. call' \in [Task -> Call] /\ Sound'
    BY <1>6, <2>1, GotoTypes DEF UpdateFilterParams
  <2>3. all' \in [active : Flow, params : [Flow -> Params]] /\ signal' \in BOOLEAN
    BY <1>1, <1>2, <1>6 DEF UpdateFilterParams
  <2> QED BY <1>1, <1>6, <2>2, <2>3 DEF UpdateFilterParams, nvs
<1>7. CASE SwitchFlow(w)
  <2> DEFINE f == call[w].target
             c == [call[w] EXCEPT !.at = "switched", !.flow = f, !.val = all.params[f]]
  <2>1. c \in Call /\ c.at = "switched"
    BY <1>1, <1>2 DEF Call
  <2>2. Goes(w, c)
    BY <1>7 DEF SwitchFlow
  <2> HIDE DEF c
  <2>3. call' \in [Task -> Call] /\ Sound'
    BY <2>1, <2>2, GoesTypes
  <2> QED BY <1>1, <1>2, <1>7, <2>3 DEF SwitchFlow, nvs
<1>8. CASE LoadParam(w)
  <2>1. PICK fails \in BOOLEAN :
          /\ FallsBehind(fails /\ (Restoring(w) \/ Switching(w)))
          /\ LET k == call[w].key
                 v == IF fails THEN Default ELSE StoredOr(call[w].flow, k)
             IN Goes(w, [call[w] EXCEPT !.val[k] = v, !.key = k + 1])
    BY <1>8 DEF LoadParam
  <2> DEFINE k == call[w].key
             v == IF fails THEN Default ELSE StoredOr(call[w].flow, k)
             c == [call[w] EXCEPT !.val[k] = v, !.key = k + 1]
  <2>2. k \in Key /\ k + 1 \in 1..NKeys + 1 /\ At(w) = "load"
    BY <1>2, <1>8 DEF LoadParam, Key
  <2>3. v \in Values
    BY <1>1, <1>2, <2>2 DEF StoredOr
  <2> HIDE DEF v
  <2>4. /\ [call[w].val EXCEPT ![k] = v] \in Params
        /\ [call[w].val EXCEPT ![k] = v] \in [Key -> Values]
    BY <1>2, <1>10, <2>2, <2>3 DEF Params, Value
  <2>5. c = [call[w] EXCEPT !.val = [call[w].val EXCEPT ![k] = v], !.key = k + 1]
    BY <1>1 DEF Call
  <2>6. c \in Call /\ c.at = "load" /\ c.val \in [Key -> Values]
    BY <1>1, <2>2, <2>4, <2>5 DEF Call, At
  <2>7. Goes(w, c)
    BY <2>1 DEF v
  <2> HIDE DEF c
  <2>8. call' \in [Task -> Call] /\ Sound'
    BY <2>6, <2>7, GoesTypes
  <2>9. behind' \in BOOLEAN
    BY <1>1, <2>1 DEF FallsBehind
  <2> QED BY <1>1, <1>8, <2>8, <2>9 DEF LoadParam, shared
<1>9. CASE Loaded(w)
  <2>1. call' \in [Task -> Call] /\ Sound'
    <3>1. CASE Restoring(w) \/ Switching(w)
      BY <1>9, <3>1, GotoTypes DEF Loaded, At
    <3>2. CASE ~(Restoring(w) \/ Switching(w))
      <4> DEFINE p == call[w].post
                 c == [call[w] EXCEPT !.at = "save", !.val[p.key] = p.value, !.key = 1]
      <4>1. p.key \in Key /\ p.value \in Values
        BY <1>2, <3>2 DEF Restoring, Switching, Post
      <4>2. /\ [call[w].val EXCEPT ![p.key] = p.value] \in Params
            /\ [call[w].val EXCEPT ![p.key] = p.value] \in [Key -> Values]
        BY <1>2, <1>9, <1>10, <4>1 DEF Params, Value, Loaded
      <4>3. c = [call[w] EXCEPT !.at = "save", !.val = [call[w].val EXCEPT ![p.key] = p.value],
                                !.key = 1]
        BY <1>1 DEF Call
      <4>4. c \in Call /\ c.at = "save" /\ c.val \in [Key -> Values]
        <5>1. 1 \in 1..NKeys + 1
          OBVIOUS
        <5> QED BY <1>1, <4>2, <4>3, <5>1 DEF Call
      <4>5. Goes(w, c)
        BY <1>9, <3>2 DEF Loaded
      <4> HIDE DEF c
      <4> QED BY <4>4, <4>5, GoesTypes
    <3> QED BY <3>1, <3>2
  <2> QED BY <1>1, <1>9, <2>1 DEF Loaded, nvs, shared
<1> QED BY <1>4, <1>5, <1>6, <1>7, <1>8, <1>9 DEF Setting

\* Each step keeps the types.
LEMMA NextTypesKept == TInv /\ [Next]_vars => TInv'
<1> SUFFICES ASSUME TInv, [Next]_vars PROVE TInv'
  OBVIOUS
<1>1. /\ call \in [Task -> Call] /\ call["main"] \in Call /\ call["http"] \in Call
      /\ all \in [active : Flow, params : [Flow -> Params]] /\ signal \in BOOLEAN
      /\ stored \in [Flow -> [Key -> Values \cup {Missing}]] /\ behind \in BOOLEAN
      /\ active \in Flow \cup {Missing} /\ cur \in Chosen /\ built \in Chosen
      /\ 0 \in Flow /\ Sound
  BY DEF TInv, TypeOK, Flow
<1>2. \A w \in Task : /\ call[w].flow \in Flow /\ call[w].target \in Flow /\ call[w].val \in Params
                    /\ call[w].post \in Post /\ call[w].key \in 1..NKeys + 1
  BY <1>1 DEF Call
<1>3. ASSUME NEW w \in Task, NEW c \in Call, Goes(w, c), c.at # "next",
             c.at = "saveflow" => c.post.value \in Flow,
             c.at # "switched" => c.val \in [Key -> Values],
             UNCHANGED <<shared, worker>>, behind' \in BOOLEAN,
             active' \in Flow \cup {Missing}, stored' \in [Flow -> [Key -> Values \cup {Missing}]]
      PROVE  TInv'
  BY <1>3, GoesTypes DEF TInv, TypeOK, shared, worker
<1>15. \A w \in Task : At(w) # "switched" => call[w].val \in [Key -> Values]
  BY DEF TInv, Sound
<1>4. \A b \in BOOLEAN : FallsBehind(b) => behind' \in BOOLEAN
  BY <1>1 DEF FallsBehind
<1>5. CASE LoadActive
  <2>1. PICK fails \in BOOLEAN :
          /\ FallsBehind(fails)
          /\ IF fails \/ active = Missing THEN Goto("main", "switch")
             ELSE Goes("main", [call["main"] EXCEPT !.at = "load", !.target = active])
    BY <1>5 DEF LoadActive
  <2>2. behind' \in BOOLEAN /\ UNCHANGED <<active, stored, shared, worker>>
    <3>1. behind' \in BOOLEAN
      BY <1>1, <2>1 DEF FallsBehind
    <3> QED BY <1>5, <3>1 DEF LoadActive
  <2>3. "main" \in Task /\ call["main"].val \in [Key -> Values]
    BY <1>5, <1>15 DEF LoadActive, At, Task
  <2>4. ASSUME NEW c \in Call, c.at \in {"switch", "load"}, c.val = call["main"].val,
               Goes("main", c)
        PROVE  TInv'
    <3>1. call' \in [Task -> Call] /\ Sound'
      BY <2>3, <2>4, GoesTypes
    <3> QED BY <1>1, <2>2, <3>1 DEF TInv, TypeOK, shared, worker
  <2>5. CASE fails \/ active = Missing
    <3> DEFINE c == [call["main"] EXCEPT !.at = "switch"]
    <3>1. c \in Call /\ c.at = "switch" /\ c.val = call["main"].val
      BY <1>1 DEF Call
    <3>2. Goes("main", c)
      BY <2>1, <2>5 DEF Goto
    <3> HIDE DEF c
    <3> QED BY <2>4, <3>1, <3>2
  <2>6. CASE ~(fails \/ active = Missing)
    <3> DEFINE c == [call["main"] EXCEPT !.at = "load", !.target = active]
    <3>1. c \in Call /\ c.at = "load" /\ c.val = call["main"].val
      BY <1>1, <2>6 DEF Call
    <3>2. Goes("main", c)
      BY <2>1, <2>6
    <3> HIDE DEF c
    <3> QED BY <2>4, <3>1, <3>2
  <2> QED BY <2>5, <2>6
<1>6. CASE NextFlow
  <2>1. call["main"].flow + 1 \in Flow
    <3>1. call["main"].flow < NFlows - 1
      BY <1>6 DEF NextFlow, TInv, Sound, At, Task
    <3>2. call["main"].flow \in Flow
      BY <1>1 DEF Call
    <3> DEFINE n == call["main"].flow
    <3>3. n \in 0..NFlows - 1 /\ n < NFlows - 1
      BY <3>1, <3>2 DEF Flow
    <3> HIDE DEF n
    <3>4. n + 1 \in 0..NFlows - 1
      BY <3>3, DspAssumption
    <3> QED BY <3>4 DEF Flow, n
  <2>2. 1 \in 1..NKeys + 1
    OBVIOUS
  <2> DEFINE c == [call["main"] EXCEPT !.at = "load", !.flow = @ + 1, !.key = 1]
  <2>3. c \in Call /\ c.at = "load" /\ c.val = call["main"].val
    BY <1>1, <2>1, <2>2 DEF Call
  <2>4. "main" \in Task /\ call["main"].val \in [Key -> Values] /\ Goes("main", c)
    BY <1>6, <1>15 DEF NextFlow, At, Task
  <2>5. UNCHANGED <<nvs, shared, worker>>
    BY <1>6 DEF NextFlow
  <2> HIDE DEF c
  <2>6. call' \in [Task -> Call] /\ Sound'
    BY <2>3, <2>4, GoesTypes
  <2> QED BY <1>1, <2>5, <2>6 DEF TInv, TypeOK, nvs, shared, worker
<1>7. ASSUME NEW p \in Post, Receive(p) PROVE TInv'
  <2> DEFINE l == IF p.key # 0 THEN "which" ELSE IF p.value \in Flow THEN "saveflow" ELSE "wait"
             c == [call["http"] EXCEPT !.at = l, !.post = p]
  <2>1. l \in {"which", "saveflow", "wait"} /\ (l = "saveflow" => p.value \in Flow)
    OBVIOUS
  <2>2. Goes("http", c)
    BY <1>7 DEF Receive
  <2> HIDE DEF l
  <2>3. c \in Call /\ c.at = l /\ c.post = p /\ c.val = call["http"].val
    BY <1>1, <2>1 DEF Call
  <2> HIDE DEF c
  <2>4. behind' \in BOOLEAN
    BY <1>7 DEF Receive, FallsBehind, Restored
  <2> QED BY <1>1, <1>3, <1>7, <1>15, <2>1, <2>2, <2>3, <2>4 DEF Receive, At
<1>8. CASE SaveFlow
  <2>1. PICK set \in BOOLEAN, committed \in BOOLEAN :
          /\ active' = IF set THEN call["http"].post.value ELSE active
          /\ behind' = IF set /\ committed THEN ~Restored ELSE behind \/ set
          /\ Goes("http", [call["http"] EXCEPT
                             !.at = IF set /\ committed THEN "load" ELSE "wait",
                             !.flow = call["http"].post.value,
                             !.target = call["http"].post.value])
    BY <1>8 DEF SaveFlow
  <2> DEFINE f == call["http"].post.value
             l == IF set /\ committed THEN "load" ELSE "wait"
             c == [call["http"] EXCEPT !.at = l, !.flow = f, !.target = f]
  <2>2. f \in Flow
    BY <1>1, <1>8 DEF SaveFlow, Sound
  <2>3. l \in {"wait", "load"} /\ Goes("http", c)
    BY <2>1
  <2> HIDE DEF f, l
  <2>4. c \in Call /\ c.at = l /\ c.val = call["http"].val
    BY <1>1, <2>2, <2>3 DEF Call
  <2>5. active' \in Flow \cup {Missing}
    BY <1>1, <2>1, <2>2 DEF f
  <2>6. behind' \in BOOLEAN
    BY <1>1, <2>1 DEF Restored
  <2> HIDE DEF c
  <2> QED BY <1>1, <1>3, <1>8, <1>15, <2>3, <2>4, <2>5, <2>6 DEF SaveFlow, At
<1>9. CASE WhichFlow
  <2>1. PICK fails \in BOOLEAN :
          Goes("http", [call["http"] EXCEPT
                          !.at = "load",
                          !.flow = IF fails \/ active = Missing THEN 0 ELSE active])
    BY <1>9 DEF WhichFlow
  <2> DEFINE f == IF fails \/ active = Missing THEN 0 ELSE active
             c == [call["http"] EXCEPT !.at = "load", !.flow = f]
  <2>2. f \in Flow /\ Goes("http", c)
    BY <1>1, <2>1
  <2> HIDE DEF f
  <2>3. c \in Call /\ c.at = "load" /\ c.val = call["http"].val
    BY <1>1, <2>2 DEF Call
  <2> HIDE DEF c
  <2> QED BY <1>1, <1>3, <1>9, <1>15, <2>2, <2>3 DEF WhichFlow, nvs, At
<1>10. CASE SaveParam
  <2> DEFINE k == call["http"].key
             f == call["http"].flow
  <2>1. PICK set \in BOOLEAN, committed \in BOOLEAN :
          /\ stored' = IF set THEN [stored EXCEPT ![f][k] = call["http"].val[k]] ELSE stored
          /\ Goes("http", [call["http"] EXCEPT !.key = k + 1,
                                              !.saved = @ /\ set /\ committed])
    BY <1>10 DEF SaveParam
  <2> DEFINE c == [call["http"] EXCEPT !.key = k + 1, !.saved = @ /\ set /\ committed]
  <2>2. f \in Flow /\ k \in Key /\ k + 1 \in 1..NKeys + 1
    BY <1>2, <1>10 DEF SaveParam, Key
  <2>5. call["http"].val \in [Key -> Values]
    BY <1>10, <1>15 DEF SaveParam
  <2>3. c \in Call /\ c.at = "save" /\ c.val = call["http"].val /\ Goes("http", c)
    BY <1>1, <1>10, <2>1, <2>2 DEF SaveParam, Call, At
  <2>4. stored' \in [Flow -> [Key -> Values \cup {Missing}]]
    BY <1>1, <2>1, <2>2, <2>5
  <2> HIDE DEF c
  <2> QED BY <1>1, <1>3, <1>10, <2>3, <2>4, <2>5 DEF SaveParam
<1>11. CASE Saved
  <2> DEFINE l == IF call["http"].saved THEN "apply" ELSE "wait"
  <2>1. l \in {"apply", "wait"} /\ Goto("http", l)
    BY <1>11 DEF Saved
  <2> HIDE DEF l
  <2>2. call' \in [Task -> Call] /\ Sound'
    BY <1>11, <2>1, GotoTypes DEF Saved
  <2>3. behind' \in BOOLEAN
    BY <1>1, <1>11 DEF Saved, FallsBehind, Call
  <2> QED BY <1>11, <2>2, <2>3 DEF Saved, shared, worker, TInv, TypeOK
<1>12. CASE ApplyIfActive
  <2>1. PICK fails \in BOOLEAN :
          /\ FallsBehind(fails)
          /\ Goto("http", IF ~fails /\ active = call["http"].flow THEN "store" ELSE "wait")
    BY <1>12 DEF ApplyIfActive
  <2> DEFINE l == IF ~fails /\ active = call["http"].flow THEN "store" ELSE "wait"
  <2>2. l \in {"store", "wait"} /\ Goto("http", l)
    BY <2>1
  <2> HIDE DEF l
  <2>3. call' \in [Task -> Call] /\ Sound'
    BY <1>12, <2>2, GotoTypes DEF ApplyIfActive
  <2> QED BY <1>4, <1>12, <2>1, <2>3 DEF ApplyIfActive, shared, worker, TInv, TypeOK
<1>13. CASE Worker
  <2>1. ActiveParams \in Chosen
    BY <1>1 DEF ActiveParams, Chosen
  <2>2. all.active \in Flow /\ all.params[all.active] \in Params
    BY <1>1
  <2>3. Sound'
    BY <1>1, <1>13 DEF Worker, Chunk, FirstFlow, FirstParams, TakeSignal, CopyParams, BuildFilter,
                       Sound, At
  <2> QED BY <1>1, <1>13, <2>1, <2>2, <2>3
             DEF Worker, Chunk, FirstFlow, FirstParams, TakeSignal, CopyParams, BuildFilter,
                 nvs, shared, Chosen, TInv, TypeOK
<1>14. CASE UNCHANGED vars
  BY <1>1, <1>14 DEF vars, nvs, shared, worker, TInv, TypeOK, Sound, At
<1> QED
  BY <1>5, <1>6, <1>7, <1>8, <1>9, <1>10, <1>11, <1>12, <1>13, <1>14, SettingTypes
     DEF Next, Main, Http

\* In every behaviour the variables have their types, and no request reaches
\* NVS or all_params that names a flow there is not.
THEOREM DspTypes == Spec => []TypeOK
<1>1. TInv => TypeOK
  BY DEF TInv
<1> QED BY <1>1, InitTypes, NextTypesKept, PTL DEF Spec

-----------------------------------------------------------------------------
(* No change is forgotten                                                    *)

AllTold == Announced = ActiveParams \/ \E w \in Task : Pending(w)

\* A step that leaves the active parameters and what is announced of them.
LEMMA QuietStep ==
  ASSUME AllTold, NEW w \in Task, ~Pending(w),
         \A u \in Task \ {w} : call'[u] = call[u],
         all'.active = all.active, ActiveParams' = ActiveParams, Announced' = Announced
  PROVE  AllTold'
<1>1. CASE Announced = ActiveParams
  BY <1>1 DEF AllTold
<1>2. ASSUME NEW u \in Task, Pending(u) PROVE AllTold'
  <2>1. u # w /\ call'[u] = call[u]
    BY <1>2
  <2>2. \/ call'[u].at = "check" /\ call'[u].flow = all'.active
        \/ call'[u].at \in {"update", "switched"}
    BY <1>2, <2>1 DEF Pending, At
  <2> QED BY <2>2 DEF AllTold, Pending, At
<1> QED BY <1>1, <1>2 DEF AllTold

LEMMA GoesAlone ==
  ASSUME TInv, NEW w \in Task, NEW c, Goes(w, c)
  PROVE  /\ \A u \in Task \ {w} : call'[u] = call[u]
         /\ c.at \notin {"wait", "done"} => call'[w] = c
BY DEF Goes, TInv, TypeOK

LEMMA GotoAlone ==
  ASSUME TInv, NEW w \in Task, NEW l, Goto(w, l)
  PROVE  /\ \A u \in Task \ {w} : call'[u] = call[u]
         /\ l \notin {"wait", "done"} => call'[w].at = l /\ call'[w].flow = call[w].flow
<1> DEFINE c == [call[w] EXCEPT !.at = l]
<1>1. call[w] \in Call
  BY DEF TInv, TypeOK
<1>2. c.at = l /\ c.flow = call[w].flow
  BY <1>1 DEF Call
<1>3. Goes(w, c)
  BY DEF Goto
<1> HIDE DEF c
<1> QED BY <1>2, <1>3, GoesAlone

\* The three sections of a writer.
LEMMA SettingTold ==
  ASSUME TInv, AllTold, NEW w \in Task, Setting(w)
  PROVE  AllTold'
<1>1. /\ all \in [active : Flow, params : [Flow -> Params]]
      /\ call[w] \in Call /\ call[w].flow \in Flow
  BY DEF TInv, TypeOK, Call
<1>2. CASE StoreParams(w)
  <2>1. /\ \A u \in Task \ {w} : call'[u] = call[u]
        /\ call'[w].at = "check" /\ call'[w].flow = call[w].flow
        /\ ~Pending(w)
    BY <1>2, GotoAlone DEF StoreParams, Pending
  <2>2. all'.active = all.active
    BY <1>1, <1>2 DEF StoreParams
  <2>3. CASE call[w].flow = all.active
    BY <2>1, <2>2, <2>3 DEF AllTold, Pending, At
  <2>4. CASE call[w].flow # all.active
    <3>1. all'.params[all.active] = all.params[all.active]
      BY <1>1, <1>2, <2>4 DEF StoreParams
    <3>2. ActiveParams' = ActiveParams
      BY <2>2, <3>1 DEF ActiveParams
    <3>3. Announced' = Announced
      BY <1>2, <3>2 DEF StoreParams, worker, Announced
    <3> QED BY <2>1, <2>2, <3>2, <3>3, QuietStep
  <2> QED BY <2>3, <2>4
<1>3. CASE CheckActive(w)
  <2>1. CASE call[w].flow = all.active
    <3>1. call'[w].at = "update"
      BY <1>3, <2>1, GotoAlone DEF CheckActive
    <3> QED BY <3>1 DEF AllTold, Pending, At
  <2>2. CASE call[w].flow # all.active
    <3>1. /\ \A u \in Task \ {w} : call'[u] = call[u]
          /\ ~Pending(w)
      BY <1>3, <2>2, GotoAlone DEF CheckActive, Pending
    <3>2. all' = all /\ ActiveParams' = ActiveParams /\ Announced' = Announced
      BY <1>3 DEF CheckActive, shared, worker, ActiveParams, Announced
    <3> QED BY <3>1, <3>2, QuietStep
  <2> QED BY <2>1, <2>2
<1>4. CASE UpdateFilterParams(w)
  BY <1>4 DEF UpdateFilterParams, AllTold, Announced
<1>5. CASE SwitchFlow(w)
  <2> DEFINE c == [call[w] EXCEPT !.at = "switched", !.flow = call[w].target,
                                  !.val = all.params[call[w].target]]
  <2>1. Goes(w, c) /\ c.at = "switched"
    BY <1>1, <1>5 DEF SwitchFlow, Call
  <2> HIDE DEF c
  <2>2. call'[w].at = "switched"
    BY <2>1, GoesAlone
  <2> QED BY <2>2 DEF AllTold, Pending, At
<1>6. CASE LoadParam(w) \/ Loaded(w)
  <2>1. /\ At(w) = "load" /\ ~Pending(w)
        /\ \A u \in Task \ {w} : call'[u] = call[u]
    BY <1>6, GoesAlone, GotoAlone DEF LoadParam, Loaded, Pending
  <2>2. all' = all /\ ActiveParams' = ActiveParams /\ Announced' = Announced
    <3>1. UNCHANGED <<shared, worker>>
      BY <1>6 DEF LoadParam, Loaded
    <3> QED BY <3>1 DEF shared, worker, ActiveParams, Announced
  <2> QED BY <2>1, <2>2, QuietStep
<1> QED BY <1>2, <1>3, <1>4, <1>5, <1>6 DEF Setting

\* The worker only carries out what was announced to it.
LEMMA WorkerTakes ==
  ASSUME Worker
  PROVE  Announced' = Announced /\ all' = all /\ call' = call
BY DEF Worker, Chunk, FirstFlow, FirstParams, TakeSignal, CopyParams, BuildFilter,
       Announced, ActiveParams, shared

\* A step of a task that reads or writes NVS, or waits.
LEMMA StorageSteps ==
  ASSUME TInv, NEW w \in Task, NEW c, Goes(w, c),
         At(w) \in {"active", "next", "wait", "saveflow", "which", "save", "apply"},
         UNCHANGED <<shared, worker>>, AllTold
  PROVE  AllTold'
<1>1. /\ \A u \in Task \ {w} : call'[u] = call[u]
      /\ ~Pending(w)
  BY GoesAlone DEF Pending
<1>2. all' = all /\ ActiveParams' = ActiveParams /\ Announced' = Announced
  BY DEF shared, worker, ActiveParams, Announced
<1> QED BY <1>1, <1>2, QuietStep

LEMMA NextAnnounced == IInv /\ [Next]_vars => IInv'
<1> SUFFICES ASSUME TInv, AllTold, [Next]_vars PROVE AllTold'
  BY NextTypesKept DEF IInv, AllTold
<1>1. CASE Setting("main") \/ Setting("http")
  BY <1>1, SettingTold
<1>2. CASE LoadActive \/ NextFlow
  BY <1>2, StorageSteps DEF LoadActive, NextFlow, Goto
<1>3. CASE SaveFlow \/ WhichFlow \/ SaveParam \/ Saved \/ ApplyIfActive
  BY <1>3, StorageSteps DEF SaveFlow, WhichFlow, SaveParam, Saved, ApplyIfActive, Goto
<1>4. ASSUME NEW p \in Post, Receive(p) PROVE AllTold'
  BY <1>4, StorageSteps DEF Receive
<1>5. CASE Worker
  BY <1>5, WorkerTakes DEF AllTold, Pending, At, ActiveParams
<1>6. CASE UNCHANGED vars
  BY <1>6 DEF vars, nvs, shared, worker, AllTold, Announced, ActiveParams, Pending, At
<1> QED
  BY <1>1, <1>2, <1>3, <1>4, <1>5, <1>6 DEF Next, Main, Http

\* Whatever the order in which the writers' sections and the worker's copy are
\* made, a change of the active flow or its parameters that nobody is still to
\* announce is built into the filter or will be.
THEOREM NothingForgotten == Spec => []NoChangeForgotten
<1>1. Init => IInv
  <2> SUFFICES ASSUME Init PROVE IInv
    OBVIOUS
  <2>1. 0 \in Flow
    BY DEF Flow
  <2>2. ActiveParams = OwnDefaults
    BY <2>1 DEF Init, ActiveParams, OwnDefaults
  <2>3. Announced = OwnDefaults
    BY DEF Init, Announced
  <2> QED BY <2>2, <2>3, InitTypes DEF IInv
<1>2. IInv => NoChangeForgotten
  BY DEF IInv, NoChangeForgotten, Pending, Announcing
<1> QED BY <1>1, <1>2, NextAnnounced, PTL DEF Spec

-----------------------------------------------------------------------------
(* What is stored is applied                                                 *)

\* What NVS holds of a flow, with the defaults for what is missing.
StoredOf(f) == [k \in Key |-> StoredOr(f, k)]

\* The call c has read its flow's parameters up to where it is.
Read(c) == \A k \in Key : k < c.key => c.val[k] = StoredOr(c.flow, k)

\* The flows before n are restored.
RestoredUpTo(n) == \A g \in Flow : g < n => all.params[g] = StoredOf(g)

Applied == /\ all.active = StoredFlow
           /\ StoredFlow # 0 => all.params[StoredFlow] = StoredOf(StoredFlow)

\* app_main, in call c, restores one flow after the other, and then switches to
\* the active one, while no request is handled.
Restores(c) ==
  /\ c.at \in {"active", "load", "store", "check", "update", "next", "switch", "switched", "done"}
  /\ c.at # "done" => At("http") = "wait"
  /\ c.at = "active" => c.flow = 0 /\ c.key = 1 /\ c.target = 0
  /\ c.at \in {"load", "store", "check", "update", "next"} => active = c.target
  /\ c.at \in {"load", "store"} => RestoredUpTo(c.flow)
  /\ c.at \in {"check", "update", "next"} => RestoredUpTo(c.flow + 1)
  /\ c.at = "load" => Read(c)
  /\ c.at \in {"store", "check", "update"} => c.val = StoredOf(c.flow)
  /\ c.at = "switch" => IF active = Missing THEN c.target = 0
                        ELSE active = c.target /\ RestoredUpTo(NFlows)
  /\ c.at = "switched" => /\ all.active = c.flow /\ c.flow = StoredFlow
                          /\ c.val = all.params[c.flow]
                          /\ StoredFlow # 0 => c.val = StoredOf(c.flow)

\* http_server_task starts each request at the first parameter, and stores a flow
\* only if that is what was asked for.
Starts(c) == /\ c.at \in {"wait", "saveflow"} => c.key = 1
             /\ c.at = "saveflow" => c.post.key = 0

\* http_server_task, in call c, stores first and applies then: another flow, with
\* its parameters read again, or a parameter of the flow it took for the active
\* one, which is not that if it could not be read: then nothing is applied.
Handles(c) ==
  /\ c.at \in {"wait", "saveflow", "which", "load", "save", "apply", "store", "check",
               "update", "switch", "switched"}
  /\ c.at \in {"which", "save", "apply"} => c.post.key # 0
  /\ c.at \in {"saveflow", "switch", "switched"} => c.post.key = 0
  /\ c.at \in {"wait", "saveflow", "which"} /\ Restored => Applied
  /\ c.at \in {"load", "store", "check", "update"} /\ c.post.key = 0 =>
       active = c.flow /\ active = c.target
  /\ c.at \in {"load", "save", "apply"} /\ c.post.key # 0 =>
       all.active = StoredFlow /\ (c.flow = StoredFlow \/ Applied)
  /\ c.at \in {"store", "check", "update"} /\ c.post.key # 0 =>
       c.flow = StoredFlow /\ all.active = StoredFlow
  /\ c.at = "load" /\ c.post.key = 0 => Read(c)
  /\ c.at = "save" /\ c.saved => \A k \in Key : k < c.key => stored[c.flow][k] = c.val[k]
  /\ c.at \in {"apply", "store", "check", "update"} => c.val = StoredOf(c.flow)
  /\ c.at \in {"check", "update"} => all.params[c.flow] = c.val
  /\ c.at = "switch" => active = c.target /\ all.params[c.target] = StoredOf(c.target)
  /\ c.at = "switched" => /\ active = c.flow /\ all.active = c.flow
                          /\ c.val = StoredOf(c.flow)

UpToDate == Restores(call["main"]) /\ Handles(call["http"])

AInv == TInv /\ Starts(call["http"]) /\ (behind \/ UpToDate)

\* All that is read is what is stored.
LEMMA ReadAll ==
  ASSUME NEW c \in Call, c.val \in [Key -> Values], Read(c), c.key \notin Key
  PROVE  c.val = StoredOf(c.flow)
<1>1. c.key = NKeys + 1
  BY DEF Call, Key
<1>2. \A k \in Key : c.val[k] = StoredOr(c.flow, k)
  BY <1>1 DEF Read, Key
<1> QED BY <1>2 DEF StoredOf

\* All that is saved is what will be read.
LEMMA SavedAll ==
  ASSUME NEW c \in Call, c.val \in [Key -> Values], c.key \notin Key,
         \A k \in Key : k < c.key => stored[c.flow][k] = c.val[k]
  PROVE  c.val = StoredOf(c.flow)
<1>1. c.key = NKeys + 1
  BY DEF Call, Key
<1>2. \A k \in Key : c.val[k] = stored[c.flow][k] /\ c.val[k] # Missing
  BY <1>1 DEF Key
<1> QED BY <1>2 DEF StoredOf, StoredOr

\* NVS is what it was.
LEMMA SameStore ==
  ASSUME UNCHANGED <<active, stored>>
  PROVE  /\ \A f : StoredOf(f)' = StoredOf(f)
         /\ \A f, k : StoredOr(f, k)' = StoredOr(f, k)
         /\ StoredFlow' = StoredFlow
BY DEF StoredOf, StoredOr, StoredFlow

LEMMA GoesOn ==
  ASSUME TInv, NEW w \in Task, NEW c \in Call, Goes(w, c)
  PROVE  /\ \A u \in Task \ {w} : call'[u] = call[u]
         /\ c.at \notin {"wait", "done"} => call'[w] = c
         /\ call'[w].at = c.at
         /\ c.at = "wait" => call'[w].key = 1
<1>1. call' = [call EXCEPT ![w] = IF c.at \in {"wait", "done"}
                                  THEN [NoCall EXCEPT !.at = c.at] ELSE c]
  BY DEF Goes
<1>2. call \in [Task -> Call] /\ [NoCall EXCEPT !.at = c.at].at = c.at
  BY NoCallTypes DEF TInv, TypeOK, Call
<1>3. [NoCall EXCEPT !.at = c.at].key = 1
  BY DEF NoCall
<1> QED BY <1>1, <1>2, <1>3

LEMMA LastFlow ==
  ASSUME NEW f \in Flow, ~(f < NFlows - 1)
  PROVE  f + 1 = NFlows
BY DEF Flow

\* A step of app_main that leaves its call at c.
LEMMA MainGoes ==
  ASSUME TInv, UpToDate, ~Restored, NEW c \in Call, Goes("main", c),
         IF c.at = "done" THEN Applied'
         ELSE c.at # "wait" /\ (At("http")' = "wait" => Restores(c)')
  PROVE  UpToDate'
<1>1. /\ call'["http"] = call["http"] /\ call["http"].at = "wait"
      /\ call'["main"].at = c.at
      /\ c.at # "done" => call'["main"] = c
  BY GoesOn DEF UpToDate, Restores, Restored, At
<1>2. Handles(call["http"])'
  BY <1>1 DEF Handles, Restored, At
<1>3. Restores(call["main"])'
  <2>1. CASE c.at = "done"
    BY <1>1, <2>1 DEF Restores
  <2>2. CASE c.at # "done"
    BY <1>1, <2>2 DEF At
  <2> QED BY <2>1, <2>2
<1> QED BY <1>2, <1>3 DEF UpToDate

\* app_main restores what is stored.
LEMMA MainApplied ==
  ASSUME TInv, UpToDate, Main, ~behind'
  PROVE  UpToDate'
<1> DEFINE m == call["main"]
<1>1. /\ call["main"] \in Call /\ m.flow \in Flow /\ m.target \in Flow
      /\ m.key \in 1..NKeys + 1
      /\ all \in [active : Flow, params : [Flow -> Params]] /\ Missing \notin Flow
      /\ stored \in [Flow -> [Key -> Values \cup {Missing}]]
      /\ active \in Flow \cup {Missing}
  BY DEF TInv, TypeOK, Call, Flow
<1>2. Restores(m)
  BY DEF UpToDate
<1>3. CASE LoadActive
  <2>1. /\ IF active = Missing THEN Goto("main", "switch")
           ELSE Goes("main", [m EXCEPT !.at = "load", !.target = active])
        /\ UNCHANGED <<active, stored>> /\ m.at = "active"
    BY <1>3 DEF LoadActive, FallsBehind, At
  <2>2. m.flow = 0 /\ m.key = 1 /\ m.target = 0 /\ ~Restored
    BY <1>2, <2>1 DEF Restores, Restored, At
  <2>3. CASE active = Missing
    <3>1. PICK c \in Call : c = [m EXCEPT !.at = "switch"]
      BY <1>1 DEF Call
    <3>2. c.at = "switch" /\ c.target = 0 /\ Goes("main", c)
      BY <1>1, <2>1, <2>2, <2>3, <3>1 DEF Call, Goto
    <3>3. At("http")' = "wait" => Restores(c)'
      BY <2>1, <2>3, <3>2 DEF Restores
    <3> QED BY <2>2, <3>2, <3>3, MainGoes
  <2>4. CASE active # Missing
    <3>1. PICK c \in Call : c = [m EXCEPT !.at = "load", !.target = active]
      BY <1>1, <2>4 DEF Call
    <3>2. /\ c.at = "load" /\ c.target = active /\ c.flow = 0 /\ c.key = 1
          /\ Goes("main", c)
      BY <1>1, <2>1, <2>2, <2>4, <3>1 DEF Call
    <3>3. RestoredUpTo(c.flow)' /\ Read(c)'
      BY <3>2 DEF RestoredUpTo, Read, Flow, Key
    <3>4. At("http")' = "wait" => Restores(c)'
      BY <2>1, <3>2, <3>3 DEF Restores
    <3> QED BY <2>2, <3>2, <3>4, MainGoes
  <2> QED BY <2>3, <2>4
<1>4. CASE NextFlow
  <2>1. /\ Goes("main", [m EXCEPT !.at = "load", !.flow = @ + 1, !.key = 1])
        /\ UNCHANGED <<active, stored, all>> /\ m.at = "next"
    BY <1>4 DEF NextFlow, nvs, shared, At
  <2>2. m.flow < NFlows - 1 /\ active = m.target /\ RestoredUpTo(m.flow + 1) /\ ~Restored
    BY <1>2, <2>1 DEF Restores, TInv, Sound, At, Restored
  <2>3. m.flow + 1 \in Flow /\ 1 \in 1..NKeys + 1
    BY <1>1, <2>2 DEF Flow
  <2>4. PICK c \in Call : c = [m EXCEPT !.at = "load", !.flow = @ + 1, !.key = 1]
    BY <1>1, <2>3 DEF Call
  <2>5. /\ c.at = "load" /\ c.target = m.target /\ c.flow = m.flow + 1 /\ c.key = 1
        /\ Goes("main", c)
    BY <1>1, <2>1, <2>4 DEF Call
  <2>6. RestoredUpTo(c.flow)' /\ Read(c)'
    BY <2>1, <2>2, <2>5, SameStore DEF RestoredUpTo, Read, Key
  <2>7. At("http")' = "wait" => Restores(c)'
    BY <2>1, <2>2, <2>5, <2>6 DEF Restores
  <2> QED BY <2>2, <2>5, <2>7, MainGoes
<1>5. CASE LoadParam("main")
  <2>1. /\ Goes("main", [m EXCEPT !.val[m.key] = StoredOr(m.flow, m.key), !.key = m.key + 1])
        /\ UNCHANGED <<active, stored, all>> /\ m.at = "load" /\ m.key \in Key
    BY <1>5 DEF LoadParam, FallsBehind, Restoring, shared, At
  <2>2. active = m.target /\ RestoredUpTo(m.flow) /\ Read(m) /\ ~Restored
    BY <1>2, <2>1 DEF Restores, At, Restored
  <2>3. /\ m.key + 1 \in 1..NKeys + 1 /\ StoredOr(m.flow, m.key) \in Values
        /\ m.val \in [Key -> Values]
    BY <1>1, <2>1 DEF Key, StoredOr, TInv, Sound, At
  <2>4. [m.val EXCEPT ![m.key] = StoredOr(m.flow, m.key)] \in Params
    BY <2>1, <2>3 DEF Params, Value
  <2>5. PICK c \in Call : c = [m EXCEPT !.val[m.key] = StoredOr(m.flow, m.key),
                                        !.key = m.key + 1]
    <3>1. [m EXCEPT !.val[m.key] = StoredOr(m.flow, m.key), !.key = m.key + 1]
            = [m EXCEPT !.val = [m.val EXCEPT ![m.key] = StoredOr(m.flow, m.key)],
                        !.key = m.key + 1]
      BY <1>1 DEF Call
    <3> QED BY <1>1, <2>3, <2>4, <3>1 DEF Call
  <2>6. /\ c.at = "load" /\ c.target = m.target /\ c.flow = m.flow /\ c.key = m.key + 1
        /\ c.val = [m.val EXCEPT ![m.key] = StoredOr(m.flow, m.key)]
        /\ Goes("main", c)
    BY <1>1, <2>1, <2>5 DEF Call
  <2>7. RestoredUpTo(c.flow)' /\ Read(c)'
    <3>1. RestoredUpTo(c.flow)'
      BY <2>1, <2>2, <2>6, SameStore DEF RestoredUpTo
    <3>2. ASSUME NEW k \in Key, k < c.key PROVE c.val[k] = StoredOr(c.flow, k)'
      BY <2>1, <2>2, <2>3, <2>6, <3>2, SameStore DEF Read, Key
    <3> QED BY <3>1, <3>2 DEF Read
  <2>8. At("http")' = "wait" => Restores(c)'
    BY <2>1, <2>2, <2>6, <2>7 DEF Restores
  <2> QED BY <2>2, <2>6, <2>8, MainGoes
<1>6. CASE Loaded("main")
  <2>1. /\ Goto("main", "store")
        /\ UNCHANGED <<active, stored, all>> /\ m.at = "load" /\ m.key \notin Key
    BY <1>6 DEF Loaded, Restoring, nvs, shared, At
  <2>2. /\ active = m.target /\ RestoredUpTo(m.flow) /\ Read(m) /\ ~Restored
        /\ m.val \in [Key -> Values]
    BY <1>2, <2>1 DEF Restores, At, Restored, TInv, Sound
  <2>3. m.val = StoredOf(m.flow)
    BY <1>1, <2>1, <2>2, ReadAll
  <2>4. PICK c \in Call : c = [m EXCEPT !.at = "store"]
    BY <1>1 DEF Call
  <2>5. /\ c.at = "store" /\ c.target = m.target /\ c.flow = m.flow /\ c.val = m.val
        /\ Goes("main", c)
    BY <1>1, <2>1, <2>4 DEF Call, Goto
  <2>6. RestoredUpTo(c.flow)' /\ c.val = StoredOf(c.flow)'
    BY <2>1, <2>2, <2>3, <2>5, SameStore DEF RestoredUpTo
  <2>7. At("http")' = "wait" => Restores(c)'
    BY <2>1, <2>2, <2>5, <2>6 DEF Restores
  <2> QED BY <2>2, <2>5, <2>7, MainGoes
<1>7. CASE StoreParams("main")
  <2>1. /\ Goto("main", "check") /\ all' = [all EXCEPT !.params[m.flow] = m.val]
        /\ UNCHANGED <<active, stored>> /\ m.at = "store"
    BY <1>7 DEF StoreParams, nvs, At
  <2>2. active = m.target /\ RestoredUpTo(m.flow) /\ m.val = StoredOf(m.flow) /\ ~Restored
    BY <1>2, <2>1 DEF Restores, At, Restored
  <2>3. PICK c \in Call : c = [m EXCEPT !.at = "check"]
    BY <1>1 DEF Call
  <2>4. /\ c.at = "check" /\ c.target = m.target /\ c.flow = m.flow /\ c.val = m.val
        /\ Goes("main", c)
    BY <1>1, <2>1, <2>3 DEF Call, Goto
  <2>5. all'.params = [all.params EXCEPT ![m.flow] = m.val]
    BY <1>1, <2>1
  <2>6. RestoredUpTo(c.flow + 1)' /\ c.val = StoredOf(c.flow)'
    <3>1. ASSUME NEW g \in Flow, g < m.flow + 1 PROVE all'.params[g] = StoredOf(g)
      <4>1. CASE g = m.flow
        BY <1>1, <2>2, <2>5, <4>1
      <4>2. CASE g # m.flow
        <5>1. g < m.flow
          BY <1>1, <3>1, <4>2 DEF Flow
        <5> QED BY <1>1, <2>2, <2>5, <4>2, <5>1 DEF RestoredUpTo
      <4> QED BY <4>1, <4>2
    <3> QED BY <2>1, <2>2, <2>4, <3>1, SameStore DEF RestoredUpTo
  <2>7. At("http")' = "wait" => Restores(c)'
    BY <2>1, <2>2, <2>4, <2>6 DEF Restores
  <2> QED BY <2>2, <2>4, <2>7, MainGoes
<1>8. CASE CheckActive("main")
  <2> DEFINE l == IF m.flow = all.active THEN "update" ELSE AfterSet("main")
  <2>1. Goto("main", l) /\ UNCHANGED <<active, stored, all>> /\ m.at = "check"
    BY <1>8 DEF CheckActive, nvs, shared, At
  <2>2. /\ active = m.target /\ RestoredUpTo(m.flow + 1) /\ m.val = StoredOf(m.flow)
        /\ ~Restored
    BY <1>2, <2>1 DEF Restores, At, Restored
  <2>3. \/ l \in {"update", "next"}
        \/ l = "switch" /\ m.flow + 1 = NFlows
    <3>1. ~(m.flow < NFlows - 1) => m.flow + 1 = NFlows
      BY <1>1, LastFlow
    <3> QED BY <3>1 DEF AfterSet, Restoring
  <2> HIDE DEF l
  <2>4. PICK c \in Call : c = [m EXCEPT !.at = l]
    BY <1>1, <2>3 DEF Call
  <2>5. /\ c.at = l /\ c.target = m.target /\ c.flow = m.flow /\ c.val = m.val
        /\ Goes("main", c)
    BY <1>1, <2>1, <2>4 DEF Call, Goto
  <2>6. RestoredUpTo(c.flow + 1)' /\ c.val = StoredOf(c.flow)'
    BY <2>1, <2>2, <2>5, SameStore DEF RestoredUpTo
  <2>7. At("http")' = "wait" => Restores(c)'
    BY <1>1, <2>1, <2>2, <2>3, <2>5, <2>6 DEF Restores
  <2> QED BY <2>2, <2>3, <2>5, <2>7, MainGoes
<1>9. CASE UpdateFilterParams("main") /\ m.at = "update"
  <2> DEFINE l == AfterSet("main")
  <2>1. /\ Goto("main", l) /\ UNCHANGED <<active, stored>>
        /\ all' = [active |-> m.flow, params |-> [all.params EXCEPT ![m.flow] = m.val]]
    BY <1>9 DEF UpdateFilterParams, nvs, AfterUpdate, At
  <2>2. /\ active = m.target /\ RestoredUpTo(m.flow + 1) /\ m.val = StoredOf(m.flow)
        /\ ~Restored
    BY <1>2, <1>9 DEF Restores, At, Restored
  <2>3. \/ l = "next"
        \/ l = "switch" /\ m.flow + 1 = NFlows
    <3>1. ~(m.flow < NFlows - 1) => m.flow + 1 = NFlows
      BY <1>1, LastFlow
    <3> QED BY <3>1 DEF AfterSet, Restoring
  <2> HIDE DEF l
  <2>4. PICK c \in Call : c = [m EXCEPT !.at = l]
    BY <1>1, <2>3 DEF Call
  <2>5. /\ c.at = l /\ c.target = m.target /\ c.flow = m.flow
        /\ Goes("main", c)
    BY <1>1, <2>1, <2>4 DEF Call, Goto
  <2>6. RestoredUpTo(c.flow + 1)'
    <3>1. ASSUME NEW g \in Flow, g < m.flow + 1 PROVE all'.params[g] = StoredOf(g)
      BY <1>1, <2>1, <2>2, <3>1 DEF RestoredUpTo
    <3> QED BY <2>1, <2>5, <3>1, SameStore DEF RestoredUpTo
  <2>7. At("http")' = "wait" => Restores(c)'
    BY <1>1, <2>1, <2>2, <2>3, <2>5, <2>6 DEF Restores
  <2> QED BY <2>2, <2>3, <2>5, <2>7, MainGoes
<1>10. CASE UpdateFilterParams("main") /\ m.at = "switched"
  <2>1. /\ Goto("main", "done") /\ UNCHANGED <<active, stored>>
        /\ all' = [active |-> m.flow, params |-> [all.params EXCEPT ![m.flow] = m.val]]
    BY <1>10 DEF UpdateFilterParams, nvs, AfterUpdate, Restoring, At
  <2>2. /\ m.flow = StoredFlow /\ (StoredFlow # 0 => m.val = StoredOf(m.flow))
        /\ ~Restored
    BY <1>2, <1>10 DEF Restores, At, Restored
  <2>3. PICK c \in Call : c = [m EXCEPT !.at = "done"]
    BY <1>1 DEF Call
  <2>4. c.at = "done" /\ Goes("main", c)
    BY <1>1, <2>1, <2>3 DEF Call, Goto
  <2>5. Applied'
    BY <1>1, <2>1, <2>2, SameStore DEF Applied
  <2> QED BY <2>2, <2>4, <2>5, MainGoes
<1>11. CASE SwitchFlow("main")
  <2> DEFINE f == m.target
  <2>1. /\ Goes("main", [m EXCEPT !.at = "switched", !.flow = f, !.val = all.params[f]])
        /\ all' = [all EXCEPT !.active = f] /\ UNCHANGED <<active, stored>> /\ m.at = "switch"
    BY <1>11 DEF SwitchFlow, nvs, At
  <2>2. /\ IF active = Missing THEN f = 0 ELSE active = f /\ RestoredUpTo(NFlows)
        /\ ~Restored
    BY <1>2, <2>1 DEF Restores, At, Restored
  <2>3. f = StoredFlow /\ (f # 0 => all.params[f] = StoredOf(f))
    BY <1>1, <2>2 DEF StoredFlow, RestoredUpTo, Flow
  <2>4. PICK c \in Call : c = [m EXCEPT !.at = "switched", !.flow = f, !.val = all.params[f]]
    BY <1>1 DEF Call
  <2>5. /\ c.at = "switched" /\ c.flow = f /\ c.val = all.params[f] /\ Goes("main", c)
    BY <1>1, <2>1, <2>4 DEF Call
  <2>6. all'.active = f /\ all'.params = all.params
    BY <1>1, <2>1
  <2>7. At("http")' = "wait" => Restores(c)'
    BY <2>1, <2>3, <2>5, <2>6, SameStore DEF Restores
  <2> QED BY <2>2, <2>5, <2>7, MainGoes
<1> QED
  BY <1>3, <1>4, <1>5, <1>6, <1>7, <1>8, <1>9, <1>10, <1>11
     DEF Main, Setting, UpdateFilterParams, At

\* A step of http_server_task that leaves its call at c.
LEMMA HttpGoes ==
  ASSUME TInv, Restored, NEW c \in Call, Goes("http", c),
         IF c.at = "wait" THEN Applied' ELSE c.at # "done" /\ (Restored' => Handles(c)')
  PROVE  UpToDate'
<1>1. /\ call'["main"] = call["main"] /\ call["main"].at = "done"
      /\ call'["http"].at = c.at
      /\ c.at \notin {"wait", "done"} => call'["http"] = c
  BY GoesOn DEF Restored, At
<1>2. Restores(call["main"])'
  BY <1>1 DEF Restores
<1>3. Handles(call["http"])'
  <2>1. CASE c.at = "wait"
    BY <1>1, <2>1 DEF Handles
  <2>2. CASE c.at # "wait"
    BY <1>1, <2>2 DEF Restored, At
  <2> QED BY <2>1, <2>2
<1> QED BY <1>2, <1>3 DEF UpToDate

\* What is applied stays so while nothing is stored or set.
LEMMA SameApplied ==
  ASSUME Applied, UNCHANGED <<active, stored, all>>
  PROVE  Applied'
BY SameStore DEF Applied

\* http_server_task finds the flow, stores and decides.
LEMMA StorageApplied ==
  ASSUME TInv, UpToDate, ~behind',
         (\E p \in Post : Receive(p)) \/ WhichFlow \/ SaveParam \/ Saved
           \/ ApplyIfActive
  PROVE  UpToDate'
<1> DEFINE h == call["http"]
<1>1. /\ call["http"] \in Call /\ h.flow \in Flow /\ h.target \in Flow /\ h.post \in Post
      /\ h.key \in 1..NKeys + 1 /\ h.val \in Params
      /\ all \in [active : Flow, params : [Flow -> Params]] /\ Missing \notin Flow
      /\ stored \in [Flow -> [Key -> Values \cup {Missing}]]
      /\ active \in Flow \cup {Missing} /\ 0 \in Flow
  BY DEF TInv, TypeOK, Call, Flow
<1>2. Handles(h) /\ (h.at # "wait" => Restored)
  BY DEF UpToDate, Restores, Restored, At
<1>3. ASSUME NEW p \in Post, Receive(p) PROVE UpToDate'
  <2> DEFINE l == IF p.key # 0 THEN "which" ELSE IF p.value \in Flow THEN "saveflow" ELSE "wait"
  <2>1. /\ Goes("http", [h EXCEPT !.at = l, !.post = p]) /\ h.at = "wait" /\ Restored
        /\ UNCHANGED <<active, stored, all>>
    BY <1>3 DEF Receive, FallsBehind, shared, At
  <2>2. Applied
    BY <1>2, <2>1 DEF Handles
  <2>3. /\ l \in {"which", "saveflow", "wait"} /\ (l = "which" => p.key # 0)
        /\ (l = "saveflow" => p.key = 0)
    OBVIOUS
  <2> HIDE DEF l
  <2>4. PICK c \in Call : c = [h EXCEPT !.at = l, !.post = p]
    BY <1>1, <2>3 DEF Call
  <2>5. c.at = l /\ c.post = p /\ Goes("http", c)
    BY <1>1, <2>1, <2>4 DEF Call
  <2>6. Applied'
    BY <2>1, <2>2, SameApplied
  <2>7. l # "wait" => Handles(c)'
    BY <2>3, <2>5, <2>6 DEF Handles
  <2> QED BY <2>1, <2>3, <2>5, <2>6, <2>7, HttpGoes
<1>4. CASE WhichFlow
  <2>1. PICK f \in Flow : Goes("http", [h EXCEPT !.at = "load", !.flow = f])
    BY <1>1, <1>4 DEF WhichFlow
  <2>2. /\ UNCHANGED <<active, stored, all>> /\ h.post.key # 0 /\ Restored /\ Applied
    BY <1>2, <1>4 DEF WhichFlow, Handles, nvs, shared, At
  <2>3. PICK c \in Call : c = [h EXCEPT !.at = "load", !.flow = f]
    BY <1>1 DEF Call
  <2>4. c.at = "load" /\ c.flow = f /\ c.post.key # 0 /\ Goes("http", c)
    BY <1>1, <2>1, <2>2, <2>3 DEF Call
  <2>5. Applied' /\ all'.active = StoredFlow'
    BY <2>2, SameApplied, SameStore DEF Applied
  <2>6. Handles(c)'
    BY <2>4, <2>5 DEF Handles
  <2> QED BY <2>2, <2>4, <2>6, HttpGoes
<1>6. CASE SaveParam
  <2> DEFINE f == h.flow
             k == h.key
  <2>1. PICK set \in BOOLEAN, committed \in BOOLEAN :
          /\ stored' = IF set THEN [stored EXCEPT ![f][k] = h.val[k]] ELSE stored
          /\ Goes("http", [h EXCEPT !.key = k + 1, !.saved = @ /\ set /\ committed])
    BY <1>6 DEF SaveParam
  <2>2. UNCHANGED <<active, all>> /\ h.at = "save" /\ k \in Key
    BY <1>6 DEF SaveParam, shared, At
  <2>3. /\ all.active = StoredFlow /\ (f = StoredFlow \/ Applied) /\ h.post.key # 0 /\ Restored
        /\ h.saved => \A j \in Key : j < k => stored[f][j] = h.val[j]
    BY <1>2, <2>2 DEF Handles
  <2>4. k + 1 \in 1..NKeys + 1 /\ StoredFlow' = StoredFlow
    BY <1>1, <2>2 DEF Key, StoredFlow
  <2> DEFINE s == h.saved /\ set /\ committed
  <2>5. PICK c \in Call : c = [h EXCEPT !.key = k + 1, !.saved = @ /\ set /\ committed]
    BY <1>1, <2>4 DEF Call
  <2>6. /\ c.at = "save" /\ c.flow = f /\ c.key = k + 1 /\ c.post = h.post
        /\ c.saved <=> (h.saved /\ set /\ committed)
        /\ c.val = h.val /\ Goes("http", c)
    BY <1>1, <2>1, <2>2, <2>5 DEF Call
  <2>7. ASSUME c.saved, NEW j \in Key, j < c.key PROVE stored'[c.flow][j] = c.val[j]
    <3>1. j < k \/ j = k
      BY <1>1, <2>6, <2>7 DEF Key
    <3>2. stored'[f][j] = IF j = k THEN h.val[k] ELSE stored[f][j]
      BY <1>1, <2>1, <2>6, <2>7
    <3> QED BY <2>3, <2>6, <2>7, <3>1, <3>2
  <2>8. f = StoredFlow \/ Applied'
    <3>1. ASSUME f # StoredFlow PROVE StoredOf(StoredFlow)' = StoredOf(StoredFlow)
      <4>1. stored'[StoredFlow] = stored[StoredFlow]
        BY <1>1, <2>1, <3>1
      <4> QED BY <2>4, <4>1 DEF StoredOf, StoredOr
    <3> QED BY <2>2, <2>3, <2>4, <3>1 DEF Applied
  <2>9. Handles(c)'
    BY <2>2, <2>3, <2>4, <2>6, <2>7, <2>8 DEF Handles
  <2> QED BY <2>3, <2>6, <2>9, HttpGoes
<1>7. CASE Saved
  <2>1. /\ Goto("http", IF h.saved THEN "apply" ELSE "wait")
        /\ UNCHANGED <<active, stored, all>> /\ h.at = "save" /\ h.key \notin Key /\ h.saved
    BY <1>7 DEF Saved, FallsBehind, shared, At
  <2>2. /\ all.active = StoredFlow /\ (h.flow = StoredFlow \/ Applied) /\ h.post.key # 0
        /\ Restored /\ \A j \in Key : j < h.key => stored[h.flow][j] = h.val[j]
        /\ h.val \in [Key -> Values]
    BY <1>2, <2>1 DEF Handles, TInv, Sound, At
  <2>3. h.val = StoredOf(h.flow)
    BY <1>1, <2>1, <2>2, SavedAll
  <2>4. PICK c \in Call : c = [h EXCEPT !.at = "apply"]
    BY <1>1 DEF Call
  <2>5. /\ c.at = "apply" /\ c.flow = h.flow /\ c.post = h.post
        /\ c.val = h.val /\ Goes("http", c)
    BY <1>1, <2>1, <2>4 DEF Call, Goto
  <2>6. /\ StoredFlow' = StoredFlow /\ c.val = StoredOf(c.flow)'
        /\ h.flow = StoredFlow \/ Applied'
    BY <2>1, <2>2, <2>3, <2>5, SameStore, SameApplied
  <2>7. Handles(c)'
    BY <2>1, <2>2, <2>5, <2>6 DEF Handles
  <2> QED BY <2>2, <2>5, <2>7, HttpGoes
<1>8. CASE ApplyIfActive
  <2>1. /\ Goto("http", IF active = h.flow THEN "store" ELSE "wait")
        /\ UNCHANGED <<active, stored, all>> /\ h.at = "apply"
    BY <1>8 DEF ApplyIfActive, FallsBehind, shared, At
  <2>2. /\ all.active = StoredFlow /\ (h.flow = StoredFlow \/ Applied) /\ h.post.key # 0
        /\ h.val = StoredOf(h.flow) /\ Restored
    BY <1>2, <2>1 DEF Handles
  <2>3. CASE active = h.flow
    <3>1. PICK c \in Call : c = [h EXCEPT !.at = "store"]
      BY <1>1 DEF Call
    <3>2. /\ c.at = "store" /\ c.flow = h.flow /\ c.post = h.post
          /\ c.val = h.val /\ Goes("http", c)
      BY <1>1, <2>1, <2>3, <3>1 DEF Call, Goto
    <3>3. /\ StoredFlow' = StoredFlow /\ c.val = StoredOf(c.flow)'
          /\ c.flow = StoredFlow
      BY <1>1, <2>1, <2>2, <2>3, <3>2, SameStore DEF StoredFlow
    <3>4. Handles(c)'
      BY <2>1, <2>2, <3>2, <3>3 DEF Handles
    <3> QED BY <2>2, <3>2, <3>4, HttpGoes
  <2>4. CASE active # h.flow
    <3>1. PICK c \in Call : c = [h EXCEPT !.at = "wait"]
      BY <1>1 DEF Call
    <3>2. c.at = "wait" /\ Goes("http", c)
      BY <1>1, <2>1, <2>4, <3>1 DEF Call, Goto
    <3>3. Applied
      BY <2>2, <2>4 DEF StoredFlow, Applied
    <3>4. Applied'
      BY <2>1, <3>3, SameApplied
    <3> QED BY <2>2, <3>2, <3>4, HttpGoes
  <2> QED BY <2>3, <2>4
<1> QED BY <1>3, <1>4, <1>6, <1>7, <1>8

\* A flow that is stored and committed is loaded next, whatever was before; one
\* that NVS refused changes nothing.
LEMMA SaveFlowApplied ==
  ASSUME TInv, Starts(call["http"]), behind \/ UpToDate, ~behind', SaveFlow
  PROVE  UpToDate'
<1> DEFINE h == call["http"]
           f == h.post.value
<1>1. /\ call["http"] \in Call /\ f \in Flow /\ h.at = "saveflow" /\ h.key = 1 /\ h.post.key = 0
      /\ UNCHANGED <<stored, all>>
  BY DEF TInv, TypeOK, Sound, SaveFlow, Starts, shared, At
<1>2. PICK set \in BOOLEAN, committed \in BOOLEAN :
        /\ active' = IF set THEN f ELSE active
        /\ behind' = IF set /\ committed THEN ~Restored ELSE behind \/ set
        /\ Goes("http", [h EXCEPT !.at = IF set /\ committed THEN "load" ELSE "wait",
                                  !.flow = f, !.target = f])
  BY DEF SaveFlow
<1>3. CASE set /\ committed
  <2>1. Restored /\ active' = f /\ Goes("http", [h EXCEPT !.at = "load", !.flow = f, !.target = f])
    BY <1>2, <1>3
  <2>2. PICK c \in Call : c = [h EXCEPT !.at = "load", !.flow = f, !.target = f]
    BY <1>1 DEF Call
  <2>3. /\ c.at = "load" /\ c.flow = f /\ c.target = f /\ c.key = 1 /\ c.post.key = 0
        /\ Goes("http", c)
    BY <1>1, <2>1, <2>2 DEF Call
  <2>4. Read(c)'
    BY <2>3 DEF Read, Key
  <2>5. Handles(c)'
    BY <2>1, <2>3, <2>4 DEF Handles
  <2> QED BY <2>1, <2>3, <2>5, HttpGoes
<1>4. CASE ~(set /\ committed)
  <2>1. /\ ~behind /\ active' = active
        /\ Goes("http", [h EXCEPT !.at = "wait", !.flow = f, !.target = f])
    BY <1>2, <1>4
  <2>2. Restored /\ Applied
    BY <1>1, <2>1 DEF UpToDate, Restores, Handles, Restored, At
  <2>3. PICK c \in Call : c = [h EXCEPT !.at = "wait", !.flow = f, !.target = f]
    BY <1>1 DEF Call
  <2>4. c.at = "wait" /\ Goes("http", c)
    BY <1>1, <2>1, <2>3 DEF Call
  <2>5. Applied'
    BY <1>1, <2>1, <2>2, SameApplied
  <2> QED BY <2>2, <2>4, <2>5, HttpGoes
<1> QED BY <1>3, <1>4

\* http_server_task loads and sets what it stored.
LEMMA HttpApplied ==
  ASSUME TInv, UpToDate, ~behind', Setting("http")
  PROVE  UpToDate'
<1> DEFINE h == call["http"]
<1>1. /\ call["http"] \in Call /\ h.flow \in Flow /\ h.target \in Flow /\ h.post \in Post
      /\ h.key \in 1..NKeys + 1 /\ h.val \in Params
      /\ all \in [active : Flow, params : [Flow -> Params]] /\ Missing \notin Flow
      /\ stored \in [Flow -> [Key -> Values \cup {Missing}]]
      /\ active \in Flow \cup {Missing} /\ 0 \in Flow
  BY DEF TInv, TypeOK, Call, Flow
<1>2. Handles(h) /\ Restored
  BY DEF Setting, StoreParams, CheckActive, UpdateFilterParams, SwitchFlow, LoadParam, Loaded,
         UpToDate, Restores, Restored, At
<1>3. CASE LoadParam("http")
  <2>1. PICK fails \in BOOLEAN :
          /\ FallsBehind(fails /\ (Restoring("http") \/ Switching("http")))
          /\ Goes("http", [h EXCEPT
                             !.val[h.key] = IF fails THEN Default ELSE StoredOr(h.flow, h.key),
                             !.key = h.key + 1])
    BY <1>3 DEF LoadParam
  <2> DEFINE v == IF fails THEN Default ELSE StoredOr(h.flow, h.key)
             w == [h.val EXCEPT ![h.key] = v]
  <2>2. /\ UNCHANGED <<active, stored, all>> /\ h.at = "load" /\ h.key \in Key
        /\ h.post.key = 0 => v = StoredOr(h.flow, h.key)
    BY <1>3, <2>1 DEF LoadParam, FallsBehind, Switching, shared, At
  <2>3. /\ h.post.key = 0 => Read(h) /\ active = h.flow /\ active = h.target
        /\ h.post.key # 0 => all.active = StoredFlow /\ (h.flow = StoredFlow \/ Applied)
        /\ h.val \in [Key -> Values]
    BY <1>2, <2>2 DEF Handles, TInv, Sound, At
  <2>4. h.key + 1 \in 1..NKeys + 1 /\ v \in Values
    BY <1>1, <2>2 DEF Key, StoredOr
  <2>5. Goes("http", [h EXCEPT !.val = w, !.key = h.key + 1])
    <3>1. [h EXCEPT !.val[h.key] = v, !.key = h.key + 1] = [h EXCEPT !.val = w, !.key = h.key + 1]
      BY <1>1 DEF Call
    <3> QED BY <2>1, <3>1
  <2> HIDE DEF v
  <2>6. w \in Params
    BY <2>2, <2>3, <2>4 DEF Params, Value
  <2>7. \A k \in Key : w[k] = IF k = h.key THEN v ELSE h.val[k]
    BY <2>3
  <2> HIDE DEF w
  <2>8. PICK c \in Call : c = [h EXCEPT !.val = w, !.key = h.key + 1]
    BY <1>1, <2>4, <2>6 DEF Call
  <2>9. /\ c.at = "load" /\ c.target = h.target /\ c.flow = h.flow /\ c.key = h.key + 1
        /\ c.post = h.post /\ c.val = w /\ Goes("http", c)
    BY <1>1, <2>2, <2>5, <2>8 DEF Call
  <2>10. h.post.key = 0 => Read(c)'
    <3>1. ASSUME h.post.key = 0, NEW k \in Key, k < c.key PROVE c.val[k] = StoredOr(c.flow, k)'
      <4>1. k = h.key \/ k < h.key
        BY <1>1, <2>9, <3>1 DEF Key
      <4>2. StoredOr(c.flow, k)' = StoredOr(h.flow, k)
        BY <2>2, <2>9, SameStore
      <4> QED BY <2>2, <2>3, <2>7, <2>9, <3>1, <4>1, <4>2 DEF Read
    <3> QED BY <3>1 DEF Read
  <2>11. /\ h.post.key = 0 => active' = c.flow /\ active' = c.target
         /\ h.post.key # 0 => all'.active = StoredFlow' /\ (c.flow = StoredFlow' \/ Applied')
    BY <2>2, <2>3, <2>9, SameStore, SameApplied
  <2>12. Handles(c)'
    BY <2>9, <2>10, <2>11 DEF Handles
  <2> QED BY <1>2, <2>9, <2>12, HttpGoes
<1>4. CASE Loaded("http") /\ h.post.key = 0
  <2>1. /\ Goto("http", "store")
        /\ UNCHANGED <<active, stored, all>> /\ h.at = "load" /\ h.key \notin Key
    BY <1>4 DEF Loaded, Switching, nvs, shared, At
  <2>2. Read(h) /\ active = h.flow /\ active = h.target /\ h.val \in [Key -> Values]
    BY <1>2, <1>4, <2>1 DEF Handles, TInv, Sound, At
  <2>3. h.val = StoredOf(h.flow)
    BY <1>1, <2>1, <2>2, ReadAll
  <2>4. PICK c \in Call : c = [h EXCEPT !.at = "store"]
    BY <1>1 DEF Call
  <2>5. /\ c.at = "store" /\ c.flow = h.flow /\ c.target = h.target /\ c.post = h.post
        /\ c.val = h.val /\ Goes("http", c)
    BY <1>1, <2>1, <2>4 DEF Call, Goto
  <2>6. c.val = StoredOf(c.flow)'
    BY <2>1, <2>3, <2>5, SameStore
  <2>7. Handles(c)'
    BY <1>4, <2>1, <2>2, <2>5, <2>6 DEF Handles
  <2> QED BY <1>2, <2>5, <2>7, HttpGoes
<1>5. CASE Loaded("http") /\ h.post.key # 0
  <2> DEFINE p == h.post
             w == [h.val EXCEPT ![p.key] = p.value]
  <2>1. /\ Goes("http", [h EXCEPT !.at = "save", !.val[p.key] = p.value, !.key = 1])
        /\ UNCHANGED <<active, stored, all>> /\ h.at = "load" /\ h.key \notin Key
    BY <1>5 DEF Loaded, Switching, Restoring, nvs, shared, At
  <2>2. /\ all.active = StoredFlow /\ (h.flow = StoredFlow \/ Applied)
        /\ h.val \in [Key -> Values]
    BY <1>2, <1>5, <2>1 DEF Handles, TInv, Sound, At
  <2>3. p.key \in Key /\ p.value \in Values /\ 1 \in 1..NKeys + 1
    BY <1>1, <1>5 DEF Post
  <2>4. w \in Params
    BY <2>2, <2>3 DEF Params, Value
  <2>5. PICK c \in Call : c = [h EXCEPT !.at = "save", !.val[p.key] = p.value, !.key = 1]
    <3>1. [h EXCEPT !.at = "save", !.val[p.key] = p.value, !.key = 1]
            = [h EXCEPT !.at = "save", !.val = w, !.key = 1]
      BY <1>1 DEF Call
    <3> HIDE DEF w
    <3> QED BY <1>1, <2>3, <2>4, <3>1 DEF Call
  <2>6. /\ c.at = "save" /\ c.flow = h.flow /\ c.key = 1 /\ c.post = h.post
        /\ Goes("http", c)
    BY <1>1, <2>1, <2>5 DEF Call
  <2>7. /\ StoredFlow' = StoredFlow /\ \A j \in Key : ~(j < c.key)
        /\ h.flow = StoredFlow \/ Applied'
    BY <2>1, <2>2, <2>6, SameStore, SameApplied DEF Key
  <2>8. Handles(c)'
    BY <1>5, <2>1, <2>2, <2>6, <2>7 DEF Handles
  <2> QED BY <1>2, <2>6, <2>8, HttpGoes
<1>6. CASE StoreParams("http")
  <2>1. /\ Goto("http", "check") /\ all' = [all EXCEPT !.params[h.flow] = h.val]
        /\ UNCHANGED <<active, stored>> /\ h.at = "store"
    BY <1>6 DEF StoreParams, nvs, At
  <2>2. /\ IF h.post.key = 0 THEN active = h.flow /\ active = h.target
           ELSE h.flow = StoredFlow /\ all.active = StoredFlow
        /\ h.val = StoredOf(h.flow)
    BY <1>2, <2>1 DEF Handles
  <2>3. PICK c \in Call : c = [h EXCEPT !.at = "check"]
    BY <1>1 DEF Call
  <2>4. /\ c.at = "check" /\ c.flow = h.flow /\ c.target = h.target /\ c.post = h.post
        /\ c.val = h.val /\ Goes("http", c)
    BY <1>1, <2>1, <2>3 DEF Call, Goto
  <2>5. all'.params[c.flow] = c.val /\ all'.active = all.active
    BY <1>1, <2>1, <2>4
  <2>6. c.val = StoredOf(c.flow)' /\ StoredFlow' = StoredFlow
    BY <2>1, <2>2, <2>4, SameStore
  <2>7. Handles(c)'
    BY <2>1, <2>2, <2>4, <2>5, <2>6 DEF Handles
  <2> QED BY <1>2, <2>4, <2>7, HttpGoes
<1>7. CASE CheckActive("http")
  <2> DEFINE l == IF h.flow = all.active THEN "update" ELSE AfterSet("http")
  <2>1. Goto("http", l) /\ UNCHANGED <<active, stored, all>> /\ h.at = "check"
    BY <1>7 DEF CheckActive, nvs, shared, At
  <2>2. /\ IF h.post.key = 0 THEN active = h.flow /\ active = h.target
           ELSE h.flow = StoredFlow /\ all.active = StoredFlow
        /\ h.val = StoredOf(h.flow) /\ all.params[h.flow] = h.val
    BY <1>2, <2>1 DEF Handles
  <2>3. l = "update" \/ (l = "switch" /\ h.post.key = 0)
    BY <2>2 DEF AfterSet, Restoring, Switching
  <2> HIDE DEF l
  <2>4. PICK c \in Call : c = [h EXCEPT !.at = l]
    BY <1>1, <2>3 DEF Call
  <2>5. /\ c.at = l /\ c.flow = h.flow /\ c.target = h.target /\ c.post = h.post
        /\ c.val = h.val /\ Goes("http", c)
    BY <1>1, <2>1, <2>4 DEF Call, Goto
  <2>6. /\ c.val = StoredOf(c.flow)' /\ StoredFlow' = StoredFlow
        /\ h.post.key = 0 => all'.params[c.target] = StoredOf(c.target)'
    BY <2>1, <2>2, <2>5, SameStore
  <2>7. Handles(c)'
    BY <2>1, <2>2, <2>3, <2>5, <2>6 DEF Handles
  <2> QED BY <1>2, <2>3, <2>5, <2>7, HttpGoes
<1>8. CASE UpdateFilterParams("http") /\ h.at = "update"
  <2> DEFINE l == AfterSet("http")
  <2>1. /\ Goto("http", l) /\ UNCHANGED <<active, stored>>
        /\ all' = [active |-> h.flow, params |-> [all.params EXCEPT ![h.flow] = h.val]]
    BY <1>8 DEF UpdateFilterParams, nvs, AfterUpdate, At
  <2>2. /\ IF h.post.key = 0 THEN active = h.flow /\ active = h.target
           ELSE h.flow = StoredFlow /\ all.active = StoredFlow
        /\ h.val = StoredOf(h.flow)
    BY <1>2, <1>8 DEF Handles
  <2>3. l = IF h.post.key = 0 THEN "switch" ELSE "wait"
    BY DEF AfterSet, Restoring, Switching
  <2> HIDE DEF l
  <2>4. PICK c \in Call : c = [h EXCEPT !.at = l]
    BY <1>1, <2>3 DEF Call
  <2>5. /\ c.at = l /\ c.flow = h.flow /\ c.target = h.target /\ c.post = h.post
        /\ c.val = h.val /\ Goes("http", c)
    BY <1>1, <2>1, <2>4 DEF Call, Goto
  <2>6. all'.active = h.flow /\ all'.params[h.flow] = StoredOf(h.flow)
    BY <1>1, <2>1, <2>2
  <2>7. CASE h.post.key = 0
    <3>1. active' = c.target /\ all'.params[c.target] = StoredOf(c.target)'
      BY <2>1, <2>2, <2>5, <2>6, <2>7, SameStore
    <3>2. Handles(c)'
      BY <2>3, <2>5, <2>7, <3>1 DEF Handles
    <3> QED BY <1>2, <2>3, <2>5, <2>7, <3>2, HttpGoes
  <2>8. CASE h.post.key # 0
    <3>1. Applied'
      BY <2>1, <2>2, <2>6, <2>8, SameStore DEF Applied
    <3> QED BY <1>2, <2>3, <2>5, <2>8, <3>1, HttpGoes
  <2> QED BY <2>7, <2>8
<1>9. CASE UpdateFilterParams("http") /\ h.at = "switched"
  <2>1. /\ Goto("http", "wait") /\ UNCHANGED <<active, stored>>
        /\ all' = [active |-> h.flow, params |-> [all.params EXCEPT ![h.flow] = h.val]]
    BY <1>9 DEF UpdateFilterParams, nvs, AfterUpdate, Restoring, At
  <2>2. active = h.flow /\ h.val = StoredOf(h.flow)
    BY <1>2, <1>9 DEF Handles
  <2>3. PICK c \in Call : c = [h EXCEPT !.at = "wait"]
    BY <1>1 DEF Call
  <2>4. c.at = "wait" /\ Goes("http", c)
    BY <1>1, <2>1, <2>3 DEF Call, Goto
  <2>5. StoredFlow = h.flow /\ all'.active = h.flow /\ all'.params[h.flow] = StoredOf(h.flow)
    BY <1>1, <2>1, <2>2 DEF StoredFlow
  <2>6. Applied'
    BY <2>1, <2>5, SameStore DEF Applied
  <2> QED BY <1>2, <2>4, <2>6, HttpGoes
<1>10. CASE SwitchFlow("http")
  <2> DEFINE f == h.target
  <2>1. /\ Goes("http", [h EXCEPT !.at = "switched", !.flow = f, !.val = all.params[f]])
        /\ all' = [all EXCEPT !.active = f] /\ UNCHANGED <<active, stored>> /\ h.at = "switch"
    BY <1>10 DEF SwitchFlow, nvs, At
  <2>2. active = f /\ all.params[f] = StoredOf(f) /\ h.post.key = 0
    BY <1>2, <2>1 DEF Handles
  <2>3. PICK c \in Call : c = [h EXCEPT !.at = "switched", !.flow = f, !.val = all.params[f]]
    BY <1>1 DEF Call
  <2>4. /\ c.at = "switched" /\ c.flow = f /\ c.val = all.params[f] /\ c.post = h.post
        /\ Goes("http", c)
    BY <1>1, <2>1, <2>3 DEF Call
  <2>5. all'.active = f /\ c.val = StoredOf(c.flow)'
    BY <1>1, <2>1, <2>2, <2>4, SameStore
  <2>6. Handles(c)'
    BY <2>1, <2>2, <2>4, <2>5 DEF Handles
  <2> QED BY <1>2, <2>4, <2>6, HttpGoes
<1> QED
  BY <1>3, <1>4, <1>5, <1>6, <1>7, <1>8, <1>9, <1>10 DEF Setting, UpdateFilterParams, At

LEMMA StartsKept ==
  ASSUME TInv, Starts(call["http"]), [Next]_vars
  PROVE  Starts(call["http"])'
<1>1. call["http"] \in Call /\ call["http"].post \in Post
  BY DEF TInv, TypeOK, Call
<1>2. ASSUME NEW c, Goes("http", c), c.at # "saveflow" PROVE Starts(call["http"])'
  <2>1. call'["http"] = IF c.at \in {"wait", "done"} THEN [NoCall EXCEPT !.at = c.at] ELSE c
    BY <1>2 DEF Goes, TInv, TypeOK
  <2>2. [NoCall EXCEPT !.at = c.at].key = 1 /\ [NoCall EXCEPT !.at = c.at].at = c.at
    BY DEF NoCall
  <2> QED BY <1>2, <2>1, <2>2 DEF Starts
<1>3. ASSUME NEW l, Goto("http", l), l # "saveflow" PROVE Starts(call["http"])'
  <2>1. [call["http"] EXCEPT !.at = l].at = l
    BY <1>1 DEF Call
  <2> QED BY <1>2, <1>3, <2>1 DEF Goto
<1>4. CASE Main
  <2>1. call'["http"] = call["http"]
    BY <1>4, GoesAlone, GotoAlone
       DEF Main, Setting, StoreParams, CheckActive, UpdateFilterParams, SwitchFlow, LoadParam,
           Loaded, LoadActive, NextFlow
  <2> QED BY <2>1
<1>5. CASE Worker \/ UNCHANGED vars
  <2>1. call' = call
    BY <1>5 DEF Worker, Chunk, FirstFlow, FirstParams, TakeSignal, CopyParams, BuildFilter, vars
  <2> QED BY <2>1
<1>6. CASE StoreParams("http") \/ CheckActive("http") \/ UpdateFilterParams("http")
             \/ Saved \/ ApplyIfActive
  <2>1. PICK l : Goto("http", l) /\ l # "saveflow"
    BY <1>6 DEF StoreParams, CheckActive, UpdateFilterParams, Saved, ApplyIfActive, AfterSet,
                AfterUpdate, Restoring
  <2> QED BY <1>3, <2>1
<1>7. CASE Loaded("http")
  <2> DEFINE p == call["http"].post
             c == [call["http"] EXCEPT !.at = "save", !.val[p.key] = p.value, !.key = 1]
  <2>1. c.at = "save"
    BY <1>1 DEF Call
  <2>2. Goto("http", "store") \/ Goes("http", c)
    BY <1>7 DEF Loaded
  <2> HIDE DEF c
  <2> QED BY <1>2, <1>3, <2>1, <2>2
<1>9. CASE SwitchFlow("http")
  <2> DEFINE f == call["http"].target
             c == [call["http"] EXCEPT !.at = "switched", !.flow = f, !.val = all.params[f]]
  <2>1. c.at = "switched" /\ Goes("http", c)
    BY <1>1, <1>9 DEF SwitchFlow, Call
  <2> HIDE DEF c
  <2> QED BY <1>2, <2>1
<1>10. CASE LoadParam("http")
  <2>1. PICK v : Goes("http", [call["http"] EXCEPT !.val[call["http"].key] = v,
                                                 !.key = call["http"].key + 1])
    BY <1>10 DEF LoadParam
  <2> DEFINE c == [call["http"] EXCEPT !.val[call["http"].key] = v, !.key = call["http"].key + 1]
  <2>2. c.at = "load" /\ Goes("http", c)
    BY <1>1, <1>10, <2>1 DEF LoadParam, Call, At
  <2> HIDE DEF c
  <2> QED BY <1>2, <2>2
<1>11. CASE SaveFlow
  <2> DEFINE f == call["http"].post.value
  <2>1. PICK l \in {"load", "wait"} : Goes("http", [call["http"] EXCEPT !.at = l, !.flow = f,
                                                                       !.target = f])
    BY <1>11 DEF SaveFlow
  <2> DEFINE c == [call["http"] EXCEPT !.at = l, !.flow = f, !.target = f]
  <2>2. c.at = l /\ Goes("http", c)
    BY <1>1, <2>1 DEF Call
  <2> HIDE DEF c
  <2> QED BY <1>2, <2>1, <2>2
<1>12. CASE WhichFlow
  <2>1. PICK f : Goes("http", [call["http"] EXCEPT !.at = "load", !.flow = f])
    BY <1>12 DEF WhichFlow
  <2> DEFINE c == [call["http"] EXCEPT !.at = "load", !.flow = f]
  <2>2. c.at = "load" /\ Goes("http", c)
    BY <1>1, <2>1 DEF Call
  <2> HIDE DEF c
  <2> QED BY <1>2, <2>2
<1>13. CASE SaveParam
  <2>1. PICK set \in BOOLEAN, committed \in BOOLEAN :
          Goes("http", [call["http"] EXCEPT !.key = call["http"].key + 1,
                                            !.saved = @ /\ set /\ committed])
    BY <1>13 DEF SaveParam
  <2> DEFINE c == [call["http"] EXCEPT !.key = call["http"].key + 1,
                                      !.saved = @ /\ set /\ committed]
  <2>2. c.at = "save" /\ Goes("http", c)
    BY <1>1, <1>13, <2>1 DEF SaveParam, Call, At
  <2> HIDE DEF c
  <2> QED BY <1>2, <2>2
<1>8. ASSUME NEW p \in Post, Receive(p) PROVE Starts(call["http"])'
  <2> DEFINE l == IF p.key # 0 THEN "which" ELSE IF p.value \in Flow THEN "saveflow" ELSE "wait"
             c == [call["http"] EXCEPT !.at = l, !.post = p]
  <2>1. Goes("http", c) /\ call["http"].key = 1 /\ (l = "saveflow" => p.key = 0)
    BY <1>8 DEF Receive, Starts, At
  <2> HIDE DEF l
  <2>2. c.at = l /\ c.key = 1 /\ c.post = p
    BY <1>1, <2>1 DEF Call
  <2> HIDE DEF c
  <2>3. CASE c.at # "saveflow"
    BY <1>2, <2>1, <2>3
  <2>4. CASE c.at = "saveflow"
    <3>1. call'["http"] = c
      BY <2>1, <2>4, GoesAlone
    <3> QED BY <2>1, <2>2, <2>4, <3>1 DEF Starts
  <2> QED BY <2>3, <2>4
<1> QED BY <1>4, <1>5, <1>6, <1>7, <1>8, <1>9, <1>10, <1>11, <1>12, <1>13 DEF Next, Http, Setting

LEMMA NextApplied == AInv /\ [Next]_vars => AInv'
<1> SUFFICES ASSUME TInv, Starts(call["http"]), behind \/ UpToDate, [Next]_vars, ~behind'
             PROVE  UpToDate'
  BY NextTypesKept, StartsKept DEF AInv
<1>1. CASE SaveFlow
  BY <1>1, SaveFlowApplied
<1>2. ~SaveFlow => ~behind
  BY DEF Next, Main, Http, Worker, Setting, StoreParams, CheckActive, UpdateFilterParams,
       SwitchFlow, LoadParam, Loaded, LoadActive, NextFlow, WhichFlow, SaveParam,
       Saved, ApplyIfActive, Receive, Chunk, FirstFlow, FirstParams, TakeSignal, CopyParams,
       BuildFilter, FallsBehind, nvs, vars
<1>3. CASE Main
  BY <1>1, <1>2, <1>3, MainApplied
<1>4. CASE Http \/ \E p \in Post : Receive(p)
  BY <1>1, <1>2, <1>4, HttpApplied, StorageApplied DEF Http
<1>5. CASE ~SaveFlow /\ (Worker \/ UNCHANGED vars)
  <2>1. UNCHANGED <<active, stored, call, all>>
    BY <1>5 DEF Worker, Chunk, FirstFlow, FirstParams, TakeSignal, CopyParams, BuildFilter,
         nvs, shared, vars
  <2>2. UpToDate
    BY <1>2, <1>5
  <2>3. Restores(call["main"])'
    BY <2>1, <2>2, SameStore DEF UpToDate, Restores, Read, RestoredUpTo, At
  <2>4. Handles(call["http"])'
    BY <2>1, <2>2, SameStore, SameApplied DEF UpToDate, Handles, Read, Restored, At
  <2> QED BY <2>3, <2>4 DEF UpToDate
<1> QED BY <1>1, <1>3, <1>4, <1>5 DEF Next

\* What StoredIsApplied says, for every number of flows, parameters and values:
\* with no request under way, and none of the four failures it names since a
\* request last stored and loaded a flow, the processor runs what is stored.
\* Every other failure is there: a flow that NVS refuses, an active flow or
\* parameters that cannot be read for a request (dsp_processor_settings.c:48,
\* 582-653).
THEOREM StoredAlwaysApplied == Spec => []StoredIsApplied
<1>1. Init => AInv
  <2> SUFFICES ASSUME Init PROVE AInv
    OBVIOUS
  <2>1. /\ call["main"] = [NoCall EXCEPT !.at = "active"] /\ call["http"] = NoCall
    BY NoCallTypes DEF Init
  <2>2. /\ call["main"].at = "active" /\ call["main"].flow = 0 /\ call["main"].key = 1
        /\ call["main"].target = 0
        /\ call["http"].at = "wait" /\ call["http"].key = 1
    BY <2>1 DEF NoCall
  <2>3. Restores(call["main"])
    BY <2>2 DEF Restores, At
  <2>4. Handles(call["http"])
    BY <2>2 DEF Handles, Restored, At
  <2>5. Starts(call["http"])
    BY <2>2 DEF Starts
  <2> QED BY <2>3, <2>4, <2>5, InitTypes DEF AInv, UpToDate
<1>2. AInv => StoredIsApplied
  BY DEF AInv, StoredIsApplied, UpToDate, Handles, Applied, At, StoredOf, StoredParams
<1> QED BY <1>1, <1>2, NextApplied, PTL DEF Spec

-----------------------------------------------------------------------------
(* The abstract specification                                                *)

\* Every step asks for parameters, takes the latest ones, delivers those taken
\* or is none of LatestValue's: the filter skips changes but never goes back.
THEOREM DspRefinesLatest == Spec => Filter!Init /\ [][Filter!Next]_(Filter!vars)
<1> USE DEF Filter!vars, Filter!Next, Filter!Ask, Filter!Take, Filter!Deliver
<1>1. Init => Filter!Init
  BY DEF Init, Filter!Init, Announced, OwnDefaults
<1>2. ASSUME TInv, [Next]_vars PROVE [Filter!Next]_(Filter!vars)
  <2>1. TInv'
    BY <1>2, NextTypesKept
  <2>2. Announced' \in Chosen
    BY <2>1 DEF TInv, TypeOK, Announced, ActiveParams, Chosen
  <2>3. CASE worker' = worker
    BY <2>2, <2>3 DEF worker
  <2>4. CASE Worker
    BY <2>2, <2>4, WorkerTakes
       DEF Worker, Chunk, FirstFlow, FirstParams, TakeSignal, CopyParams, BuildFilter, Announced
  <2>5. Worker \/ worker' = worker
    <3>1. ASSUME NEW w \in Task, Setting(w) PROVE worker' = worker
      BY <3>1 DEF Setting, StoreParams, CheckActive, UpdateFilterParams, SwitchFlow, LoadParam,
                  Loaded
    <3> QED BY <1>2, <3>1 DEF Next, vars, Main, Http, Receive, LoadActive, NextFlow, SaveFlow,
                              WhichFlow, SaveParam, Saved, ApplyIfActive
  <2> QED BY <2>3, <2>4, <2>5
<1> QED BY <1>1, <1>2, InitTypes, NextTypesKept, PTL DEF Spec
=============================================================================
