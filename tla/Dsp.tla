---------------------------------- MODULE Dsp ----------------------------------
(***************************************************************************)
(* The equaliser's parameters on their way from the web interface to the   *)
(* filter (dsp_processor.c, dsp_processor_settings.c, http_server_task):    *)
(* a request is queued, stored in NVS value by value, put into all_params  *)
(* under a mutex and announced by a binary semaphore; http_get_task, which *)
(* filters the chunks, copies the active flow's parameters and builds its   *)
(* filter anew.  app_main restores what is stored, through the same calls.  *)
(*                                                                         *)
(* A behaviour is one run of the chip, from whatever NVS was left with.     *)
(* A failed allocation of the filter resets the chip (filter[0] of NULL)    *)
(* and is left out, and so is what the filters compute.                     *)
(***************************************************************************)
EXTENDS Integers

CONSTANTS
  NFlows,      \* DSP_FLOW_COUNT; flow 0 is dspfStereo
  NKeys,       \* the parameters of a flow: fc_1, gain_1, fc_3, gain_3
  Values,      \* what the web interface sends and NVS holds
  Default,     \* one of them: DSP_BASS_FREQ_DEFAULT and so on, by parameter not by flow
  Own,         \* the defaults dsp_processor_init gives each flow
  Missing      \* ESP_ERR_NVS_NOT_FOUND

ASSUME DspAssumption ==
  /\ NFlows \in Nat \ {0} /\ NKeys \in Nat \ {0}
  /\ Default \in Values /\ Missing \notin Values \cup {Own} /\ Missing \notin Int

Flow   == 0..NFlows - 1
Key    == 1..NKeys
Task   == {"main", "http"}
Value  == Values \cup {Own}
Params == [Key -> Value]
Chosen == [flow : Flow, params : Params]  \* filterParams_t

\* Requests: another flow, valid or not, or a parameter of the active one.
Post == [key : {0}, value : 0..NFlows] \cup [key : Key, value : Values]

VARIABLES
  active,   \* NVS: active_flow
  stored,   \* NVS: flow_<f>_<key>
  behind,   \* history: the processor may not run what is stored
  call,     \* what app_main and http_server_task are at
  all,      \* all_params
  signal,   \* paramsChangedSemaphoreHandle is available
  wpc,      \* where the worker is, in http_get_task
  cur,      \* currentFilterParams
  copied,   \* paramsInitialized
  built     \* what the filter was last built from

nvs    == <<active, stored, behind>>
shared == <<all, signal>>
worker == <<wpc, cur, copied, built>>
vars   == <<nvs, call, shared, worker>>

\* Where a task is, its request (urlBuf), the flow and the parameters it is at,
\* the flow it will switch to, and whether all was saved (err == ESP_OK).
Call == [at : {"active", "next", "wait", "saveflow", "which", "load", "save",
               "apply", "store", "check", "update", "switch", "switched", "done"},
         post : Post, flow : Flow, target : Flow, key : 1..NKeys + 1,
         val : Params, saved : BOOLEAN]
NoCall == [at |-> "wait", post |-> [key |-> 0, value |-> 0], flow |-> 0, target |-> 0,
           key |-> 1, val |-> [k \in Key |-> Default], saved |-> TRUE]

At(w) == call[w].at

\* The task goes on with c; when its calls have returned their variables are gone.
Goes(w, c) ==
  call' = [call EXCEPT ![w] = IF c.at \in {"wait", "done"}
                              THEN [NoCall EXCEPT !.at = c.at] ELSE c]
Goto(w, l) == Goes(w, [call[w] EXCEPT !.at = l])

ActiveParams == [flow |-> all.active, params |-> all.params[all.active]]
OwnDefaults  == [flow |-> 0, params |-> [k \in Key |-> Own]]
Restored     == At("main") = "done"

\* dsp_processor_init ran, and dsp_settings_init created its mutex.
Init ==
  /\ active \in Flow \cup {Missing}
  /\ stored \in [Flow -> [Key -> Values \cup {Missing}]]
  /\ behind = FALSE
  /\ call = [w \in Task |-> [NoCall EXCEPT !.at = IF w = "main" THEN "active" ELSE "wait"]]
  /\ all = [active |-> 0, params |-> [f \in Flow |-> [k \in Key |-> Own]]]
  /\ signal = FALSE
  /\ wpc = "idle" /\ cur = OwnDefaults /\ copied = FALSE /\ built = OwnDefaults

\* Any access to NVS may fail, time out or not open it; some of these failures,
\* b, leave the processor behind what is stored.
FallsBehind(b) == behind' = (behind \/ b)

StoredOr(f, k) == IF stored[f][k] = Missing THEN Default ELSE stored[f][k]

-----------------------------------------------------------------------------
(* dsp_processor_set_params_for_flow, dsp_processor_switch_flow and          *)
(* dsp_processor_update_filter_params.  A section under params_mutex is a    *)
(* step, as nothing but the worker's first copy looks at all_params without. *)

Restoring(w) == w = "main"
Switching(w) == w = "http" /\ call[w].post.key = 0

\* What follows dsp_processor_set_params_for_flow.
AfterSet(w) ==
  IF Restoring(w) /\ call[w].flow < NFlows - 1 THEN "next"
  ELSE IF Restoring(w) \/ Switching(w) THEN "switch" ELSE "wait"

StoreParams(w) ==
  /\ At(w) = "store"
  /\ all' = [all EXCEPT !.params[call[w].flow] = call[w].val]
  /\ Goto(w, "check")
  /\ UNCHANGED <<nvs, signal, worker>>

\* is_active
CheckActive(w) ==
  /\ At(w) = "check"
  /\ Goto(w, IF call[w].flow = all.active THEN "update" ELSE AfterSet(w))
  /\ UNCHANGED <<nvs, shared, worker>>

AfterUpdate(w) == IF At(w) = "update" THEN AfterSet(w)
                  ELSE IF Restoring(w) THEN "done" ELSE "wait"

\* Mutant: the worker is told only if the flow changes.
UpdateIfFlowChanges(w) ==
  /\ At(w) \in {"update", "switched"}
  /\ LET f == call[w].flow
     IN /\ all' = [active |-> f, params |-> [all.params EXCEPT ![f] = call[w].val]]
        /\ signal' = (signal \/ f # all.active)
  /\ Goto(w, AfterUpdate(w))
  /\ UNCHANGED <<nvs, worker>>

UpdateFilterParams(w) ==
  /\ At(w) \in {"update", "switched"}
  /\ LET f == call[w].flow
     IN all' = [active |-> f, params |-> [all.params EXCEPT ![f] = call[w].val]]
  /\ signal' = TRUE
  /\ Goto(w, AfterUpdate(w))
  /\ UNCHANGED <<nvs, worker>>

SwitchFlow(w) ==
  /\ At(w) = "switch"
  /\ LET f == call[w].target
     IN /\ all' = [all EXCEPT !.active = f]
        /\ Goes(w, [call[w] EXCEPT !.at = "switched", !.flow = f, !.val = all.params[f]])
  /\ UNCHANGED <<nvs, signal, worker>>

-----------------------------------------------------------------------------
(* dsp_settings_get_flow_params: a parameter that is missing or cannot be    *)
(* read gets its default.                                                    *)

LoadParam(w) ==
  /\ At(w) = "load" /\ call[w].key \in Key
  /\ \E fails \in BOOLEAN :
       /\ FallsBehind(fails /\ (Restoring(w) \/ Switching(w)))
       /\ LET k == call[w].key
              v == IF fails THEN Default ELSE StoredOr(call[w].flow, k)
          IN Goes(w, [call[w] EXCEPT !.val[k] = v, !.key = k + 1])
  /\ UNCHANGED <<active, stored, shared, worker>>

\* http_server_task puts the parameter it got among those it loaded.
Loaded(w) ==
  /\ At(w) = "load" /\ call[w].key \notin Key
  /\ IF Restoring(w) \/ Switching(w) THEN Goto(w, "store")
     ELSE LET p == call[w].post
          IN Goes(w, [call[w] EXCEPT !.at = "save", !.val[p.key] = p.value, !.key = 1])
  /\ UNCHANGED <<nvs, shared, worker>>

-----------------------------------------------------------------------------
(* dsp_settings_init, in app_main *)

\* Nothing is restored unless a flow was chosen once.
LoadActive ==
  /\ At("main") = "active"
  /\ \E fails \in BOOLEAN :
       /\ FallsBehind(fails)
       /\ IF fails \/ active = Missing THEN Goto("main", "switch")
          ELSE Goes("main", [call["main"] EXCEPT !.at = "load", !.target = active])
  /\ UNCHANGED <<active, stored, shared, worker>>

NextFlow ==
  /\ At("main") = "next"
  /\ Goes("main", [call["main"] EXCEPT !.at = "load", !.flow = @ + 1, !.key = 1])
  /\ UNCHANGED <<nvs, shared, worker>>

-----------------------------------------------------------------------------
(* root_post_handler, then http_server_task *)

\* The next request in xQueueHttp, which keeps their order; with the queue full
\* for a second a request is refused (503).  A flow that does not exist is
\* refused by dsp_settings_switch_active_flow.
Receive(p) ==
  /\ At("http") = "wait"
  /\ p \in Post
  /\ LET l == IF p.key # 0 THEN "which" ELSE IF p.value \in Flow THEN "saveflow" ELSE "wait"
     IN Goes("http", [call["http"] EXCEPT !.at = l, !.post = p])
  /\ FallsBehind(~Restored)
  /\ UNCHANGED <<active, stored, shared, worker>>

\* Mutant: the processor switches although the flow could not be stored.
SaveFlowUnchecked ==
  /\ At("http") = "saveflow"
  /\ LET f == call["http"].post.value
     IN \E set, committed \in BOOLEAN :
          /\ active' = IF set THEN f ELSE active
          /\ behind' = IF set /\ committed THEN ~Restored ELSE behind \/ set
          /\ Goes("http", [call["http"] EXCEPT !.at = "load", !.flow = f, !.target = f])
  /\ UNCHANGED <<stored, shared, worker>>

\* dsp_settings_save_active_flow: no switch unless the flow is stored and
\* committed; with what is read and set from here on the processor catches up.
SaveFlow ==
  /\ At("http") = "saveflow"
  /\ LET f == call["http"].post.value
     IN \E set, committed \in BOOLEAN :
          /\ active' = IF set THEN f ELSE active
          /\ behind' = IF set /\ committed THEN ~Restored ELSE behind \/ set
          /\ Goes("http", [call["http"] EXCEPT
                             !.at = IF set /\ committed THEN "load" ELSE "wait",
                             !.flow = f, !.target = f])
  /\ UNCHANGED <<stored, shared, worker>>

\* dsp_settings_get_active_flow: dspfStereo if there is none.
WhichFlow ==
  /\ At("http") = "which"
  /\ \E fails \in BOOLEAN :
       Goes("http", [call["http"] EXCEPT
                       !.at = "load",
                       !.flow = IF fails \/ active = Missing THEN 0 ELSE active])
  /\ UNCHANGED <<nvs, shared, worker>>

\* dsp_settings_save_flow_param; the others are saved though one fails, and what
\* is set is read though it is not committed.
SaveParam ==
  /\ At("http") = "save" /\ call["http"].key \in Key
  /\ LET k == call["http"].key
         f == call["http"].flow
     IN \E set, committed \in BOOLEAN :
          /\ stored' = IF set THEN [stored EXCEPT ![f][k] = call["http"].val[k]] ELSE stored
          /\ Goes("http", [call["http"] EXCEPT !.key = k + 1,
                                              !.saved = @ /\ set /\ committed])
  /\ UNCHANGED <<active, behind, shared, worker>>

Saved ==
  /\ At("http") = "save" /\ call["http"].key \notin Key
  /\ FallsBehind(~call["http"].saved)
  /\ Goto("http", IF call["http"].saved THEN "apply" ELSE "wait")
  /\ UNCHANGED <<active, stored, shared, worker>>

\* dsp_settings_load_active_flow again: applied to the active flow only.
ApplyIfActive ==
  /\ At("http") = "apply"
  /\ \E fails \in BOOLEAN :
       /\ FallsBehind(fails)
       /\ Goto("http", IF ~fails /\ active = call["http"].flow THEN "store" ELSE "wait")
  /\ UNCHANGED <<active, stored, shared, worker>>

-----------------------------------------------------------------------------
(* dsp_processor_worker, in http_get_task, which app_main starts last *)

Chunk ==
  /\ wpc = "idle" /\ Restored
  /\ wpc' = IF copied THEN "take" ELSE "firstflow"
  /\ UNCHANGED <<nvs, call, shared, cur, copied, built>>

\* The first copy is made without the mutex, field by field.
FirstFlow ==
  /\ wpc = "firstflow"
  /\ cur' = [cur EXCEPT !.flow = all.active]
  /\ wpc' = "firstparams"
  /\ UNCHANGED <<nvs, call, shared, copied, built>>

FirstParams ==
  /\ wpc = "firstparams"
  /\ cur' = [cur EXCEPT !.params = all.params[all.active]]
  /\ copied' = TRUE /\ wpc' = "take"
  /\ UNCHANGED <<nvs, call, shared, built>>

\* Without news, and with the filter built (init), the chunk is filtered.
TakeSignal ==
  /\ wpc = "take"
  /\ signal' = FALSE
  /\ wpc' = IF signal THEN "copy" ELSE "idle"
  /\ UNCHANGED <<nvs, call, all, cur, copied, built>>

\* Mutant: the flow is taken over after the parameters.
CopyOfOldFlow ==
  /\ wpc = "copy"
  /\ cur' = [flow |-> all.active, params |-> all.params[cur.flow]] /\ wpc' = "build"
  /\ UNCHANGED <<nvs, call, shared, copied, built>>

CopyParams ==
  /\ wpc = "copy"
  /\ cur' = ActiveParams /\ wpc' = "build"
  /\ UNCHANGED <<nvs, call, shared, copied, built>>

\* init is false: the filter is built, and the chunk filtered.
BuildFilter ==
  /\ wpc = "build"
  /\ built' = cur /\ wpc' = "idle"
  /\ UNCHANGED <<nvs, call, shared, cur, copied>>

-----------------------------------------------------------------------------
Setting(w) == \/ StoreParams(w) \/ CheckActive(w) \/ UpdateFilterParams(w)
              \/ SwitchFlow(w) \/ LoadParam(w) \/ Loaded(w)
Main   == Setting("main") \/ LoadActive \/ NextFlow
Http   == \/ Setting("http") \/ SaveFlow \/ WhichFlow \/ SaveParam
          \/ Saved \/ ApplyIfActive
Worker == \/ Chunk \/ FirstFlow \/ FirstParams \/ TakeSignal \/ CopyParams
          \/ BuildFilter

Next == Main \/ Http \/ Worker \/ \E p \in Post : Receive(p)

Spec == Init /\ [][Next]_vars

\* The three tasks are scheduled; chunks keep coming.
Fairness == WF_vars(Main) /\ WF_vars(Http) /\ WF_vars(Worker)

FairSpec == Spec /\ Fairness

-----------------------------------------------------------------------------
TypeOK ==
  /\ active \in Flow \cup {Missing}
  /\ stored \in [Flow -> [Key -> Values \cup {Missing}]]
  /\ behind \in BOOLEAN
  /\ call \in [Task -> Call]
  /\ all \in [active : Flow, params : [Flow -> Params]] /\ signal \in BOOLEAN
  /\ wpc \in {"idle", "firstflow", "firstparams", "take", "copy", "build"}
  /\ cur \in Chosen /\ copied \in BOOLEAN /\ built \in Chosen

\* A task put something into all_params and has not announced it yet.
Announcing(w) == At(w) \in {"check", "update", "switched"}

\* What the worker has or will copy because the semaphore is available or was
\* taken for it.
Announced == IF signal \/ wpc = "copy" THEN ActiveParams
             ELSE IF wpc = "build" THEN cur ELSE built

\* No change of the active flow or its parameters is lost on the way to the
\* filter, whatever the worker does between a writer's three sections
\* (dsp_processor.c:156-190, 310-335, 795-884).
NoChangeForgotten ==
  Restored /\ (\A w \in Task : ~Announcing(w)) => Announced = ActiveParams

\* What a reader of NVS finds, and a start restores once it is committed: the
\* stored flow with the stored or default parameters.
StoredFlow   == IF active = Missing THEN 0 ELSE active
StoredParams == [k \in Key |-> StoredOr(StoredFlow, k)]

\* The processor runs what is stored whenever http_server_task has handled its
\* request, though NVS may fail anywhere: a request refused by NVS changes
\* neither, one whose flow or parameters could not be read stores and runs the
\* same defaults.  Four failures part the two: a value that was set and not
\* committed, not all of a request saved, the saved not applied because the
\* active flow could not be read, and a flow restored or switched to without
\* its parameters.  So may a request before app_main has restored the settings.
\* The next request that stores and loads a flow brings them together again
\* (dsp_processor_settings.c:48, 582-653; dspfStereo has no parameters).
StoredIsApplied ==
  Restored /\ At("http") = "wait" /\ ~behind =>
    /\ all.active = StoredFlow
    /\ StoredFlow # 0 => all.params[StoredFlow] = StoredParams

\* Writers, semaphore and worker implement a register that delivers its latest
\* value: the filter never goes back to older parameters.
Filter == INSTANCE LatestValue
            WITH Value <- Chosen, First <- OwnDefaults, want <- Announced,
                 taken <- IF wpc = "build" THEN cur ELSE built, have <- built
DeliversLatest == Filter!Spec
=============================================================================
