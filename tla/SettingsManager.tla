---------------------------- MODULE SettingsManager ----------------------------
(***************************************************************************)
(* The settings of settings_manager.c, kept in NVS behind hostname_mutex:   *)
(* the web server's handlers (root_post_handler, root_delete_handler,       *)
(* get_param_handler) set, clear and read them, http_get_task reads them    *)
(* for each connection, and the chip may restart at any time.               *)
(*                                                                         *)
(* NVS is external: what is written may be lost until it is committed, and  *)
(* an access may fail.  FreeRTOS too: to give a mutex that is free does     *)
(* nothing, to give one that another task holds is a failed assertion.      *)
(***************************************************************************)
EXTENDS Integers

CONSTANTS
  Tasks,     \* who calls
  Editors,   \* the tasks that may set and clear: the web server's
  Host, Port, Others,  \* server_host, server_port; hostname and mdns
  Values,    \* what may be set
  Default,   \* what a reader gets of a key that is not there (sdkconfig)
  Missing,   \* ESP_ERR_NVS_NOT_FOUND
  NoTask,    \* hostname_mutex is free
  Unknown    \* no promise about a key

Keys == {Host, Port} \cup Others

ASSUME SettingsAssumption ==
  /\ Editors \subseteq Tasks /\ NoTask \notin Tasks
  /\ \A t, u \in Editors : t = u  \* the handlers of the web server are one task's
  /\ Host # Port /\ Host \notin Others /\ Port \notin Others
  /\ Default \notin Values /\ Missing \notin Values \cup {Default}
  /\ Unknown \notin Values \cup {Missing, Default} \cup Keys

Content == Values \cup {Missing}

\* A call: what is done to which key, with which value, and how it went.
Call == [at : {"idle", "take", "access", "commit", "give", "fallback"},
         op : {"get", "set", "clear"}, key : Keys, val : Content \cup {Default},
         ok : BOOLEAN]
NoCall == [at |-> "idle", op |-> "get", key |-> Host, val |-> Default, ok |-> TRUE]

VARIABLES
  nvs,     \* what readers find
  flash,   \* what is committed
  lock,    \* the holder of hostname_mutex
  call,    \* the call each task is in
  acked,   \* history: what the web server last confirmed (200) of each key
  fault    \* the key of a call that gave the mutex of another task: reset

vars == <<nvs, flash, lock, call, acked, fault>>

Init ==
  /\ nvs \in [Keys -> Content] /\ flash = nvs
  /\ lock = NoTask /\ call = [t \in Tasks |-> NoCall]
  /\ acked = [k \in Keys |-> Unknown] /\ fault = Unknown

At(t) == call[t].at
Goes(t, c) == call' = [call EXCEPT ![t] = c]
Goto(t, l) == Goes(t, [call[t] EXCEPT !.at = l])

\* The answer of the handler: a set or clear that returned ESP_OK is confirmed.
Answers(t, ok) ==
  /\ Goes(t, NoCall)
  /\ acked' = IF call[t].op = "get" \/ ~ok THEN acked
              ELSE [acked EXCEPT ![call[t].key] = call[t].val]

-----------------------------------------------------------------------------
Get(t, k) ==
  /\ fault = Unknown /\ At(t) = "idle"
  /\ Goes(t, [NoCall EXCEPT !.at = "take", !.key = k])
  /\ UNCHANGED <<nvs, flash, lock, acked, fault>>

\* From here on nothing is promised of the key until the call is confirmed.
Change(t, k, op, v) ==
  /\ fault = Unknown /\ At(t) = "idle" /\ t \in Editors
  /\ Goes(t, [NoCall EXCEPT !.at = "take", !.op = op, !.key = k, !.val = v])
  /\ acked' = [acked EXCEPT ![k] = Unknown]
  /\ UNCHANGED <<nvs, flash, lock, fault>>

\* settings_set_server_host("") and settings_clear_server_host erase the key.
Set(t, k, v) == Change(t, k, "set", v)
Clear(t, k)  == Change(t, k, "clear", Missing)

Take(t) ==
  /\ fault = Unknown /\ At(t) = "take" /\ lock = NoTask
  /\ lock' = t
  /\ Goto(t, "access")
  /\ UNCHANGED <<nvs, flash, acked, fault>>

\* After 5 s the caller gets ESP_ERR_TIMEOUT.
TimeOut(t) ==
  /\ fault = Unknown /\ At(t) = "take" /\ lock # NoTask
  /\ Answers(t, FALSE)
  /\ UNCHANGED <<nvs, flash, lock, fault>>

\* Mutant: every read gives the mutex before it falls back.
AlwaysGivesTwice(k, opened) == opened

\* Whether settings_get_server_port gives the mutex before it falls back.
GivesTwice(k, opened) == k = Port /\ opened

\* Mutant: a reader takes what nvs_get_* leaves in its buffer.
ReadUnchecked(t) ==
  /\ fault = Unknown /\ At(t) = "access" /\ call[t].op = "get"
  /\ Goes(t, [call[t] EXCEPT !.at = "give", !.val = nvs[call[t].key]])
  /\ UNCHANGED <<nvs, flash, lock, acked, fault>>

\* nvs_open and nvs_get_*; what cannot be read falls back to the default, but
\* for an error with server_host.
Read(t) ==
  /\ fault = Unknown /\ At(t) = "access" /\ call[t].op = "get"
  /\ \E opened, fails \in BOOLEAN :
       LET k == call[t].key
           found == opened /\ ~fails /\ nvs[k] # Missing
       IN Goes(t, [call[t] EXCEPT
                     !.at = IF found \/ ~GivesTwice(k, opened) THEN "give" ELSE "fallback",
                     !.val = IF found THEN nvs[k] ELSE Default,
                     !.ok = found \/ ~(k = Host /\ opened /\ fails)])
  /\ UNCHANGED <<nvs, flash, lock, acked, fault>>

\* nvs_open fails; without the namespace there is nothing to clear, but
\* settings_set_server_host reports that too.
OpenFails(t) ==
  /\ fault = Unknown /\ At(t) = "access" /\ call[t].op # "get"
  /\ \E absent \in BOOLEAN :
       /\ absent => call[t].op = "clear" /\ call[t].key # Host
                     /\ \A k \in Keys : nvs[k] = Missing
       /\ Goes(t, [call[t] EXCEPT !.at = "give", !.ok = absent])
  /\ UNCHANGED <<nvs, flash, lock, acked, fault>>

\* nvs_set_*, nvs_erase_key; server_host reports a key that is not there.
Write(t) ==
  /\ fault = Unknown /\ At(t) = "access" /\ call[t].op # "get"
  /\ \E fails \in BOOLEAN :
       LET k == call[t].key
           absent == call[t].op = "clear" /\ nvs[k] = Missing
           refused == fails \/ (absent /\ k = Host)
       IN /\ nvs' = IF refused THEN nvs ELSE [nvs EXCEPT ![k] = call[t].val]
          /\ Goes(t, [call[t] EXCEPT !.at = IF refused THEN "give" ELSE "commit",
                                     !.ok = ~refused])
  /\ UNCHANGED <<flash, lock, acked, fault>>

\* Mutant: no setter but that of server_host looks at what nvs_commit returned.
IgnoresEvenSets(op, k) == k # Host

\* The result of nvs_commit is ignored when a key other than server_host is cleared.
IgnoresCommit(op, k) == op = "clear" /\ k # Host

\* nvs_commit
Commit(t) ==
  /\ fault = Unknown /\ At(t) = "commit"
  /\ \E fails \in BOOLEAN :
       /\ flash' = IF fails THEN flash ELSE [flash EXCEPT ![call[t].key] = nvs[call[t].key]]
       /\ Goes(t, [call[t] EXCEPT !.at = "give",
                                  !.ok = ~fails \/ IgnoresCommit(call[t].op, call[t].key)])
  /\ UNCHANGED <<nvs, lock, acked, fault>>

\* xSemaphoreGive
Gives(t) ==
  /\ lock' = IF lock = t THEN NoTask ELSE lock
  /\ fault' = IF lock \in {t, NoTask} THEN fault ELSE call[t].key

\* Mutant: the mutex stays taken when NVS could not be opened or written.
GiveIfOk(t) ==
  /\ fault = Unknown /\ At(t) = "give"
  /\ IF call[t].ok THEN Gives(t) ELSE UNCHANGED <<lock, fault>>
  /\ Answers(t, call[t].ok)
  /\ UNCHANGED <<nvs, flash>>

\* The last statement of a call.
Give(t) ==
  /\ fault = Unknown /\ At(t) = "give"
  /\ Gives(t)
  /\ Answers(t, call[t].ok)
  /\ UNCHANGED <<nvs, flash>>

\* settings_get_server_port gives the mutex, takes the default, gives it again.
GiveThenFallBack(t) ==
  /\ fault = Unknown /\ At(t) = "fallback"
  /\ Gives(t)
  /\ Goto(t, "give")
  /\ UNCHANGED <<nvs, flash, acked>>

\* restart_task, a crash, the power: an uncommitted write may be lost or not.
Restart ==
  /\ fault = Unknown
  /\ \E lost \in SUBSET Keys :
       nvs' = [k \in Keys |-> IF k \in lost THEN flash[k] ELSE nvs[k]]
  /\ flash' = nvs'
  /\ lock' = NoTask /\ call' = [t \in Tasks |-> NoCall]
  /\ UNCHANGED <<acked, fault>>

\* The chip is reset by the failed assertion.
Halted == fault # Unknown /\ UNCHANGED vars

-----------------------------------------------------------------------------
Proceed(t) == \/ Take(t) \/ TimeOut(t) \/ Read(t) \/ OpenFails(t) \/ Write(t)
              \/ Commit(t) \/ Give(t) \/ GiveThenFallBack(t)

Next ==
  \/ \E t \in Tasks : \/ \E k \in Keys : \/ Get(t, k)
                                         \/ Clear(t, k)
                                         \/ \E v \in Values : Set(t, k, v)
                      \/ Proceed(t)
  \/ Restart
  \/ Halted

Spec == Init /\ [][Next]_vars

\* A task in a call is scheduled.
FairSpec == Spec /\ \A t \in Tasks : WF_vars(Proceed(t))

-----------------------------------------------------------------------------
\* What a call may find, or leave behind.
Suitable(op) == IF op = "get" THEN Values \cup {Default} ELSE Content

TypeOK ==
  /\ nvs \in [Keys -> Content] /\ flash \in [Keys -> Content]
  /\ lock \in Tasks \cup {NoTask} /\ call \in [Tasks -> Call]
  /\ \A t \in Tasks : call[t].val \in Suitable(call[t].op)
  /\ acked \in [Keys -> Content \cup {Unknown}] /\ fault \in Keys \cup {Unknown}

\* What a confirmation promises: not the removal of a key whose commit may fail
\* unseen.
Promised(k, v) == v # Missing \/ k = Host

\* Every value the web server confirmed, and the confirmed removal of server_host,
\* is what every reader finds and what is there after a restart, whenever that
\* comes and whichever commits fail (settings_manager.c:131-178, 254-275, 343-377,
\* 414-445).  The confirmed removal of another key is not promised: its commit may
\* have failed unseen (200, 293, 460), and the old value is back after a restart.
AckedSurvives ==
  \A k \in Keys : acked[k] # Unknown /\ Promised(k, acked[k])
                   => nvs[k] = acked[k] /\ flash[k] = acked[k]

\* No call but that for the port gives a mutex that another task holds, on any
\* of its returns.
OwnerGives == fault \in {Unknown, Port}

\* No return of any call leaves the mutex taken.
MutexComesBack ==
  \A t \in Tasks : lock = t ~> lock = NoTask \/ fault # Unknown
=============================================================================
