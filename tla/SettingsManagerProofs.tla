------------------------ MODULE SettingsManagerProofs ------------------------
(***************************************************************************)
(* What SettingsManager keeps for all tasks, keys and values: its types,    *)
(* that only the call for the port gives a mutex which is not its own, and  *)
(* that what the web server confirmed survives a restart.                   *)
(***************************************************************************)
EXTENDS SettingsManager, TLAPS

\* Whoever is between take and give holds the mutex, but for the reader of the
\* port that gave it once already.
Held(t) ==
  /\ At(t) \in {"access", "commit", "fallback"} => lock = t
  /\ At(t) = "give" => lock = t \/ (call[t].key = Port /\ call[t].op = "get")
  /\ At(t) = "fallback" => call[t].key = Port /\ call[t].op = "get"
  /\ At(t) = "commit" => call[t].op # "get"

MInv == TypeOK /\ OwnerGives /\ (fault = Unknown => \A t \in Tasks : Held(t))

\* A change is an editor's, and nothing is promised of its key; once written it
\* is what readers find, once it is to be confirmed and promised it is committed.
Kept(t) ==
  call[t].op # "get" =>
    /\ t \in Editors /\ acked[call[t].key] = Unknown
    /\ call[t].val = Missing <=> call[t].op = "clear"
    /\ At(t) = "commit" => nvs[call[t].key] = call[t].val
    /\ At(t) = "give" /\ call[t].ok /\ Promised(call[t].key, call[t].val) =>
         nvs[call[t].key] = call[t].val /\ flash[call[t].key] = call[t].val

IInv == MInv /\ AckedSurvives /\ (fault = Unknown => \A t \in Tasks : Kept(t))

USE SettingsAssumption

-----------------------------------------------------------------------------
(* The mutex                                                                 *)

LEMMA NoCallTypes == NoCall \in Call
BY DEF NoCall, Call, Keys

LEMMA InitMutex == Init => MInv
<1> SUFFICES ASSUME Init PROVE MInv
  OBVIOUS
<1>1. call \in [Tasks -> Call] /\ \A t \in Tasks : call[t] = NoCall
  BY NoCallTypes DEF Init
<1>2. NoCall.at = "idle" /\ NoCall.val \in Suitable(NoCall.op)
  BY DEF NoCall, Suitable
<1>3. acked \in [Keys -> Content \cup {Unknown}]
  BY DEF Init
<1> QED BY <1>1, <1>2, <1>3 DEF Init, MInv, TypeOK, OwnerGives, Held, At

\* A step of one task, seen from its new call.
LEMMA MutexStep ==
  ASSUME MInv, fault = Unknown, NEW t \in Tasks, NEW c \in Call, Goes(t, c),
         c.val \in Suitable(c.op),
         nvs' \in [Keys -> Content], flash' \in [Keys -> Content],
         acked' \in [Keys -> Content \cup {Unknown}],
         \/ lock' = lock /\ fault' = Unknown
         \/ lock = NoTask /\ lock' = t /\ fault' = Unknown
         \/ lock = t /\ lock' = NoTask /\ fault' = Unknown
         \/ lock' = lock /\ fault' = Port,
         c.at \in {"access", "commit", "fallback"} => lock' = t,
         c.at = "give" => lock' = t \/ (c.key = Port /\ c.op = "get"),
         c.at = "fallback" => c.key = Port /\ c.op = "get",
         c.at = "commit" => c.op # "get"
  PROVE  MInv'
<1>1. call \in [Tasks -> Call] /\ call' \in [Tasks -> Call] /\ call'[t] = c
      /\ \A u \in Tasks \ {t} : call'[u] = call[u]
  BY DEF MInv, TypeOK, Goes
<1>2. TypeOK'
  <2>1. \A u \in Tasks : call'[u].val \in Suitable(call'[u].op)
    BY <1>1 DEF MInv, TypeOK
  <2>2. lock' \in Tasks \cup {NoTask}
    BY DEF MInv, TypeOK
  <2>3. fault' \in Keys \cup {Unknown}
    BY DEF Keys
  <2> QED BY <1>1, <2>1, <2>2, <2>3 DEF TypeOK
<1>3. ASSUME fault' = Unknown, NEW u \in Tasks PROVE Held(u)'
  <2>1. CASE u = t
    BY <1>1, <2>1 DEF Held, At
  <2>2. CASE u # t
    <3>1. call'[u] = call[u] /\ (lock = u => lock' = u)
      <4>1. lock' = lock \/ lock \in {NoTask, t}
        BY <1>3
      <4> QED BY <1>1, <2>2, <4>1
    <3>2. Held(u)
      BY DEF MInv
    <3> QED BY <3>1, <3>2 DEF Held, At
  <2> QED BY <2>1, <2>2
<1>4. OwnerGives'
  BY DEF OwnerGives
<1> QED BY <1>2, <1>3, <1>4 DEF MInv

\* A task that goes on with its call as it is.
LEMMA CallAt ==
  ASSUME MInv, NEW t \in Tasks, NEW l, l \in {"access", "give"}
  PROVE  LET c == [call[t] EXCEPT !.at = l]
         IN c \in Call /\ c.at = l /\ c.op = call[t].op /\ c.key = call[t].key
              /\ c.val = call[t].val /\ c.ok = call[t].ok
              /\ c.val \in Suitable(c.op)
<1>1. call[t] \in Call /\ call[t].val \in Suitable(call[t].op)
  BY DEF MInv, TypeOK
<1> QED BY <1>1 DEF Call

\* xSemaphoreGive is another task's mutex only in the call for the port.
LEMMA GivesMutex ==
  ASSUME MInv, fault = Unknown, NEW t \in Tasks, At(t) \in {"give", "fallback"}, Gives(t)
  PROVE  \/ lock' = lock /\ fault' = Unknown
         \/ lock = t /\ lock' = NoTask /\ fault' = Unknown
         \/ lock' = lock /\ fault' = Port
<1>1. Held(t)
  BY DEF MInv
<1> QED BY <1>1 DEF Held, Gives

\* What the web server notes when a call returns.
LEMMA AnswersTypes ==
  ASSUME MInv, NEW t \in Tasks, NEW ok, Answers(t, ok)
  PROVE  Goes(t, NoCall) /\ acked' \in [Keys -> Content \cup {Unknown}]
<1>1. /\ call[t] \in Call /\ acked \in [Keys -> Content \cup {Unknown}]
      /\ call[t].op = "get" \/ call[t].val \in Content
  BY DEF MInv, TypeOK, Suitable
<1> QED BY <1>1 DEF Answers, Call

LEMMA NextMutex == MInv /\ [Next]_vars => MInv'
<1> SUFFICES ASSUME MInv, [Next]_vars PROVE MInv'
  OBVIOUS
<1>1. /\ nvs \in [Keys -> Content] /\ flash \in [Keys -> Content]
      /\ acked \in [Keys -> Content \cup {Unknown}] /\ call \in [Tasks -> Call]
  BY DEF MInv, TypeOK
<1>2. NoCall \in Call /\ NoCall.at = "idle" /\ NoCall.val \in Suitable(NoCall.op)
  BY NoCallTypes DEF NoCall, Suitable
<1>3. CASE fault # Unknown
  BY <1>3 DEF Next, Get, Set, Clear, Change, Proceed, Take, TimeOut, Read, OpenFails, Write,
              Commit, Give, GiveThenFallBack, Restart, Halted, vars, MInv, TypeOK, OwnerGives
<1>4. ASSUME fault = Unknown, NEW t \in Tasks, NEW k \in Keys, Get(t, k) PROVE MInv'
  <2> DEFINE c == [NoCall EXCEPT !.at = "take", !.key = k]
  <2>1. c \in Call /\ c.at = "take" /\ c.val \in Suitable(c.op) /\ Goes(t, c)
    BY <1>2, <1>4 DEF Get, NoCall, Call
  <2> HIDE DEF c
  <2> QED BY <1>1, <1>4, <2>1, MutexStep DEF Get
<1>5. ASSUME fault = Unknown, NEW t \in Tasks, NEW k \in Keys, NEW op \in {"set", "clear"},
             NEW v \in Content, Change(t, k, op, v)
      PROVE  MInv'
  <2> DEFINE c == [NoCall EXCEPT !.at = "take", !.op = op, !.key = k, !.val = v]
  <2>1. c \in Call /\ c.at = "take" /\ c.val \in Suitable(c.op) /\ Goes(t, c)
    BY <1>2, <1>5 DEF Change, NoCall, Call, Suitable
  <2> HIDE DEF c
  <2>2. acked' \in [Keys -> Content \cup {Unknown}]
    BY <1>1, <1>5 DEF Change
  <2> QED BY <1>1, <1>5, <2>1, <2>2, MutexStep DEF Change
<1>6. ASSUME fault = Unknown, NEW t \in Tasks, Proceed(t) PROVE MInv'
  <2>1. CASE Take(t)
    <3> DEFINE c == [call[t] EXCEPT !.at = "access"]
    <3>1. c \in Call /\ c.at = "access" /\ c.val \in Suitable(c.op) /\ Goes(t, c)
      BY <2>1, CallAt DEF Take, Goto
    <3> HIDE DEF c
    <3> QED BY <1>1, <1>6, <2>1, <3>1, MutexStep DEF Take
  <2>2. CASE TimeOut(t)
    <3>1. Goes(t, NoCall) /\ acked' \in [Keys -> Content \cup {Unknown}]
      BY <2>2, AnswersTypes DEF TimeOut
    <3> QED BY <1>1, <1>2, <1>6, <2>2, <3>1, MutexStep DEF TimeOut
  <2>3. CASE Read(t)
    <3> DEFINE k == call[t].key
    <3>1. PICK opened \in BOOLEAN, fails \in BOOLEAN :
            Goes(t, [call[t] EXCEPT
                       !.at = IF (opened /\ ~fails /\ nvs[k] # Missing) \/ ~GivesTwice(k, opened)
                              THEN "give" ELSE "fallback",
                       !.val = IF opened /\ ~fails /\ nvs[k] # Missing THEN nvs[k] ELSE Default,
                       !.ok = (opened /\ ~fails /\ nvs[k] # Missing)
                                \/ ~(k = Host /\ opened /\ fails)])
      BY <2>3 DEF Read
    <3> DEFINE found == opened /\ ~fails /\ nvs[k] # Missing
               l == IF found \/ ~GivesTwice(k, opened) THEN "give" ELSE "fallback"
               v == IF found THEN nvs[k] ELSE Default
               ok == found \/ ~(k = Host /\ opened /\ fails)
               c == [call[t] EXCEPT !.at = l, !.val = v, !.ok = ok]
    <3>2. l \in {"give", "fallback"} /\ (l = "fallback" => k = Port)
      BY DEF GivesTwice
    <3>3. v \in Values \cup {Default} /\ k \in Keys
      BY <1>1 DEF Content, Call
    <3>4. ok \in BOOLEAN /\ Goes(t, c)
      BY <3>1
    <3> HIDE DEF l, v, ok
    <3>7. call[t] \in Call /\ call[t].op = "get"
      BY <1>1, <2>3 DEF Read
    <3>8. c \in Call
      BY <3>2, <3>3, <3>4, <3>7 DEF Call, Content
    <3>9. c.at = l /\ c.key = k /\ c.op = "get" /\ c.val = v
      BY <3>7 DEF Call
    <3>5. c.val \in Suitable(c.op)
      BY <3>3, <3>9 DEF Suitable
    <3>6. lock = t
      BY <1>6, <2>3 DEF MInv, Held, Read
    <3> HIDE DEF c
    <3> QED BY <1>1, <1>6, <2>3, <3>2, <3>4, <3>5, <3>6, <3>8, <3>9, MutexStep DEF Read
  <2>4. CASE OpenFails(t)
    <3>1. PICK absent \in BOOLEAN : Goes(t, [call[t] EXCEPT !.at = "give", !.ok = absent])
      BY <2>4 DEF OpenFails
    <3> DEFINE c == [call[t] EXCEPT !.at = "give", !.ok = absent]
    <3>6. call[t] \in Call /\ call[t].val \in Suitable(call[t].op)
      BY DEF MInv, TypeOK
    <3>7. c \in Call
      BY <3>6 DEF Call
    <3>8. c.at = "give" /\ c.op = call[t].op /\ c.val = call[t].val
      BY <3>6 DEF Call
    <3>2. c \in Call /\ c.at = "give" /\ c.val \in Suitable(c.op) /\ c.op = call[t].op
      BY <3>6, <3>7, <3>8
    <3>3. lock = t /\ Goes(t, c)
      BY <1>6, <2>4, <3>1 DEF MInv, Held, OpenFails
    <3> HIDE DEF c
    <3> QED BY <1>1, <1>6, <2>4, <3>2, <3>3, MutexStep DEF OpenFails
  <2>5. CASE Write(t)
    <3> DEFINE k == call[t].key
    <3>1. PICK refused \in BOOLEAN :
            /\ nvs' = IF refused THEN nvs ELSE [nvs EXCEPT ![k] = call[t].val]
            /\ Goes(t, [call[t] EXCEPT !.at = IF refused THEN "give" ELSE "commit",
                                       !.ok = ~refused])
      BY <2>5 DEF Write
    <3> DEFINE l == IF refused THEN "give" ELSE "commit"
               ok == ~refused
               c == [call[t] EXCEPT !.at = l, !.ok = ok]
    <3>2. l \in {"give", "commit"} /\ ok \in BOOLEAN /\ Goes(t, c)
      BY <3>1
    <3> HIDE DEF l, ok
    <3>7. call[t] \in Call /\ call[t].val \in Suitable(call[t].op)
      BY DEF MInv, TypeOK
    <3>8. c \in Call
      BY <3>2, <3>7 DEF Call
    <3>9. c.at = l /\ c.op = call[t].op /\ c.val = call[t].val
      BY <3>7 DEF Call
    <3>6. c \in Call /\ c.at = l /\ c.op = call[t].op /\ c.val \in Suitable(c.op)
      BY <3>7, <3>8, <3>9
    <3>3. c.op # "get"
      BY <2>5, <3>6 DEF Write
    <3>4. lock = t
      BY <1>6, <2>5 DEF MInv, Held, Write
    <3>5. nvs' \in [Keys -> Content]
      BY <1>1, <2>5, <3>1 DEF MInv, TypeOK, Suitable, Call, Write
    <3> HIDE DEF c
    <3> QED BY <1>1, <1>6, <2>5, <3>2, <3>3, <3>4, <3>5, <3>6, MutexStep DEF Write
  <2>6. CASE Commit(t)
    <3> DEFINE k == call[t].key
    <3>1. PICK ok \in BOOLEAN, fails \in BOOLEAN :
            /\ flash' = IF fails THEN flash ELSE [flash EXCEPT ![k] = nvs[k]]
            /\ Goes(t, [call[t] EXCEPT !.at = "give", !.ok = ok])
      <4>1. PICK fails \in BOOLEAN :
              /\ flash' = IF fails THEN flash ELSE [flash EXCEPT ![k] = nvs[k]]
              /\ Goes(t, [call[t] EXCEPT !.at = "give",
                            !.ok = ~fails \/ (call[t].op = "clear" /\ call[t].key # Host)])
        BY <2>6 DEF Commit, IgnoresCommit
      <4> QED BY <4>1
    <3> DEFINE c == [call[t] EXCEPT !.at = "give", !.ok = ok]
    <3>6. call[t] \in Call /\ call[t].val \in Suitable(call[t].op)
      BY DEF MInv, TypeOK
    <3>7. c \in Call
      BY <3>6 DEF Call
    <3>8. c.at = "give" /\ c.op = call[t].op /\ c.val = call[t].val
      BY <3>6 DEF Call
    <3>2. c \in Call /\ c.at = "give" /\ c.val \in Suitable(c.op) /\ c.op = call[t].op
      BY <3>6, <3>7, <3>8
    <3>5. Goes(t, c) /\ call[t].op # "get"
      BY <1>6, <2>6, <3>1 DEF MInv, Held, Commit
    <3>3. lock = t
      BY <1>6, <2>6 DEF MInv, Held, Commit
    <3>4. flash' \in [Keys -> Content]
      BY <1>1, <3>1 DEF Call
    <3> HIDE DEF c
    <3> QED BY <1>1, <1>6, <2>6, <3>2, <3>3, <3>4, <3>5, MutexStep DEF Commit
  <2>7. CASE Give(t)
    <3>1. Goes(t, NoCall) /\ acked' \in [Keys -> Content \cup {Unknown}]
      BY <2>7, AnswersTypes DEF Give
    <3>2. \/ lock' = lock /\ fault' = Unknown
          \/ lock = t /\ lock' = NoTask /\ fault' = Unknown
          \/ lock' = lock /\ fault' = Port
      BY <1>6, <2>7, GivesMutex DEF Give
    <3> QED BY <1>1, <1>2, <1>6, <2>7, <3>1, <3>2, MutexStep DEF Give
  <2>8. CASE GiveThenFallBack(t)
    <3> DEFINE c == [call[t] EXCEPT !.at = "give"]
    <3>1. /\ c \in Call /\ c.at = "give" /\ c.val \in Suitable(c.op)
          /\ c.op = call[t].op /\ c.key = call[t].key /\ Goes(t, c)
      BY <2>8, CallAt DEF GiveThenFallBack, Goto
    <3>2. \/ lock' = lock /\ fault' = Unknown
          \/ lock = t /\ lock' = NoTask /\ fault' = Unknown
          \/ lock' = lock /\ fault' = Port
      BY <1>6, <2>8, GivesMutex DEF GiveThenFallBack
    <3>3. c.key = Port /\ c.op = "get"
      BY <1>6, <2>8, <3>1 DEF MInv, Held, GiveThenFallBack
    <3> HIDE DEF c
    <3> QED BY <1>1, <1>6, <2>8, <3>1, <3>2, <3>3, MutexStep DEF GiveThenFallBack
  <2> QED BY <1>6, <2>1, <2>2, <2>3, <2>4, <2>5, <2>6, <2>7, <2>8 DEF Proceed
<1>7. CASE Restart
  <2>1. nvs' \in [Keys -> Content] /\ flash' \in [Keys -> Content]
    BY <1>1, <1>7 DEF Restart
  <2>2. call' \in [Tasks -> Call] /\ \A t \in Tasks : call'[t] = NoCall
    BY <1>2, <1>7 DEF Restart
  <2> QED BY <1>1, <1>2, <1>7, <2>1, <2>2
             DEF Restart, MInv, TypeOK, OwnerGives, Held, At, NoCall
<1>8. CASE UNCHANGED vars
  BY <1>8 DEF vars, MInv, TypeOK, OwnerGives, Held, At
<1>9. Missing \in Content /\ Values \subseteq Content
  BY DEF Content
<1> QED BY <1>3, <1>4, <1>5, <1>6, <1>7, <1>8, <1>9 DEF Next, Set, Clear, Halted

\* In every behaviour the variables have their types: a reader never takes what
\* is not there for a value.
THEOREM SettingsTypes == Spec => []TypeOK
<1>1. MInv => TypeOK
  BY DEF MInv
<1> QED BY <1>1, InitMutex, NextMutex, PTL DEF Spec

\* Whatever fails in NVS, and whenever the chip restarts, no call but that for
\* the port gives a mutex that another task holds.
THEOREM OnlyPortGives == Spec => []OwnerGives
<1>1. MInv => OwnerGives
  BY DEF MInv
<1> QED BY <1>1, InitMutex, NextMutex, PTL DEF Spec

-----------------------------------------------------------------------------
(* What the web server confirmed                                             *)

\* A step of one task, seen from its new call: readers change nothing and there
\* is one editor.
LEMMA KeptStep ==
  ASSUME IInv, fault = Unknown, NEW t \in Tasks, NEW c, Goes(t, c),
         UNCHANGED <<nvs, flash, acked>> \/ t \in Editors,
         c.op # "get" =>
           /\ t \in Editors /\ acked'[c.key] = Unknown
           /\ c.val = Missing <=> c.op = "clear"
           /\ c.at = "commit" => nvs'[c.key] = c.val
           /\ c.at = "give" /\ c.ok /\ Promised(c.key, c.val) =>
                nvs'[c.key] = c.val /\ flash'[c.key] = c.val
  PROVE  \A u \in Tasks : Kept(u)'
<1>1. call'[t] = c /\ \A u \in Tasks \ {t} : call'[u] = call[u]
  BY DEF IInv, MInv, TypeOK, Goes
<1>2. Kept(t)'
  BY <1>1 DEF Kept, At
<1>3. ASSUME NEW u \in Tasks, u # t PROVE Kept(u)'
  <2>1. call'[u] = call[u] /\ Kept(u)
    BY <1>1, <1>3 DEF IInv
  <2>2. CASE t \in Editors
    <3>1. call[u].op = "get"
      BY <1>3, <2>1, <2>2 DEF Kept
    <3> QED BY <2>1, <3>1 DEF Kept
  <2>3. CASE UNCHANGED <<nvs, flash, acked>>
    BY <2>1, <2>3 DEF Kept, At
  <2> QED BY <2>2, <2>3
<1> QED BY <1>2, <1>3

\* The two steps of a change that write, with the mutex.
LEMMA WriteKept ==
  ASSUME IInv, fault = Unknown, NEW t \in Tasks, Write(t)
  PROVE  AckedSurvives' /\ (\A u \in Tasks : Kept(u)')
<1> DEFINE key == call[t].key
<1>1. /\ nvs \in [Keys -> Content] /\ call \in [Tasks -> Call] /\ call[t] \in Call
      /\ key \in Keys /\ call[t].op # "get" /\ At(t) = "access" /\ Kept(t)
      /\ UNCHANGED <<flash, acked>>
  BY DEF IInv, MInv, TypeOK, Call, Write
<1>2. PICK refused \in BOOLEAN :
        /\ nvs' = IF refused THEN nvs ELSE [nvs EXCEPT ![key] = call[t].val]
        /\ Goes(t, [call[t] EXCEPT !.at = IF refused THEN "give" ELSE "commit",
                                   !.ok = ~refused])
  BY DEF Write
<1> DEFINE l == IF refused THEN "give" ELSE "commit"
           ok == ~refused
           c == [call[t] EXCEPT !.at = l, !.ok = ok]
<1>3. c.at = l /\ c.op = call[t].op /\ c.key = key /\ c.val = call[t].val
  BY <1>1 DEF Call
<1>4. c.ok = ok /\ Goes(t, c)
  BY <1>1, <1>2 DEF Call
<1>5. /\ \A k \in Keys \ {key} : nvs'[k] = nvs[k]
      /\ nvs'[key] = IF refused THEN nvs[key] ELSE call[t].val
  BY <1>1, <1>2
<1>6. call'[t] = c
  BY <1>1, <1>4 DEF Goes
<1> HIDE DEF c
<1>7. AckedSurvives'
  BY <1>1, <1>5 DEF IInv, AckedSurvives, Kept
<1>8. \A u \in Tasks : Kept(u)'
  BY <1>1, <1>3, <1>4, <1>5, KeptStep DEF Kept
<1> QED BY <1>7, <1>8

LEMMA CommitKept ==
  ASSUME IInv, fault = Unknown, NEW t \in Tasks, Commit(t)
  PROVE  AckedSurvives' /\ (\A u \in Tasks : Kept(u)')
<1> DEFINE key == call[t].key
           ignored == IgnoresCommit(call[t].op, key)
<1>1. /\ flash \in [Keys -> Content] /\ call \in [Tasks -> Call] /\ call[t] \in Call
      /\ key \in Keys /\ At(t) = "commit" /\ Kept(t) /\ UNCHANGED <<nvs, acked>>
  BY DEF IInv, MInv, TypeOK, Call, Commit
<1>2. call[t].op # "get"
  BY <1>1 DEF IInv, MInv, Held
<1>3. PICK fails \in BOOLEAN :
        /\ flash' = IF fails THEN flash ELSE [flash EXCEPT ![key] = nvs[key]]
        /\ Goes(t, [call[t] EXCEPT !.at = "give", !.ok = ~fails \/ ignored])
  BY DEF Commit
<1> DEFINE ok == ~fails \/ ignored
           c == [call[t] EXCEPT !.at = "give", !.ok = ok]
<1>4. c.at = "give" /\ c.op = call[t].op /\ c.key = key /\ c.val = call[t].val
  BY <1>1 DEF Call
<1>5. c.ok = ok /\ Goes(t, c)
  BY <1>1, <1>3 DEF Call
<1>6. /\ \A k \in Keys \ {key} : flash'[k] = flash[k]
      /\ flash'[key] = IF fails THEN flash[key] ELSE nvs[key]
  BY <1>1, <1>3
<1>7. c.ok /\ Promised(key, call[t].val) => ~fails
  BY <1>1, <1>2, <1>5 DEF Kept, Promised, IgnoresCommit
<1> HIDE DEF c
<1>8. AckedSurvives'
  BY <1>1, <1>2, <1>6 DEF IInv, AckedSurvives, Kept
<1>9. \A u \in Tasks : Kept(u)'
  BY <1>1, <1>2, <1>4, <1>5, <1>6, <1>7, KeptStep DEF Kept
<1> QED BY <1>8, <1>9

\* The steps that leave NVS as it is.
LEMMA ReadKept ==
  ASSUME IInv, fault = Unknown, NEW t \in Tasks, Take(t) \/ Read(t) \/ GiveThenFallBack(t)
  PROVE  AckedSurvives' /\ (\A u \in Tasks : Kept(u)')
<1>1. call[t] \in Call /\ UNCHANGED <<nvs, flash, acked>> /\ At(t) # "commit" /\ Kept(t)
  BY DEF IInv, MInv, TypeOK, Take, Read, GiveThenFallBack
<1>2. PICK c : Goes(t, c) /\ (c.op # "get" => /\ c.key = call[t].key /\ c.op = call[t].op
                                              /\ c.val = call[t].val /\ c.at = "access")
  <2>1. CASE Take(t)
    <3> DEFINE c == [call[t] EXCEPT !.at = "access"]
    <3>1. Goes(t, c) /\ c.key = call[t].key /\ c.op = call[t].op /\ c.val = call[t].val
          /\ c.at = "access"
      BY <1>1, <2>1 DEF Take, Goto, Call
    <3> HIDE DEF c
    <3> QED BY <3>1
  <2>2. CASE Read(t)
    <3>1. PICK l, v, ok :
            Goes(t, [call[t] EXCEPT !.at = l, !.val = v, !.ok = ok])
      BY <2>2 DEF Read
    <3> DEFINE c == [call[t] EXCEPT !.at = l, !.val = v, !.ok = ok]
    <3>2. c.op = "get"
      BY <1>1, <2>2 DEF Call, Read
    <3>3. Goes(t, c)
      BY <3>1
    <3> HIDE DEF c
    <3> QED BY <3>2, <3>3
  <2>3. CASE GiveThenFallBack(t)
    <3> DEFINE c == [call[t] EXCEPT !.at = "give"]
    <3>1. Goes(t, c) /\ c.op = "get"
      BY <1>1, <2>3 DEF GiveThenFallBack, Goto, Call, IInv, MInv, Held
    <3> HIDE DEF c
    <3> QED BY <3>1
  <2> QED BY <2>1, <2>2, <2>3
<1>3. AckedSurvives'
  BY <1>1 DEF IInv, AckedSurvives
<1>4. \A u \in Tasks : Kept(u)'
  BY <1>1, <1>2, KeptStep DEF Kept
<1> QED BY <1>3, <1>4

\* Without the namespace there is nothing to clear.
LEMMA OpenKept ==
  ASSUME IInv, fault = Unknown, NEW t \in Tasks, OpenFails(t)
  PROVE  AckedSurvives' /\ (\A u \in Tasks : Kept(u)')
<1> DEFINE key == call[t].key
<1>1. /\ call[t] \in Call /\ key \in Keys /\ call[t].op # "get" /\ At(t) = "access" /\ Kept(t)
      /\ UNCHANGED <<nvs, flash, acked>>
  BY DEF IInv, MInv, TypeOK, Call, OpenFails
<1>2. PICK absent \in BOOLEAN :
        /\ absent => call[t].op = "clear" /\ key # Host
        /\ Goes(t, [call[t] EXCEPT !.at = "give", !.ok = absent])
  BY <1>1 DEF OpenFails
<1> DEFINE c == [call[t] EXCEPT !.at = "give", !.ok = absent]
<1>3. c.at = "give" /\ c.op = call[t].op /\ c.key = key /\ c.val = call[t].val
  BY <1>1 DEF Call
<1>4. c.ok = absent /\ Goes(t, c)
  BY <1>1, <1>2 DEF Call
<1>5. absent => ~Promised(key, call[t].val)
  BY <1>1, <1>2 DEF Kept, Promised
<1> HIDE DEF c
<1>6. AckedSurvives'
  BY <1>1 DEF IInv, AckedSurvives
<1>7. \A u \in Tasks : Kept(u)'
  BY <1>1, <1>2, <1>3, <1>4, <1>5, KeptStep DEF Kept
<1> QED BY <1>6, <1>7

\* A call returns, and what it changed is confirmed.
LEMMA AnswerKept ==
  ASSUME IInv, fault = Unknown, NEW t \in Tasks, NEW ok \in BOOLEAN, Answers(t, ok),
         ok => At(t) = "give" /\ call[t].ok, At(t) # "commit", UNCHANGED <<nvs, flash>>
  PROVE  AckedSurvives' /\ (\A u \in Tasks : Kept(u)')
<1>1. /\ acked \in [Keys -> Content \cup {Unknown}] /\ call[t] \in Call /\ call[t].key \in Keys
      /\ Kept(t) /\ NoCall.op = "get" /\ Goes(t, NoCall)
  BY DEF IInv, MInv, TypeOK, Call, Answers, NoCall
<1>2. CASE call[t].op = "get" \/ ~ok
  <2>1. acked' = acked
    BY <1>2 DEF Answers
  <2> QED BY <1>1, <2>1, KeptStep DEF IInv, AckedSurvives
<1>3. CASE call[t].op # "get" /\ ok
  <2>1. acked' = [acked EXCEPT ![call[t].key] = call[t].val]
    BY <1>3 DEF Answers
  <2>2. AckedSurvives'
    BY <1>1, <1>3, <2>1 DEF IInv, AckedSurvives, Kept
  <2>3. t \in Editors
    BY <1>1, <1>3 DEF Kept
  <2> QED BY <1>1, <2>2, <2>3, KeptStep
<1> QED BY <1>2, <1>3

LEMMA NextKept == IInv /\ [Next]_vars => IInv'
<1> SUFFICES ASSUME IInv, [Next]_vars
             PROVE  /\ AckedSurvives'
                    /\ fault' = Unknown => \A t \in Tasks : Kept(t)'
  BY NextMutex DEF IInv
<1>1. NoCall.op = "get"
  BY DEF NoCall
<1>2. CASE fault # Unknown
  BY <1>2 DEF Next, Get, Set, Clear, Change, Proceed, Take, TimeOut, Read, OpenFails, Write,
              Commit, Give, GiveThenFallBack, Restart, Halted, vars, IInv, AckedSurvives
<1>3. ASSUME fault = Unknown, NEW t \in Tasks, NEW k \in Keys, Get(t, k)
      PROVE  AckedSurvives' /\ (\A u \in Tasks : Kept(u)')
  <2> DEFINE c == [NoCall EXCEPT !.at = "take", !.key = k]
  <2>1. Goes(t, c) /\ c.op = "get" /\ At(t) # "commit" /\ UNCHANGED <<nvs, flash, acked>>
    BY <1>3 DEF Get, NoCall
  <2> HIDE DEF c
  <2> QED BY <1>3, <2>1, KeptStep DEF IInv, AckedSurvives
<1>4. ASSUME fault = Unknown, NEW t \in Tasks, NEW k \in Keys, NEW op \in {"set", "clear"},
             NEW v \in Content, v = Missing <=> op = "clear", Change(t, k, op, v)
      PROVE  AckedSurvives' /\ (\A u \in Tasks : Kept(u)')
  <2> DEFINE c == [NoCall EXCEPT !.at = "take", !.op = op, !.key = k, !.val = v]
  <2>1. Goes(t, c) /\ c.op = op /\ c.key = k /\ c.val = v /\ c.at = "take"
    BY <1>4 DEF Change, NoCall
  <2>2. /\ At(t) # "commit" /\ t \in Editors /\ UNCHANGED <<nvs, flash>>
        /\ acked' = [acked EXCEPT ![k] = Unknown]
        /\ acked \in [Keys -> Content \cup {Unknown}]
    BY <1>4 DEF Change, IInv, MInv, TypeOK
  <2> HIDE DEF c
  <2>3. AckedSurvives' /\ acked'[k] = Unknown
    BY <2>2 DEF IInv, AckedSurvives
  <2> QED BY <1>4, <2>1, <2>2, <2>3, KeptStep
<1>5. ASSUME fault = Unknown, NEW t \in Tasks, Proceed(t)
      PROVE  AckedSurvives' /\ (\A u \in Tasks : Kept(u)')
  <2>1. CASE TimeOut(t)
    BY <1>5, <2>1, AnswerKept DEF TimeOut
  <2>2. CASE Give(t)
    <3>1. call[t].ok \in BOOLEAN
      BY DEF IInv, MInv, TypeOK, Call
    <3> QED BY <1>5, <2>2, <3>1, AnswerKept DEF Give
  <2> QED BY <1>5, <2>1, <2>2, ReadKept, OpenKept, WriteKept, CommitKept DEF Proceed
<1>6. CASE Restart
  <2>1. /\ nvs \in [Keys -> Content] /\ flash \in [Keys -> Content]
        /\ flash' = nvs' /\ acked' = acked /\ \A t \in Tasks : call'[t] = NoCall
    BY <1>6 DEF Restart, IInv, MInv, TypeOK
  <2>2. \A k \in Keys : nvs'[k] \in {nvs[k], flash[k]}
    BY <1>6 DEF Restart
  <2> QED BY <1>1, <2>1, <2>2 DEF IInv, AckedSurvives, Kept
<1>7. CASE UNCHANGED vars
  BY <1>7 DEF vars, IInv, AckedSurvives, Kept, At
<1>8. Missing \in Content /\ Values \subseteq Content /\ \A v \in Values : v # Missing
  BY DEF Content
<1>9. ASSUME fault = Unknown, NEW t \in Tasks, NEW k \in Keys,
             Clear(t, k) \/ \E v \in Values : Set(t, k, v)
      PROVE  AckedSurvives' /\ (\A u \in Tasks : Kept(u)')
  BY <1>4, <1>8, <1>9 DEF Clear, Set
<1> QED BY <1>2, <1>3, <1>5, <1>6, <1>7, <1>9 DEF Next, Halted

\* Every value the web server confirmed, and the confirmed removal of server_host,
\* is what every reader finds and what is there after a restart, whatever fails
\* and whenever the restart comes.
THEOREM ConfirmedSurvives == Spec => []AckedSurvives
<1>1. Init => IInv
  BY InitMutex DEF Init, IInv, AckedSurvives, Kept, NoCall
<1>2. IInv => AckedSurvives
  BY DEF IInv
<1>3. IInv /\ [Next]_vars => IInv'
  BY NextKept
<1> QED BY <1>1, <1>2, <1>3, PTL DEF Spec
=============================================================================
