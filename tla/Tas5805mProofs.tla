---------------------------- MODULE Tas5805mProofs ----------------------------
(***************************************************************************)
(* What Tas5805m keeps for all settings, values and requests, with any       *)
(* number of calls: its types, and that the calls of several tasks, however   *)
(* their changes of book and page interleave, leave the chip at its control   *)
(* port; and that the chip, the driver and NVS agree on each setting whose    *)
(* last call did not fail on the way, as long as no two calls interfere.      *)
(***************************************************************************)
EXTENDS Tas5805m, TLAPS

Job  == [key : Register \cup {"none"}, part : Part, next : 1..8, ok : BOOLEAN,
         val : Values \cup State \cup {Missing, Bad}]
Regs == [Register -> [Part -> Values \cup State \cup {Unknown}]]

\* What a call is given suits its key.
Suits(t) ==
  /\ job[t].key = "state" => job[t].val \in State
  /\ job[t].key \in Setting => job[t].val \in Values \cup {Bad}

TInv == TypeOK /\ \A t \in Task : Suits(t)

\* The task t is in a book, between two of its transactions.
Within(t, i, j) ==
  Writing(t) /\ job[t].val # Bad /\ i <= job[t].next /\ job[t].next <= j

\* Whoever took the chip to another page has yet to come to the first
\* transaction that leads back, and whoever took it to another book to the
\* second; the former may make the latter's fail, but still has its own to come.
PageHeld == here.page = 0 \/ \E t \in Task : Within(t, 4, 5)
BookHeld == here.book = "port" \/ \E t \in Task : Within(t, 3, 6)

IInv == TInv /\ (~failed => PageHeld /\ BookHeld)

-----------------------------------------------------------------------------
(* The calls                                                                 *)

\* The key of a call is a register, and its transactions are known.
LEMMA Written ==
  ASSUME TypeOK, NEW t \in Task, ~Writing(t), ~Through(t)
  PROVE  Transaction(t) = ToReg(job[t].key, job[t].val) /\ job[t].key = "state" /\ job[t].next = 1
<1>1. job[t].key = "state"
  BY DEF TypeOK, Writing, Through, Idle, InBook, Home, ControlPort, Register, Setting
<1>2. Transactions(job[t].key, job[t].val) \in {<<>>, <<ToReg(job[t].key, job[t].val)>>}
  BY <1>1 DEF Transactions, InBook, Home
<1>3. job[t].next \in 1..8
  BY DEF TypeOK
<1>4. job[t].next <= Len(Transactions(job[t].key, job[t].val))
  <2>1. Len(Transactions(job[t].key, job[t].val)) \in Nat
    BY <1>2
  <2> QED BY <2>1, <1>3 DEF Through
<1> QED BY <1>1, <1>2, <1>3, <1>4 DEF Transaction

LEMMA WrittenInBook ==
  ASSUME TypeOK, NEW t \in Task, Writing(t), ~Through(t)
  PROVE  /\ job[t].val # Bad /\ job[t].key \in Setting /\ job[t].next \in 1..7
         /\ job[t].next \in {1, 5, 7} => Transaction(t) = ToPage(0)
         /\ job[t].next = 2 => Transaction(t) = ToBook(Home[job[t].key].book)
         /\ job[t].next = 3 => Transaction(t) = ToPage(Home[job[t].key].page)
         /\ job[t].next = 4 => Transaction(t) = ToReg(job[t].key, job[t].val)
         /\ job[t].next = 6 => Transaction(t) = ToBook("port")
<1> DEFINE k == job[t].key
           w == job[t].val
           full == <<ToPage(0), ToBook(Home[k].book), ToPage(Home[k].page), ToReg(k, w),
                     ToPage(0), ToBook("port"), ToPage(0)>>
<1>1. k \in Setting
  BY DEF TypeOK, Writing, Idle, InBook, Home, ControlPort, Register, Setting
<1>2. job[t].next \in 1..8
  BY DEF TypeOK
<1>3. w # Bad
  <2>1. SUFFICES ASSUME w = Bad PROVE FALSE
    OBVIOUS
  <2>2. Transactions(k, w) = <<>>
    BY <2>1 DEF Transactions
  <2>3. Len(Transactions(k, w)) = 0
    BY <2>2
  <2> QED BY <1>2, <2>3 DEF Through
<1>4. Transactions(k, w) = full
  BY <1>1, <1>3 DEF Transactions, Writing
<1>5. Len(full) = 7
  OBVIOUS
<1>6. job[t].next \in 1..7
  BY <1>2, <1>4, <1>5 DEF Through
<1>7. Transaction(t) = full[job[t].next]
  BY <1>4 DEF Transaction
<1>8. /\ full[1] = ToPage(0) /\ full[2] = ToBook(Home[k].book) /\ full[3] = ToPage(Home[k].page)
      /\ full[4] = ToReg(k, w) /\ full[5] = ToPage(0) /\ full[6] = ToBook("port") /\ full[7] = ToPage(0)
  OBVIOUS
<1> HIDE DEF full
<1> QED BY <1>1, <1>3, <1>6, <1>7, <1>8

-----------------------------------------------------------------------------
(* Types                                                                     *)

USE DEF Task, Setting, Register

\* The parts of a register are among those it is modelled with.
LEMMA PartsTypes ==
  /\ Part \subseteq Nat /\ 1 \in Part
  /\ \A k \in Register : Parts(k) \in Part /\ 1..Parts(k) \subseteq Part
BY ChipAssumption DEF Part, Parts

\* Where a call in a book is after a transaction: the first follows the last as
\* long as there is a part left.
LEMMA FurtherInBook ==
  ASSUME TInv, NEW t \in Task, Writing(t), ~Through(t)
  PROVE  /\ job[t].next # 7 => Further(job[t]).next = job[t].next + 1 /\ Further(job[t]).part = job[t].part
         /\ job[t].next = 7 =>
              \/ Further(job[t]).next = 1 /\ Further(job[t]).part = job[t].part + 1
                 /\ job[t].part < Parts(job[t].key)
              \/ Further(job[t]).next = 8 /\ Further(job[t]).part = job[t].part
                 /\ job[t].part >= Parts(job[t].key)
         /\ Further(job[t]).next \in 1..8 /\ Further(job[t]).part \in Part
         /\ Further(job[t]).key = job[t].key /\ Further(job[t]).val = job[t].val
         /\ Further(job[t]).ok = job[t].ok
<1> DEFINE j == job[t]
<1>1. j \in Job /\ j.key \in Setting /\ j.next \in 1..7 /\ j.val # Bad
  BY WrittenInBook DEF TInv, TypeOK, Job
<1>2. Len(Transactions(j.key, j.val)) = 7
  BY <1>1 DEF Transactions, Writing
<1>3. Parts(j.key) \in Nat /\ 1..Parts(j.key) \subseteq Part /\ j.part \in Nat /\ j.part >= 1
  BY <1>1, PartsTypes DEF Job, Part
<1> HIDE DEF j
<1>4. CASE j.next = 7 /\ j.part < Parts(j.key)
  <2>1. Further(j) = [j EXCEPT !.next = 1, !.part = @ + 1]
    BY <1>2, <1>4 DEF Further
  <2>2. j.part + 1 \in Part
    BY <1>3, <1>4
  <2> QED BY <1>1, <1>4, <2>1, <2>2 DEF j, Job
<1>5. CASE ~(j.next = 7 /\ j.part < Parts(j.key))
  <2>1. Further(j) = [j EXCEPT !.next = @ + 1]
    BY <1>2, <1>5 DEF Further
  <2>2. j.next = 7 => j.part >= Parts(j.key)
    BY <1>3, <1>5
  <2> QED BY <1>1, <2>1, <2>2 DEF j, Job
<1> QED BY <1>4, <1>5

\* Where any other call is.
LEMMA FurtherElse ==
  ASSUME TInv, NEW t \in Task, ~Writing(t), ~Through(t)
  PROVE  Further(job[t]) = [job[t] EXCEPT !.next = 2]
<1> DEFINE j == job[t]
<1>1. j \in Job /\ j.key = "state" /\ j.next = 1
  BY Written DEF TInv, TypeOK, Job
<1>2. ~(j.part < Parts(j.key))
  BY <1>1 DEF Job, Part, Parts
<1>3. Further(j) = [j EXCEPT !.next = @ + 1]
  BY <1>2 DEF Further
<1> QED BY <1>1, <1>3 DEF Job

\* What a transaction leaves of the call.
Stepped(t, fails) ==
  job' = [job EXCEPT ![t] = [Further(job[t]) EXCEPT
            !.ok = IF Transaction(t).to \in Register THEN Result(@, fails) ELSE @]]

LEMMA AfterStep ==
  ASSUME TInv, NEW t \in Task, ~Through(t), NEW fails \in BOOLEAN, Stepped(t, fails)
  PROVE  /\ job' \in [Task -> Job]
         /\ job'[t].key = job[t].key /\ job'[t].val = job[t].val
         /\ job'[t].next = Further(job[t]).next /\ job'[t].part = Further(job[t]).part
         /\ job'[t].ok <=> (job[t].ok /\ ~(fails /\ Transaction(t).to \in Register))
         /\ \A u \in Task \ {t} : job'[u] = job[u]
<1> DEFINE f == Further(job[t])
<1>1. job \in [Task -> Job] /\ job[t] \in Job
  BY DEF TInv, TypeOK, Job
<1>2. f \in Job /\ f.key = job[t].key /\ f.val = job[t].val /\ f.ok = job[t].ok
  <2>1. CASE Writing(t)
    <3>1. f.key = job[t].key /\ f.val = job[t].val /\ f.ok = job[t].ok
          /\ f.next \in 1..8 /\ f.part \in Part
      BY <2>1, FurtherInBook
    <3>2. f = [job[t] EXCEPT !.next = f.next, !.part = f.part]
      BY <1>1 DEF Further, Job
    <3> HIDE DEF f
    <3> QED BY <1>1, <3>1, <3>2 DEF Job
  <2>2. CASE ~Writing(t)
    BY <1>1, <2>2, FurtherElse DEF Job
  <2> QED BY <2>1, <2>2
<1> DEFINE o == IF Transaction(t).to \in Register THEN Result(f.ok, fails) ELSE f.ok
<1>3. o \in BOOLEAN /\ (o <=> (job[t].ok /\ ~(fails /\ Transaction(t).to \in Register)))
  <2>1. f.ok \in BOOLEAN /\ f.ok = job[t].ok
    BY <1>2 DEF Job
  <2> HIDE DEF f
  <2> QED BY <2>1 DEF Result
<1>4. job' = [job EXCEPT ![t] = [f EXCEPT !.ok = o]]
  BY DEF Stepped
<1> HIDE DEF f, o
<1>5. job'[t] = [f EXCEPT !.ok = o] /\ \A u \in Task \ {t} : job'[u] = job[u]
  BY <1>1, <1>4
<1>6. [f EXCEPT !.ok = o] \in Job
  BY <1>2, <1>3 DEF Job
<1>7. job' \in [Task -> Job]
  BY <1>1, <1>4, <1>6
<1>8. /\ job'[t].key = f.key /\ job'[t].val = f.val /\ job'[t].next = f.next
      /\ job'[t].part = f.part /\ job'[t].ok = o
  BY <1>2, <1>5 DEF Job
<1> QED BY <1>2, <1>3, <1>5, <1>7, <1>8 DEF f

\* What a transaction leaves of the chip.
LEMMA HitsTypes ==
  ASSUME TInv, NEW t \in Task, ~Through(t), Hits(Transaction(t), job[t].part)
  PROVE  here' \in Place /\ reg' \in Regs
<1>1. here \in Place /\ reg \in Regs
  BY DEF TInv, TypeOK, Regs
<1>2. CASE Writing(t)
  <2>1. job[t].key \in Setting /\ job[t].val \in Values
    BY <1>2, WrittenInBook DEF TInv, Suits
  <2>2. Home[job[t].key] \in Place
    BY <2>1 DEF Home, Place, Book
  <2>3. \/ \E p \in 0..2 : Transaction(t) = ToPage(p)
        \/ \E b \in Book : Transaction(t) = ToBook(b)
        \/ Transaction(t) = ToReg(job[t].key, job[t].val)
    <3>1. Home[job[t].key].book \in Book /\ Home[job[t].key].page \in 0..2
      BY <2>2 DEF Place
    <3>2. job[t].next \in 1..7
      BY <1>2, WrittenInBook DEF TInv
    <3>3. job[t].next \in {1, 5, 7} \/ job[t].next = 2 \/ job[t].next = 3
          \/ job[t].next = 4 \/ job[t].next = 6
      BY <3>2
    <3> QED BY <1>2, <3>1, <3>3, WrittenInBook DEF TInv, Book
  <2>4. CASE \E p \in 0..2 : Transaction(t) = ToPage(p)
    BY <1>1, <2>4 DEF Hits, ToPage, Place, Regs
  <2>5. CASE \E b \in Book : Transaction(t) = ToBook(b)
    BY <1>1, <2>5 DEF Hits, ToBook, Place, Regs
  <2>6. CASE Transaction(t) = ToReg(job[t].key, job[t].val)
    BY <1>1, <2>1, <2>6 DEF Hits, ToReg, Place, Regs
  <2> QED BY <2>3, <2>4, <2>5, <2>6
<1>3. CASE ~Writing(t)
  <2>1. Transaction(t) = ToReg("state", job[t].val) /\ job[t].val \in State
    BY <1>3, Written DEF TInv, Suits
  <2> QED BY <1>1, <2>1 DEF Hits, ToReg, Place, Regs
<1> QED BY <1>2, <1>3

LEMMA InitTypes == Init => TInv
<1> SUFFICES ASSUME Init PROVE TInv
  OBVIOUS
<1>1. /\ here \in Place /\ copy \in [Register -> Values \cup State \cup {Unknown}]
      /\ copy.state \in State /\ broken \subseteq Setting
  BY DEF Init, ControlPort, Place, Book, State
<1>2. reg \in Regs
  BY <1>1 DEF Init, Regs
<1>3. nvs \in [Setting -> Values \cup {Missing, Bad}]
  BY DEF Init
<1>4. None \in Job
  BY PartsTypes DEF None, Job
<1>5. job \in [Task -> Job]
  BY <1>4 DEF Init
<1>6. calls \in 0..MaxCalls /\ restore \in Setting \cup {"wait", "end", "done"}
  BY ChipAssumption DEF Init
<1>8. overlapped \in BOOLEAN /\ failed \in BOOLEAN
  BY DEF Init
<1>7. \A t \in Task : Suits(t)
  BY DEF Init, None, Suits
<1> QED BY <1>1, <1>2, <1>3, <1>5, <1>6, <1>7, <1>8 DEF TInv, TypeOK, Job, Regs

\* A call of a task keeps the types.
LEMMA CallsTypes ==
  ASSUME TInv, NEW t \in Task, NEW k \in Register, NEW w, Calls(t, k, w),
         k = "state" => w \in State, k \in Setting => w \in Values \cup {Bad}
  PROVE  /\ job' \in [Task -> Job]
         /\ overlapped' \in BOOLEAN
         /\ \A u \in Task : Suits(u)'
<1>1. overlapped' \in BOOLEAN
  BY DEF TInv, TypeOK, Calls, Meets
<1>2. [key |-> k, val |-> w, part |-> 1, next |-> 1, ok |-> w # Bad] \in Job
  BY PartsTypes DEF Job
<1>3. job' \in [Task -> Job]
  BY <1>2 DEF TInv, TypeOK, Calls, Job
<1>4. ASSUME NEW u \in Task PROVE Suits(u)'
  BY DEF TInv, TypeOK, Calls, Suits
<1> QED BY <1>1, <1>3, <1>4

\* Each step keeps the types.
LEMMA NextTypesKept == TInv /\ [Next]_vars => TInv'
<1> SUFFICES ASSUME TInv, [Next]_vars PROVE TInv'
  OBVIOUS
<1> USE DEF TInv, TypeOK, Job, Regs
<1>1. ASSUME NEW t \in Task, Transact(t) PROVE TInv'
  <2>1. PICK fails \in {f \in Faults : f => ~failed} :
          /\ IF fails THEN UNCHANGED chip ELSE Hits(Transaction(t), job[t].part)
          /\ Stepped(t, fails)
          /\ failed' = (failed \/ (fails /\ Transaction(t).to \notin Register))
    BY <1>1 DEF Transact, Stepped
  <2>2. here' \in Place /\ reg' \in Regs
    <3> HIDE DEF Regs
    <3> QED BY <1>1, <2>1, HitsTypes DEF Transact, chip, Regs
  <2>3. fails \in BOOLEAN
    BY ChipAssumption
  <2>4. job' \in [Task -> Job] /\ \A u \in Task : job'[u].key = job[u].key /\ job'[u].val = job[u].val
    BY <1>1, <2>1, <2>3, AfterStep DEF Transact
  <2>5. failed' \in BOOLEAN
    BY <2>1
  <2>6. \A u \in Task : Suits(u)'
    BY <2>4 DEF Suits
  <2> QED BY <1>1, <2>2, <2>4, <2>5, <2>6 DEF Transact
<1>2. ASSUME NEW t \in Task, Return(t) PROVE TInv'
  <2>1. None \in Job
    BY PartsTypes DEF None
  <2>2. copy' \in [Register -> Values \cup State \cup {Unknown}] /\ copy'.state \in State
    BY <1>2 DEF Return, Remembered, Suits, Idle
  <2>5. broken' \subseteq Setting
    BY <1>2 DEF Return, Idle
  <2>3. nvs' \in [Setting -> Values \cup {Missing, Bad}]
    BY <1>2 DEF Return, Stored, Suits
  <2>4. \A u \in Task : Suits(u)'
    BY <1>2 DEF Return, Suits, None
  <2> QED BY <1>2, <2>1, <2>2, <2>3, <2>4, <2>5 DEF Return, chip
<1>3. CASE Control
  <2>1. PICK s \in State : Calls("dac", "state", s)
    BY <1>3 DEF Control, State
  <2>2. calls' \in 0..MaxCalls
    BY <1>3, ChipAssumption DEF Control
  <2>3. /\ job' \in [Task -> Job]
        /\ overlapped' \in BOOLEAN /\ \A u \in Task : Suits(u)'
    BY <2>1, CallsTypes
  <2> QED BY <1>3, <2>2, <2>3 DEF Control, chip
<1>4. CASE Poll
  <2>1. \A u \in Task : Suits(u)'
    BY <1>4 DEF Poll, Suits
  <2> QED BY <1>4, <2>1 DEF Poll, chip, Busy, Idle, Restoring
<1>5. CASE ApplyDelayed
  <2>1. restore \in Setting /\ restore' \in Setting \cup {"wait", "end", "done"}
    BY <1>5 DEF ApplyDelayed
  <2>2. /\ job' \in [Task -> Job]
        /\ overlapped' \in BOOLEAN /\ \A u \in Task : Suits(u)'
    <3>1. CASE nvs[restore] = Missing
      BY <1>5, <3>1 DEF ApplyDelayed, Suits
    <3>2. CASE nvs[restore] # Missing
      <4>1. nvs[restore] \in Values \cup {Bad}
        BY <2>1, <3>2
      <4>2. Calls("poll", restore, nvs[restore])
        BY <1>5, <3>2 DEF ApplyDelayed
      <4> QED BY <2>1, <4>1, <4>2, CallsTypes
    <3> QED BY <3>1, <3>2
  <2> QED BY <1>5, <2>1, <2>2 DEF ApplyDelayed, chip
<1>6. CASE Restored
  <2>1. \A u \in Task : Suits(u)'
    BY <1>6 DEF Restored, Suits
  <2> QED BY <1>6, <2>1 DEF Restored, chip, history
<1>7. CASE Receive
  <2>1. PICK r \in Requests : Calls("web", r.key, r.val)
    BY <1>7 DEF Receive
  <2>2. /\ r.key \in Register
        /\ r.key = "state" => r.val \in State
        /\ r.key \in Setting => r.val \in Values \cup {Bad}
    BY ChipAssumption DEF Request
  <2>3. /\ job' \in [Task -> Job]
        /\ overlapped' \in BOOLEAN /\ \A u \in Task : Suits(u)'
    BY <2>1, <2>2, CallsTypes
  <2>4. calls' \in 0..MaxCalls
    BY <1>7, ChipAssumption DEF Receive
  <2> QED BY <1>7, <2>3, <2>4 DEF Receive, chip
<1>8. CASE ClearFaults
  <2>1. here' \in Place /\ reg' \in Regs
    BY <1>8 DEF ClearFaults, Hits, Place
  <2>2. \A u \in Task : Suits(u)'
    BY <1>8 DEF ClearFaults, Suits
  <2> QED BY <1>8, <2>1, <2>2 DEF ClearFaults, Busy, Idle, Restoring
<1>9. CASE UNCHANGED vars
  <2>1. \A u \in Task : Suits(u)'
    BY <1>9 DEF vars, chip, history, Suits
  <2> QED BY <1>9, <2>1 DEF vars, chip, history
<1> QED
  BY <1>1, <1>2, <1>3, <1>4, <1>5, <1>6, <1>7, <1>8, <1>9
     DEF Next, Dac, Poller, Web, Steps

\* Every behaviour keeps to the types: the codec's state, the settings and the
\* position within a call (tas5805m.c, tas5805m_settings.c).
THEOREM ChipTypes == Spec => []TypeOK
<1>1. TInv => TypeOK
  BY DEF TInv
<1> QED BY <1>1, InitTypes, NextTypesKept, PTL DEF Spec

-----------------------------------------------------------------------------
(* The way back to the control port                                          *)

LEMMA InitHeld == Init => PageHeld /\ BookHeld
BY DEF Init, PageHeld, BookHeld, ControlPort

\* A task that does nothing is where it was.
LEMMA WithinKept ==
  ASSUME NEW u \in Task, job'[u] = job[u], NEW i, NEW j
  PROVE  Within(u, i, j)' <=> Within(u, i, j)
BY DEF Within, Writing, Idle

\* A transaction of a call in a book that does not fail.
LEMMA WritingHeld ==
  ASSUME TInv, PageHeld, BookHeld, NEW t \in Task, Writing(t), ~Through(t),
         Hits(Transaction(t), job[t].part),
         job'[t].key = job[t].key, job'[t].val = job[t].val,
         job'[t].next = Further(job[t]).next,
         \A u \in Task \ {t} : job'[u] = job[u]
  PROVE  PageHeld' /\ BookHeld'
<1> DEFINE n == job[t].next
<1>1. /\ job[t].val # Bad /\ n \in 1..7 /\ Writing(t)' /\ here \in Place
      /\ job'[t].val # Bad /\ job'[t].next \in {n + 1} \cup (IF n = 7 THEN {1} ELSE {})
  BY WrittenInBook, FurtherInBook DEF Writing, Idle, TInv, TypeOK
<1>2. \A u \in Task \ {t} : /\ Within(u, 4, 5)' <=> Within(u, 4, 5)
                          /\ Within(u, 3, 6)' <=> Within(u, 3, 6)
  BY WithinKept
<1>3. /\ Within(t, 4, 5)' <=> n \in 3..4
      /\ Within(t, 3, 6)' <=> n \in 2..5
      /\ Within(t, 4, 5) <=> n \in 4..5
      /\ Within(t, 3, 6) <=> n \in 3..6
  BY <1>1 DEF Within
<1>4. CASE n \in {1, 5, 7}
  <2>1. Hits(ToPage(0), job[t].part)
    BY <1>4, WrittenInBook DEF TInv
  <2>2. here'.page = 0 /\ here'.book = here.book
    BY <2>1, <1>1 DEF Hits, ToPage, Place
  <2>3. BookHeld'
    BY <1>2, <1>3, <1>4, <2>2 DEF BookHeld
  <2> QED BY <2>2, <2>3 DEF PageHeld
<1>5. CASE n = 2
  <2>1. Hits(ToBook(Home[job[t].key].book), job[t].part)
    BY <1>5, WrittenInBook DEF TInv
  <2>2. here'.page = here.page
    BY <2>1, <1>1 DEF Hits, ToBook, Place
  <2>3. PageHeld'
    <3>1. ~Within(t, 4, 5)
      BY <1>3, <1>5
    <3>2. CASE here.page = 0
      BY <2>2, <3>2 DEF PageHeld
    <3>3. CASE \E u \in Task \ {t} : Within(u, 4, 5)
      <4>1. PICK u \in Task \ {t} : Within(u, 4, 5)
        BY <3>3
      <4>2. u \in Task /\ job'[u] = job[u]
        BY <4>1
      <4>3. Within(u, 4, 5)'
        BY <4>1, <4>2, WithinKept
      <4> QED BY <4>2, <4>3 DEF PageHeld
    <3> QED BY <3>1, <3>2, <3>3 DEF PageHeld
  <2>4. BookHeld'
    BY <1>3, <1>5 DEF BookHeld
  <2> QED BY <2>3, <2>4
<1>6. CASE n \in {3, 4}
  BY <1>3, <1>6 DEF PageHeld, BookHeld
<1>7. CASE n = 6
  <2>1. Hits(ToBook("port"), job[t].part)
    BY <1>7, WrittenInBook DEF TInv
  <2>2. here'.page = here.page /\ (here.page = 0 => here'.book = "port")
    BY <2>1, <1>1 DEF Hits, ToBook, Place
  <2>3. PageHeld'
    <3>1. ~Within(t, 4, 5)
      BY <1>3, <1>7
    <3>2. CASE here.page = 0
      BY <2>2, <3>2 DEF PageHeld
    <3>3. CASE \E u \in Task \ {t} : Within(u, 4, 5)
      <4>1. PICK u \in Task \ {t} : Within(u, 4, 5)
        BY <3>3
      <4>2. u \in Task /\ job'[u] = job[u]
        BY <4>1
      <4>3. Within(u, 4, 5)'
        BY <4>1, <4>2, WithinKept
      <4> QED BY <4>2, <4>3 DEF PageHeld
    <3> QED BY <3>1, <3>2, <3>3 DEF PageHeld
  <2>4. CASE here.page = 0
    BY <2>2, <2>3, <2>4 DEF BookHeld
  <2>5. CASE here.page # 0
    <3>1. PICK u \in Task : Within(u, 4, 5)
      BY <2>5 DEF PageHeld
    <3>2. u # t
      BY <3>1, <1>3, <1>7
    <3>3. Within(u, 3, 6)
      BY <3>1 DEF Within, TInv, TypeOK
    <3>4. BookHeld'
      BY <1>2, <3>2, <3>3 DEF BookHeld
    <3> QED BY <2>3, <3>4
  <2> QED BY <2>4, <2>5
<1> QED BY <1>1, <1>4, <1>5, <1>6, <1>7

\* A step that leaves book and page, and whatever calls are in a book.
LEMMA ElsewhereHeld ==
  ASSUME PageHeld, BookHeld, here' = here,
         \A u \in Task : Writing(u) /\ job[u].val # Bad => job'[u] = job[u] \/ job[u].next > 6
  PROVE  TInv => PageHeld' /\ BookHeld'
<1> SUFFICES ASSUME TInv PROVE PageHeld' /\ BookHeld'
  OBVIOUS
<1>1. ASSUME NEW u \in Task, Within(u, 3, 6) PROVE Within(u, 3, 6)' /\ (Within(u, 4, 5) => Within(u, 4, 5)')
  <2>1. job'[u] = job[u]
    BY <1>1 DEF Within, TInv, TypeOK
  <2> QED BY <1>1, <2>1, WithinKept
<1>2. \A u \in Task : Within(u, 4, 5) => Within(u, 3, 6)
  BY DEF Within, TInv, TypeOK
<1> QED BY <1>1, <1>2 DEF PageHeld, BookHeld

\* Each step keeps who has the way back to come, or is the failure.
LEMMA NextHeld == IInv /\ [Next]_vars => IInv'
<1> SUFFICES ASSUME IInv, [Next]_vars, ~failed' PROVE PageHeld' /\ BookHeld'
  BY NextTypesKept DEF IInv
<1>1. TInv /\ ~failed /\ PageHeld /\ BookHeld
  <2>1. ~failed
    BY DEF IInv, TInv, TypeOK, Next, Dac, Poller, Web, Steps, Transact, Return, Control, Poll,
           ApplyDelayed, Restored, Receive, ClearFaults, vars, history
  <2> QED BY <2>1 DEF IInv
<1>2. ASSUME NEW t \in Task, Transact(t) PROVE PageHeld' /\ BookHeld'
  <2>1. PICK fails \in {f \in Faults : f => ~failed} :
          /\ IF fails THEN UNCHANGED chip ELSE Hits(Transaction(t), job[t].part)
          /\ Stepped(t, fails)
          /\ failed' = (failed \/ (fails /\ Transaction(t).to \notin Register))
    BY <1>2 DEF Transact, Stepped
  <2>2. /\ job'[t].key = job[t].key /\ job'[t].val = job[t].val
        /\ job'[t].next = Further(job[t]).next /\ ~Through(t)
        /\ \A u \in Task \ {t} : job'[u] = job[u]
    BY <1>1, <1>2, <2>1, ChipAssumption, AfterStep DEF Transact
  <2>3. CASE Writing(t)
    <3>1. CASE ~fails
      BY <1>1, <2>1, <2>2, <2>3, <3>1, WritingHeld
    <3>2. CASE fails
      <4>1. Transaction(t).to \in Register /\ here' = here
        BY <2>1, <3>2 DEF chip
      <4>2. job[t].next = 4
        BY <1>1, <2>2, <2>3, <4>1, WrittenInBook DEF TInv, ToPage, ToBook
      <4>3. job'[t].next = 5 /\ job'[t].key = job[t].key /\ job'[t].val = job[t].val
        BY <1>1, <2>2, <2>3, <4>2, FurtherInBook
      <4>4. \A u \in Task : (Within(u, 4, 5) => Within(u, 4, 5)') /\ (Within(u, 3, 6) => Within(u, 3, 6)')
        BY <2>2, <4>2, <4>3, WithinKept DEF Within, Writing, Idle
      <4> QED BY <1>1, <4>1, <4>4 DEF PageHeld, BookHeld
    <3> QED BY <3>1, <3>2
  <2>4. CASE ~Writing(t)
    <3>1. here' = here
      <4>1. Transaction(t) = ToReg("state", job[t].val)
        BY <1>1, <1>2, <2>4, Written DEF Transact, TInv
      <4> QED BY <2>1, <4>1 DEF Hits, ToReg, chip
    <3>2. \A u \in Task : Writing(u) /\ job[u].val # Bad => job'[u] = job[u] \/ job[u].next > 6
      BY <2>2, <2>4
    <3> QED BY <1>1, <3>1, <3>2, ElsewhereHeld
  <2> QED BY <2>3, <2>4
<1>3. ASSUME NEW t \in Task, Return(t) PROVE PageHeld' /\ BookHeld'
  <2>1. here' = here
    BY <1>3 DEF Return, chip
  <2>2. Writing(t) /\ job[t].val # Bad => job[t].next > 6
    <3>1. SUFFICES ASSUME Writing(t), job[t].val # Bad PROVE job[t].next > 6
      OBVIOUS
    <3>2. Len(Transactions(job[t].key, job[t].val)) = 7
      BY <3>1 DEF Transactions, Writing
    <3> QED BY <1>1, <1>3, <3>1, <3>2 DEF Return, Through, Writing, TInv, TypeOK
  <2>3. \A u \in Task \ {t} : job'[u] = job[u]
    BY <1>1, <1>3 DEF Return, TInv, TypeOK
  <2> QED BY <1>1, <2>1, <2>2, <2>3, ElsewhereHeld
<1>4. ASSUME NEW t \in Task, NEW k, NEW w, Idle(t), Calls(t, k, w), UNCHANGED chip
      PROVE  PageHeld' /\ BookHeld'
  <2>1. ~Writing(t) /\ \A u \in Task \ {t} : job'[u] = job[u]
    BY <1>1, <1>4 DEF Calls, Writing, TInv, TypeOK
  <2> QED BY <1>1, <1>4, <2>1, ElsewhereHeld DEF chip
<1>5. CASE UNCHANGED <<here, job>>
  BY <1>1, <1>5, ElsewhereHeld
<1>6. CASE Control
  BY <1>4, <1>6 DEF Control
<1>7. CASE Poll \/ Restored \/ UNCHANGED vars
  BY <1>5, <1>7 DEF Poll, Restored, vars, chip
<1>8. CASE ApplyDelayed
  <2>1. CASE nvs[restore] = Missing
    BY <1>5, <1>8, <2>1 DEF ApplyDelayed, chip
  <2>2. CASE nvs[restore] # Missing
    BY <1>4, <1>8, <2>2 DEF ApplyDelayed
  <2> QED BY <2>1, <2>2
<1>9. CASE Receive
  BY <1>4, <1>9 DEF Receive
<1>10. CASE ClearFaults
  <2>1. here' = here
    BY <1>10 DEF ClearFaults, Hits
  <2> QED BY <1>5, <1>10, <2>1 DEF ClearFaults
<1> QED
  BY <1>2, <1>3, <1>6, <1>7, <1>8, <1>9, <1>10 DEF Next, Dac, Poller, Web, Steps

\* However the calls of several tasks interleave, once none that writes in a book
\* is under way the chip is at its control port (tas5805m.c:36).
THEOREM AtControlPort == Spec => []BackAtControlPort
<1>1. Init => IInv
  BY InitTypes, InitHeld DEF IInv
<1>2. IInv => BackAtControlPort
  <2> SUFFICES ASSUME IInv, ~failed, \A t \in Task : ~Writing(t) PROVE here = ControlPort
    BY DEF BackAtControlPort
  <2>1. here.page = 0 /\ here.book = "port"
    BY DEF IInv, PageHeld, BookHeld, Within
  <2> QED BY <2>1 DEF IInv, TInv, TypeOK, Place, ControlPort
<1> QED BY <1>1, <1>2, NextHeld, PTL DEF Spec
-----------------------------------------------------------------------------
(* The settings of the chip                                                  *)

\* At most one task is busy.
Alone == \A t, u \in Task : Busy(t) /\ Busy(u) => t = u

\* Where the chip is at each transaction of the one call in a book, and that the
\* fourth has written the part, if no write failed; outside one it is at the
\* control port.
At(k, n) == IF n \in {1, 2, 7, 8} THEN ControlPort
            ELSE IF n \in {3, 6} THEN [Home[k] EXCEPT !.page = 0]
            ELSE Home[k]

PartsDone(t) == \A q \in 1..Parts(job[t].key) :
  q < job[t].part \/ (q = job[t].part /\ job[t].next > 4) => reg[job[t].key][q] = job[t].val

Placed(t) ==
  /\ here = IF job[t].val = Bad THEN ControlPort ELSE At(job[t].key, job[t].next)
  /\ job[t].val = Bad => ~job[t].ok
  /\ job[t].val # Bad /\ job[t].ok => PartsDone(t)
  /\ job[t].val # Bad /\ job[t].next = 8 => job[t].part >= Parts(job[t].key)

Where == /\ \A t \in Task : Writing(t) => Placed(t)
         /\ (\A t \in Task : ~Writing(t)) => here = ControlPort

\* The state of the chip is the driver's copy, or what the call under way has
\* written and will have copied.
StateOf(t) ==
  IF job[t].next = 1 THEN reg.state[1] = copy.state /\ (job[t].ok <=> job[t].val # Bad) /\ job[t].part = 1
  ELSE reg.state[1] = (IF job[t].ok THEN job[t].val ELSE copy.state) /\ job[t].val # Bad

StateKept == /\ \A t \in Task : job[t].key = "state" => StateOf(t)
             /\ (\A t \in Task : job[t].key # "state") => reg.state[1] = copy.state

\* A setting whose last call did not fail is what the driver remembers and, once
\* its restore has begun, what NVS has; or a call has yet to write it.
Begun(k) == restore \in IF k = "mixer" THEN {"eq", "end", "done"} ELSE {"end", "done"}

Held(k) ==
  k \notin broken =>
    /\ copy[k] \in Values => Does(k, copy[k])
    /\ nvs[k] \in Values /\ Begun(k) => Does(k, nvs[k])

Kept(k) == Held(k) \/ \E t \in Task : job[t].key = k /\ job[t].val # Bad

SettingsKept ==
  /\ nvs.mixer # Bad /\ job["dac"].key \notin Setting
  /\ ~Idle("poll") => /\ restore \in {"eq", "end"} /\ job["poll"].key \in Setting
                      /\ job["poll"].val = nvs[job["poll"].key]
  /\ \A k \in Setting : Kept(k)

InStep == Alone /\ Where /\ StateKept /\ SettingsKept

CInv == TInv /\ (overlapped \/ failed \/ InStep)

\* While one task is busy the others are idle.
LEMMA OthersIdle ==
  ASSUME Alone, NEW t \in Task, Busy(t), NEW u \in Task, u # t
  PROVE  Idle(u) /\ ~Writing(u) /\ ~Restoring(u)
BY DEF Alone, Busy, Writing

\* A call that meets no other begins while the other tasks are idle.
LEMMA MeetsNone ==
  ASSUME TInv, NEW t \in Task, NEW k \in Register, ~Meets(t, k), NEW u \in Task, u # t
  PROVE  ~Busy(u)
<1> SUFFICES ASSUME Busy(u) PROVE FALSE
  OBVIOUS
<1>1. job[u].key \in Register \cup {"none"}
  BY DEF TInv, TypeOK
<1>2. InBook(k) \/ k = "state"
  BY DEF InBook, Home, ControlPort
<1>3. Restoring(u) \/ job[u].key \in Setting \/ job[u].key = "state"
  BY <1>1 DEF Busy, Idle
<1>4. job[u].key \in Setting => Writing(u)
  BY DEF Writing, Idle, InBook, Home, ControlPort
<1> QED BY <1>2, <1>3, <1>4 DEF Meets

LEMMA InitInStep == Init => InStep
<1> SUFFICES ASSUME Init PROVE InStep
  OBVIOUS
<1>1. \A t \in Task : ~Busy(t) /\ ~Writing(t) /\ job[t].key = "none"
  BY DEF Init, None, Busy, Idle, Restoring, Writing
<1>2. Alone
  BY <1>1 DEF Alone
<1>3. Where
  BY <1>1 DEF Where, Init
<1>4. StateKept
  BY <1>1, PartsTypes DEF StateKept, Init
<1>5. nvs.mixer # Bad /\ job["dac"].key \notin Setting /\ Idle("poll")
  BY <1>1, ChipAssumption DEF Init, Idle
<1>6. \A k \in Setting : Held(k)
  BY PartsTypes DEF Held, Init, Begun, Does
<1>7. SettingsKept
  BY <1>5, <1>6 DEF SettingsKept, Kept
<1> QED BY <1>2, <1>3, <1>4, <1>7 DEF InStep

\* A call begins.
LEMMA CallsInStep ==
  ASSUME TInv, InStep, NEW t \in Task, NEW k \in Register, NEW w, Idle(t), Calls(t, k, w),
         UNCHANGED <<chip, copy, nvs, broken>>, ~overlapped', t = "poll" \/ restore' = restore
  PROVE  /\ Alone' /\ Where' /\ StateKept'
         /\ \A u \in Task \ {t} : ~Busy(u)
         /\ job'[t].key = k /\ job'[t].val = w
         /\ \A u \in Task \ {t} : job'[u] = job[u]
         /\ \A s \in Setting : Held(s)
<1>1. /\ job'[t] = [key |-> k, val |-> w, part |-> 1, next |-> 1, ok |-> w # Bad]
      /\ \A u \in Task \ {t} : job'[u] = job[u]
  BY DEF Calls, TInv, TypeOK
<1>11. /\ job'[t].key = k /\ job'[t].val = w /\ job'[t].part = 1 /\ job'[t].next = 1
       /\ job'[t].ok <=> w # Bad
  <2> DEFINE c == [key |-> k, val |-> w, part |-> 1, next |-> 1, ok |-> w # Bad]
  <2>1. /\ c.key = k /\ c.val = w /\ c.part = 1 /\ c.next = 1
        /\ c.ok <=> w # Bad
    BY Zenon
  <2>2. job'[t] = c
    BY <1>1
  <2> HIDE DEF c
  <2> QED BY <2>1, <2>2
<1>2. \A u \in Task \ {t} : ~Busy(u)
  BY MeetsNone DEF Calls
<1>3. \A u \in Task : job[u].key = "none"
  BY <1>2 DEF Busy, Idle
<1>4. \A u \in Task \ {t} : Idle(u)' /\ ~Writing(u)' /\ job'[u].key = "none"
  BY <1>1, <1>3 DEF Idle, Writing
<1>5. here = ControlPort /\ here' = here /\ reg' = reg /\ copy' = copy
  BY <1>3 DEF InStep, Where, Writing, Idle, chip
<1>6. Where'
  <2>1. PartsDone(t)'
    <3>1. \A q \in 1..Parts(k) : ~(q < 1)
      BY PartsTypes
    <3> QED BY <1>11, <3>1 DEF PartsDone, Parts
  <2>2. Placed(t)'
    BY <1>11, <1>5, <2>1 DEF Placed, At
  <2> QED BY <1>4, <1>5, <2>2 DEF Where
<1>7. StateKept'
  <2>1. reg.state[1] = copy.state
    BY <1>3 DEF InStep, StateKept
  <2>2. StateOf(t)'
    BY <1>11, <1>5, <2>1 DEF StateOf
  <2>3. reg'.state[1] = copy'.state
    BY <1>5, <2>1
  <2> QED BY <1>4, <2>2, <2>3 DEF StateKept
<1>8. \A s \in Setting : Held(s)
  BY <1>3 DEF InStep, SettingsKept, Kept
<1>9. \A u \in Task \ {t} : ~Busy(u)'
  BY <1>2, <1>4 DEF Busy, Restoring
<1>10. Alone'
  BY <1>9 DEF Alone
<1> QED BY <1>1, <1>2, <1>6, <1>7, <1>8, <1>10

\* A setting whose parts, copy and stored value stay.
LEMMA HeldStays ==
  ASSUME NEW k \in Setting, Held(k), reg'[k] = reg[k], copy' = copy, nvs'[k] = nvs[k],
         restore' = restore, broken' = broken
  PROVE  Held(k)'
BY DEF Held, Does, Begun, Parts

\* A transaction of a call in a book, which fails at most when it writes a register.
LEMMA WriteInStep ==
  ASSUME TInv, InStep, NEW t \in Task, Writing(t), ~Through(t), NEW fails \in BOOLEAN,
         fails => Transaction(t).to \in Register,
         IF fails THEN UNCHANGED chip ELSE Hits(Transaction(t), job[t].part),
         Stepped(t, fails), UNCHANGED <<copy, nvs, restore, broken>>
  PROVE  InStep'
<1> DEFINE k == job[t].key
           n == job[t].next
           p == job[t].part
<1>1. /\ job[t].val # Bad /\ k \in Setting /\ n \in 1..7 /\ job[t].val \in Values /\ Placed(t)
      /\ here \in Place /\ reg \in Regs /\ job[t].ok \in BOOLEAN /\ p \in Part
  BY WrittenInBook DEF TInv, TypeOK, Suits, InStep, Where, Regs
<1>2. /\ job'[t].key = k /\ job'[t].val = job[t].val
      /\ job'[t].next = Further(job[t]).next /\ job'[t].part = Further(job[t]).part
      /\ job'[t].ok => job[t].ok /\ ~(fails /\ Transaction(t).to \in Register)
      /\ \A u \in Task \ {t} : job'[u] = job[u]
  BY AfterStep
<1>3. \A u \in Task \ {t} : job[u].key = "none" /\ ~Writing(u)
  BY OthersIdle DEF InStep, Busy, Writing, Idle
<1>4. Home[k] \in Place /\ Home[k] # ControlPort /\ ControlPort \in Place
      /\ ControlPort.page = 0 /\ ControlPort.book = "port"
  BY <1>1 DEF Home, Place, Book, ControlPort
<1>11. /\ n # 7 => job'[t].next = n + 1 /\ job'[t].part = p
       /\ n = 7 => \/ job'[t].next = 1 /\ job'[t].part = p + 1
                   \/ job'[t].next = 8 /\ job'[t].part = p /\ p >= Parts(k)
  BY <1>2, FurtherInBook
<1>12. n # 4 => ~fails
  <2>1. n # 4 => Transaction(t).to \in {"page", "book"}
    BY <1>1, WrittenInBook DEF TInv, ToPage, ToBook
  <2> QED BY <2>1
<1>13. job'[t].ok => job[t].ok /\ ~fails
  BY <1>2
<1>5. /\ here' = At(k, job'[t].next)
      /\ n = 4 /\ ~fails => reg' = [j \in Register |-> [q \in Part |->
                                     IF j = k /\ q = p THEN job[t].val ELSE reg[j][q]]]
      /\ n # 4 \/ fails => reg' = reg
  <2>1. here = At(k, n)
    BY <1>1 DEF Placed
  <2>2. CASE n \in {1, 5, 7}
    <3>1. Hits(ToPage(0), p)
      BY <1>12, <2>2, WrittenInBook DEF TInv
    <3>2. here' = [here EXCEPT !.page = 0] /\ reg' = reg
      BY <3>1 DEF Hits, ToPage
    <3>3. n + 1 \in {2, 6, 8} /\ (n = 5 => n + 1 = 6)
      BY <2>2
    <3> QED BY <2>1, <2>2, <3>2, <3>3, <1>4, <1>11 DEF Place, ControlPort, At
  <2>3. CASE n = 2
    <3>1. Hits(ToBook(Home[k].book), p)
      BY <1>12, <2>3, WrittenInBook DEF TInv
    <3>2. here' = [here EXCEPT !.book = Home[k].book] /\ reg' = reg
      BY <2>1, <2>3, <3>1, <1>4 DEF Hits, ToBook, At
    <3> QED BY <2>1, <2>3, <3>2, <1>4, <1>11 DEF Place, ControlPort, At
  <2>4. CASE n = 3
    <3>1. Hits(ToPage(Home[k].page), p)
      BY <1>12, <2>4, WrittenInBook DEF TInv
    <3>2. here' = [here EXCEPT !.page = Home[k].page] /\ reg' = reg
      BY <3>1 DEF Hits, ToPage
    <3> QED BY <2>1, <2>4, <3>2, <1>4, <1>11 DEF Place, At
  <2>5. CASE n = 4
    <3>1. here = Home[k] /\ At(k, 5) = Home[k]
      BY <2>1, <2>5 DEF At
    <3>2. CASE fails
      BY <1>11, <2>5, <3>1, <3>2 DEF chip
    <3>3. CASE ~fails
      <4>1. Hits(ToReg(k, job[t].val), p)
        BY <2>5, <3>3, WrittenInBook DEF TInv
      <4>2. here' = here /\ reg' = [j \in Register |-> [q \in Part |->
                                     IF j = k /\ q = p THEN job[t].val ELSE reg[j][q]]]
        BY <1>1, <3>1, <4>1 DEF Hits, ToReg
      <4> QED BY <1>11, <2>5, <3>1, <3>3, <4>2
    <3> QED BY <3>2, <3>3
  <2>6. CASE n = 6
    <3>1. Hits(ToBook("port"), p)
      BY <1>12, <2>6, WrittenInBook DEF TInv
    <3>2. here.page = 0
      BY <2>1, <2>6, <1>4 DEF Place, At
    <3>3. here' = [here EXCEPT !.book = "port"] /\ reg' = reg
      BY <3>1, <3>2 DEF Hits, ToBook
    <3> QED BY <2>1, <2>6, <3>3, <1>4, <1>11 DEF Place, ControlPort, At
  <2> QED BY <1>1, <2>2, <2>3, <2>4, <2>5, <2>6
<1>6. Placed(t)'
  <2>1. ASSUME job'[t].ok, NEW q \in 1..Parts(k), q < job'[t].part \/ (q = job'[t].part /\ job'[t].next > 4)
        PROVE  reg'[k][q] = job[t].val
    <3>1. q \in Part /\ q \in Nat /\ p \in Nat
      BY <1>1, PartsTypes
    <3>2. q < p \/ (q = p /\ n > 4) => reg[k][q] = job[t].val
      BY <1>1, <1>13, <2>1 DEF Placed, PartsDone
    <3>3. CASE n = 4
      <4>1. reg'[k][q] = IF q = p THEN job[t].val ELSE reg[k][q]
        BY <1>1, <1>5, <1>13, <2>1, <3>1, <3>3
      <4>2. q <= p
        BY <1>11, <2>1, <3>1, <3>3
      <4> QED BY <3>1, <3>2, <4>1, <4>2
    <3>4. CASE n # 4
      <4>1. q < p \/ (q = p /\ n > 4)
        BY <1>1, <1>11, <2>1, <3>1, <3>4
      <4> QED BY <1>5, <3>2, <3>4, <4>1
    <3> QED BY <3>3, <3>4
  <2>2. job'[t].ok => PartsDone(t)'
    BY <1>2, <2>1 DEF PartsDone, Parts
  <2>3. job'[t].next = 8 => job'[t].part >= Parts(k)
    BY <1>1, <1>11
  <2> QED BY <1>1, <1>2, <1>5, <2>2, <2>3 DEF Placed, Parts
<1>7. Alone'
  BY <1>2 DEF InStep, Alone, Busy, Idle, Restoring
<1>8. Where'
  BY <1>2, <1>3, <1>6 DEF Where, Writing, Idle
<1>14. \A s \in Register \ {k} : reg'[s] = reg[s]
  <2>1. CASE n = 4 /\ ~fails
    BY <1>1, <1>5, <2>1 DEF Regs
  <2>2. CASE ~(n = 4 /\ ~fails)
    BY <1>5, <2>2
  <2> QED BY <2>1, <2>2
<1>9. StateKept'
  <2>1. reg'.state[1] = reg.state[1] /\ copy' = copy
    BY <1>1, <1>14
  <2>2. \A u \in Task : job[u].key # "state" /\ job'[u].key # "state"
    BY <1>1, <1>2, <1>3
  <2> QED BY <2>1, <2>2 DEF InStep, StateKept
<1>10. SettingsKept'
  <2>1. ASSUME NEW s \in Setting PROVE Kept(s)'
    <3>1. CASE s = k
      BY <1>1, <1>2, <3>1 DEF Kept
    <3>2. CASE s # k
      <4>1. reg'[s] = reg[s]
        BY <1>14, <3>2
      <4>2. \A u \in Task : job[u].key # s
        BY <1>3, <3>2
      <4>3. Held(s)
        BY <4>2 DEF InStep, SettingsKept, Kept
      <4> QED BY <4>1, <4>3, HeldStays DEF Kept
    <3> QED BY <3>1, <3>2
  <2>2. nvs'.mixer # Bad /\ job'["dac"].key \notin Setting
    BY <1>2 DEF InStep, SettingsKept
  <2>3. Idle("poll")' = Idle("poll") /\ job'["poll"].key = job["poll"].key
        /\ job'["poll"].val = job["poll"].val
    BY <1>2 DEF Idle
  <2> QED BY <2>1, <2>2, <2>3 DEF InStep, SettingsKept
<1> QED BY <1>7, <1>8, <1>9, <1>10 DEF InStep

\* The transaction of a change of state, which may fail.
LEMMA StateInStep ==
  ASSUME TInv, InStep, NEW t \in Task, ~Writing(t), ~Through(t), NEW fails \in BOOLEAN,
         IF fails THEN UNCHANGED chip ELSE Hits(Transaction(t), job[t].part),
         Stepped(t, fails), UNCHANGED <<copy, nvs, restore, broken>>
  PROVE  InStep'
<1>1. /\ job[t].key = "state" /\ Transaction(t) = ToReg("state", job[t].val) /\ job[t].next = 1
      /\ here \in Place /\ reg \in Regs /\ job[t].ok \in BOOLEAN /\ job[t].part \in Part
  BY Written DEF TInv, TypeOK, Regs
<1>2. \A u \in Task \ {t} : job[u].key = "none" /\ ~Writing(u)
  BY <1>1, OthersIdle DEF InStep, Busy, Idle
<1>3. here = ControlPort
  BY <1>2 DEF InStep, Where
<1>14. job[t].part = 1
  BY <1>1 DEF InStep, StateKept, StateOf
<1>4. /\ here' = here
      /\ ~fails => reg'.state[1] = job[t].val
      /\ fails => reg' = reg
      /\ \A s \in Setting : reg'[s] = reg[s]
  <2>1. CASE fails
    BY <2>1 DEF chip
  <2>2. CASE ~fails
    <3>1. here' = here /\ reg' = [j \in Register |-> [q \in Part |->
                                  IF j = "state" /\ q = 1 THEN job[t].val ELSE reg[j][q]]]
      BY <1>1, <1>3, <1>14, <2>2 DEF Hits, ToReg, Home
    <3> QED BY <1>1, <2>2, <3>1, PartsTypes DEF Regs
  <2> QED BY <2>1, <2>2
<1>5. /\ job'[t].key = "state" /\ job'[t].val = job[t].val /\ job'[t].next = 2
      /\ job'[t].ok <=> (job[t].ok /\ ~fails)
      /\ \A u \in Task \ {t} : job'[u] = job[u]
  <2>1. Further(job[t]).next = 2
    BY FurtherElse DEF TInv, TypeOK
  <2>2. Transaction(t).to \in Register
    BY <1>1 DEF ToReg
  <2> QED BY <1>1, <2>1, <2>2, AfterStep
<1>6. Alone'
  BY <1>1, <1>5 DEF InStep, Alone, Busy, Idle, Restoring
<1>7. Where'
  <2>1. \A u \in Task : ~Writing(u)'
    BY <1>1, <1>2, <1>5 DEF Writing, Idle
  <2> QED BY <1>3, <1>4, <2>1 DEF Where
<1>8. StateKept'
  <2>1. reg.state[1] = copy.state /\ (job[t].ok <=> job[t].val # Bad)
    BY <1>1 DEF InStep, StateKept, StateOf
  <2>2. job[t].val # Bad
    <3>1. job[t].val = Bad => Len(Transactions(job[t].key, job[t].val)) = 0
      BY DEF Transactions
    <3> QED BY <1>1, <3>1 DEF Through
  <2>3. reg'.state[1] = IF fails THEN copy.state ELSE job[t].val
    BY <1>4, <2>1
  <2>4. job'[t].ok <=> ~fails
    BY <1>5, <2>1, <2>2
  <2>5. StateOf(t)'
    <3>1. copy' = copy /\ job'[t].next # 1
      BY <1>5
    <3>2. reg'.state[1] = IF job'[t].ok THEN job'[t].val ELSE copy'.state
      BY <1>5, <2>3, <2>4, <3>1
    <3> QED BY <1>5, <2>2, <3>1, <3>2 DEF StateOf
  <2>6. \A u \in Task \ {t} : job'[u].key # "state"
    BY <1>2, <1>5
  <2> QED BY <1>5, <2>5, <2>6 DEF StateKept
<1>9. SettingsKept'
  <2>1. \A u \in Task : job'[u].key = job[u].key /\ job'[u].val = job[u].val
    BY <1>1, <1>5
  <2>2. ASSUME NEW s \in Setting PROVE Kept(s)'
    <3>1. Held(s)
      BY <1>1, <1>2 DEF InStep, SettingsKept, Kept
    <3> QED BY <1>4, <3>1, HeldStays DEF Kept
  <2>3. Idle("poll")' = Idle("poll")
    BY <2>1 DEF Idle
  <2> QED BY <2>1, <2>2, <2>3 DEF InStep, SettingsKept
<1> QED BY <1>6, <1>7, <1>8, <1>9 DEF InStep

\* A call returns.
LEMMA ReturnInStep ==
  ASSUME TInv, InStep, NEW t \in Task, Return(t)
  PROVE  InStep'
<1> DEFINE k == job[t].key
           w == job[t].val
<1>1. /\ ~Idle(t) /\ Through(t) /\ here' = here /\ reg' = reg /\ restore' = restore
      /\ job'[t] = None /\ (\A u \in Task \ {t} : job'[u] = job[u])
      /\ k \in Register /\ job[t].next \in 1..8 /\ job[t].ok \in BOOLEAN
      /\ nvs \in [Setting -> Values \cup {Missing, Bad}]
      /\ copy \in [Register -> Values \cup State \cup {Unknown}]
  BY DEF Return, chip, TInv, TypeOK, Idle
<1>6. /\ copy' = IF Remembered(t) THEN [copy EXCEPT ![k] = w] ELSE copy
      /\ nvs' = IF Stored(t) THEN [nvs EXCEPT ![k] = w] ELSE nvs
      /\ broken' = IF w = Bad \/ k = "state" THEN broken
                   ELSE IF job[t].ok THEN broken \ {k} ELSE broken \cup {k}
  BY DEF Return
<1>2. \A u \in Task \ {t} : job[u].key = "none" /\ ~Writing(u) /\ ~Restoring(u) /\ Idle(u)
  BY <1>1, OthersIdle DEF InStep, Busy, Idle
<1>3. \A u \in Task : job'[u].key = "none" /\ Idle(u)' /\ ~Writing(u)'
  BY <1>1, <1>2 DEF None, Idle, Writing
<1>7. ASSUME here = ControlPort, reg'.state[1] = copy'.state PROVE Alone' /\ Where' /\ StateKept'
  <2>1. Alone'
    BY <1>3 DEF Alone, Busy, Restoring
  <2>2. Where'
    BY <1>1, <1>3, <1>7 DEF Where
  <2>3. StateKept'
    BY <1>3, <1>7 DEF StateKept
  <2> QED BY <2>1, <2>2, <2>3
<1>4. CASE k = "state"
  <2>1. here = ControlPort
    BY <1>2, <1>4 DEF InStep, Where, Writing, InBook, Home
  <2>2. job[t].next = 1 => w = Bad
    <3>1. SUFFICES ASSUME job[t].next = 1, w # Bad PROVE FALSE
      OBVIOUS
    <3>2. Len(Transactions(k, w)) = 1
      BY <1>4, <3>1 DEF Transactions, InBook, Home
    <3> QED BY <1>1, <3>1, <3>2 DEF Through
  <2>3. reg.state[1] = (IF Remembered(t) THEN w ELSE copy.state)
    <3>1. StateOf(t)
      BY <1>4 DEF InStep, StateKept
    <3>2. Remembered(t) <=> (w # Bad /\ job[t].ok)
      BY <1>4 DEF Remembered
    <3>3. CASE job[t].next = 1
      BY <2>2, <3>1, <3>2, <3>3 DEF StateOf
    <3>4. CASE job[t].next # 1
      BY <3>1, <3>2, <3>4 DEF StateOf
    <3> QED BY <3>3, <3>4
  <2>4. /\ reg'.state[1] = copy'.state /\ nvs' = nvs /\ broken' = broken
        /\ \A s \in Setting : copy'[s] = copy[s]
    BY <1>1, <1>4, <1>6, <2>3 DEF Stored
  <2>5. ASSUME NEW s \in Setting PROVE Held(s)'
    <3>1. Held(s)
      BY <1>1, <1>2, <1>4 DEF InStep, SettingsKept, Kept
    <3> QED BY <1>1, <2>4, <3>1 DEF Held, Does, Begun
  <2>6. SettingsKept'
    BY <1>3, <2>4, <2>5 DEF InStep, SettingsKept, Kept
  <2> QED BY <1>7, <2>1, <2>4, <2>6 DEF InStep
<1>5. CASE k \in Setting
  <2>1. Writing(t) /\ Placed(t)
    BY <1>1, <1>5 DEF InStep, Where, Writing, InBook, Home, ControlPort
  <2>2. w # Bad => job[t].next = 8
    <3>1. SUFFICES ASSUME w # Bad PROVE job[t].next = 8
      OBVIOUS
    <3>2. Len(Transactions(k, w)) = 7
      BY <2>1, <3>1 DEF Transactions, Writing
    <3> QED BY <1>1, <3>2 DEF Through
  <2>3. here = ControlPort /\ (w = Bad => ~job[t].ok) /\ (job[t].ok => Does(k, w))
    <3>1. here = ControlPort /\ (w = Bad => ~job[t].ok)
      BY <2>1, <2>2 DEF Placed, At
    <3>2. ASSUME job[t].ok, NEW q \in 1..Parts(k) PROVE reg[k][q] = w
      <4>1. PartsDone(t) /\ job[t].part >= Parts(k) /\ job[t].next = 8
        BY <2>1, <2>2, <3>1, <3>2 DEF Placed
      <4>2. Parts(k) \in Nat /\ job[t].part \in Nat /\ q \in Nat /\ q <= Parts(k)
        <5>1. job[t].part \in Part
          BY DEF TInv, TypeOK
        <5>2. Parts(k) \in Part
          BY <1>5, PartsTypes
        <5>3. \A x \in Part : x \in Nat
          BY PartsTypes
        <5>4. Parts(k) \in Nat /\ job[t].part \in Nat
          BY <5>1, <5>2, <5>3
        <5> QED BY <5>4
      <4>3. q < job[t].part \/ (q = job[t].part /\ job[t].next > 4)
        BY <4>1, <4>2
      <4> QED BY <4>1, <4>3 DEF PartsDone
    <3> QED BY <3>1, <3>2 DEF Does
  <2>4. reg'.state[1] = copy'.state
    <3>1. copy'.state = copy.state
      BY <1>1, <1>5, <1>6
    <3> QED BY <1>1, <1>2, <1>5, <3>1 DEF InStep, StateKept
  <2>5. nvs'.mixer # Bad
    <3>1. nvs.mixer # Bad
      BY DEF InStep, SettingsKept
    <3>2. CASE Stored(t) /\ k = "mixer"
      BY <1>1, <1>6, <2>3, <3>2 DEF Stored
    <3>3. CASE ~(Stored(t) /\ k = "mixer")
      BY <1>1, <1>6, <3>1, <3>3
    <3> QED BY <3>2, <3>3
  <2>6. ASSUME NEW s \in Setting PROVE Held(s)'
    <3>1. Kept(s)
      BY DEF InStep, SettingsKept
    <3>2. CASE s # k
      <4>1. Held(s)
        BY <1>2, <3>1, <3>2 DEF Kept
      <4>2. nvs'[s] = nvs[s] /\ copy'[s] = copy[s] /\ (s \in broken' <=> s \in broken)
        BY <1>1, <1>6, <3>2
      <4> QED BY <1>1, <4>1, <4>2 DEF Held, Does, Begun
    <3>3. CASE s = k /\ w = Bad
      <4>1. Held(s)
        BY <1>2, <3>1, <3>3 DEF Kept
      <4>2. (nvs'[s] = nvs[s] \/ nvs'[s] = Bad) /\ copy' = copy /\ broken' = broken
        BY <1>1, <1>6, <3>3 DEF Remembered
      <4> QED BY <1>1, <4>1, <4>2, ChipAssumption DEF Held, Does, Begun
    <3>4. CASE s = k /\ w # Bad /\ ~job[t].ok
      <4>1. s \in broken'
        BY <1>5, <1>6, <3>4
      <4> QED BY <4>1 DEF Held
    <3>5. CASE s = k /\ w # Bad /\ job[t].ok
      <4>1. nvs'[s] = w
        <5>1. CASE t = "web"
          BY <1>1, <1>5, <1>6, <3>5, <5>1 DEF Stored
        <5>2. CASE t = "poll"
          BY <1>1, <1>6, <3>5, <5>2 DEF Stored, InStep, SettingsKept
        <5>3. CASE t = "dac"
          BY <1>5, <5>3 DEF InStep, SettingsKept
        <5> QED BY <5>1, <5>2, <5>3
      <4>2. copy'[s] = w
        BY <1>1, <1>5, <1>6, <3>5 DEF Remembered
      <4>3. \A q \in 1..Parts(s) : reg'[s][q] = w
        BY <1>1, <2>3, <3>5 DEF Does
      <4> QED BY <4>1, <4>2, <4>3 DEF Held, Does, Parts
    <3> QED BY <3>2, <3>3, <3>4, <3>5
  <2>7. SettingsKept'
    BY <1>3, <2>5, <2>6 DEF SettingsKept, Kept
  <2> QED BY <1>7, <2>3, <2>4, <2>7 DEF InStep
<1> QED BY <1>1, <1>4, <1>5

\* Each step that meets no other call and does not fail keeps the settings.
LEMMA NextInStep == CInv /\ [Next]_vars => CInv'
<1> SUFFICES ASSUME CInv, [Next]_vars, ~overlapped', ~failed' PROVE InStep'
  BY NextTypesKept DEF CInv
<1>1. TInv /\ InStep
  <2>1. ~failed /\ ~overlapped
    BY DEF CInv, TInv, TypeOK, Next, Dac, Poller, Web, Steps, Transact, Return, Control, Poll,
           ApplyDelayed, Restored, Receive, ClearFaults, Calls, vars, history
  <2> QED BY <2>1 DEF CInv
<1>2. ASSUME NEW t \in Task, Transact(t) PROVE InStep'
  <2>1. PICK fails \in {f \in Faults : f => ~failed} :
          /\ IF fails THEN UNCHANGED chip ELSE Hits(Transaction(t), job[t].part)
          /\ Stepped(t, fails)
          /\ failed' = (failed \/ (fails /\ Transaction(t).to \notin Register))
    BY <1>2 DEF Transact, Stepped
  <2>2. ~Through(t) /\ UNCHANGED <<copy, nvs, restore, broken>> /\ fails \in BOOLEAN
        /\ (fails => Transaction(t).to \in Register)
    BY <1>2, <2>1, ChipAssumption DEF Transact
  <2>3. CASE Writing(t)
    BY <1>1, <2>1, <2>2, <2>3, WriteInStep
  <2>4. CASE ~Writing(t)
    BY <1>1, <2>1, <2>2, <2>4, StateInStep
  <2> QED BY <2>3, <2>4
<1>3. ASSUME NEW t \in Task, Return(t) PROVE InStep'
  BY <1>1, <1>3, ReturnInStep
<1>4. ASSUME NEW t \in {"dac", "web"}, NEW k \in Register, NEW w, Idle(t), Calls(t, k, w),
             UNCHANGED <<chip, copy, nvs, restore, broken>>, t = "dac" => k = "state"
      PROVE  InStep'
  <2>1. /\ Alone' /\ Where' /\ StateKept'
        /\ \A u \in Task \ {t} : ~Busy(u)
        /\ job'[t].key = k
        /\ \A u \in Task \ {t} : job'[u] = job[u]
        /\ \A s \in Setting : Held(s)
    BY <1>1, <1>4, CallsInStep
  <2>2. Idle("poll")' /\ job'["dac"].key \notin Setting
    BY <1>1, <1>4, <2>1 DEF Busy, Idle, InStep, SettingsKept
  <2>3. \A s \in Setting : Kept(s)'
    BY <1>4, <2>1, HeldStays DEF Kept, chip
  <2>4. SettingsKept'
    BY <1>1, <1>4, <2>2, <2>3 DEF InStep, SettingsKept
  <2> QED BY <2>1, <2>4 DEF InStep
<1>5. CASE Control
  <2>1. PICK s : Calls("dac", "state", s)
    BY <1>5 DEF Control
  <2> QED BY <1>4, <1>5, <2>1 DEF Control
<1>6. CASE Receive
  <2>1. PICK r \in Requests : Calls("web", r.key, r.val)
    BY <1>6 DEF Receive
  <2>2. r.key \in Register
    BY ChipAssumption DEF Request
  <2> QED BY <1>4, <1>6, <2>1, <2>2 DEF Receive
<1>7. CASE ApplyDelayed
  <2>1. /\ restore \in Setting /\ Idle("poll") /\ UNCHANGED <<chip, copy, nvs, broken>>
        /\ restore' = IF restore = "mixer" THEN "eq" ELSE "end"
    BY <1>7 DEF ApplyDelayed
  <2>2. ASSUME NEW s \in Setting, Held(s), s = restore => nvs[s] \notin Values PROVE Held(s)'
    BY <2>1, <2>2 DEF Held, Begun, Does, chip
  <2>3. CASE nvs[restore] = Missing
    <3>1. job' = job
      BY <1>7, <2>3 DEF ApplyDelayed
    <3>2. Alone' /\ Where' /\ StateKept'
      BY <1>1, <2>1, <3>1 DEF InStep, Alone, Busy, Idle, Restoring, Where, Writing, Placed, At,
                              PartsDone, StateKept, StateOf, chip
    <3>3. ASSUME NEW s \in Setting PROVE Kept(s)'
      <4>1. CASE Held(s)
        BY <2>2, <2>3, <4>1, ChipAssumption DEF Kept
      <4>2. CASE ~Held(s)
        BY <1>1, <3>1, <4>2 DEF InStep, SettingsKept, Kept
      <4> QED BY <4>1, <4>2
    <3>5. SettingsKept'
      BY <1>1, <2>1, <3>1, <3>3 DEF InStep, SettingsKept, Idle
    <3> QED BY <3>2, <3>5 DEF InStep
  <2>4. CASE nvs[restore] # Missing
    <3>1. PICK k \in Setting : k = restore
      BY <2>1
    <3>2. Calls("poll", k, nvs[k])
      BY <1>7, <2>4, <3>1 DEF ApplyDelayed
    <3>3. /\ Alone' /\ Where' /\ StateKept'
          /\ job'["poll"].key = k /\ job'["poll"].val = nvs[k]
          /\ \A u \in Task \ {"poll"} : job'[u] = job[u]
          /\ \A s \in Setting : Held(s)
      BY <1>1, <2>1, <3>2, CallsInStep
    <3>4. ASSUME NEW s \in Setting PROVE Kept(s)'
      <4>1. CASE s = k /\ nvs[k] # Bad
        BY <3>3, <4>1 DEF Kept
      <4>2. CASE ~(s = k /\ nvs[k] # Bad)
        BY <2>2, <3>1, <3>3, <4>2, ChipAssumption DEF Kept
      <4> QED BY <4>1, <4>2
    <3>6. SettingsKept'
      BY <1>1, <2>1, <3>1, <3>3, <3>4 DEF InStep, SettingsKept
    <3> QED BY <3>3, <3>6 DEF InStep
  <2> QED BY <2>3, <2>4
<1>8. CASE Poll
  <2>1. UNCHANGED <<chip, copy, nvs, job, broken>> /\ restore = "wait" /\ restore' = "mixer"
        /\ \A u \in Task \ {"poll"} : ~Busy(u)
    BY <1>8 DEF Poll
  <2>2. Alone'
    BY <2>1 DEF Alone, Busy, Idle, Restoring
  <2>3. Where' /\ StateKept'
    BY <1>1, <2>1 DEF InStep, Where, Writing, Idle, Placed, At, PartsDone, StateKept, StateOf, chip
  <2>4. SettingsKept'
    BY <1>1, <2>1 DEF InStep, SettingsKept, Idle, Begun, Kept, Held, Does, chip
  <2> QED BY <2>2, <2>3, <2>4 DEF InStep
<1>9. CASE Restored
  <2>1. UNCHANGED <<chip, copy, nvs, job, broken>> /\ restore = "end" /\ restore' = "done" /\ Idle("poll")
    BY <1>9 DEF Restored, history
  <2>2. Alone'
    BY <1>1, <2>1 DEF InStep, Alone, Busy, Idle, Restoring
  <2>3. Where' /\ StateKept'
    BY <1>1, <2>1 DEF InStep, Where, Writing, Idle, Placed, At, PartsDone, StateKept, StateOf, chip
  <2>4. \A s \in Setting : Kept(s)'
    BY <1>1, <2>1 DEF InStep, SettingsKept, Kept, Held, Does, Begun, chip
  <2>5. SettingsKept'
    BY <1>1, <2>1, <2>4 DEF InStep, SettingsKept, Idle
  <2> QED BY <2>2, <2>3, <2>5 DEF InStep
<1>10. ASSUME UNCHANGED <<chip, copy, nvs, restore, job, broken>> PROVE InStep'
  BY <1>1, <1>10 DEF InStep, Alone, Busy, Idle, Restoring, Where, Writing, Placed, At,
                     PartsDone, StateKept, StateOf, SettingsKept, Begun, Kept, Held, Does, chip
<1>11. CASE ClearFaults
  <2>1. \A u \in Task : ~Writing(u)
    BY <1>11 DEF ClearFaults, Busy, Writing
  <2>2. here = ControlPort
    BY <1>1, <2>1 DEF InStep, Where
  <2>3. here' = here /\ reg' = reg
    <3>1. reg' = [j \in Register |-> [q \in Part |-> reg[j][q]]] /\ here' = here
      BY <1>11, <2>2 DEF ClearFaults, Hits, Home
    <3> QED BY <1>1, <3>1 DEF TInv, TypeOK
  <2> QED BY <1>10, <1>11, <2>3 DEF ClearFaults, chip
<1>12. CASE UNCHANGED vars
  BY <1>10, <1>12 DEF vars, history
<1> QED
  BY <1>2, <1>3, <1>5, <1>6, <1>7, <1>8, <1>9, <1>11, <1>12 DEF Next, Dac, Poller, Web, Steps

\* As long as no two calls interfered and no change of book or page failed, the
\* driver's copy of the state is the chip's; and a setting whose last call did not
\* fail on the way is the same in the chip, in the driver's copy and, once the
\* settings are restored, in NVS (tas5805m.c, tas5805m_settings.c).
THEOREM SettingsHeld == Spec => []ChipHoldsSettings
<1>1. Init => CInv
  BY InitTypes, InitInStep DEF CInv
<1>2. CInv => ChipHoldsSettings
  <2> SUFFICES ASSUME CInv, ~overlapped, ~failed PROVE
        /\ nvs.mixer # Bad
        /\ (\A t \in Task : job[t].key # "state") => Does("state", copy.state)
        /\ \A k \in Setting \ broken : (\A t \in Task : job[t].key # k) =>
             /\ copy[k] \in Values => Does(k, copy[k])
             /\ nvs[k] \in Values /\ restore = "done" => Does(k, nvs[k])
    BY DEF ChipHoldsSettings
  <2>1. StateKept /\ SettingsKept
    BY DEF CInv, InStep
  <2>2. (\A t \in Task : job[t].key # "state") => Does("state", copy.state)
    BY <2>1 DEF StateKept, Does, Parts
  <2> QED BY <2>1, <2>2 DEF SettingsKept, Begun, Kept, Held
<1> QED BY <1>1, <1>2, NextInStep, PTL DEF Spec
=============================================================================
