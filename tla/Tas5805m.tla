------------------------------- MODULE Tas5805m -------------------------------
(***************************************************************************)
(* The TAS5805M amplifier and the tasks that share it (tas5805m.c,          *)
(* tas5805m_settings.c): dac_control_task; the polling task, which restores   *)
(* the settings once the codec plays; the web server, which applies and       *)
(* stores what is posted; and the fault monitor.  The chip's registers lie    *)
(* in books of pages: a plain write reaches only those of book 0, page 0, the *)
(* control port; any other is written between two changes of book and page    *)
(* of three I2C transactions each.  There is no lock around them.             *)
(*                                                                         *)
(* A behaviour begins when tas5805m_settings_init has created the polling    *)
(* task, with whatever NVS holds, and stays in the 15-band mode of the        *)
(* equaliser.  Two settings stand for the two kinds there are: mixer for      *)
(* those that are stored once applied, eq, the gain of a band, for those that *)
(* are stored in any case.  The mixer's gains are written one by one, the     *)
(* coefficients of a band are one register here.  NVS does not fail (see      *)
(* SettingsManager and Dsp).                                                  *)
(***************************************************************************)
EXTENDS Naturals, Sequences

CONSTANTS
  Values,    \* what a setting can be
  Bad,       \* a value the driver refuses
  Missing,   \* ESP_ERR_NVS_NOT_FOUND
  Unknown,   \* what a register holds after a reset, or a write meant for another
  Gains,     \* the registers of the mixer: four, of left and right to left and right
  Requests,  \* what is posted: [key, val]
  MaxCalls,  \* bound: the calls of dac_control_task and the web server
  Faults     \* whether an I2C transaction may fail

Setting  == {"mixer", "eq"}
Register == Setting \cup {"state"}
Part     == 1..Gains  \* of a register; all but the mixer have one
State    == [mode : {"sleep", "play"}, mute : BOOLEAN]  \* TAS5805M_CTRL_STATE
Book     == {"port", "5", "eq"}
Place    == [book : Book, page : 0..2]
Task     == {"dac", "poll", "web"}
Request  == [key : {"state"}, val : State] \cup [key : Setting, val : Values \cup {Bad}]

ASSUME ChipAssumption ==
  /\ Bad \notin Values /\ Missing \notin Values /\ Bad # Missing
  /\ Requests \subseteq Request /\ MaxCalls \in Nat /\ Gains \in Nat \ {0}
  /\ FALSE \in Faults /\ Faults \subseteq BOOLEAN

\* The book and the page of a register; page 0 is that of the control port.
ControlPort == [book |-> "port", page |-> 0]
Home == [state |-> ControlPort, faults |-> ControlPort,
         mixer |-> [book |-> "5", page |-> 1], eq |-> [book |-> "eq", page |-> 2]]
InBook(k)   == Home[k] # ControlPort
Parts(k)    == IF k = "mixer" THEN Gains ELSE 1

VARIABLES
  here,        \* the chip: its book and page
  reg,         \* the chip: its registers
  copy,        \* tas5805m_state: state, mixer_mode and eq_gain_l
  nvs,         \* the namespace of tas5805m_settings.c
  restore,     \* how far the polling task is
  job,         \* the driver call each task is in
  calls,       \* bound: how many there were
  overlapped,  \* history: two calls that interfere ran at once
  failed,      \* history: a change of book or page failed, and none was told
  broken       \* history: the settings whose last call returned an error on the way

chip    == <<here, reg>>
history == <<overlapped, failed, broken>>
vars    == <<chip, copy, nvs, restore, job, calls, history>>

\* A driver call: the part and the transaction it is at, and the result so far.
None == [key |-> "none", val |-> Missing, part |-> 1, next |-> 1, ok |-> TRUE]

\* app_main stopped and muted the codec.
Init ==
  /\ here = ControlPort
  /\ copy = [k \in Register |-> IF k = "state" THEN [mode |-> "sleep", mute |-> TRUE] ELSE Unknown]
  /\ reg = [k \in Register |-> [p \in Part |-> copy[k]]]
  /\ nvs \in [Setting -> Values \cup {Missing, Bad}] /\ nvs.mixer # Bad
  /\ restore = "wait"
  /\ job = [t \in Task |-> None]
  /\ calls = 0 /\ overlapped = FALSE /\ failed = FALSE /\ broken = {}

-----------------------------------------------------------------------------
(* The driver                                                                *)

ToPage(p)   == [to |-> "page", val |-> p]
ToBook(b)   == [to |-> "book", val |-> b]
ToReg(k, v) == [to |-> k, val |-> v]

\* Mutant: the book is set on whatever page the chip is at.
BookOnly(k, v) ==
  IF v = Bad THEN <<>>
  ELSE IF ~InBook(k) THEN <<ToReg(k, v)>>
  ELSE <<ToBook(Home[k].book), ToPage(Home[k].page), ToReg(k, v), ToBook("port"), ToPage(0)>>

\* The transactions of a setter for each part of a register, between two
\* TAS5805M_SET_BOOK_AND_PAGE for one in a book.
Transactions(k, v) ==
  IF v = Bad THEN <<>>
  ELSE IF ~InBook(k) THEN <<ToReg(k, v)>>
  ELSE <<ToPage(0), ToBook(Home[k].book), ToPage(Home[k].page), ToReg(k, v),
         ToPage(0), ToBook("port"), ToPage(0)>>

Idle(t)      == job[t].key = "none"
Restoring(t) == t = "poll" /\ restore \in Setting \cup {"end"}
Busy(t)      == ~Idle(t) \/ Restoring(t)
Writing(t)   == ~Idle(t) /\ InBook(job[t].key)  \* in a book

\* Whether a call for k, begun now, meets one it interferes with.
Meets(t, k) == \E u \in Task \ {t} :
  Busy(u) /\ (InBook(k) \/ Restoring(u) \/ Writing(u) \/ job[u].key = k)

Calls(t, k, v) ==
  /\ job' = [job EXCEPT ![t] = [key |-> k, val |-> v, part |-> 1, next |-> 1, ok |-> v # Bad]]
  /\ overlapped' = (overlapped \/ Meets(t, k))

Through(t)     == Idle(t) \/ job[t].next > Len(Transactions(job[t].key, job[t].val))
Transaction(t) == Transactions(job[t].key, job[t].val)[job[t].next]

\* Where the call is after a transaction: at the next one, of the next part if
\* there is one.
Further(j) ==
  IF j.next = Len(Transactions(j.key, j.val)) /\ j.part < Parts(j.key)
  THEN [j EXCEPT !.next = 1, !.part = @ + 1]
  ELSE [j EXCEPT !.next = @ + 1]

\* What a transaction does to the chip: the page register is on every page, the
\* book register on page 0, any other only where it is; elsewhere the write hits
\* what has that address there, which may be a register of ours.
Hits(tx, p) ==
  IF tx.to = "page" THEN here' = [here EXCEPT !.page = tx.val] /\ UNCHANGED reg
  ELSE IF tx.to = "book" /\ here.page = 0 THEN here' = [here EXCEPT !.book = tx.val] /\ UNCHANGED reg
  ELSE IF tx.to # "book" /\ Home[tx.to] = here
  THEN reg' = [k \in Register |-> [q \in Part |-> IF k = tx.to /\ q = p THEN tx.val ELSE reg[k][q]]]
       /\ UNCHANGED here
  ELSE reg' = [k \in Register |-> [q \in Part |-> IF Home[k] = here THEN Unknown ELSE reg[k][q]]]
       /\ UNCHANGED here

\* Mutant: only the last result counts.
LastResult(so_far, fails) == ~fails

\* ret = ret | ...
Result(so_far, fails) == so_far /\ ~fails

\* tas5805m_write_byte, tas5805m_write_bytes.  The results of the changes of
\* book and page are not looked at.
Transact(t) ==
  /\ ~Through(t)
  /\ \E fails \in {f \in Faults : f => ~failed} :
       LET writes == Transaction(t).to \in Register
       IN /\ IF fails THEN UNCHANGED chip ELSE Hits(Transaction(t), job[t].part)
          /\ job' = [job EXCEPT ![t] = [Further(job[t]) EXCEPT
                       !.ok = IF writes THEN Result(@, fails) ELSE @]]
          /\ failed' = (failed \/ (fails /\ ~writes))
  /\ UNCHANGED <<copy, nvs, restore, calls, overlapped, broken>>

\* What the driver remembers: a state that was written, and any setting it did
\* not refuse (tas5805m_set_state, tas5805m_set_mixer_mode, tas5805m_set_eq_gain_channel).
Remembered(t) == job[t].val # Bad /\ (job[t].key = "state" => job[t].ok)

\* tas5805m_settings_set_dac_from_json, tas5805m_settings_set_eq_from_json
Stored(t) == t = "web" /\ job[t].key \in Setting /\ (job[t].ok \/ job[t].key = "eq")

Return(t) ==
  /\ ~Idle(t) /\ Through(t)
  /\ LET j == job[t]
     IN /\ copy' = IF Remembered(t) THEN [copy EXCEPT ![j.key] = j.val] ELSE copy
        /\ nvs' = IF Stored(t) THEN [nvs EXCEPT ![j.key] = j.val] ELSE nvs
        /\ broken' = IF j.val = Bad \/ j.key = "state" THEN broken
                     ELSE IF j.ok THEN broken \ {j.key} ELSE broken \cup {j.key}
  /\ job' = [job EXCEPT ![t] = None]
  /\ UNCHANGED <<chip, restore, calls, overlapped, failed>>

-----------------------------------------------------------------------------
(* The tasks                                                                 *)

\* dac_control_task: tas5805m_set_mute and tas5805m_ctrl change what is cached.
Control ==
  /\ Idle("dac") /\ calls < MaxCalls /\ calls' = calls + 1
  /\ \E s \in {[copy.state EXCEPT !.mute = m] : m \in BOOLEAN}
              \cup {[copy.state EXCEPT !.mode = m] : m \in {"sleep", "play"}} :
       Calls("dac", "state", s)
  /\ UNCHANGED <<chip, copy, nvs, restore, failed, broken>>

\* Mutant: the flags of the state are compared along with its mode.
PlaysUnmuted == copy.state = [mode |-> "play", mute |-> FALSE]

Plays == copy.state.mode = "play"

\* tas5805m_poll_for_play_task
Poll ==
  /\ restore = "wait" /\ Plays
  /\ restore' = "mixer"
  /\ overlapped' = (overlapped \/ \E t \in Task \ {"poll"} : Busy(t))
  /\ UNCHANGED <<chip, copy, nvs, job, calls, failed, broken>>

\* tas5805m_settings_apply_delayed: what is stored is loaded and given to the driver.
ApplyDelayed ==
  /\ restore \in Setting /\ Idle("poll")
  /\ restore' = IF restore = "mixer" THEN "eq" ELSE "end"
  /\ IF nvs[restore] = Missing THEN UNCHANGED <<job, overlapped>>
     ELSE Calls("poll", restore, nvs[restore])
  /\ UNCHANGED <<chip, copy, nvs, calls, failed, broken>>

\* tas5805m_settings_restored
Restored ==
  /\ restore = "end" /\ Idle("poll")
  /\ restore' = "done"
  /\ UNCHANGED <<chip, copy, nvs, job, calls, history>>

\* The handlers of /dac and /eq.
Receive ==
  /\ Idle("web") /\ calls < MaxCalls /\ calls' = calls + 1
  /\ \E r \in Requests : Calls("web", r.key, r.val)
  /\ UNCHANGED <<chip, copy, nvs, restore, failed, broken>>

\* tas5805m_fault_monitor_task reads a fault, or what is at its address in
\* another book, and clears it.
ClearFaults ==
  /\ Hits([to |-> "faults", val |-> Unknown], 1)
  /\ overlapped' = (overlapped \/ \E t \in Task : Busy(t))
  /\ UNCHANGED <<copy, nvs, restore, job, calls, failed, broken>>

Steps(t) == Transact(t) \/ Return(t)
Dac    == Control \/ Steps("dac")
Poller == Poll \/ ApplyDelayed \/ Restored \/ Steps("poll")
Web    == Receive \/ Steps("web")
Next   == Dac \/ Poller \/ Web \/ ClearFaults

Spec == Init /\ [][Next]_vars

\* The tasks are scheduled; nothing makes a request come, or a fault.
FairSpec ==
  /\ Spec
  /\ WF_vars(Poller) /\ \A t \in {"dac", "web"} : WF_vars(Steps(t))

-----------------------------------------------------------------------------

\* Type invariant of the module.
TypeOK ==
  /\ here \in Place
  /\ reg \in [Register -> [Part -> Values \cup State \cup {Unknown}]]
  /\ copy \in [Register -> Values \cup State \cup {Unknown}] /\ copy.state \in State
  /\ nvs \in [Setting -> Values \cup {Missing, Bad}]
  /\ restore \in Setting \cup {"wait", "end", "done"}
  /\ job \in [Task -> [key : Register \cup {"none"}, part : Part, next : 1..8, ok : BOOLEAN,
                      val : Values \cup State \cup {Missing, Bad}]]
  /\ calls \in 0..MaxCalls /\ overlapped \in BOOLEAN /\ failed \in BOOLEAN
  /\ broken \subseteq Setting

\* However the calls of several tasks interleave, the chip is back at its control
\* port once none of those that write in a book is under way, so that mute, volume
\* and faults are within reach again: tas5805m.c changes book and page with no lock,
\* three transactions at a time.
BackAtControlPort ==
  ~failed /\ (\A t \in Task : ~Writing(t)) => here = ControlPort

\* All parts of a register hold v.
Does(k, v) == \A p \in 1..Parts(k) : reg[k][p] = v

\* Unless two calls interfered or a change of book or page failed unnoticed, the
\* driver's copy of the state is what the chip is in, and a setting whose last
\* call did not fail on the way is the same in the chip, in the driver's copy
\* and, once restored, in NVS, whichever calls failed or were refused before.
\* A failed call leaves them apart until the next for the setting: the mixer's
\* copy is new, some of its gains are, NVS is old; and a gain of the equaliser
\* that the driver refused is stored all the same, and then neither in the chip
\* nor restored (tas5805m.c:684-690, 985-991; tas5805m_settings.c:3115-3121,
\* 3246-3250).
ChipHoldsSettings ==
  ~overlapped /\ ~failed =>
    /\ nvs.mixer # Bad
    /\ (\A t \in Task : job[t].key # "state") => Does("state", copy.state)
    /\ \A k \in Setting \ broken : (\A t \in Task : job[t].key # k) =>
         /\ copy[k] \in Values => Does(k, copy[k])
         /\ nvs[k] \in Values /\ restore = "done" => Does(k, nvs[k])

\* A codec that goes on playing, muted or not, gets its settings restored
\* (tas5805m_settings.c:43): the polling task waits for a state it only samples.
GetsRestored == <>[](copy.state.mode = "play") => <>(restore = "done")
=============================================================================
