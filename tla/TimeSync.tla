------------------------------- MODULE TimeSync -------------------------------
(***************************************************************************)
(* The measurement of the server's clock: http_get_task sends a time        *)
(* message every timeout, takes each answer's clock difference into the     *)
(* latency filter of the player, and asks less often once that is full.     *)
(*                                                                         *)
(* The server's clock is its difference to the client's; a measurement is   *)
(* off by some jitter.  How long anything takes is left open.               *)
(***************************************************************************)
EXTENDS MedianFilter

CONSTANTS
  Full,         \* LATENCY_MEDIAN_FILTER_FULL
  Clocks,       \* the clock differences of the servers there are
  Jitter,       \* by how much a measurement may be off
  MaxRequests,  \* bound: time messages under way
  PmEnabled     \* CONFIG_PM_ENABLE

ASSUME TimeSyncAssumption ==
  /\ Full \in 1..N
  /\ Clocks \subseteq Int /\ Jitter \subseteq Int
  /\ Samples = {c + j : c \in Clocks, j \in Jitter} /\ 0 \notin Samples
  /\ MaxRequests \in Nat \ {0} /\ PmEnabled \in BOOLEAN

VARIABLES
  header,      \* received_codec_header, of a connection that is up
  clock,       \* the clock difference of the server
  requests,    \* time messages sent, the answer to which is still to come
  old,         \* more than a minute since lastTimeSync
  timeout,     \* time_sync_data.timeout
  filter,      \* latencyMedianFilter
  latencyToServer,
  full,        \* latencyBufFullSemaphoreHandle: the player may begin
  window       \* history: the samples since the filter was emptied, at most N

latency == <<filter, latencyToServer, full, window>>
vars == <<header, clock, requests, old, timeout, latency>>

\* What a time message may measure.
Measured == {clock + j : j \in Jitter}

Init ==
  /\ header = FALSE /\ clock \in Clocks /\ requests = 0 /\ old = FALSE
  /\ timeout = "fast"
  /\ filter = Empty /\ latencyToServer = 0 /\ full = FALSE /\ window = <<>>

-----------------------------------------------------------------------------
\* http_get_task connects, to whatever server there is by then.
Connect(c) ==
  /\ ~header
  /\ clock' = c /\ requests' = 0
  /\ timeout' = "fast"
  /\ UNCHANGED <<header, old, latency>>

\* The codec header arrived.
CodecHeader ==
  /\ ~header
  /\ header' = TRUE
  /\ UNCHANGED <<clock, requests, old, timeout, latency>>

\* The connection is gone; what was under way on it is lost.
Disconnect ==
  /\ header
  /\ header' = FALSE /\ requests' = 0
  /\ UNCHANGED <<clock, old, timeout, latency>>

\* before_receive_callback: timeout has passed since the last time message.
Request ==
  /\ header /\ requests < MaxRequests
  /\ requests' = requests + 1
  /\ UNCHANGED <<header, clock, old, timeout, latency>>

\* A minute passes without an answer.
Minute ==
  /\ old' = TRUE
  /\ UNCHANGED <<header, clock, requests, timeout, latency>>

\* Mutant: reset_latency_buffer leaves the semaphore alone.
ResetKeepsFull == /\ filter' = Empty /\ latencyToServer' = 0 /\ window' = <<>>
                  /\ UNCHANGED full

\* reset_latency_buffer.
Reset == filter' = Empty /\ latencyToServer' = 0 /\ full' = FALSE /\ window' = <<>>

\* Mutant: latencyToServer is left alone once the filter was full.
LatencyInsertOnce(f, w, sem, s) ==
  /\ filter' = Insert(f, s)
  /\ latencyToServer' = IF sem THEN latencyToServer ELSE Median(filter')
  /\ full' = (sem \/ IsFull(filter', Full))
  /\ window' = Append(IF Len(w) = N THEN Tail(w) ELSE w, s)

\* player_latency_insert of s into filter f with the samples w.
LatencyInsert(f, w, sem, s) ==
  /\ filter' = Insert(f, s)
  /\ latencyToServer' = Median(filter')
  /\ full' = (sem \/ IsFull(filter', Full))
  /\ window' = Append(IF Len(w) = N THEN Tail(w) ELSE w, s)

\* Mutant: the interval is never shortened again.
AnswerStaysSlow(s) ==
  /\ header /\ requests > 0 /\ s \in Measured
  /\ requests' = requests - 1
  /\ old' = FALSE
  /\ IF old THEN LatencyInsert(Empty, <<>>, FALSE, s)
            ELSE LatencyInsert(filter, window, full, s)
  /\ timeout' = IF IsFull(filter', Full) THEN "normal" ELSE timeout
  /\ UNCHANGED <<header, clock>>

\* time_sync_msg_received: after a minute without an answer the filter is reset
\* first; the interval is long while the filter is full.
Answer(s) ==
  /\ header /\ requests > 0 /\ s \in Measured
  /\ requests' = requests - 1
  /\ old' = FALSE
  /\ IF old THEN LatencyInsert(Empty, <<>>, FALSE, s)
            ELSE LatencyInsert(filter, window, full, s)
  /\ timeout' = IF IsFull(filter', Full) THEN "normal" ELSE "fast"
  /\ UNCHANGED <<header, clock>>

\* start_player empties the filter too if power management is compiled in.
StartPlayer ==
  /\ header /\ PmEnabled
  /\ Reset
  /\ UNCHANGED <<header, clock, requests, old, timeout>>

Next ==
  \/ \E c \in Clocks : Connect(c)
  \/ CodecHeader \/ Disconnect \/ Request \/ Minute \/ StartPlayer
  \/ \E s \in Samples : Answer(s)

Spec == Init /\ [][Next]_vars

\* What only an Answer does.
Answered ==
  /\ header /\ requests > 0
  /\ UNCHANGED header /\ requests' = requests - 1

\* The receive timeout makes http_get_task send; the server answers.
FairSpec == Spec /\ WF_vars(Request) /\ WF_requests(Answered)

-----------------------------------------------------------------------------
TypeOK ==
  /\ header \in BOOLEAN /\ clock \in Clocks /\ requests \in 0..MaxRequests
  /\ old \in BOOLEAN /\ timeout \in {"fast", "normal"} /\ filter \in Filter
  /\ latencyToServer \in Samples \cup {0} /\ full \in BOOLEAN

\* The latency the player computes with is the median of the samples since the
\* filter was emptied, while it fills up too, and unknown without a sample.
LatencyIsMedian ==
  IF window = <<>> THEN latencyToServer = 0
                   ELSE IsMedianOf(latencyToServer, window)

\* player_task's wait for the first latencies ends exactly when there are enough.
PlayerMayBegin == full <=> Len(window) >= Full

\* A filter that was emptied under a connection is filled at the short interval.
FastUntilFull ==
  (header /\ Len(window) < Full) ~> (timeout = "fast" \/ ~header)

\* When a connection lasts, the latency becomes the one of its server, whatever
\* servers the samples in the filter are from.
Lasting == <>[](header /\ ~old) /\ <>[][~StartPlayer]_vars
Converges == Lasting => <>[](latencyToServer \in Measured)
================================================================================
