----------------------------- MODULE LatestValue -----------------------------
(***************************************************************************)
(* What the path from the audio_* calls to the codec promises: a consumer  *)
(* that may skip requests, but always ends up with the latest one.         *)
(***************************************************************************)
CONSTANTS Value, First

VARIABLES
  want,    \* the latest request
  taken,   \* the request being carried out
  have     \* the last request carried out

vars == <<want, taken, have>>

Init == want = First /\ taken = First /\ have = First

Ask     == want' \in Value /\ UNCHANGED <<taken, have>>
Take    == taken = have /\ taken' = want /\ UNCHANGED <<want, have>>
Deliver == have' = taken /\ UNCHANGED <<want, taken>>

Next == Ask \/ Take \/ Deliver

Spec == Init /\ [][Next]_vars /\ WF_vars(Take) /\ WF_vars(Deliver)
=============================================================================
