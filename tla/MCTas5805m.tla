------------------------------ MODULE MCTas5805m ------------------------------
EXTENDS Tas5805m

\* Each kind of request for a setting, with those the driver refuses.
MCRequests == [key : Setting, val : Values \cup {Bad}]
=============================================================================
