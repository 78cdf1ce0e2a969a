------------------------------ MODULE ByteStream ------------------------------
(***************************************************************************)
(* What connection_get_byte promises the parser: the bytes of one server   *)
(* connection, each once and in order, until the call fails; then nothing  *)
(* more until a new connection is set up.                                  *)
(***************************************************************************)
EXTENDS Naturals

VARIABLES
  sent,   \* bytes the server sent on this connection
  got,    \* bytes handed to the parser
  last,   \* the position of the last byte handed over, 0 if none
  alive   \* the connection has not failed

vars == <<sent, got, last, alive>>

Init == sent = 0 /\ got = 0 /\ last = 0 /\ alive = FALSE

Send  == sent' \in Nat /\ sent' >= sent /\ UNCHANGED <<got, last, alive>>
Give  == /\ alive /\ got < sent
         /\ got' = got + 1 /\ last' = got + 1
         /\ alive' \in BOOLEAN   \* the parser may want a new connection
         /\ UNCHANGED sent
Fail  == alive' = FALSE /\ UNCHANGED <<sent, got, last>>
Renew == ~alive /\ alive' \in BOOLEAN /\ sent' = 0 /\ got' = 0 /\ last' = 0

Next == Send \/ Give \/ Fail \/ Renew

Spec == Init /\ [][Next]_vars
===============================================================================
