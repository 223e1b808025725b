--------------------------- MODULE ExchangeLedger ---------------------------
(***************************************************************************)
(* What a relay promises its client and its operator: requests are taken   *)
(* one at a time, each gets one answer or becomes the connection's tunnel, *)
(* and a connection that became a tunnel takes no further request.         *)
(***************************************************************************)
EXTENDS Naturals

VARIABLES received,   \* requests taken from the client
          answered,   \* responses, relayed or generated by the proxy
          tunnelled   \* CONNECT requests that were granted

vars == <<received, answered, tunnelled>>

Settled == received = answered + tunnelled

Init == received = 0 /\ answered = 0 /\ tunnelled = 0

Receive == /\ Settled /\ tunnelled = 0
           /\ received' = received + 1
           /\ UNCHANGED <<answered, tunnelled>>

Answer == /\ ~Settled
          /\ answered' = answered + 1
          /\ UNCHANGED <<received, tunnelled>>

Grant == /\ ~Settled
         /\ tunnelled' = tunnelled + 1
         /\ UNCHANGED <<received, answered>>

(* A request the proxy refuses itself is taken and answered in one step. *)
Refuse == /\ Settled /\ tunnelled = 0
          /\ received' = received + 1
          /\ answered' = answered + 1
          /\ UNCHANGED tunnelled

Next == Receive \/ Answer \/ Grant \/ Refuse

Spec == Init /\ [][Next]_vars
=============================================================================
