------------------------------- MODULE InpPipe -------------------------------
(***************************************************************************)
(* What the core promises for IN transfers: every endpoint has a reliable, *)
(* ordered pipe to the host.  Items an endpoint gave away but the host has *)
(* not got are in flight: at most one packet, of one endpoint, at a time   *)
(* (there is a single retry buffer), which arrives as a whole.             *)
(***************************************************************************)
EXTENDS Naturals, Sequences

CONSTANTS EP, Unframed, MaxPkt, DON

VARIABLES
  rest,     \* rest[e]: what endpoint e offers and has not given away yet
  flight,   \* flight[e]: the packet in flight
  got       \* got[e]: what the host has got

pipeVars == <<rest, flight, got>>

EndsFrame(s) == s # <<>> /\ s[Len(s)] = DON

Full(s) == Len(s) = MaxPkt \/ EndsFrame(s)

Init ==
  /\ rest = [e \in EP |-> <<>>]
  /\ flight = [e \in EP |-> <<>>]
  /\ got = [e \in EP |-> <<>>]

\* The endpoint offers more, behind what it offers already.
Offer(e) ==
  /\ Len(rest'[e]) >= Len(rest[e])
  /\ SubSeq(rest'[e], 1, Len(rest[e])) = rest[e]
  /\ \A f \in EP \ {e} : rest'[f] = rest[f]
  /\ DOMAIN rest' = EP
  /\ UNCHANGED <<flight, got>>

\* It gives an item away: into the packet in flight, which has room for it.
Take(e) ==
  /\ rest[e] # <<>>
  /\ \A f \in EP \ {e} : flight[f] = <<>>
  /\ ~Full(flight[e])
  /\ rest' = [rest EXCEPT ![e] = Tail(@)]
  /\ flight' = [flight EXCEPT ![e] = Append(@, Head(rest[e]))]
  /\ UNCHANGED got

\* The packet reaches the host, whole.
Arrive(e) ==
  /\ flight[e] # <<>>
  /\ Full(flight[e]) \/ e \in Unframed
  /\ got' = [got EXCEPT ![e] = @ \o flight[e]]
  /\ flight' = [flight EXCEPT ![e] = <<>>]
  /\ UNCHANGED rest

Next == \E e \in EP : Offer(e) \/ Take(e) \/ Arrive(e)

Spec == Init /\ [][Next]_pipeVars
=============================================================================
