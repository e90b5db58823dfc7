-------------------------- MODULE TicketedService ---------------------------
(***************************************************************************)
(* What the data plane of a node promises (serveDataConnection: "verify +  *)
(* serve exactly one request, then close"): a stream is admitted at most   *)
(* once, with a ticket that admits no other; only an admitted stream is    *)
(* answered, once; and what is over stays over.                            *)
(***************************************************************************)
CONSTANTS Streams, Jtis, None

VARIABLES
  phase,   \* per stream
  owner    \* per ticket, the stream it admitted

vars == <<phase, owner>>

Init ==
  /\ phase = [s \in Streams |-> "waiting"]
  /\ owner = [j \in Jtis |-> None]

Admit(s, j) ==
  /\ phase[s] = "waiting" /\ owner[j] = None
  /\ phase' = [phase EXCEPT ![s] = "admitted"]
  /\ owner' = [owner EXCEPT ![j] = s]

Answer(s) ==
  /\ phase[s] = "admitted"
  /\ phase' = [phase EXCEPT ![s] = "answered"]
  /\ UNCHANGED owner

\* Refused, failed or closed.
End(s) ==
  /\ phase[s] \in {"waiting", "admitted"}
  /\ phase' = [phase EXCEPT ![s] = "over"]
  /\ UNCHANGED owner

Next == \E s \in Streams : (\E j \in Jtis : Admit(s, j)) \/ Answer(s) \/ End(s)

Spec == Init /\ [][Next]_vars
=============================================================================
