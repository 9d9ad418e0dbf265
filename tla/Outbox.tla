------------------------------- MODULE Outbox -------------------------------
(***************************************************************************)
(* What the server promises the clients about its output: a queue for each *)
(* connection.  What a task wrote is neither lost, doubled nor reordered   *)
(* on its way while the connection is open.  Behind the end of the         *)
(* connection the rest may be dropped, or go to a client that has come     *)
(* since: the program gives no better promise.                             *)
(***************************************************************************)
EXTENDS Naturals, Sequences

CONSTANTS Conns, Data

VARIABLES
  state,        \* each connection
  pending,      \* output on its way, per connection it was written for
  out           \* what each client has got

outVars == <<state, pending, out>>

OutInit ==
  /\ state = [c \in Conns |-> "none"]
  /\ pending = [c \in Conns |-> << >>]
  /\ out = [c \in Conns |-> << >>]

Begin(c) ==
  /\ state[c] = "none"
  /\ state' = [state EXCEPT ![c] = "open"]
  /\ UNCHANGED <<pending, out>>

End(c) ==
  /\ state[c] = "open"
  /\ state' = [state EXCEPT ![c] = "over"]
  /\ UNCHANGED <<pending, out>>

Put(c, d) ==
  /\ state[c] # "none"
  /\ pending' = [pending EXCEPT ![c] = Append(@, d)]
  /\ UNCHANGED <<state, out>>

\* The oldest output of c goes to r: to c itself while it is open.
Get(c, r) ==
  /\ pending[c] # << >>
  /\ state[r] = "open"
  /\ state[c] = "open" => r = c
  /\ pending' = [pending EXCEPT ![c] = Tail(@)]
  /\ out' = [out EXCEPT ![r] = Append(@, Head(pending[c]))]
  /\ UNCHANGED state

\* The n oldest are dropped.
Drop(c, n) ==
  /\ state[c] = "over"
  /\ pending' = [pending EXCEPT ![c] = SubSeq(@, n + 1, Len(@))]
  /\ UNCHANGED <<state, out>>

\* The server ends, and all connections with it.
Close ==
  /\ state' = [c \in Conns |-> IF state[c] = "none" THEN "none" ELSE "over"]
  /\ \A c \in Conns : pending'[c] \in {pending[c], << >>}
  /\ UNCHANGED out

OutNext ==
  \/ \E c \in Conns : \/ Begin(c) \/ End(c)
                      \/ \E d \in Data : Put(c, d)
                      \/ \E r \in Conns : Get(c, r)
                      \/ \E n \in 1 .. Len(pending[c]) : Drop(c, n)
  \/ Close

OutSpec == OutInit /\ [][OutNext]_outVars

=============================================================================
