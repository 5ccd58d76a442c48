---------------------------- MODULE HttpExchange ---------------------------
(***************************************************************************)
(* What hw12_async_server promises for each connection, without sockets,   *)
(* buffers or events: one request is answered by one response, which       *)
(* arrives from its first unit on, in order, and is complete or given up.  *)
(***************************************************************************)
EXTENDS Naturals, Sequences

CONSTANTS Conns,
          MayOverrun   \* whether more than the response may arrive

VARIABLES phase,   \* of each connection
          total,   \* the units of its response
          got      \* the units that were taken for its client

vars == <<phase, total, got>>

UpTo(n) == [i \in 1..n |-> i]

Init == /\ phase = [c \in Conns |-> "new"]
        /\ total = [c \in Conns |-> 0]
        /\ got = [c \in Conns |-> <<>>]

Open(c) == /\ phase[c] = "new"
           /\ phase' = [phase EXCEPT ![c] = "open"]
           /\ UNCHANGED <<total, got>>

Answer(c) == /\ phase[c] = "open"
             /\ phase' = [phase EXCEPT ![c] = "answering"]
             /\ total' = [total EXCEPT ![c] = total'[c]] /\ total'[c] \in Nat
             /\ UNCHANGED got

\* More of the response arrives; it may be the end of it.
Deliver(c) ==
    LET n == Len(got'[c]) IN
    /\ phase[c] = "answering" /\ n >= Len(got[c])
    /\ n <= total[c] \/ MayOverrun
    /\ got' = [got EXCEPT ![c] = UpTo(n)]
    /\ \/ UNCHANGED phase
       \/ n >= total[c] /\ phase' = [phase EXCEPT ![c] = "complete"]
    /\ UNCHANGED total

GiveUp(c) == /\ phase[c] \in {"new", "open", "answering"}
             /\ phase' = [phase EXCEPT ![c] = "given up"]
             /\ UNCHANGED <<total, got>>

Next == \E c \in Conns : Open(c) \/ Answer(c) \/ Deliver(c) \/ GiveUp(c)

Spec == Init /\ [][Next]_vars
=============================================================================
