-------------------------- MODULE WorkloadContract --------------------------
(***************************************************************************)
(* What a benchmark run promises its caller, whatever its scheduling:     *)
(* operations overlap at most one per client, their number has a bound,   *)
(* a request to close lets every client begin at most one more of them,   *)
(* and the call returns with nothing in flight and is then final.         *)
(***************************************************************************)
EXTENDS Integers

CONSTANT Clients

VARIABLES phase,     \* "open" until the call has returned
          closing,   \* a stop, a cancellation or the deadline was seen
          inflight,  \* clients that are executing an operation
          grace,     \* clients that may still begin an operation after closing
          budget,    \* operations left to begin, Unlimited when there is no limit
          started    \* some operation has begun

vars == <<phase, closing, inflight, grace, budget, started>>

Unlimited == -1

Init == /\ phase = "open"
        /\ closing = FALSE
        /\ inflight = {}
        /\ grace = Clients
        /\ budget \in Nat \cup {Unlimited}
        /\ started = FALSE

Begin(c) == /\ phase = "open"
            /\ c \notin inflight
            /\ budget # 0
            /\ closing => c \in grace
            /\ grace' = IF closing THEN grace \ {c} ELSE grace
            /\ budget' = IF budget = Unlimited THEN Unlimited ELSE budget - 1
            /\ inflight' = inflight \cup {c}
            /\ started' = TRUE
            /\ UNCHANGED <<phase, closing>>

End(c) == /\ c \in inflight
          /\ inflight' = inflight \ {c}
          /\ UNCHANGED <<phase, closing, grace, budget, started>>

Close == /\ ~closing
         /\ closing' = TRUE
         /\ UNCHANGED <<phase, inflight, grace, budget, started>>

\* A call that nobody closed returns only if it never began an operation.
Return == /\ phase = "open"
          /\ inflight = {}
          /\ started => closing
          /\ phase' = "closed"
          /\ UNCHANGED <<closing, inflight, grace, budget, started>>

Next == \/ \E c \in Clients : Begin(c) \/ End(c)
        \/ Close
        \/ Return

Spec == Init /\ [][Next]_vars
=============================================================================
