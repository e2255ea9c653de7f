------------------------------- MODULE JobPool -------------------------------
(***************************************************************************)
(* What the job queue promises the rest of the server: a job that has been *)
(* accepted is pending until one worker takes it, it is taken by one       *)
(* worker only, and a worker has one job at a time.                        *)
(***************************************************************************)
CONSTANTS Workers, Jobs, None

VARIABLES pending,  \* jobs accepted and not yet taken
          running,  \* the job each worker has
          started   \* jobs ever taken

vars == <<pending, running, started>>

Init ==
    /\ pending = {}
    /\ running = [w \in Workers |-> None]
    /\ started = {}

Enqueue(j) ==
    /\ j \notin pending \cup started
    /\ pending' = pending \cup {j}
    /\ UNCHANGED <<running, started>>

Take(w, j) ==
    /\ j \in pending
    /\ j \notin started
    /\ running[w] = None
    /\ pending' = pending \ {j}
    /\ running' = [running EXCEPT ![w] = j]
    /\ started' = started \cup {j}

(* The worker is done with its job, or its death has been noticed. *)
Release(w) ==
    /\ running[w] # None
    /\ running' = [running EXCEPT ![w] = None]
    /\ UNCHANGED <<pending, started>>

Next ==
    \/ \E j \in Jobs : Enqueue(j)
    \/ \E w \in Workers, j \in Jobs : Take(w, j)
    \/ \E w \in Workers : Release(w)

Spec == Init /\ [][Next]_vars
=============================================================================
