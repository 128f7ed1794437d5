---------------------------- MODULE PrivateStores ----------------------------
(***************************************************************************)
(* What a tenant is promised: a server whose every tenant has a database   *)
(* of its own.  The handlers are those of the program, each works on the   *)
(* database of its tenant and on no other.                                 *)
(***************************************************************************)
EXTENDS Handlers

CONSTANTS Workers   \* goroutines that run handlers, 0 and up

VARIABLES own,       \* the database of each tenant
          jobs,      \* what each worker is doing, or did last
          request,   \* which of the requests that is
          scene,     \* which requests there are
          number,    \* requests made so far
          lastID,    \* the last message of the group of each tenant
          hit        \* calls that failed
vars == <<own, jobs, request, scene, number, lastID, hit>>

Init ==
    /\ own = [t \in Tenants |-> Seed(t)]
    /\ jobs = [w \in Workers |-> Idle]
    /\ request = [w \in Workers |-> <<0, 0>>]
    /\ scene \in Scenes
    /\ number = 0
    /\ lastID = [t \in Tenants |-> 1]
    /\ hit = <<>>

Begin(w, t) ==
    /\ ~Busy(jobs[w])
    /\ \E job \in Asked(Requests(scene, t, number + 1, lastID[t])) :
           /\ Takes(w, job.does)
           /\ \A v \in Workers : Busy(jobs[v]) => ~Serial(jobs[v], job.does)
           /\ request' = [request EXCEPT ![w] = <<t, job.i>>]
           /\ jobs' = [jobs EXCEPT ![w] = job.does]
    /\ number' = number + 1
    /\ UNCHANGED <<own, scene, lastID, hit>>

\* The next call of the handler, with its effect on the database of its tenant.
Step(w) ==
    LET j == jobs[w]
        t == j.ten
        r == Call(own[t], t, Now(j).m, Now(j).a)
        Next(k) == /\ jobs' = [jobs EXCEPT ![w] = k]
                   /\ lastID' = [lastID EXCEPT ![t] = Numbered(k, @)]
    IN  /\ Busy(j)
        /\ \/ /\ hit' = hit
              /\ own' = [own EXCEPT ![t] = Final(@, r)]
              /\ Next(After(j, r))
           \/ /\ hit' = Append(hit, Now(j).m)
              /\ \E d \in Left(own[t], r) : own' = [own EXCEPT ![t] = d]
              /\ Next(After(j, Failed(r)))
        /\ UNCHANGED <<request, scene, number>>

Hour ==
    /\ own' = [t \in Tenants |-> Aged(own[t])]
    /\ UNCHANGED <<jobs, request, scene, number, lastID, hit>>

Next == Hour \/ \E w \in Workers : Step(w) \/ \E t \in Tenants : Begin(w, t)
Spec == Init /\ [][Next]_vars
==============================================================================
