----------------------------- MODULE SharedStore -----------------------------
(***************************************************************************)
(* The handlers of Accounts and Uploads, and any method of the store, run  *)
(* by workers for tenants whose rows are in the same tables.  Each call to *)
(* the database, the directory of contents or a stream is a step; any of   *)
(* them may report an error, having done nothing, something or everything. *)
(***************************************************************************)
EXTENDS Handlers

CONSTANTS Workers,     \* goroutines that run handlers, 0 and up
          MaxSessions, \* of them that serve sessions, for each kind of request
          MaxRequests, \* requests made
          MaxFaults,   \* calls that fail
          MaxHours     \* hours that pass

VARIABLES db,        \* the tables
          jobs, request, scene, number, lastID, hit,   \* as in PrivateStores
          hours,     \* hours that passed
          begun,     \* the hour each worker began its request
          met,       \* {op, op} that ran at the same time for the same user
          kept       \* links that met a stored file nobody was about to delete
vars == <<db, jobs, request, scene, number, lastID, hit, hours, begun, met, kept>>

Stored(t, f) == \E r \in Rows(db, "files", t) :
                    r.id = f /\ \E c \in Rows(db, "disk", t) : c.loc = r.loc
\* The collector has found the file unused and not deleted it yet.
Found(t, f) ==
    \E w \in Workers : LET j == jobs[w] IN
        /\ Busy(j) /\ j.ten = t /\ Now(j).m = "FileDeleteUnused"
        /\ \E x \in Now(j).a[1] : x.id = f
Safe == {l \in db.links : Stored(l.ten, l.file) /\ ~Found(l.ten, l.file)}
Keeps == kept' = (kept \cap db'.links) \cup Safe'

Both(d, e) == [t \in DOMAIN d |-> d[t] \cup e[t]]
Init ==
    /\ db = Both(Seed(1), Seed(2))
    /\ jobs = [w \in Workers |-> Idle]
    /\ request = [w \in Workers |-> <<0, 0>>]
    /\ scene \in Scenes
    /\ number = 0
    /\ lastID = [t \in Tenants |-> 1]
    /\ hit = <<>>
    /\ hours = 0
    /\ begun = [w \in Workers |-> 0]
    /\ met = {}
    /\ kept = Safe

Meets(j, k) == j.ten = k.ten /\ Busy(k) /\ (j.u = k.u \/ None \in {j.u, k.u})

\* Of two idle workers the first takes the request; the first request is of
\* tenant 1.
Begin(w, t) ==
    /\ ~Busy(jobs[w])
    /\ w <= MaxSessions[scene] /\ \A v \in 1..(w - 1) : Busy(jobs[v])
    /\ number < MaxRequests[scene] /\ t <= number + 1 /\ (scene \in Media => t = 1)
    /\ \E job \in Asked(Requests(scene, t, number + 1, lastID[t])) :
           /\ Takes(w, job.does)
           /\ \A v \in Workers : Busy(jobs[v]) => ~Serial(jobs[v], job.does)
           /\ request' = [request EXCEPT ![w] = <<t, job.i>>]
           /\ jobs' = [jobs EXCEPT ![w] = job.does]
           /\ met' = met \cup {{job.does.op, jobs[v].op} :
                                   v \in {x \in Workers : Meets(job.does, jobs[x])}}
    /\ number' = number + 1
    /\ begun' = [begun EXCEPT ![w] = hours]
    /\ UNCHANGED <<db, scene, lastID, hit, hours>>
    /\ Keeps

Step(w) ==
    LET j == jobs[w]
        t == j.ten
        r == Call(db, t, Now(j).m, Now(j).a)
        Next(k) == /\ jobs' = [jobs EXCEPT ![w] = k]
                   /\ lastID' = [lastID EXCEPT ![t] = Numbered(k, @)]
    IN  /\ Busy(j)
        /\ \/ /\ hit' = hit
              /\ db' = Final(db, r)
              /\ Next(After(j, r))
           \/ /\ Len(hit) < MaxFaults[scene] /\ \A v \in Workers \ {w} : ~Busy(jobs[v])
              /\ hit' = Append(hit, Now(j).m)
              /\ db' \in Left(db, r)
              /\ Next(After(j, Failed(r)))
        /\ UNCHANGED <<request, scene, number, hours, begun, met>>
        /\ Keeps

Hour ==
    /\ scene \in Media /\ hours < MaxHours
    /\ hours' = hours + 1
    /\ db' = Aged(db)
    /\ UNCHANGED <<jobs, request, scene, number, lastID, hit, begun, met>>
    /\ Keeps

Next == Hour \/ \E w \in Workers : Step(w) \/ \E t \in Tenants : Begin(w, t)
Spec == Init /\ [][Next]_vars

-----------------------------------------------------------------------------
\* What of the tables belongs to a tenant.
Of(d, t) == [x \in DOMAIN d |->
                IF x = "kv" THEN {r \in d.kv : r.key[1] = t} ELSE Rows(d, x, t)]
Private == INSTANCE PrivateStores WITH own <- [t \in Tenants |-> Of(db, t)]
==============================================================================
