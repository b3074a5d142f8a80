----------------------------- MODULE Instances -----------------------------
(***************************************************************************)
(* The container instances of one workspace in the cloud                    *)
(* (server/app/workbackend.py: EciBackend behind RoutedBackend).  The name of *)
(* an instance is not unique: two servers that both found none make two, and *)
(* each bills by the second.  So every inspection deletes all but one, and   *)
(* the servers must agree on which.  A product may move to another backend   *)
(* while its instances run; then a release has to ask every backend.         *)
(*                                                                         *)
(* A step is a call of the cloud's API.                                      *)
(***************************************************************************)
EXTENDS Integers, FiniteSets

CONSTANTS
    Servers,        \* server processes: two while one takes over from the other
    MaxGroups       \* instances ever made

VARIABLES
    groups,     \* the container groups of this name, numbered by their age
    made,       \* how many were made
    pod,        \* does the other backend run the workspace?
    route,      \* which backend WORK_BACKEND_PRODUCTS names for the product
    server,     \* what each server is about
    calm        \* history: nobody released it, no instance ended by itself

instanceVars == <<groups, made, pod, route, server, calm>>

Statuses == {"coming up", "running", "over"}
Idle     == [step |-> "idle", todo |-> {}, keep |-> 0]

TypeOK ==
    /\ \A g \in groups : g.nr \in 1..made /\ g.status \in Statuses
    /\ made \in 0..MaxGroups /\ pod \in BOOLEAN /\ route \in {"eci", "k8s"}
    /\ \A s \in Servers :
          /\ server[s].step \in {"idle", "clears", "creates", "releases eci", "lists eci", "releases k8s"}
          /\ server[s].todo \subseteq 1..made /\ server[s].keep \in 0..made
    /\ calm \in BOOLEAN

Init ==
    /\ groups = {} /\ made = 0 /\ pod = FALSE /\ route = "eci"
    /\ server = [s \in Servers |-> Idle] /\ calm = TRUE

Alive  == {g \in groups : g.status # "over"}
Nrs(G) == {g.nr : g \in G}

\* Mutant of Keeper: every server keeps one, whichever.
AnyKeeper(s) == IF Alive = {} THEN {0} ELSE Nrs(Alive)

\* The newest that lives.
Keeper(s) == IF Alive = {} THEN {0}
             ELSE {n \in Nrs(Alive) : \A m \in Nrs(Alive) : m <= n}

\* The product in the key of the workspace says whose it is.
Picked(which) == route = which

Go(s, step)  == server' = [server EXCEPT ![s].step = step]
Finished(s)  == server' = [server EXCEPT ![s] = Idle]
Unchanged(s) == UNCHANGED <<groups, made, pod, route, calm>>

-----------------------------------------------------------------------------
(* inspect and create, which ensure_workspace calls.                        *)

Inspect(s) ==
    /\ server[s] = Idle /\ Picked("eci")
    /\ \E keep \in Keeper(s) :
          server' = [server EXCEPT ![s] = [step |-> "clears", keep |-> keep,
                                           todo |-> Nrs(groups) \ {keep}]]
    /\ Unchanged(s)

\* A delete that fails is logged, and the next one follows.
Delete(s, n) ==
    /\ n \in server[s].todo
    /\ groups' \in {{g \in groups : g.nr # n}, groups}
    /\ server' = [server EXCEPT ![s].todo = @ \ {n}]
    /\ UNCHANGED <<made, pod, route, calm>>

\* One is there, or is to be made.
Inspected(s) ==
    /\ server[s].step = "clears" /\ server[s].todo = {}
    /\ IF server[s].keep = 0 THEN Go(s, "creates") ELSE Finished(s)
    /\ Unchanged(s)

\* The call may fail, also after the cloud has done what it asks.
Create(s) ==
    /\ server[s].step = "creates" /\ Finished(s)
    /\ \/ made < MaxGroups /\ made' = made + 1
          /\ groups' = groups \union {[nr |-> made + 1, status |-> "coming up"]}
       \/ UNCHANGED <<groups, made>>
    /\ UNCHANGED <<pod, route, calm>>

CreatePod(s) ==
    /\ server[s] = Idle /\ Picked("k8s") /\ ~pod
    /\ pod' = TRUE
    /\ UNCHANGED <<groups, made, route, server, calm>>

-----------------------------------------------------------------------------
(* RoutedBackend.release: every backend, that of the product first.          *)

Release(s) ==
    /\ server[s] = Idle
    /\ Go(s, IF Picked("eci") THEN "releases eci" ELSE "releases k8s")
    /\ calm' = FALSE /\ UNCHANGED <<groups, made, pod, route>>

ListAll(s) ==
    /\ server[s].step = "releases eci"
    /\ server' = [server EXCEPT ![s] = [step |-> "lists eci", keep |-> 0, todo |-> Nrs(groups)]]
    /\ Unchanged(s)

\* All of them were tried, and the other backend is next.
ReleasedEci(s) ==
    /\ server[s].step = "lists eci" /\ server[s].todo = {}
    /\ IF route = "eci" THEN Go(s, "releases k8s") ELSE Finished(s)
    /\ Unchanged(s)

ReleasePod(s) ==
    /\ server[s].step = "releases k8s"
    /\ pod' = FALSE
    /\ IF route = "k8s" THEN Go(s, "releases eci") ELSE Finished(s)
    /\ UNCHANGED <<groups, made, route, calm>>

\* A backend that does not answer ends the release; the rest is left.
Unreachable(s) ==
    /\ server[s].step \in {"releases eci", "releases k8s"}
    /\ Finished(s) /\ Unchanged(s)

-----------------------------------------------------------------------------
(* The cloud, and a change of the configuration, which is a restart.         *)

Progress ==
    \E g \in Alive :
       /\ groups' = (groups \ {g}) \union
             {[g EXCEPT !.status = IF @ = "coming up" THEN "running" ELSE "over"]}
       /\ calm' = (calm /\ g.status = "coming up")
       /\ UNCHANGED <<made, pod, route, server>>

Reroute ==
    /\ route' = IF route = "eci" THEN "k8s" ELSE "eci"
    /\ server' = [s \in Servers |-> Idle]
    /\ UNCHANGED <<groups, made, pod, calm>>

Next ==
    \/ \E s \in Servers :
          \/ Inspect(s) \/ Inspected(s) \/ Create(s) \/ CreatePod(s)
          \/ Release(s) \/ ListAll(s) \/ ReleasedEci(s) \/ ReleasePod(s) \/ Unreachable(s)
          \/ \E n \in 1..made : Delete(s, n)
    \/ Progress \/ Reroute

Spec == Init /\ [][Next]_instanceVars

-----------------------------------------------------------------------------
(* Correctness.                                                             *)

\* workbackend.py:427-428: the servers that clear away duplicates keep the same
\* one, so that they never delete the last one between them: where an instance
\* was made, nobody released it and none ended by itself, one is alive.
OneSurvives == calm /\ made > 0 => Alive # {}
=============================================================================
