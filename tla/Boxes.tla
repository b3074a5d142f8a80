------------------------------- MODULE Boxes -------------------------------
(***************************************************************************)
(* One computer per user (server/app/boxbackend.py: BoxBackend): the         *)
(* products of a user are containers on it.  The computer is made on demand, *)
(* sleeps when nothing runs on it, and is reached through a tunnel that has  *)
(* an address of its own.  ensure_workspace holds a lock per product, so two  *)
(* products of a user, and the reaper, run at the same time.                 *)
(*                                                                         *)
(* A step reaches from one call of the box API or transaction to the next.   *)
(***************************************************************************)
EXTENDS Integers, FiniteSets

CONSTANTS
    Users, Products,
    Addresses,      \* the pool of the tunnel net
    MaxBoxes        \* computers ever made

VARIABLES
    row,        \* user_boxes: of each user the computer and its address
    box,        \* of each computer: state, tunnel address, containers
    made,
    work,       \* create, of each user and product
    reaper      \* release, of each user and product

boxVars == <<row, box, made, work, reaper>>

NoRow  == [box |-> 0, ip |-> 0]
NoBox  == [state |-> "none", tunnel |-> 0, runs |-> {}]
Idle   == [step |-> "idle", box |-> 0, ip |-> 0]
Keys   == Users \X Products
Ips    == Addresses \union {0}

TypeOK ==
    /\ row \in [Users -> [box : 0..MaxBoxes, ip : Ips]]
    /\ box \in [1..MaxBoxes -> [state : {"none", "on", "off", "deleted"}, tunnel : Ips,
                                runs : SUBSET Products]]
    /\ made \in 0..MaxBoxes
    /\ work \in [Keys -> [step : {"idle", "posts", "inserts", "tunnels", "wakes", "runs"},
                          box : 0..MaxBoxes, ip : Ips]]
    /\ reaper \in [Keys -> [step : {"idle", "counts", "stops"}, box : 0..MaxBoxes, ip : {0}]]

Init ==
    /\ row = [u \in Users |-> NoRow] /\ made = 0
    /\ box = [b \in 1..MaxBoxes |-> NoBox]
    /\ work = [k \in Keys |-> Idle] /\ reaper = [k \in Keys |-> Idle]

Taken        == {row[u].ip : u \in {v \in Users : row[v] # NoRow}}
Go(k, w)     == work' = [work EXCEPT ![k] = w]
GiveUp(k)    == Go(k, Idle)
Wakes(b)     == [step |-> "wakes", box |-> b, ip |-> 0]

-----------------------------------------------------------------------------
(* create and _ensure_box.                                                  *)

\* The user has a computer, or an address is chosen for it: the first that no
\* row holds.
Ensure(k) ==
    /\ work[k] = Idle
    /\ IF row[k[1]] # NoRow
       THEN Go(k, Wakes(row[k[1]].box))
       ELSE \E ip \in Addresses \ Taken :
               /\ \A other \in Addresses \ Taken : ip <= other
               /\ Go(k, [step |-> "posts", box |-> 0, ip |-> ip])
    /\ UNCHANGED <<row, box, made, reaper>>

Post(k) ==
    /\ work[k].step = "posts"
    /\ \/ /\ made < MaxBoxes /\ made' = made + 1
          /\ box' = [box EXCEPT ![made + 1].state = "on"]
          /\ Go(k, [work[k] EXCEPT !.step = "inserts", !.box = made + 1])
       \/ GiveUp(k) /\ UNCHANGED <<box, made>>
    /\ UNCHANGED <<row, reaper>>

\* Mutant of Insert: no constraint looks at the address.
InsertAnyAddress(k) ==
    /\ work[k].step = "inserts"
    /\ IF row[k[1]] # NoRow
       THEN GiveUp(k) /\ UNCHANGED row
       ELSE /\ row' = [row EXCEPT ![k[1]] = [box |-> work[k].box, ip |-> work[k].ip]]
            /\ Go(k, [work[k] EXCEPT !.step = "tunnels"])
    /\ UNCHANGED <<box, made, reaper>>

\* user_id is the primary key and tunnel_ip is unique: the second of two that
\* chose at the same time fails here, and its computer has no row.
Insert(k) ==
    /\ work[k].step = "inserts"
    /\ IF row[k[1]] # NoRow \/ work[k].ip \in Taken
       THEN GiveUp(k) /\ UNCHANGED row
       ELSE /\ row' = [row EXCEPT ![k[1]] = [box |-> work[k].box, ip |-> work[k].ip]]
            /\ Go(k, [work[k] EXCEPT !.step = "tunnels"])
    /\ UNCHANGED <<box, made, reaper>>

\* _provision_tunnel, only for a computer that was just made; when it fails the
\* row stays.
Tunnel(k) ==
    /\ work[k].step = "tunnels"
    /\ \/ /\ box[work[k].box].state # "deleted"
          /\ box' = [box EXCEPT ![work[k].box].tunnel = work[k].ip]
          /\ Go(k, Wakes(work[k].box))
       \/ GiveUp(k) /\ UNCHANGED box
    /\ UNCHANGED <<row, made, reaper>>

\* _wake: asked to resume until it answers, or given up.
Wake(k) ==
    /\ work[k].step = "wakes"
    /\ \/ /\ box[work[k].box].state \in {"on", "off"}
          /\ box' = [box EXCEPT ![work[k].box].state = "on"]
          /\ Go(k, [work[k] EXCEPT !.step = "runs"])
       \/ GiveUp(k) /\ UNCHANGED box
    /\ UNCHANGED <<row, made, reaper>>

\* docker run, by a command that a sleeping computer does not take.
Run(k) ==
    /\ work[k].step = "runs" /\ GiveUp(k)
    /\ \/ /\ box[work[k].box].state = "on"
          /\ box' = [box EXCEPT ![work[k].box].runs = @ \union {k[2]}]
       \/ UNCHANGED box
    /\ UNCHANGED <<row, made, reaper>>

\* inspect: the provider does not know the computer any more.
Inspect(u) ==
    /\ row[u] # NoRow /\ box[row[u].box].state = "deleted"
    /\ row' = [row EXCEPT ![u] = NoRow]
    /\ UNCHANGED <<box, made, work, reaper>>

-----------------------------------------------------------------------------
(* release and destroy.                                                     *)

\* The container goes; destroy does no more.
Remove(k, releases) ==
    /\ reaper[k] = Idle /\ row[k[1]] # NoRow
    /\ LET b == row[k[1]].box IN
         /\ box[b].state = "on" /\ k[2] \in box[b].runs
         /\ box' = [box EXCEPT ![b].runs = @ \ {k[2]}]
         /\ reaper' = [reaper EXCEPT ![k].step = IF releases THEN "counts" ELSE "idle",
                                     ![k].box = IF releases THEN b ELSE 0]
    /\ UNCHANGED <<row, made, work>>

\* How many containers run on it?
Count(k) ==
    /\ reaper[k].step = "counts"
    /\ LET b == reaper[k].box IN
         reaper' = [reaper EXCEPT ![k] =
            IF box[b].state = "on" /\ box[b].runs = {} THEN [@ EXCEPT !.step = "stops"] ELSE Idle]
    /\ UNCHANGED <<row, box, made, work>>

\* None did: the computer is stopped.  What runs by now comes back with it
\* (--restart=always).
StopBox(k) ==
    /\ reaper[k].step = "stops"
    /\ reaper' = [reaper EXCEPT ![k] = Idle]
    /\ LET b == reaper[k].box IN
         box' \in {[box EXCEPT ![b].state = IF @ = "on" THEN "off" ELSE @], box}
    /\ UNCHANGED <<row, made, work>>

\* Its time to live is over, or somebody deletes it.
BoxGone(b) ==
    /\ box[b].state \in {"on", "off"}
    /\ box' = [box EXCEPT ![b] = [state |-> "deleted", tunnel |-> 0, runs |-> {}]]
    /\ UNCHANGED <<row, made, work, reaper>>

Next ==
    \/ \E k \in Keys : \/ Ensure(k) \/ Post(k) \/ Insert(k) \/ Tunnel(k) \/ Wake(k) \/ Run(k)
                       \/ \E releases \in BOOLEAN : Remove(k, releases)
                       \/ Count(k) \/ StopBox(k)
    \/ \E u \in Users : Inspect(u)
    \/ \E b \in 1..MaxBoxes : BoxGone(b)

Spec == Init /\ [][Next]_boxVars

-----------------------------------------------------------------------------
(* Correctness.                                                             *)

\* boxbackend.py:68-72: no two computers answer at one address, whoever was made
\* or deleted in the meantime.
OwnAddress ==
    \A b, c \in 1..MaxBoxes :
       b # c /\ box[b].tunnel # 0 => box[b].tunnel # box[c].tunnel

\* _ensure_box: every computer is the one of a user, or is about to be.
NoStrayBox ==
    \A b \in 1..MaxBoxes : box[b].state \in {"on", "off"} =>
       (\E u \in Users : row[u].box = b) \/ (\E k \in Keys : work[k].box = b)

\* boxbackend.py:411: a computer is stopped only while nothing runs on it.
StoppedIsIdle ==
    [][\A b \in 1..MaxBoxes : box[b].state = "on" /\ box'[b].state = "off" => box[b].runs = {}]_boxVars
=============================================================================
