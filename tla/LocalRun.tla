------------------------------ MODULE LocalRun ------------------------------
(***************************************************************************)
(* Workspaces on the user's own machine (scripts/local/aistore-local.py and *)
(* server/app/local_api.py).  The machine is authorised once; "run" asks    *)
(* the server for the plan of a product, stops what is left of its stack,   *)
(* pulls the images and starts the containers one by one: initialisers, the *)
(* main container, and those that join its network.                         *)
(*                                                                         *)
(* One terminal for each product, all on one docker daemon.  Ctrl-C or a    *)
(* failing docker command may end a run anywhere.  Left out: two runs of    *)
(* the same product at the same time.                                       *)
(***************************************************************************)
CONSTANTS
    Slots,     \* products
    Longer,    \* of each product: those whose names begin with its name
    Parts      \* the names of its sidecars

VARIABLES
    device,    \* what the server thinks of the token in the token file
    pass,      \* products the user may open
    docker,    \* of each product and container: none, created or running
    shell,     \* of each product: what its terminal is doing
    deaf       \* history: products that docker was last told to stop, and did not

localVars == <<device, pass, docker, shell, deaf>>

Containers == {"init", "main"} \cup Parts
Nothing    == [c \in Containers |-> "none"]
There(s)   == {c \in Containers : docker[s][c] # "none"}

TypeOK ==
    /\ device \in {"none", "good", "revoked"} /\ pass \subseteq Slots
    /\ docker \in [Slots -> [Containers -> {"none", "created", "running"}]]
    /\ \A s \in Slots :
          /\ shell[s].pc \in {"idle", "asking", "stopping", "pulling", "initialising",
                              "starting", "joining", "up", "failed", "refused"}
          /\ shell[s].left \subseteq Parts
    /\ deaf \subseteq Slots

Init ==
    /\ device = "none" /\ pass \in SUBSET Slots
    /\ docker = [s \in Slots |-> Nothing]
    /\ shell = [s \in Slots |-> [pc |-> "idle", left |-> {}]] /\ deaf = {}

Quiet(s)    == shell[s].pc \in {"idle", "up", "failed", "refused"}
Goes(s, pc) == shell' = [shell EXCEPT ![s].pc = pc]
At(s, from, to) == shell[s].pc = from /\ Goes(s, to)
Becomes(s, c, what) == docker' = [docker EXCEPT ![s][c] = what]

-----------------------------------------------------------------------------
(* The machine's authorisation.                                             *)

\* cmd_login, once the user has said yes in the browser.
Login ==
    /\ device' = "good" /\ UNCHANGED <<pass, docker, shell, deaf>>

Revoke ==
    /\ device = "good" /\ device' = "revoked" /\ UNCHANGED <<pass, docker, shell, deaf>>

\* The products that are locked are sold, and passes run out.
PassChanges == \E s \in Slots :
    /\ pass' = (pass \ {s}) \cup ({s} \ pass) /\ UNCHANGED <<device, docker, shell, deaf>>

-----------------------------------------------------------------------------
(* cmd_run.                                                                 *)

Run(s) ==
    /\ Quiet(s) /\ Goes(s, "asking") /\ UNCHANGED <<device, pass, docker, deaf>>

\* The plan: a token, a pass and a product that runs here, or nothing.
Accepted    == device = "good"     \* _token, _api: a token that was revoked is refused
Unlocked(s) == s \in pass           \* _locked_for
Planned(s)  == Accepted /\ Unlocked(s)

Plan(s) ==
    /\ At(s, "asking", IF Planned(s) THEN "stopping" ELSE "refused")
    /\ UNCHANGED <<device, pass, docker, deaf>>

NamedFrom(s) == {s} \cup Longer[s]

\* _stop_stack: by name, anchored at both ends.
Named(s) == {s}

StopMain(s) == docker' = [docker EXCEPT ![s]["main"] = "none"]

\* What docker says is not looked at: it may list none of the containers, or
\* remove some of them only.
StopStack(s) == \E stays \in SUBSET {c \in Containers : docker[s][c] # "none"} :
    /\ docker' = [t \in Slots |-> IF t \in Named(s)
                     THEN [c \in Containers |-> IF c \in stays THEN docker[t][c] ELSE "none"]
                     ELSE docker[t]]
    /\ deaf' = IF stays # {} THEN deaf \union {s} ELSE deaf \ {s}

Stop(s) ==
    /\ At(s, "stopping", "pulling") /\ StopStack(s) /\ UNCHANGED <<device, pass>>

\* _pull, image by image, natively or emulated.
Pull(s) ==
    /\ At(s, "pulling", "initialising") /\ UNCHANGED <<device, pass, docker, deaf>>

\* docker run refuses a name that is taken.
Free(s, c) == docker[s][c] = "none"

\* An initialiser runs to its end and is removed; Ctrl-C may leave it.
Initialise(s) ==
    /\ UNCHANGED <<device, pass, deaf>>
    /\ \/ Free(s, "init") /\ At(s, "initialising", "starting") /\ UNCHANGED docker
       \/ At(s, "initialising", "failed") /\ docker' \in {docker, [docker EXCEPT ![s]["init"] = "running"]}

\* A container that does not start stays, created.
StartMain(s) ==
    /\ shell[s].pc = "starting" /\ UNCHANGED <<device, pass, deaf>>
    /\ \/ /\ Free(s, "main") /\ Becomes(s, "main", "running")
          /\ shell' = [shell EXCEPT ![s].pc = "joining", ![s].left = Parts]
       \/ /\ IF Free(s, "main") THEN Becomes(s, "main", "created") ELSE UNCHANGED docker
          /\ Goes(s, "failed")

Join(s) == \E c \in shell[s].left :
    /\ shell[s].pc = "joining" /\ Free(s, c) /\ docker[s]["main"] = "running"
    /\ Becomes(s, c, "running") /\ shell' = [shell EXCEPT ![s].left = @ \ {c}]
    /\ UNCHANGED <<device, pass, deaf>>

JoinFailsAlone(s) ==
    /\ At(s, "joining", "failed") /\ shell[s].left # {} /\ UNCHANGED <<device, pass, docker, deaf>>

\* A sidecar that does not start takes the stack down.
JoinFails(s) ==
    /\ At(s, "joining", "failed") /\ shell[s].left # {} /\ StopStack(s)
    /\ UNCHANGED <<device, pass>>

Up(s) ==
    /\ shell[s].left = {} /\ At(s, "joining", "up") /\ UNCHANGED <<device, pass, docker, deaf>>

\* Ctrl-C, or an image that cannot be pulled.
Interrupt(s) ==
    /\ shell[s].pc \in {"stopping", "pulling", "starting", "joining"} /\ Goes(s, "idle")
    /\ UNCHANGED <<device, pass, docker, deaf>>

\* cmd_stop.
StopCommand(s) ==
    /\ Quiet(s) /\ StopStack(s) /\ Goes(s, "idle") /\ UNCHANGED <<device, pass>>

Next ==
    \/ Login \/ Revoke \/ PassChanges
    \/ \E s \in Slots :
          \/ Run(s) \/ Plan(s) \/ Stop(s) \/ Pull(s) \/ Initialise(s) \/ StartMain(s)
          \/ Join(s) \/ JoinFails(s) \/ Up(s) \/ Interrupt(s) \/ StopCommand(s)

Spec == Init /\ [][Next]_localVars

-----------------------------------------------------------------------------
(* What the tool promises.                                                  *)

\* What "run" said is up is up, whole, until its own terminal says otherwise:
\* neither the run of a product with a longer name nor its stop takes it down
\* (aistore-local.py:183-186, 278-284), and what docker did not remove is never
\* taken for a part of the new stack.  Where docker did as it was told, a run that
\* failed on its own leaves nothing running but an initialiser that was
\* interrupted, and no run meets a name an earlier one left behind (:201-203).
StacksAreWhole == \A s \in Slots :
    /\ shell[s].pc = "up" => \A c \in Parts \cup {"main"} : docker[s][c] = "running"
    /\ s \notin deaf =>
          /\ shell[s].pc = "failed" => \A c \in Parts \cup {"main"} : docker[s][c] # "running"
          /\ shell[s].pc = "initialising" => Free(s, "init")
          /\ shell[s].pc = "starting" => Free(s, "main")

\* aistore-local.py:280-283: what "stop" says it has stopped is stopped.
StoppedIsGone == [][\A s \in Slots : StopCommand(s) => docker'[s] = Nothing]_localVars

RefusedLetsBe ==
    \A s \in Slots : shell'[s].pc = "refused" => docker'[s] = docker[s]

\* A run without the right to it leaves alone what is running.
RefusedTouchesNothing == [][RefusedLetsBe]_localVars

\* A device that was revoked holds nothing that the gateway would serve: the
\* containers keep the token they were started with.
RevokedRunsNothing == device = "revoked" => \A s \in Slots : There(s) = {}
=============================================================================
