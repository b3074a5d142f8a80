------------------------------- MODULE Comfy -------------------------------
(***************************************************************************)
(* Making pictures and films from a ComfyUI workspace.  The vendors' own     *)
(* nodes talk to a shim in the container                                     *)
(* (deploy/workspace-comfyui/api_shim.py), which translates for the          *)
(* platform's gateway; the platform's node                                   *)
(* (custom_nodes/dsh_cloud/__init__.py) asks the gateway itself.  A film is a *)
(* job of the gateway's that is charged when it is made and refunded after it *)
(* failed; a node asks until it is told the end.  A picture is one long call, *)
(* which the shim makes a task of its own for the vendor that expects one.   *)
(* Material is uploaded first, and the vendor of the film fetches it.        *)
(*                                                                         *)
(* A step is one call of the gateway's, whose answer may be lost.            *)
(***************************************************************************)
EXTENDS Integers

CONSTANTS
    Nodes,
    Kinds,      \* of "vendor", "own", "picture", "straight"
    MaxLost     \* bound on the answers that do not come back

VARIABLES
    node,       \* kind, step, and whether it sends material and a renamed model
    job,        \* the gateway's job, or the call of a picture: its status, the
                \* ends it has had, and where the money of a film is
    task,       \* the shim's table of pictures in the making
    names,      \* the shim's copy of what is on sale: unknown, known, empty
    upload,     \* the material of each node at the gateway
    slot,       \* the shim's table of open uploads
    lost

comfyVars == <<node, job, task, names, upload, slot, lost>>

Steps == {"idle", "sends", "creates", "polls", "done", "failed", "refused", "late", "gone"}

NoJob == [status |-> "none", been |-> {}, money |-> "kept"]

TypeOK ==
    /\ node \in [Nodes -> [kind : Kinds, step : Steps, material : BOOLEAN, renamed : BOOLEAN]]
    /\ job \in [Nodes -> [status : {"none", "running", "done", "failed"},
                         been : SUBSET {"done", "failed"}, money : {"kept", "owed", "back", "lost"}]]
    /\ task \in [Nodes -> {"none", "running", "done", "failed"}]
    /\ names \in {"unknown", "known", "empty"}
    /\ upload \in [Nodes -> {"none", "open", "there", "swept"}]
    /\ slot \subseteq Nodes /\ lost \in 0..MaxLost

Init ==
    /\ node \in [Nodes -> [kind : Kinds, step : {"idle"}, material : BOOLEAN, renamed : BOOLEAN]]
    /\ \A n \in Nodes : /\ node[n].material => node[n].kind = "vendor"
                        /\ node[n].renamed => node[n].kind # "own"
    /\ job = [n \in Nodes |-> NoJob] /\ task = [n \in Nodes |-> "none"]
    /\ upload = [n \in Nodes |-> "none"] /\ slot = {}
    /\ names = "unknown" /\ lost = 0

To(n, step) == node' = [node EXCEPT ![n].step = step]
Lose        == lost < MaxLost /\ lost' = lost + 1
Answered    == lost' = lost

\* A film is a job of the gateway's and charged before, a picture one call.
Film(n) == node[n].kind \in {"vendor", "own"}
Running(n) == [job EXCEPT ![n].status = "running"]
Made(n)    == [job EXCEPT ![n].status = "done", ![n].been = @ \union {"done"}]
Failed(n)  == [job EXCEPT ![n].status = "failed", ![n].been = @ \union {"failed"},
                          ![n].money = IF Film(n) /\ @ = "kept" THEN "owed" ELSE @]

-----------------------------------------------------------------------------
(* Material: POST /customers/storage, then PUT /upload/<id>.                *)

Start(n) ==
    /\ node[n].step = "idle"
    /\ To(n, IF node[n].material THEN "sends" ELSE "creates")
    /\ UNCHANGED <<job, task, names, upload, slot, lost>>

\* create_upload: the gateway makes a place with the type of what is to come, if
\* it is a picture, a film or a sound.
Opened(n) == upload' = [upload EXCEPT ![n] = "open"]

\* put_upload: a place is filled, and filled again, as long as it is there.
Received(n) ==
    /\ upload[n] \in {"open", "there"}
    /\ upload' = [upload EXCEPT ![n] = "there"]

\* get_blob: what has been sent and not been swept, for whoever knows its number.
Fetchable(n) == upload[n] = "there"

\* _open_upload: the gateway opens a place, the shim remembers its type.
OpenUpload(n) ==
    /\ node[n].step = "sends" /\ n \notin slot
    /\ \/ /\ Opened(n) /\ slot' = slot \union {n}
          /\ Answered /\ UNCHANGED node
       \/ /\ Opened(n) \/ UNCHANGED upload
          /\ Lose
          /\ To(n, "gone") /\ UNCHANGED slot
    /\ UNCHANGED <<job, task, names>>

\* _recv_upload: the gateway's place may have been swept.
Send(n) ==
    /\ node[n].step = "sends" /\ n \in slot
    /\ \/ Received(n) /\ Answered /\ To(n, "creates")
       \/ upload[n] = "swept" /\ Answered /\ To(n, "gone") /\ UNCHANGED upload
       \/ /\ Received(n) \/ UNCHANGED upload
          /\ Lose /\ To(n, "gone")
    /\ UNCHANGED <<job, task, names, slot>>

\* sweep_uploads: what is older than its time to live goes.
Sweep(n) ==
    /\ upload[n] \in {"open", "there"}
    /\ upload' = [upload EXCEPT ![n] = "swept"]
    /\ UNCHANGED <<node, job, task, names, slot, lost>>

-----------------------------------------------------------------------------
(* Making.                                                                  *)

\* _offered: the first request asks what is on sale; what came back is kept, an
\* empty table after a failure too.
Look(n) ==
    /\ node[n].step = "creates" /\ node[n].kind # "own" /\ names = "unknown"
    /\ \/ names' = "known" /\ Answered
       \/ names' = "empty" /\ Lose
    /\ UNCHANGED <<node, job, task, upload, slot>>

Mapped(n) == node[n].kind = "own" \/ names # "unknown"
Sold(n)   == node[n].renamed => names = "known"

\* A model under a name the gateway does not sell.
Unsold(n) ==
    /\ node[n].step = "creates" /\ Mapped(n) /\ ~Sold(n)
    /\ To(n, "refused")
    /\ UNCHANGED <<job, task, names, upload, slot, lost>>

\* _create_video, _wan_video, DSHCloudVideo: the job is made and charged; when
\* the answer does not come back, the node has no number to ask for.
Create(n) ==
    /\ node[n].step = "creates" /\ Film(n) /\ Mapped(n) /\ Sold(n)
    /\ \/ job' = Running(n) /\ Answered /\ To(n, "polls")
       \/ job' \in {job, Running(n)} /\ Lose /\ To(n, "gone")
    /\ UNCHANGED <<task, names, upload, slot>>

\* _wan_image: a number of the shim's own, and a thread that calls the gateway.
CreatePicture(n) ==
    /\ node[n].step = "creates" /\ node[n].kind = "picture" /\ Mapped(n) /\ Sold(n)
    /\ task' = [task EXCEPT ![n] = "running"] /\ job' = Running(n)
    /\ To(n, "polls")
    /\ UNCHANGED <<names, upload, slot, lost>>

\* _create_image, _openai_image, _qwen_image, DSHCloudImage: one call, and its
\* answer.
Straight(n) ==
    /\ node[n].step = "creates" /\ node[n].kind = "straight" /\ Mapped(n) /\ Sold(n)
    /\ \/ job' = Made(n) /\ Answered /\ To(n, "done")
       \/ job' = Failed(n) /\ Answered /\ To(n, "failed")
       \/ job' \in {job, Made(n)} /\ Lose /\ To(n, "gone")
    /\ UNCHANGED <<task, names, upload, slot>>

\* The end at the gateway (_settle).  Whoever asked the upstream before the job
\* ended may write his end over it: a film that was made can still fail, and one
\* that had failed be made.
Unended(n, status) == job[n].status = "running" \/ (Film(n) /\ job[n].status = status)

JobFails(n) ==
    /\ Unended(n, "done") /\ job' = Failed(n)
    /\ UNCHANGED <<node, task, names, upload, slot, lost>>

\* A film whose material cannot be fetched is not made.
JobIsMade(n) ==
    /\ Unended(n, "failed") /\ (node[n].material => Fetchable(n))
    /\ job' = Made(n)
    /\ UNCHANGED <<node, task, names, upload, slot, lost>>

\* _refund_once, a transaction of its own behind that of the failure, and of the
\* grant; the server may die in between.
PaysBack(n) ==
    /\ job[n].money = "owed"
    /\ job' \in {[job EXCEPT ![n].money = m] : m \in {"back", "lost"}}
    /\ UNCHANGED <<node, task, names, upload, slot, lost>>

\* _run_image_task: only pictures that came back are a success.
TaskEnds(n) ==
    /\ task[n] = "running"
    /\ \/ /\ job[n].status # "running" /\ Answered
          /\ task' = [task EXCEPT ![n] = IF job[n].status = "done" THEN "done" ELSE "failed"]
       \/ Lose /\ task' = [task EXCEPT ![n] = "failed"]
    /\ UNCHANGED <<node, job, names, upload, slot>>

-----------------------------------------------------------------------------
(* Asking.                                                                  *)

Told(n) == IF job[n].status \in {"done", "failed"} THEN job[n].status ELSE "polls"

\* Mutant of PollLost: an answer that does not come is a failure.
PollLostFails(n) ==
    /\ node[n].step = "polls" /\ node[n].kind # "picture" /\ Lose /\ To(n, "failed")
    /\ UNCHANGED <<job, task, names, upload, slot>>

\* _video_status, _wan_task: whatever goes wrong while asking is "running"; the
\* platform's node asks again after an error of the server's.
PollLost(n) ==
    /\ node[n].step = "polls" /\ node[n].kind # "picture" /\ Lose
    /\ UNCHANGED <<node, job, task, names, upload, slot>>

Poll(n) ==
    /\ node[n].step = "polls" /\ node[n].kind # "picture"
    /\ To(n, Told(n))
    /\ UNCHANGED <<job, task, names, upload, slot, lost>>

PollPicture(n) ==
    /\ node[n].step = "polls" /\ node[n].kind = "picture"
    /\ To(n, IF task[n] = "running" THEN "polls" ELSE task[n])
    /\ UNCHANGED <<job, task, names, upload, slot, lost>>

\* The platform's node gives up after ten minutes.
TooLate(n) ==
    /\ node[n].step = "polls" /\ node[n].kind = "own" /\ job[n].status = "running" /\ To(n, "late")
    /\ UNCHANGED <<job, task, names, upload, slot, lost>>

Next ==
    \E n \in Nodes :
       \/ Start(n) \/ OpenUpload(n) \/ Send(n) \/ Sweep(n)
       \/ Look(n) \/ Unsold(n) \/ Create(n) \/ CreatePicture(n) \/ Straight(n)
       \/ JobFails(n) \/ JobIsMade(n) \/ PaysBack(n) \/ TaskEnds(n)
       \/ PollLost(n) \/ Poll(n) \/ PollPicture(n) \/ TooLate(n)

Spec == Init /\ [][Next]_comfyVars

-----------------------------------------------------------------------------
(* Correctness.                                                             *)

\* A node that reports a failed film does so because the gateway's job did fail,
\* and one that reports a film because it was made, whatever got lost while it
\* asked (api_shim.py:424-440).  What becomes of the job afterwards, and of the
\* money, is another matter: see FailedIsPaidBack.
EndsAsTheJob ==
    \A n \in Nodes : node[n].kind # "picture" =>
       /\ node[n].step = "failed" => "failed" \in job[n].been
       /\ node[n].step = "done" => "done" \in job[n].been

\* The same of the pictures.
PictureEndsAsTheCall ==
    \A n \in Nodes : node[n].kind = "picture" =>
       /\ node[n].step = "failed" => "failed" \in job[n].been
       /\ node[n].step = "done" => "done" \in job[n].been

\* api_shim.py:187-196: a node that reports a failed film may add "refunded in
\* full" whatever it failed of.
FailedIsPaidBack ==
    \A n \in Nodes : Film(n) /\ node[n].step = "failed" =>
        job[n].status = "failed" /\ job[n].money = "back"

\* dsh_cloud/__init__.py:55-60: one failed look at what is on sale does not keep
\* the models away until the container is made again.
OneLookIsNotForEver == names # "empty"
=============================================================================
