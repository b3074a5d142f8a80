-------------------------------- MODULE Pods --------------------------------
(***************************************************************************)
(* A workspace on Kubernetes (server/app/workbackend.py: K8sBackend).  Its   *)
(* files live in a volume that goes away with the Pod; the master copy is in *)
(* the object store.  An init container fetches it, a sidecar pushes what    *)
(* changed, at intervals and once more at the end.  Each Pod mounts a Secret *)
(* with credentials for its own directory, which the server renews, and      *)
(* deletes when the Pod is gone.                                             *)
(*                                                                         *)
(* One workspace: Pods share nothing but the lists the server reads.  The    *)
(* API server answers at once, and other actors run between two answers.     *)
(***************************************************************************)
EXTENDS FiniteSets

CONSTANT Files      \* what the user comes to write; he deletes nothing

VARIABLES
    pod,        \* the Pod of this name
    local,      \* the files in its volume
    marker,     \* /data/.dsh-restored
    whole,      \* history: what the restore has brought
    oss,        \* the files in the object store
    secret,     \* the Secret, its age and whether half of its time is over
    server,     \* create and destroy, one at a time: the lock of the user
    refresh     \* refresh_credentials

podVars == <<pod, local, marker, whole, oss, secret, server, refresh>>

NoSecret == [there |-> FALSE, old |-> FALSE, due |-> FALSE]
Data     == <<local, marker, whole, oss>>

TypeOK ==
    /\ pod \in {"none", "pending", "restoring", "running", "stopping", "ended"}
    /\ local \subseteq Files /\ oss \subseteq Files
    /\ marker \in BOOLEAN /\ whole \in {"not yet", "whole", "half", "blind"}
    /\ secret \in [there : BOOLEAN, old : BOOLEAN, due : BOOLEAN]
    /\ server \in {"idle", "deleting", "stale", "minting", "posting", "waiting"}
    /\ refresh \in {"idle", "saw pod", "saw none", "deletes", "renews"}

Init ==
    /\ pod = "none" /\ local = {} /\ marker = FALSE /\ whole = "not yet"
    /\ oss = {} /\ secret = NoSecret
    /\ server = "idle" /\ refresh = "idle"

\* The volume is an emptyDir.
Vanish == pod' = "none" /\ local' = {} /\ marker' = FALSE /\ whole' = "not yet"

-----------------------------------------------------------------------------
(* create, inspect and destroy.                                             *)

\* inspect finds no Pod, or clears away one that has come to an end, and
\* leaves its Secret.
Inspect ==
    /\ server = "idle" /\ pod \in {"none", "ended"}
    /\ Vanish /\ server' = "minting"
    /\ UNCHANGED <<oss, secret, refresh>>

\* _ensure_pod_creds: a Secret that is there is replaced and keeps its age.
WriteSecret ==
    secret' = [there |-> TRUE, old |-> secret.there /\ secret.old, due |-> FALSE]

Mint ==
    /\ server = "minting"
    /\ \/ WriteSecret /\ server' = "posting"
       \/ server' = "idle" /\ UNCHANGED secret
    /\ UNCHANGED <<pod, Data, refresh>>

\* The restore is the first of the init containers and the syncer the second;
\* the Secret is mounted by name, whether or not it is there.
Created == pod' = "pending"

\* The name is free: the Pod is there, unless the quota is used up.
Post ==
    /\ server \in {"posting", "waiting"} /\ pod = "none"
    /\ Created \/ UNCHANGED pod
    /\ server' = "idle"
    /\ UNCHANGED <<Data, secret, refresh>>

\* It is not: wait for it, but no longer than 90 seconds.
Conflict ==
    /\ pod # "none"
    /\ \/ server = "posting" /\ server' = "waiting"
       \/ server = "waiting" /\ server' = "idle"
    /\ UNCHANGED <<pod, Data, secret, refresh>>

\* The Pod gets its grace period; then the Secret goes, also when the Pod could
\* not be deleted.
Destroy(again) ==
    /\ server = "idle" /\ pod \in {"pending", "restoring", "running", "ended"}
    /\ \/ pod \in {"pending", "ended"} /\ Vanish
       \/ pod \in {"restoring", "running"} /\ pod' = "stopping" /\ UNCHANGED <<local, marker, whole>>
       \/ UNCHANGED <<pod, local, marker, whole>>
    /\ server' = IF again THEN "stale" ELSE "deleting"
    /\ UNCHANGED <<oss, secret, refresh>>

\* A stale workspace is created anew at once.
DeleteSecret ==
    /\ server \in {"deleting", "stale"}
    /\ secret' \in {NoSecret, secret}
    /\ server' = IF server = "stale" THEN "minting" ELSE "idle"
    /\ UNCHANGED <<pod, Data, refresh>>

-----------------------------------------------------------------------------
(* The restore container and the syncer.                                    *)

\* The kubelet mounts the Secret, or waits for it.
Mounted ==
    /\ pod = "pending" /\ secret.there
    /\ pod' = "restoring"
    /\ UNCHANGED <<Data, secret, server, refresh>>

\* The directory is listed and fetched.
Fetched ==
    /\ pod = "restoring" /\ oss # {}
    /\ local' = oss /\ marker' = TRUE /\ whole' = "whole" /\ pod' = "running"
    /\ UNCHANGED <<oss, secret, server, refresh>>

\* Mutant of Broken: the mark is left whether or not all has come.
BrokenButMarked ==
    /\ pod = "restoring"
    /\ local' \in SUBSET oss
    /\ marker' = TRUE /\ whole' = "half" /\ pod' = "running"
    /\ UNCHANGED <<oss, secret, server, refresh>>

\* It breaks off: no mark is left, and the application starts on what came.
Broken ==
    /\ pod = "restoring" /\ oss # {}
    /\ local' \in SUBSET oss
    /\ marker' = FALSE /\ whole' = "half" /\ pod' = "running"
    /\ UNCHANGED <<oss, secret, server, refresh>>

\* The listing prints nothing, which is all the script looks at: there is
\* nothing there, or the store could not be asked.
Nothing ==
    /\ pod = "restoring"
    /\ marker' = TRUE /\ pod' = "running"
    /\ whole' = IF oss = {} THEN "whole" ELSE "blind"
    /\ UNCHANGED <<local, oss, secret, server, refresh>>

Edit(f) ==
    /\ pod = "running" /\ f \notin local
    /\ local' = local \union {f}
    /\ UNCHANGED <<pod, marker, whole, oss, secret, server, refresh>>

\* rclone sync: the same files at the end; when it breaks off nothing was
\* deleted yet.
Sync == oss' = local \/ \E part \in SUBSET local : oss' = oss \union part

Push ==
    /\ pod = "running" /\ marker
    /\ Sync
    /\ UNCHANGED <<pod, local, marker, whole, secret, server, refresh>>

\* The application has left by itself, or is stopped: the last push, cut off
\* when the grace period ends, and not begun where there is no mark.
FinalPush ==
    /\ pod \in {"running", "stopping"}
    /\ IF marker THEN Sync ELSE UNCHANGED oss
    /\ IF pod = "stopping" THEN Vanish ELSE pod' = "ended" /\ UNCHANGED <<local, marker, whole>>
    /\ UNCHANGED <<secret, server, refresh>>

\* The volume is too large, or the node is gone.
Evicted ==
    /\ pod \in {"running", "restoring"}
    /\ pod' = "ended"
    /\ UNCHANGED <<Data, secret, server, refresh>>

-----------------------------------------------------------------------------
(* refresh_credentials, from one answer to the next.                        *)

ListPods ==
    /\ refresh = "idle"
    /\ refresh' = IF pod = "none" THEN "saw none" ELSE "saw pod"
    /\ UNCHANGED <<pod, Data, secret, server>>

ListSecrets ==
    /\ refresh \in {"saw pod", "saw none"}
    /\ refresh' = CASE refresh = "saw none" /\ secret.there /\ secret.old -> "deletes"
                    [] refresh = "saw pod" /\ secret.there /\ secret.due  -> "renews"
                    [] OTHER -> "idle"
    /\ UNCHANGED <<pod, Data, secret, server>>

DeleteOrphan ==
    /\ refresh = "deletes" /\ refresh' = "idle"
    /\ secret' \in {NoSecret, secret}
    /\ UNCHANGED <<pod, Data, server>>

Renew ==
    /\ refresh = "renews" /\ refresh' = "idle"
    /\ WriteSecret \/ UNCHANGED secret
    /\ UNCHANGED <<pod, Data, server>>

\* Ten minutes after its creation, which is more than any of the above takes;
\* half of the lifetime of its credentials.
Time ==
    /\ secret.there
    /\ \/ ~secret.old /\ server = "idle" /\ refresh = "idle" /\ secret' = [secret EXCEPT !.old = TRUE]
       \/ ~secret.due /\ secret' = [secret EXCEPT !.due = TRUE]
    /\ UNCHANGED <<pod, Data, server, refresh>>

Next ==
    \/ Inspect \/ Mint \/ Post \/ Conflict \/ DeleteSecret
    \/ \E again \in BOOLEAN : Destroy(again)
    \/ Mounted \/ Fetched \/ Broken \/ Nothing \/ Push \/ FinalPush \/ Evicted
    \/ \E f \in Files : Edit(f)
    \/ ListPods \/ ListSecrets \/ DeleteOrphan \/ Renew \/ Time

Spec == Init /\ [][Next]_podVars

-----------------------------------------------------------------------------
(* Correctness.                                                             *)

PushesWhole == oss' # oss => whole # "half"

\* workbackend.py:785-788: a copy that came down in part is never pushed, so
\* that a broken restore cannot damage the master copy.
NoHalfPush == [][PushesWhole]_podVars

\* The same lines, of the listing: whatever fails, no push takes from the
\* master copy what the user has not deleted.
MasterKept == [][oss \subseteq oss']_podVars

\* workbackend.py:1570-1571: ten minutes are left between the Secret and its
\* Pod, so the Secret of a Pod that is coming up is there.
SecretAwaitsPod == pod = "pending" => secret.there
=============================================================================
