------------------------------- MODULE Intake -------------------------------
(***************************************************************************)
(* What stands before the handlers of the server: the limit on downloads of *)
(* installers (release_throttle.py), the limit on request bodies            *)
(* (http_limits.py) and the forwarding of some pages' calls to a backend    *)
(* of ours (upstream.py).                                                   *)
(*                                                                         *)
(* A download holds a slot until its last byte is sent.  A slot that is     *)
(* STALE_AFTER old counts as leaked, which is the only age that matters: a  *)
(* list of times, oldest first, is so many that are stale and then so many  *)
(* that are fresh.                                                          *)
(* A body is a number of chunks.                                            *)
(***************************************************************************)
EXTENDS Integers, FiniteSets

CONSTANTS
    Transfers,      \* downloads
    Clients,        \* addresses they come from
    MAX_CONCURRENT, \* downloads at a time, ...
    PER_IP,         \* ... and from one address
    Requests,       \* calls with a body
    Small, Large    \* chunks a small call, and a gateway call, may have

VARIABLES
    active,    \* _active: of each address, its slots that are fresh and stale
    transfer,  \* of each download: its step, its address and whether it is old
    slow,      \* history: a download went on for longer than STALE_AFTER
    request,   \* of each call: its kind, its step, the chunks read, is the caller known
    open       \* calls that hold a connection to the backend

intakeVars == <<active, transfer, slow, request, open>>
downloads  == <<active, transfer, slow>>
bodies     == <<request, open>>

Kinds == {"api", "gateway", "forwarded"}
NoTransfer == [step |-> "none"]
NoRequest  == [step |-> "none"]

TypeOK ==
    /\ active \in [Clients -> [fresh : Nat, stale : Nat]]
    /\ \A a \in Clients : active[a].fresh + active[a].stale <= Cardinality(Transfers)
    /\ transfer \in [Transfers -> {NoTransfer} \union
           [step : {"sending", "sent"}, ip : Clients, old : BOOLEAN]]
    /\ slow \in BOOLEAN
    /\ request \in [Requests -> {NoRequest} \union
           [step : {"read", "handle", "forward", "pipe"}, kind : Kinds,
            seen : 0..Large, known : BOOLEAN]]
    /\ open \subseteq Requests

Init ==
    /\ active = [a \in Clients |-> [fresh |-> 0, stale |-> 0]]
    /\ transfer = [t \in Transfers |-> NoTransfer]
    /\ slow = FALSE
    /\ request = [r \in Requests |-> NoRequest]
    /\ open = {}

-----------------------------------------------------------------------------
(* Downloads: ReleaseThrottle.                                              *)

\* _prune: the slots that are stale are dropped, the others counted.
Fresh == [a \in Clients |-> [fresh |-> active[a].fresh, stale |-> 0]]
Slots == {s \in Clients \X (1..Cardinality(Transfers)) : s[2] <= active[s[1]].fresh}

Refused(ip) == Cardinality(Slots) >= MAX_CONCURRENT \/ active[ip].fresh >= PER_IP

Arrive(t, ip) ==
    /\ transfer[t] = NoTransfer
    /\ IF Refused(ip) THEN active' = Fresh /\ UNCHANGED transfer
       ELSE /\ active' = [Fresh EXCEPT ![ip].fresh = @ + 1]
            /\ transfer' = [transfer EXCEPT ![t] = [step |-> "sending", ip |-> ip, old |-> FALSE]]
    /\ UNCHANGED <<slow, bodies>>

\* _release gives the youngest slot of the address back.
Release(ip) ==
    active' = CASE active[ip].fresh > 0 -> [active EXCEPT ![ip].fresh = @ - 1]
                [] active[ip].fresh = 0 /\ active[ip].stale > 0 -> [active EXCEPT ![ip].stale = @ - 1]
                [] OTHER -> active

LastBytes(t) ==
    /\ transfer[t].step = "sending"
    /\ Release(transfer[t].ip)
    /\ transfer' = [transfer EXCEPT ![t].step = "sent"]
    /\ UNCHANGED <<slow, bodies>>

\* Mutant of Leave: the slot is given back once more.
LeaveTwice(t) ==
    /\ transfer[t].step \in {"sending", "sent"}
    /\ Release(transfer[t].ip)
    /\ transfer' = [transfer EXCEPT ![t] = NoTransfer]
    /\ UNCHANGED <<slow, bodies>>

\* The application returns, or the client is gone before the last bytes.
Leave(t) ==
    /\ transfer[t].step \in {"sending", "sent"}
    /\ IF transfer[t].step = "sending" THEN Release(transfer[t].ip) ELSE UNCHANGED active
    /\ transfer' = [transfer EXCEPT ![t] = NoTransfer]
    /\ UNCHANGED <<slow, bodies>>

\* Half an hour goes by.
Age ==
    /\ \E t \in Transfers : transfer[t].step = "sending" /\ ~transfer[t].old
    /\ active' = [a \in Clients |-> [fresh |-> 0, stale |-> active[a].fresh + active[a].stale]]
    /\ transfer' = [t \in Transfers |-> IF transfer[t].step = "sending"
                                        THEN [transfer[t] EXCEPT !.old = TRUE] ELSE transfer[t]]
    /\ slow' = TRUE
    /\ UNCHANGED bodies

-----------------------------------------------------------------------------
(* Bodies: RequestBodyLimit.                                                *)

End(r) == request' = [request EXCEPT ![r] = NoRequest]

\* Mutant of ReadAfterAuth: a route is given the limit alone.
ReadNow(kind) == FALSE

\* The routes whose bodies are read by the handler, when it knows the caller.
ReadAfterAuth(kind) == kind = "gateway"

Limit(kind) == IF kind = "gateway" THEN Large ELSE Small

\* A length that is declared too great is refused unread.
Ask(r, kind) ==
    /\ request[r] = NoRequest
    /\ request' = [request EXCEPT ![r] =
           [step |-> IF ReadAfterAuth(kind) THEN "handle" ELSE "read",
            kind |-> kind, seen |-> 0, known |-> FALSE]]
    /\ UNCHANGED <<downloads, open>>

Chunk(r) ==
    /\ request[r].step = "read"
    /\ IF request[r].seen + 1 > Limit(request[r].kind) THEN End(r)
       ELSE request' = [request EXCEPT ![r].seen = @ + 1]
    /\ UNCHANGED <<downloads, open>>

\* The whole body is there, and is replayed to the handler.
Whole(r) ==
    /\ request[r].step = "read" /\ request[r].seen > 0
    /\ request' = [request EXCEPT ![r].step = "handle"]
    /\ UNCHANGED <<downloads, open>>

\* The body takes too long, or the client goes.
GiveUp(r) ==
    /\ request[r].step = "read"
    /\ End(r)
    /\ UNCHANGED <<downloads, open>>

\* The handler learns who calls; one that reads the body itself does so now.
Authenticate(r) ==
    /\ request[r].step = "handle" /\ ~request[r].known
    /\ \/ End(r)
       \/ request' = [request EXCEPT ![r].known = TRUE,
              ![r].step = IF ReadAfterAuth(request[r].kind) THEN "read"
                          ELSE IF request[r].kind = "forwarded" THEN "forward" ELSE "handle"]
    /\ UNCHANGED <<downloads, open>>

Answer(r) ==
    /\ request[r].step = "handle" /\ request[r].known
    /\ End(r)
    /\ UNCHANGED <<downloads, open>>

-----------------------------------------------------------------------------
(* Forwarding: Upstream.forward.                                            *)

\* Mutant of Connect: the connection of a call that fails is not closed.
ConnectLeaks(r, ok) ==
    /\ request[r].step = "forward" /\ r \notin open
    /\ open' = open \union {r}
    /\ IF ok THEN UNCHANGED request ELSE End(r)
    /\ UNCHANGED downloads

\* Only paths of the list are forwarded; the rest has no answer.
Connect(r, ok) ==
    /\ request[r].step = "forward" /\ r \notin open
    /\ IF ok THEN open' = open \union {r} /\ UNCHANGED request
       ELSE UNCHANGED open /\ End(r)
    /\ UNCHANGED downloads

\* A stream is passed on as it comes; anything else is read to its end.
Forwarded(r, stream) ==
    /\ request[r].step = "forward" /\ r \in open
    /\ IF stream THEN request' = [request EXCEPT ![r].step = "pipe"] /\ UNCHANGED open
       ELSE End(r) /\ open' = open \ {r}
    /\ UNCHANGED downloads

PipeEnds(r) ==
    /\ request[r].step = "pipe"
    /\ End(r) /\ open' = open \ {r}
    /\ UNCHANGED downloads

Next ==
    \/ \E t \in Transfers : LastBytes(t) \/ Leave(t) \/ \E ip \in Clients : Arrive(t, ip)
    \/ Age
    \/ \E r \in Requests :
          \/ Chunk(r) \/ Whole(r) \/ GiveUp(r) \/ Authenticate(r) \/ Answer(r) \/ PipeEnds(r)
          \/ \E kind \in Kinds : Ask(r, kind)
          \/ \E ok \in BOOLEAN : Connect(r, ok) \/ Forwarded(r, ok)

Spec == Init /\ [][Next]_intakeVars

-----------------------------------------------------------------------------
(* Correctness.                                                             *)

Sending == {t \in Transfers : transfer[t].step = "sending"}
From(ip) == {t \in Sending : transfer[t].ip = ip}

\* However downloads end, by their last byte or by a client that is gone, no
\* more run at a time than the limits allow, as long as each takes less than
\* half an hour (release_throttle.py).
WithinLimits ==
    slow \/ (Cardinality(Sending) <= MAX_CONCURRENT
             /\ \A ip \in Clients : Cardinality(From(ip)) <= PER_IP)

\* The body of a caller that is not known yet stays small, and the backend's
\* connections belong to calls that are going on (http_limits.py, upstream.py).
StrangersStaySmall ==
    /\ \A r \in Requests : request[r] # NoRequest /\ ~request[r].known => request[r].seen <= Small
    /\ \A r \in open : request[r].step \in {"forward", "pipe"}

\* release_throttle.py:10: at most MAX_CONCURRENT transfers at a time.
AlwaysWithinLimits ==
    Cardinality(Sending) <= MAX_CONCURRENT /\ \A ip \in Clients : Cardinality(From(ip)) <= PER_IP
=============================================================================
