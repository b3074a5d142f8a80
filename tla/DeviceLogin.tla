---------------------------- MODULE DeviceLogin ----------------------------
(***************************************************************************)
(* The desktop's login over a device code (device_auth.py): the desktop     *)
(* starts a code, users approve or deny it in their browsers, and the       *)
(* desktop asks until it is given a token.  Routes run in threads.          *)
(***************************************************************************)
EXTENDS Integers, Sequences, FiniteSets

CONSTANTS
    Codes,
    Users,
    Browsers,   \* answers to a code that are on their way
    MaxEpoch    \* bounds what ends the sessions of a user

VARIABLES
    row,        \* device_codes: the status of each code, and whose it is
    epoch,      \* of each user, as in Access
    barred,     \* users who are suspended or deleted
    answer,     \* of each browser: what it is about to write
    approvals,  \* history: how often each user has approved each code
    devices     \* the rows in devices, by the code they come from and whose they
                \* are: with which epoch

deviceVars == <<row, epoch, barred, answer, approvals, devices>>

None == [status |-> "none"]
Row(status, u) == [status |-> status, user |-> u]
Quiet == [says |-> "nothing"]

TypeOK ==
    /\ row \in [Codes -> {None, Row("pending", "nobody")} \union
          [status : {"approved", "denied", "consumed"}, user : Users]]
    /\ epoch \in [Users -> 0..MaxEpoch] /\ barred \subseteq Users
    /\ answer \in [Browsers -> {Quiet} \union
          [says : {"approved", "denied"}, code : Codes, user : Users]]
    /\ approvals \in [Codes -> [Users -> Nat]]
    /\ devices \in [Codes -> [Users -> Seq(0..MaxEpoch)]]

Never  == [u \in Users |-> 0]
Nobody == [u \in Users |-> <<>>]

Init ==
    /\ row = [c \in Codes |-> None]
    /\ epoch = [u \in Users |-> 0] /\ barred = {}
    /\ answer = [b \in Browsers |-> Quiet]
    /\ approvals = [c \in Codes |-> Never] /\ devices = [c \in Codes |-> Nobody]
-----------------------------------------------------------------------------
\* start: a new row.  The device code itself is known to the desktop alone.
StartCode(c) ==
    /\ row[c] = None
    /\ row' = [row EXCEPT ![c] = Row("pending", "nobody")]
    /\ UNCHANGED <<epoch, barred, answer, approvals, devices>>

\* The row counts for ten minutes, and is swept by the next start.
Sweep(c) ==
    /\ row[c] # None
    /\ row' = [row EXCEPT ![c] = None]
    /\ approvals' = [approvals EXCEPT ![c] = Never]
    /\ devices' = [devices EXCEPT ![c] = Nobody]
    /\ UNCHANGED <<epoch, barred, answer>>

\* approve reads the row and writes it: one transaction, but nothing locks the
\* row in between, and the UPDATE does not ask for the status again.
ReadCode(b, c, u, says) ==
    /\ answer[b] = Quiet /\ u \notin barred
    /\ row[c].status = "pending"
    /\ answer' = [answer EXCEPT ![b] = [says |-> says, code |-> c, user |-> u]]
    /\ UNCHANGED <<row, epoch, barred, approvals, devices>>

WriteCode(b) ==
    /\ answer[b] # Quiet
    /\ LET c == answer[b].code IN
         IF row[c] = None THEN UNCHANGED <<row, approvals>>
         ELSE /\ row' = [row EXCEPT ![c] = Row(answer[b].says, answer[b].user)]
              /\ approvals' = [approvals EXCEPT ![c][answer[b].user] =
                                  IF answer[b].says = "approved" THEN @ + 1 ELSE @]
    /\ answer' = [answer EXCEPT ![b] = Quiet]
    /\ UNCHANGED <<epoch, barred, devices>>

Minted(c) == devices' = [devices EXCEPT ![c][row[c].user] = Append(@, epoch[row[c].user])]

\* Mutant of Poll: the status is read before the row is claimed.
PollUnclaimed(c) ==
    /\ row[c].status \in {"approved", "consumed"} /\ row[c].user \notin barred
    /\ row' = [row EXCEPT ![c].status = "consumed"]
    /\ Minted(c)
    /\ UNCHANGED <<epoch, barred, answer, approvals>>

\* poll: the conditional UPDATE is the claim and locks the row; the device is
\* inserted in the same transaction.  For a user who is barred it rolls back.
Poll(c) ==
    /\ row[c].status = "approved" /\ row[c].user \notin barred
    /\ row' = [row EXCEPT ![c].status = "consumed"]
    /\ Minted(c)
    /\ UNCHANGED <<epoch, barred, answer, approvals>>

\* The desktop hears of the denial, and the row goes.
PollDenied(c) == row[c].status = "denied" /\ Sweep(c)

\* change_password, set_status, delete_account: see Access.
EndSessions(u) ==
    /\ epoch[u] < MaxEpoch /\ epoch' = [epoch EXCEPT ![u] = @ + 1]
    /\ \/ UNCHANGED barred
       \/ barred' = barred \union {u}
       \/ barred' = barred \ {u}
    /\ UNCHANGED <<row, answer, approvals, devices>>

Next ==
    \/ \E c \in Codes : StartCode(c) \/ Sweep(c) \/ Poll(c) \/ PollDenied(c)
    \/ \E b \in Browsers, c \in Codes, u \in Users, says \in {"approved", "denied"} :
          ReadCode(b, c, u, says)
    \/ \E b \in Browsers : WriteCode(b)
    \/ \E u \in Users : EndSessions(u)

Spec == Init /\ [][Next]_deviceVars

-----------------------------------------------------------------------------
(* Correctness.                                                             *)

\* However many polls arrive, and whoever else answers meanwhile, a user has no
\* more devices from a code than the times he approved it himself (poll).
ADeviceForAnApproval ==
    \A c \in Codes, u \in Users : Len(devices[c][u]) <= approvals[c][u]

\* device_auth.py:184-186, a retry is answered with 409: once a device has its
\* token the code gives no second one.
OneDevicePerCode ==
    \A c \in Codes : \A u, w \in Users :
        /\ Len(devices[c][u]) <= 1
        /\ Len(devices[c][u]) + Len(devices[c][w]) > 1 => u = w
=============================================================================
