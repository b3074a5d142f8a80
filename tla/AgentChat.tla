----------------------------- MODULE AgentChat -----------------------------
(***************************************************************************)
(* The chat of a workspace that runs a command-line agent                    *)
(* (deploy/workspace-agentui/app: main.py, sessions.py, adapters.py).  A tab *)
(* holds a socket on a conversation; a message starts the agent, whose lines *)
(* an adapter turns into events for the tab and into the answer that is kept *)
(* on the user's disk.  The tab may be closed or reloaded at any time.       *)
(*                                                                         *)
(* The handlers of the sockets share one event loop; deleting a conversation *)
(* runs in a thread of its own, so a file that is read and written again may *)
(* be written by the other in between.                                      *)
(***************************************************************************)
EXTENDS Integers

CONSTANTS
    Tabs, Chats,
    MaxTurns        \* bound on the messages sent

VARIABLES
    listed,     \* sessions.json: the agent's own session of each conversation
    tab,        \* of each tab: the conversation, is it connected, its turn
    turn,       \* of each turn
    kept,       \* the turns whose answer is in msg-<sid>.json
    lost,       \* history: answers that fell to a file of messages that could not be
                \* read or written, was full, or was deleted
    queue,      \* a "stop" the tab has sent and the handler has not read
    copy,       \* what the handler and the deleting thread have read
    turns

chatVars == <<listed, tab, turn, kept, lost, queue, copy, turns>>

Turns == 1..MaxTurns
Lists == [Chats -> {"absent", "new", "bound"}]
NoTab == [chat |-> "none", on |-> FALSE, serves |-> 0]
Nope  == [chat |-> "none", rows |-> [c \in Chats |-> "absent"], written |-> FALSE]

TypeOK ==
    /\ listed \in Lists
    /\ tab \in [Tabs -> [chat : Chats \union {"none"}, on : BOOLEAN, serves : 0..MaxTurns]]
    /\ turn \in [Turns -> [step : {"none", "starts", "runs", "binds", "broken", "ended", "failed"},
                           said : BOOLEAN, chat : Chats \union {"none"}]]
    /\ kept \subseteq Turns /\ lost \subseteq Turns /\ queue \subseteq Tabs /\ turns \in 0..MaxTurns
    /\ \A who \in Turns \union {0} : copy[who].rows \in Lists

Init ==
    /\ listed = [c \in Chats |-> "absent"] /\ tab = [b \in Tabs |-> NoTab]
    /\ turn = [t \in Turns |-> [step |-> "none", said |-> FALSE, chat |-> "none"]]
    /\ kept = {} /\ lost = {} /\ queue = {} /\ turns = 0
    /\ copy = [who \in Turns \union {0} |-> Nope]

To(t, step) == turn' = [turn EXCEPT ![t].step = step]
Serves(b)   == tab[b].serves # 0

\* sessions.json is read whole and replaced whole.
Read        == listed
Write(rows) == listed' = rows

\* So are the messages of a conversation.  A file that cannot be read is taken for
\* an empty one and written over; of a long one the oldest rows go.
Older(c) == {t \in kept : turn[t].chat = c}
Loses(gone) == kept' = kept \ gone /\ lost' = lost \union gone

\* append, of a question.
AppendQuestion(c) == UNCHANGED <<kept, lost>> \/ Loses(Older(c))

\* append, of an answer; a file that cannot be written raises.
Append(t) ==
    \/ \E gone \in {{}, Older(turn[t].chat)} :
          kept' = (kept \ gone) \union {t} /\ lost' = lost \union gone
    \/ UNCHANGED kept /\ lost' = lost \union {t}

\* The event loop runs nothing else while a handler writes the list.
LoopFree    == \A t \in Turns : turn[t].step # "binds"

-----------------------------------------------------------------------------
(* Conversations.                                                           *)

\* create, in a handler of the event loop.
Create(c) ==
    /\ LoopFree /\ listed[c] = "absent" /\ \A b \in Tabs : tab[b].chat # c
    /\ Write([Read EXCEPT ![c] = "new"])
    /\ UNCHANGED <<tab, turn, kept, lost, queue, copy, turns>>

\* delete, in a thread: the list is read, and written without it; then the file
\* of its messages goes.
DeleteReads(c) ==
    /\ copy[0] = Nope /\ listed[c] # "absent"
    /\ copy' = [copy EXCEPT ![0] = [chat |-> c, rows |-> Read, written |-> FALSE]]
    /\ UNCHANGED <<listed, tab, turn, kept, lost, queue, turns>>

DeleteWrites ==
    /\ copy[0] # Nope /\ ~copy[0].written
    /\ Write([copy[0].rows EXCEPT ![copy[0].chat] = "absent"])
    /\ copy' = [copy EXCEPT ![0].written = TRUE]
    /\ UNCHANGED <<tab, turn, kept, lost, queue, turns>>

DeleteUnlinks ==
    /\ copy[0] # Nope /\ copy[0].written
    /\ Loses(Older(copy[0].chat))
    /\ copy' = [copy EXCEPT ![0] = Nope]
    /\ UNCHANGED <<listed, tab, turn, queue, turns>>

-----------------------------------------------------------------------------
(* The socket.                                                              *)

\* ws_chat: a conversation that is not there is refused.
Connect(b, c) ==
    /\ LoopFree /\ ~tab[b].on /\ ~Serves(b) /\ listed[c] # "absent"
    /\ tab' = [tab EXCEPT ![b] = [chat |-> c, on |-> TRUE, serves |-> 0]]
    /\ queue' = queue \ {b}
    /\ UNCHANGED <<listed, turn, kept, lost, copy, turns>>

\* Closed or reloaded.  A handler that is in a turn does not notice.
Close(b) ==
    /\ tab[b].on
    /\ tab' = [tab EXCEPT ![b].on = FALSE]
    /\ UNCHANGED <<listed, turn, kept, lost, queue, copy, turns>>

\* A message: the question is appended, the agent started with the session it
\* has.
Send(b) ==
    /\ LoopFree /\ tab[b].on /\ ~Serves(b) /\ turns < MaxTurns
    /\ turns' = turns + 1
    /\ turn' = [turn EXCEPT ![turns + 1] = [step |-> "starts", said |-> FALSE, chat |-> tab[b].chat]]
    /\ tab' = [tab EXCEPT ![b].serves = turns + 1]
    /\ AppendQuestion(tab[b].chat)
    /\ UNCHANGED <<listed, queue, copy>>

\* The echo to a tab that has gone, or an agent that does not start, ends the
\* turn; the error is sent to the tab.
Started(b) ==
    /\ LoopFree /\ Serves(b) /\ turn[tab[b].serves].step = "starts"
    /\ \/ tab[b].on /\ To(tab[b].serves, "runs") /\ UNCHANGED tab
       \/ To(tab[b].serves, "failed") /\ tab' = [tab EXCEPT ![b].serves = 0]
    /\ UNCHANGED <<listed, kept, lost, queue, copy, turns>>

\* A line of the agent's: its session, which goes into the list, or a piece of
\* the answer.
Binds(b) ==
    LET t == tab[b].serves IN
    /\ LoopFree /\ Serves(b) /\ turn[t].step = "runs" /\ ~turn[t].said
    /\ copy' = [copy EXCEPT ![t] = [chat |-> tab[b].chat, rows |-> Read, written |-> FALSE]]
    /\ To(t, "binds")
    /\ UNCHANGED <<listed, tab, kept, lost, queue, turns>>

BindsWrites(b) ==
    LET t == tab[b].serves IN
    /\ Serves(b) /\ turn[t].step = "binds"
    /\ IF copy[t].rows[tab[b].chat] = "absent" THEN UNCHANGED listed
       ELSE Write([copy[t].rows EXCEPT ![tab[b].chat] = "bound"])
    /\ copy' = [copy EXCEPT ![t] = Nope] /\ To(t, "runs")
    /\ UNCHANGED <<tab, kept, lost, queue, turns>>

\* Mutant of Says: the reading of the agent's lines ends with the tab.
SaysToTheTab(b) ==
    LET t == tab[b].serves IN
    /\ LoopFree /\ Serves(b) /\ turn[t].step = "runs"
    /\ turn' = [turn EXCEPT ![t].said = TRUE,
                            ![t].step = IF tab[b].on THEN "runs" ELSE "failed"]
    /\ tab' = IF tab[b].on THEN tab ELSE [tab EXCEPT ![b].serves = 0]
    /\ UNCHANGED <<listed, kept, lost, queue, copy, turns>>

\* push: a tab that has gone makes no difference to the reading.
Says(b) ==
    LET t == tab[b].serves IN
    /\ LoopFree /\ Serves(b) /\ turn[t].step = "runs"
    /\ turn' = [turn EXCEPT ![t].said = TRUE]
    /\ UNCHANGED <<listed, tab, kept, lost, queue, copy, turns>>

\* A line the adapter breaks on: nothing is read any more, and the handler waits
\* for the agent.
Breaks(b) ==
    /\ LoopFree /\ Serves(b) /\ turn[tab[b].serves].step = "runs" /\ To(tab[b].serves, "broken")
    /\ UNCHANGED <<listed, tab, kept, lost, queue, copy, turns>>

\* The agent ends: what was collected is appended, in any case.
Ends(b) ==
    LET t == tab[b].serves IN
    /\ LoopFree /\ Serves(b) /\ turn[t].step \in {"runs", "broken"}
    /\ IF turn[t].said THEN Append(t) ELSE UNCHANGED <<kept, lost>>
    /\ To(t, IF turn[t].step = "runs" /\ t \notin lost' THEN "ended" ELSE "failed")
    /\ tab' = [tab EXCEPT ![b].serves = 0]
    /\ UNCHANGED <<listed, queue, copy, turns>>

\* "stop": read when the turn is over, when there is nothing to stop.
Stop(b) ==
    /\ tab[b].on /\ Serves(b) /\ b \notin queue
    /\ queue' = queue \union {b}
    /\ UNCHANGED <<listed, tab, turn, kept, lost, copy, turns>>

ReadStop(b) ==
    /\ LoopFree /\ b \in queue /\ ~Serves(b)
    /\ queue' = queue \ {b}
    /\ UNCHANGED <<listed, tab, turn, kept, lost, copy, turns>>

Next ==
    \/ \E c \in Chats : Create(c) \/ DeleteReads(c)
    \/ DeleteWrites \/ DeleteUnlinks
    \/ \E b \in Tabs : \/ \E c \in Chats : Connect(b, c)
                       \/ Close(b) \/ Send(b) \/ Started(b) \/ Binds(b) \/ BindsWrites(b) \/ Says(b)
                       \/ Breaks(b) \/ Ends(b) \/ Stop(b) \/ ReadStop(b)

Spec == Init /\ [][Next]_chatVars

-----------------------------------------------------------------------------
(* Correctness.                                                             *)

\* main.py:264-278, 299-307: whatever an agent has answered is in the messages of
\* its conversation once its turn is over, whether the tab was there or not and
\* however the turn ended - until the file of the messages fails or goes.
AnswersAreKept ==
    \A t \in Turns : turn[t].step \in {"ended", "failed"} /\ turn[t].said => t \in kept \union lost

\* sessions.py:6-8: an answer goes only with its conversation.
AnswersStay ==
    [][\A t \in kept : t \in kept' \/ listed[turn[t].chat] = "absent"]_chatVars

\* main.py:332-333: a turn that is asked to stop says no more.
StopIsHeard ==
    [][\A b \in Tabs : b \in queue /\ Serves(b) /\ ~turn[tab[b].serves].said
                      => ~turn'[tab[b].serves].said]_chatVars

\* sessions.py:78-84: a conversation somebody deleted does not come back.
DeletedStaysDeleted ==
    [][\A c \in Chats : listed[c] = "absent" => listed'[c] # "bound"]_chatVars
=============================================================================
