------------------------------ MODULE TeamRoom ------------------------------
(***************************************************************************)
(* A room of the agents' team (deploy/workspace-agents-team/app: main.py,   *)
(* agent.py and the roster of rooms.py).  A message of the user starts a    *)
(* turn; in a relay the members work one after the other, each on what the  *)
(* one before has delivered, and a turn that was stopped is continued by    *)
(* the next message.  One turn runs at a time: a lock says so, which a      *)
(* later message may break open when the turn seems to have died.           *)
(*                                                                         *)
(* A step reaches from one yield or await of the generator to the next: at  *)
(* each of them the browser may be gone.                                    *)
(***************************************************************************)
EXTENDS Integers, Sequences, FiniteSets

CONSTANTS
    Bots,
    Crew,       \* the members of a new room, in their order
    Rosters,    \* the lists that set_members is called with
    Turns       \* messages of the user

VARIABLES
    members,    \* Room.members
    resume,     \* Room.resume_at, counted from 1; 0 where the code has -1
    lock,       \* _turn_lock
    started,    \* _turn_started: is there a turn, and is it too old?
    turn,       \* of each message: how far its turn has come
    handed,     \* history: who had delivered when resume was written
    meddled     \* history: the roster was changed under a relay

roomVars == <<members, resume, lock, started, turn, handed, meddled>>

\* A tool leaves its summary in the list of what a member ran; that of a shell
\* command holds the command, which here has the name of the other tool in it.
HALT_TOOL == "wait_for_user"
Summary(tool) == CASE tool = HALT_TOOL -> "waits for an answer"
                   [] tool = "shell"   -> "ran wait_for_user"
                   [] OTHER            -> "worked"
ToolNames == {HALT_TOOL, "shell", "work"}

Unsent == [step |-> "unsent"]
Lost   == [step |-> "lost"]
Over   == [step |-> "over"]

\* The work of one member: has it said anything, and what did it run?
NewLeg == [said |-> FALSE, used |-> {}]
Legs   == [said : BOOLEAN, used : SUBSET {Summary(t) : t \in ToolNames}]
Ends == {"end", "capped", "error", "raised"}

TypeOK ==
    /\ members \in Seq(Bots) /\ resume \in 0..Cardinality(Bots)
    /\ lock \in BOOLEAN /\ started \in {"no", "fresh", "stale"}
    /\ \A t \in Turns : turn[t] \in {Unsent, Lost, Over} \/
          /\ turn[t].step \in {"works"} \union Ends
          /\ turn[t].list \in Seq(Bots) /\ turn[t].at \in 1..Len(turn[t].list)
          /\ turn[t].done \subseteq Bots /\ turn[t].asks \in 0..turn[t].at
          /\ turn[t].leg \in Legs
    /\ handed \subseteq Bots /\ meddled \in BOOLEAN

Init ==
    /\ members = Crew /\ resume = 0
    /\ lock = FALSE /\ started = "no"
    /\ turn = [t \in Turns |-> Unsent]
    /\ handed = {} /\ meddled = FALSE

Works(t)   == turn[t].step = "works"
Going(t)   == turn[t].step \in {"works"} \union Ends
Release    == lock' = FALSE /\ started' = "no"
Roster     == <<members, resume, handed, meddled>>

-----------------------------------------------------------------------------
(* send.                                                                    *)

Start == IF resume \in 1..Len(members) THEN resume ELSE 1

\* A turn in progress sends the message away, unless it is too old: then its
\* lock is released and taken.  A relay of nobody is over at once, as is the
\* place to continue from.
Send(t) ==
    /\ turn[t] = Unsent /\ UNCHANGED members
    /\ IF lock /\ started # "stale"
       THEN turn' = [turn EXCEPT ![t] = Over] /\ UNCHANGED <<lock, started, resume, handed, meddled>>
       ELSE IF members = <<>>
       THEN /\ turn' = [turn EXCEPT ![t] = Over] /\ Release
            /\ resume' = 0 /\ handed' = {} /\ UNCHANGED meddled
       ELSE /\ lock' = TRUE /\ started' = "fresh" /\ UNCHANGED <<resume, handed>>
            /\ turn' = [turn EXCEPT ![t] =
                  [step |-> "works", list |-> members, at |-> Start, asks |-> 0,
                   done |-> IF Start = 1 THEN {} ELSE handed, leg |-> NewLeg]]
            /\ meddled' = (meddled /\ (Start # 1 \/ \E u \in Turns : Going(u)))

\* The browser goes away.  That the generator is closed then is not certain.
Disconnect(t) ==
    /\ Going(t)
    /\ turn' = [turn EXCEPT ![t] = Lost]
    /\ UNCHANGED <<Roster, lock, started>>

\* When it is, its finally clause releases the lock, whosesoever it is.
Collect(t) ==
    /\ turn[t] = Lost
    /\ turn' = [turn EXCEPT ![t] = Over] /\ Release
    /\ UNCHANGED Roster

\* TURN_STALE_S, which is longer than any turn that lives.
GrowsOld ==
    /\ started = "fresh" /\ \A t \in Turns : ~Going(t)
    /\ started' = "stale"
    /\ UNCHANGED <<Roster, lock, turn>>

-----------------------------------------------------------------------------
(* agent.run_turn: the work of one member.                                  *)

\* One step of it: the stream is asked for again while nothing came of it; text
\* or none, then the tool it asks for.  The last of MAX_STEPS ends the work;
\* tools.dispatch lets no tool raise.
Tool(t, tool, said, last) ==
    /\ Works(t)
    /\ turn' = [turn EXCEPT
          ![t].leg  = [said |-> @.said \/ said, used |-> @.used \union {Summary(tool)}],
          ![t].step = IF last THEN "capped" ELSE "works"]
    /\ UNCHANGED <<Roster, lock, started>>

\* It asks for no tool: the member has said what it had to say.
Says(t, said) ==
    /\ Works(t)
    /\ turn' = [turn EXCEPT ![t].step = "end", ![t].leg.said = @ \/ said]
    /\ UNCHANGED <<Roster, lock, started>>

\* The stream fails after something was shown, or GATEWAY_TRIES times before,
\* which is an event and no exception; anything else is raised.
Fails(t, how) ==
    /\ Works(t)
    /\ turn' = [turn EXCEPT ![t].step = how]
    /\ UNCHANGED <<Roster, lock, started>>

-----------------------------------------------------------------------------
(* _run_relay: how a leg ended decides who is next.                         *)

Empty(leg) == ~leg.said /\ leg.used = {}

\* Mutant of Undone: only an exception stops the relay, an error event does not.
UndoneByException(t) == turn[t].step \in {"capped", "raised"} \/ Empty(turn[t].leg)

\* The leg was cut off, or brought nothing.
Undone(t) == turn[t].step \in {"capped", "error", "raised"} \/ Empty(turn[t].leg)

HaltSeen(leg) == "ran wait_for_user" \in leg.used   \* its name is in the summary

\* History: who has delivered, once the leg is over.
Delivered(t) ==
    turn[t].done \union (IF turn[t].step = "end" /\ ~Empty(turn[t].leg)
                         THEN {turn[t].list[turn[t].at]} ELSE {})

\* The turn is over, the next one begins with the member at place k.
Stop(t, k) ==
    /\ turn' = [turn EXCEPT ![t] = Over]
    /\ resume' = IF k <= Len(turn[t].list) THEN k ELSE 0
    /\ Release

\* The work was not done: it will be done again.
Broken(t) ==
    /\ turn[t].step \in Ends /\ Undone(t)
    /\ Stop(t, turn[t].at) /\ handed' = turn[t].done
    /\ UNCHANGED <<members, meddled>>

\* The work is done, but the user is to be heard first.
Halted(t) ==
    /\ turn[t].step \in Ends /\ ~Undone(t) /\ HaltSeen(turn[t].leg)
    /\ Stop(t, turn[t].at + 1) /\ handed' = Delivered(t)
    /\ UNCHANGED <<members, meddled>>

\* The work is done and the baton passed on.
Passed(t) ==
    /\ turn[t].step \in Ends /\ ~Undone(t) /\ ~HaltSeen(turn[t].leg)
    /\ LET i == turn[t].at IN
         IF i = Len(turn[t].list)
         THEN Stop(t, i + 1) /\ handed' = Delivered(t)
         ELSE /\ turn' = [turn EXCEPT ![t] =
                    [turn[t] EXCEPT !.step = "works", !.at = i + 1, !.done = Delivered(t), !.leg = NewLeg,
                              !.asks = IF Summary(HALT_TOOL) \in turn[t].leg.used THEN i ELSE @]]
              /\ UNCHANGED <<resume, handed, lock, started>>
    /\ UNCHANGED <<members, meddled>>

-----------------------------------------------------------------------------
(* The roster.                                                              *)

\* list.index and list.remove: the first of that name.
Place(b)   == CHOOSE i \in 1..Len(members) :
                 members[i] = b /\ \A j \in 1..(i - 1) : members[j] # b
Without(b) == [i \in 1..(Len(members) - 1) |->
                 IF i < Place(b) THEN members[i] ELSE members[i + 1]]
Meddle(ifResumed) ==
    meddled' = (meddled \/ ifResumed \/ \E t \in Turns : Going(t))

\* Mutant of RemoveMember: the place to continue from stays where it was.
RemoveMemberOnly(b) ==
    /\ \E i \in 1..Len(members) : members[i] = b
    /\ Len(members) > 1
    /\ members' = Without(b)
    /\ resume' = IF resume > Len(members) - 1 THEN 0 ELSE resume
    /\ Meddle(FALSE)
    /\ UNCHANGED <<lock, started, turn, handed>>

\* The place to continue from moves with the member it names.
RemoveMember(b) ==
    /\ \E i \in 1..Len(members) : members[i] = b
    /\ Len(members) > 1
    /\ members' = Without(b)
    /\ resume' = CASE resume > Place(b) -> resume - 1
                   [] resume = Place(b) /\ resume = Len(members) -> 0
                   [] OTHER -> resume
    /\ Meddle(FALSE)
    /\ UNCHANGED <<lock, started, turn, handed>>

\* set_members moves nothing.
SetMembers(list) ==
    /\ list # members /\ members' = list
    /\ Meddle(resume # 0)
    /\ UNCHANGED <<resume, lock, started, turn, handed>>

Next ==
    \/ \E t \in Turns : \/ Send(t) \/ Disconnect(t) \/ Collect(t)
                        \/ \E tool \in ToolNames, said, last \in BOOLEAN :
                              Tool(t, tool, said, last)
                        \/ \E said \in BOOLEAN : Says(t, said)
                        \/ \E how \in {"error", "raised"} : Fails(t, how)
                        \/ Broken(t) \/ Halted(t) \/ Passed(t)
    \/ \E b \in Bots : RemoveMember(b)
    \/ \E list \in Rosters : SetMembers(list)
    \/ GrowsOld

Spec == Init /\ [][Next]_roomVars

-----------------------------------------------------------------------------
(* Correctness.                                                             *)

\* rooms.py:82-84 and _run_relay: a member works only after all before it in the
\* list its turn goes by have delivered, in this turn or in those it continues,
\* whatever broke off in between.  Nothing is said of a roster that is changed
\* under a running relay, or replaced while a place to continue from is kept; and
\* a member may deliver twice, as a turn that was lost is begun again.
DeliveredInOrder ==
    \A t \in Turns : Going(t) /\ ~meddled =>
        \A i \in 1..(turn[t].at - 1) : turn[t].list[i] \in turn[t].done

\* main.py:208-210, tools.py:143-150: once a member has put a question to the
\* user, nobody behind it works before he has answered.
GateHolds == \A t \in Turns : Going(t) => turn[t].asks = 0
=============================================================================
