-------------------------------- MODULE Film --------------------------------
(***************************************************************************)
(* The tools with which the members of a room make a film (media.py,        *)
(* browser.py and filmdir.py of the agents' team).  A shot is ordered,      *)
(* waited for and downloaded in one call; an order costs credits, so what a *)
(* failing call tells the model decides whether it orders the shot again.   *)
(* The members of a parallel room (_run_room) work at the same time, in one *)
(* directory and with one browser page.                                    *)
(*                                                                         *)
(* The model behind a member is external: it may do anything, but what a    *)
(* tool forbids ("do not order again") it does not do, as long as it hears   *)
(* and remembers it.  A call whose turn has gone goes on, unheard.          *)
(***************************************************************************)
EXTENDS Integers, FiniteSets

CONSTANTS
    Hands,        \* the members that run in parallel
    Shots,        \* paths that clips are stored at
    UploadTries,  \* UPLOAD_TRIES
    PollGiveUp,   \* POLL_GIVEUP
    MaxPaid       \* bounds the orders of a shot

VARIABLES
    clip,       \* the file of each shot
    pic,        \* shots that have a picture to refer to
    film,       \* what the clips were joined to
    call,       \* of each member: the call it waits for
    bill,       \* of each member and shot: its last order at the upstream
    told,       \* of each member and shot: what the tool said last
    paid,       \* orders of each shot
    progress,   \* media._progress: whose stream the progress goes to
    page,       \* the members that have acted on the page the browser shows
    adrift,     \* of each member and shot: does a call go on that nobody hears?
    misled      \* history: of each member and shot: was its last order open when a
                \* tool hid it, or when what a tool had said was forgotten?

filmVars == <<clip, pic, film, call, bill, told, paid, progress, page, adrift, misled>>
orders   == <<bill, paid, adrift, misled>>
files    == <<clip, pic, film>>
Keys     == Hands \X Shots

NoOne == "no one"
Idle  == [step |-> "idle", shot |-> "no shot", tries |-> 0, fails |-> 0]
Steps == {"draw", "upload", "submit", "poll", "download", "write"}

TypeOK ==
    /\ clip \in [Shots -> {"none", "empty", "part", "whole"}]
    /\ pic \in SUBSET Shots /\ film \in {"none", "bad", "whole"}
    /\ call \in [Hands -> {Idle} \union
           [step : Steps, shot : Shots, tries : 0..UploadTries, fails : 0..PollGiveUp]]
    /\ bill \in [Keys -> {"none", "working", "made", "failed", "fetched"}]
    /\ told \in [Keys -> {"nothing", "free", "maybe", "wait", "there"}]
    /\ paid \in [Shots -> 0..MaxPaid]
    /\ progress \in Hands \union {NoOne} /\ page \subseteq Hands
    /\ adrift \subseteq Keys /\ misled \subseteq Keys

Init ==
    /\ clip = [s \in Shots |-> "none"] /\ pic = {} /\ film = "none"
    /\ call = [h \in Hands |-> Idle]
    /\ bill = [k \in Keys |-> "none"]
    /\ told = [k \in Keys |-> "nothing"]
    /\ paid = [s \in Shots |-> 0]
    /\ progress = NoOne /\ page = {} /\ adrift = {} /\ misled = {}

IsOpen(k) == bill[k] \in {"working", "made"}

-----------------------------------------------------------------------------
(* A call begins and ends: run_turn points the progress at its own stream   *)
(* before every call, and at nothing after it.                              *)

Begin(h, s, step) ==
    /\ call' = [call EXCEPT ![h] = [Idle EXCEPT !.step = step, !.shot = s]]
    /\ progress' = h

Key(h) == <<h, call[h].shot>>
Ended(h) == call' = [call EXCEPT ![h] = Idle] /\ progress' = NoOne

\* What the tool says is heard.
Finish(h, said) ==
    /\ Ended(h) /\ told' = [told EXCEPT ![Key(h)] = said]

\* It says nothing of an order that is open.
Misleads(h) == Finish(h, "free") /\ misled' = misled \union {Key(h)}

GoOn(h, step) ==
    /\ call' = [call EXCEPT ![h].step = step, ![h].fails = 0]
    /\ UNCHANGED <<told, progress>>

SetBill(h, state) == bill' = [bill EXCEPT ![Key(h)] = state]

-----------------------------------------------------------------------------
(* Pictures.                                                                *)

Draw(h, s) ==
    /\ call[h] = Idle
    /\ Begin(h, s, "draw")
    /\ UNCHANGED <<files, told, page, orders>>

\* The picture is written whole, or nothing is.
Drawn(h, ok) ==
    /\ call[h].step = "draw"
    /\ pic' = IF ok THEN pic \union {call[h].shot} ELSE pic
    /\ Ended(h)
    /\ UNCHANGED <<clip, film, told, page, orders>>

-----------------------------------------------------------------------------
(* A shot: generate_video.                                                  *)

\* There is a clip: nothing is ordered.
Skip(h, s) ==
    /\ call[h] = Idle /\ told[<<h, s>>] \notin {"maybe", "wait"}
    /\ clip[s] \in {"part", "whole"}
    /\ told' = [told EXCEPT ![<<h, s>>] = "there"]
    /\ progress' = NoOne
    /\ UNCHANGED <<files, call, page, orders>>

Shoot(h, s, step) ==
    /\ call[h] = Idle /\ told[<<h, s>>] \notin {"maybe", "wait"}
    /\ clip[s] \in {"none", "empty"} /\ paid[s] < MaxPaid
    /\ Begin(h, s, step)
    /\ UNCHANGED <<files, told, page, orders>>

\* An upload is tried again where the failure may pass.
Upload(h, answer) ==
    /\ call[h].step = "upload"
    /\ call[h].shot \in pic \/ answer = "no"
    /\ CASE answer = "ok" -> GoOn(h, "submit")
         [] answer = "transient" /\ call[h].tries + 1 < UploadTries ->
                /\ call' = [call EXCEPT ![h].tries = @ + 1]
                /\ UNCHANGED <<told, progress>>
         [] OTHER -> Finish(h, "free")
    /\ UNCHANGED <<files, page, orders>>

\* History: of the order before nobody speaks any more.
Straight(h) == misled' = misled \ {Key(h)}

\* The order is sent once.  An error of the proxy in front, or an answer that is
\* not JSON or has no number, may hide one that was taken ("hidden").
Submit(h, answer) ==
    /\ call[h].step = "submit"
    /\ answer # "refused" => paid[call[h].shot] < MaxPaid
    /\ paid' = IF answer \in {"accepted", "broken", "hidden"}
               THEN [paid EXCEPT ![call[h].shot] = @ + 1] ELSE paid
    /\ CASE answer = "refused"  -> Finish(h, "free") /\ UNCHANGED <<bill, misled>>
         [] answer = "hidden"   -> Misleads(h) /\ SetBill(h, "working")
         [] answer = "accepted" -> GoOn(h, "poll") /\ SetBill(h, "working") /\ Straight(h)
         [] answer = "broken"   -> Finish(h, "maybe") /\ SetBill(h, "working") /\ Straight(h)
         [] answer = "unsent"   -> Finish(h, "maybe") /\ UNCHANGED <<bill, misled>>
    /\ UNCHANGED <<files, page, adrift>>

\* The upstream makes the film, or fails and takes nothing.
Make(h, s, ok) ==
    /\ bill[<<h, s>>] = "working"
    /\ bill' = [bill EXCEPT ![<<h, s>>] = IF ok THEN "made" ELSE "failed"]
    /\ UNCHANGED <<files, call, told, paid, progress, page, misled, adrift>>

\* Mutant of PollFails: the caller hears of a failure.
GiveUpSaysFailed(h, last) ==
    /\ call[h].step = "poll"
    /\ IF ~last /\ call[h].fails + 1 < PollGiveUp
       THEN call' = [call EXCEPT ![h].fails = @ + 1] /\ UNCHANGED <<told, progress>>
       ELSE Finish(h, "free")
    /\ UNCHANGED <<files, page, orders>>

\* Many failures in a row, one that is final, or the time being up end the
\* call, which says that the order is paid and must not be sent again.
PollFails(h, last) ==
    /\ call[h].step = "poll"
    /\ IF ~last /\ call[h].fails + 1 < PollGiveUp
       THEN call' = [call EXCEPT ![h].fails = @ + 1] /\ UNCHANGED <<told, progress>>
       ELSE Finish(h, "wait")
    /\ UNCHANGED <<files, page, orders>>

PollAnswers(h) ==
    /\ call[h].step = "poll"
    /\ CASE bill[Key(h)] = "made"   -> GoOn(h, "download")
         [] bill[Key(h)] = "failed" -> Finish(h, "free")
         [] OTHER                   -> GoOn(h, "poll")
    /\ UNCHANGED <<files, page, orders>>

\* An answer that is no error and not JSON raises, out of the tool: dispatch
\* makes the exception's text what the tool says.
PollGarbled(h) ==
    /\ call[h].step = "poll"
    /\ IF IsOpen(Key(h)) THEN Misleads(h) ELSE Finish(h, "free") /\ UNCHANGED misled
    /\ UNCHANGED <<files, bill, paid, page, adrift>>

\* The file is opened, and emptied, when the download begins.  A download that
\* fails is all the tool speaks of; the film is still there to be fetched.
Download(h, ok) ==
    /\ call[h].step = "download"
    /\ IF ok THEN /\ clip' = [clip EXCEPT ![call[h].shot] = "empty"]
                  /\ GoOn(h, "write") /\ UNCHANGED misled
       ELSE Misleads(h) /\ UNCHANGED clip
    /\ UNCHANGED <<pic, film, bill, paid, page, adrift>>

\* A download that breaks off leaves what has come.
WriteClip(h, what) ==
    /\ call[h].step = "write"
    /\ CASE what = "more"   -> /\ clip' = [clip EXCEPT ![call[h].shot] = "part"]
                               /\ GoOn(h, "write") /\ UNCHANGED <<bill, misled>>
         [] what = "end"    -> /\ clip' = [clip EXCEPT ![call[h].shot] = "whole"]
                               /\ Finish(h, "there") /\ SetBill(h, "fetched")
                               /\ UNCHANGED misled
         [] what = "breaks" -> Misleads(h) /\ UNCHANGED <<clip, bill>>
    /\ UNCHANGED <<pic, film, paid, page, adrift>>

-----------------------------------------------------------------------------
(* What a member does by itself, with the shell.                            *)

\* It looks for the order it may have placed, ...
Look(h, s) ==
    /\ call[h] = Idle /\ told[<<h, s>>] = "maybe"
    /\ told' = [told EXCEPT ![<<h, s>>] = IF IsOpen(<<h, s>>) THEN "wait" ELSE "free"]
    /\ misled' = misled \ {<<h, s>>}
    /\ UNCHANGED <<files, call, bill, paid, progress, page, adrift>>

\* ... fetches the film of one it has been told of, ...
Fetch(h, s) ==
    /\ call[h] = Idle /\ told[<<h, s>>] = "wait"
    /\ bill[<<h, s>>] \in {"made", "failed"}
    /\ IF bill[<<h, s>>] = "made"
       THEN /\ clip' = [clip EXCEPT ![s] = "whole"]
            /\ bill' = [bill EXCEPT ![<<h, s>>] = "fetched"]
            /\ told' = [told EXCEPT ![<<h, s>>] = "there"]
       ELSE told' = [told EXCEPT ![<<h, s>>] = "free"] /\ UNCHANGED <<clip, bill>>
    /\ UNCHANGED <<pic, film, call, paid, progress, page, misled, adrift>>

\* ... and removes a clip that is to be made again.
Remove(h, s) ==
    /\ call[h] = Idle /\ told[<<h, s>>] = "there" /\ clip[s] # "none"
    /\ clip' = [clip EXCEPT ![s] = "none"]
    /\ told' = [told EXCEPT ![<<h, s>>] = "nothing"]
    /\ UNCHANGED <<pic, film, call, progress, page, orders>>

\* concat_videos joins what files there are; ffmpeg may choke on a bad one.
Concat(h, ok) ==
    /\ call[h] = Idle /\ \A s \in Shots : clip[s] # "none"
    /\ LET good == \A s \in Shots : clip[s] = "whole"
       IN  film' = CASE good -> "whole" [] ~good /\ ok -> "bad" [] OTHER -> film
    /\ progress' = NoOne
    /\ UNCHANGED <<clip, pic, call, told, page, orders>>

\* The browser has one page; a lock makes each single action whole.
OpenPage(h) ==
    /\ call[h] = Idle
    /\ page' = {h} /\ progress' = NoOne
    /\ UNCHANGED <<files, call, told, orders>>

Click(h) ==
    /\ call[h] = Idle /\ page # {}
    /\ page' = page \union {h} /\ progress' = NoOne
    /\ UNCHANGED <<files, call, told, orders>>

\* A room keeps what its members said, not what a tool told them: with the turn
\* the tool's word is gone.
Forgets(hands) ==
    LET gone == hands \X Shots
    IN  /\ told' = [k \in Keys |-> IF k \in gone THEN "nothing" ELSE told[k]]
        /\ misled' = misled \union {k \in gone : bill'[k] \in {"working", "made"}}

TurnEnds(h) ==
    /\ call[h] = Idle
    /\ UNCHANGED <<files, call, bill, paid, progress, page, adrift>>
    /\ Forgets({h})

\* The stream is cut off, and with it the turn.  The call it waited for is a task
\* of its own and goes on; an order that was about to be sent is sent.
Unheard(h) ==
    /\ call[h] # Idle
    /\ call' = [call EXCEPT ![h] = Idle]
    /\ \/ call[h].step \in {"draw", "upload", "submit"} /\ UNCHANGED <<bill, paid, adrift>>
       \/ /\ call[h].step = "submit" /\ paid[call[h].shot] < MaxPaid
          /\ paid' = [paid EXCEPT ![call[h].shot] = @ + 1]
          /\ SetBill(h, "working") /\ adrift' = adrift \union {Key(h)}
       \/ /\ call[h].step \in {"poll", "download", "write"}
          /\ adrift' = adrift \union {Key(h)} /\ UNCHANGED <<bill, paid>>
    /\ UNCHANGED <<files, progress, page>>
    /\ Forgets({h})

\* What such a call does: it fetches its film, or gives up.
GoesOn(k, got) ==
    /\ k \in adrift /\ (got # "none" => k \notin misled \/ bill[k] = "made")
    /\ adrift' = IF got \in {"none", "whole"} THEN adrift \ {k} ELSE adrift
    /\ clip' = IF got = "none" THEN clip ELSE [clip EXCEPT ![k[2]] = got]
    /\ bill' = IF got = "whole" /\ k \in misled THEN [bill EXCEPT ![k] = "fetched"] ELSE bill
    /\ UNCHANGED <<pic, film, call, told, paid, progress, page, misled>>

\* The container is replaced: calls are cut off, and what was told is forgotten.
Restart ==
    /\ call' = [h \in Hands |-> Idle] /\ progress' = NoOne /\ page' = {}
    /\ adrift' = {} /\ UNCHANGED <<files, bill, paid>>
    /\ Forgets(Hands)

Next ==
    \/ \E h \in Hands, s \in Shots :
          \/ Draw(h, s) \/ Skip(h, s) \/ Look(h, s) \/ Fetch(h, s) \/ Remove(h, s)
          \/ \E step \in {"upload", "submit"} : Shoot(h, s, step)
          \/ \E ok \in BOOLEAN : Make(h, s, ok)
    \/ \E h \in Hands, ok \in BOOLEAN :
          Drawn(h, ok) \/ PollFails(h, ok) \/ Download(h, ok) \/ Concat(h, ok)
    \/ \E h \in Hands :
          \/ PollAnswers(h) \/ OpenPage(h) \/ Click(h)
          \/ \E answer \in {"ok", "transient", "no"} : Upload(h, answer)
          \/ \E answer \in {"refused", "hidden", "accepted", "broken", "unsent"} : Submit(h, answer)
          \/ \E what \in {"more", "end", "breaks"} : WriteClip(h, what)
    \/ \E h \in Hands : TurnEnds(h) \/ Unheard(h) \/ PollGarbled(h)
    \/ \E k \in Keys, got \in {"none", "empty", "part", "whole"} : GoesOn(k, got)
    \/ Restart

Spec == Init /\ [][Next]_filmVars

-----------------------------------------------------------------------------
(* Correctness.                                                             *)

OrdersAnew ==
    \A h \in Hands :
       (/\ call[h].step = "submit" /\ call'[h] # call[h]
        /\ paid' # paid) => ~IsOpen(Key(h)) \/ Key(h) \in misled

\* A member that has been told of its order, and still remembers it, does not
\* order the shot again while the film is being made or waits to be fetched: a
\* broken connection, a timeout, an answer that says error and giving up all
\* keep it from that (media.py, generate_video and _paid_but_unpolled).  Not so
\* where a tool hides the order or its turn ends: see NeverPaidTwice.
OrderedOnce == [][OrdersAnew]_filmVars

\* media.py:223-225: no way to end a call makes the model order again what is
\* being made.  An error of the proxy, an answer that is not JSON, a download
\* that fails, a turn that ends and a restart do.
NeverPaidTwice ==
    [][\A h \in Hands : call[h].step = "submit" /\ paid' # paid => ~IsOpen(Key(h))]_filmVars

\* media.py:161: what is skipped is a whole clip.
DoneIsWhole ==
    \A k \in Keys :
        told[k] = "there" /\ (\A h \in Hands : call[h] = Idle) => clip[k[2]] \in {"none", "whole"}

\* media.py:170: the same shot is not made twice.
ShotPaidOnce ==
    [][\A s \in Shots : paid'[s] # paid[s] /\ paid[s] > 0 =>
          \A h \in Hands : bill[<<h, s>>] # "working"]_filmVars

\* agent.py:274-277: progress reaches the stream of the member that waits.
ProgressIsHeard == \A h \in Hands : call[h] # Idle => progress = h

\* browser.py:74-75: a member clicks on the page it has opened.
ClicksOnItsOwn == Cardinality(page) <= 1
=============================================================================
