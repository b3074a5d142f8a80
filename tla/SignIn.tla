------------------------------- MODULE SignIn -------------------------------
(***************************************************************************)
(* The workspace signs its owner in to the product it runs                   *)
(* (server/app/products.py: the autologin scripts of Dify, Coze, Hermes and  *)
(* OpenMausBot).  The owner has passed the platform's own wall; a script in   *)
(* the container logs in to the product and has nginx hand the session to    *)
(* the browser.  The waiting page leads to the product when a marker file is  *)
(* there.  Dify also keeps a copy of the workspace's gateway token with each *)
(* model, and every instance has a new token.                                *)
(*                                                                         *)
(* One workspace, from Init of one product.  A step is one round of the      *)
(* script, or one call of the product's.                                     *)
(***************************************************************************)
EXTENDS Integers

CONSTANTS
    Products,       \* of "dify", "coze", "hermes", "maus"
    MaxTries,       \* rounds of a login loop that has an end (150, 120)
    MaxWrong,       \* wrong passwords that lock a Dify account (5)
    MaxSetups,      \* refusals after which Dify is not set up again (3)
    MaxRounds,      \* rounds of a Dify credential that is retried (30)
    Models,         \* the default models and the others
    Defaults,
    MaxRebuilds     \* bound on new instances of the workspace

VARIABLES
    product,
    app,        \* is the product's server up
    account,    \* the password in the product's own database
    wrong,      \* Dify's count of wrong passwords
    saved,      \* the session OpenMausBot's script keeps on the user's disk
    conf,       \* the session nginx hands out
    mark,       \* /run/dsh/__dsh_ready
    script,
    stored,     \* the token Dify keeps with each model: "old" is revoked
    chosen,     \* the defaults Dify has been told
    rebuilds

signVars == <<product, app, account, wrong, saved, conf, mark, script, stored, chosen, rebuilds>>
others   == <<product, rebuilds>>

Sessions == {"none", "live", "dead"}
Steps    == {"login", "mark", "plugin", "defaults", "rest", "sleep", "over"}
Fresh    == [step |-> "login", tries |-> 0, left |-> {}]

TypeOK ==
    /\ product \in Products /\ app \in BOOLEAN /\ mark \in BOOLEAN
    /\ account \in {"none", "ours", "theirs"} /\ wrong \in 0..MaxWrong
    /\ saved \in Sessions /\ conf \in Sessions
    /\ script \in [step : Steps, tries : 0..MaxTries, left : SUBSET Models]
    /\ stored \in [Models -> {"none", "old", "now"}] /\ chosen \subseteq Defaults
    /\ rebuilds \in 0..MaxRebuilds

\* The boot script's nginx comes up before there is a session, and passes the
\* browser's own cookies on.
PassesOn == "none"

\* Hermes' password comes with the environment, the others' accounts are made on
\* the first login.
Init ==
    /\ product \in Products /\ app = FALSE /\ mark = FALSE
    /\ account = IF product \in {"hermes", "maus"} THEN "ours" ELSE "none"
    /\ wrong = 0 /\ saved = "none" /\ conf = PassesOn /\ script = Fresh
    /\ stored = [m \in Models |-> "none"] /\ chosen = {} /\ rebuilds = 0

Goto(step) == script' = [Fresh EXCEPT !.step = step]
Again      == script' = [script EXCEPT !.tries = @ + 1]

\* The loop of Coze and Hermes ends; the one of Dify does not, and counts the
\* refusals only.
LastTry   == script.tries + 1 >= MaxTries
Accepts   == app /\ account = "ours" /\ wrong < MaxWrong

-----------------------------------------------------------------------------
(* Dify.                                                                    *)

\* write_conf: nginx hands out the new session once it has loaded it; whether it
\* has, the scripts of Dify, Coze and OpenMausBot do not ask.
Reloads == conf' \in {"live", conf}

\* unlock: the count is cleared before each try, if redis answers.  The session
\* goes to nginx.
DifyLogin ==
    /\ product = "dify" /\ script.step = "login"
    /\ \E unlocked \in BOOLEAN :
          /\ app /\ account = "ours" /\ (unlocked \/ wrong < MaxWrong)
          /\ wrong' = 0
    /\ Reloads /\ Goto("mark")
    /\ UNCHANGED <<app, account, saved, mark, stored, chosen, others>>

\* It answers, and refuses: set up for the first few times, which works while
\* there is no account.
DifyRefused ==
    /\ product = "dify" /\ script.step = "login" /\ app
    /\ \E unlocked \in BOOLEAN, worked \in BOOLEAN :
          LET errors == IF unlocked THEN 0 ELSE wrong IN
          /\ account # "ours" \/ errors = MaxWrong
          /\ wrong' = IF account = "theirs" /\ errors < MaxWrong THEN errors + 1 ELSE errors
          /\ account' = IF account = "none" /\ script.tries < MaxSetups /\ worked
                        THEN "ours" ELSE account
    /\ script' = [script EXCEPT !.tries = IF @ < MaxTries THEN @ + 1 ELSE @]
    /\ UNCHANGED <<app, saved, conf, mark, stored, chosen, others>>

\* The marker is dropped behind the reload.
Mark(next) ==
    /\ script.step = "mark" /\ mark' = TRUE /\ Goto(next)
    /\ UNCHANGED <<app, account, wrong, saved, conf, stored, chosen, others>>

DifyMark == product = "dify" /\ Mark("plugin")

\* The provider's plug-in is installed, or provisioning is over for this round.
DifyPlugin ==
    /\ script.step = "plugin"
    /\ \/ app /\ script' = [Fresh EXCEPT !.step = "defaults", !.left = Defaults]
       \/ Goto("sleep")
    /\ UNCHANGED <<app, account, wrong, saved, conf, mark, stored, chosen, others>>

\* cred_id: has Dify a credential of this name?
Held(m) == stored[m] # "none"

\* Mutant of Written: a credential that is there is left alone.
WrittenIfMissing(m, told) ==
    /\ stored' = IF ~Held(m) THEN [stored EXCEPT ![m] = "now"] ELSE stored
    /\ chosen' = IF ~Held(m) /\ m \in Defaults /\ told THEN chosen \union {m} ELSE chosen

\* ensure_model: a credential that is there is written again, a new default is
\* also chosen; nobody looks at the answer to that.
Written(m, told) ==
    /\ stored' = [stored EXCEPT ![m] = "now"]
    /\ chosen' = IF ~Held(m) /\ m \in Defaults /\ told THEN chosen \union {m} ELSE chosen

\* The defaults are retried until the plug-in has been loaded.
DifyDefault ==
    /\ script.step = "defaults" /\ app
    /\ \E m \in script.left, told \in BOOLEAN :
          /\ Written(m, told)
          /\ script' = IF script.left = {m}
                       THEN [Fresh EXCEPT !.step = "rest", !.left = Models \ Defaults]
                       ELSE [script EXCEPT !.left = @ \ {m}]
    /\ UNCHANGED <<app, account, wrong, saved, conf, mark, others>>

DifyNotYet ==
    /\ script.step = "defaults"
    /\ IF script.tries + 1 < MaxRounds THEN Again ELSE Goto("sleep")
    /\ UNCHANGED <<app, account, wrong, saved, conf, mark, stored, chosen, others>>

\* The other models: each is written or not.
DifyRest ==
    /\ script.step = "rest"
    /\ IF script.left = {}
       THEN Goto("sleep") /\ UNCHANGED <<stored, chosen>>
       ELSE \E m \in script.left :
              /\ script' = [script EXCEPT !.left = @ \ {m}]
              /\ \/ app /\ Written(m, FALSE)
                 \/ UNCHANGED <<stored, chosen>>
    /\ UNCHANGED <<app, account, wrong, saved, conf, mark, others>>

-----------------------------------------------------------------------------
(* Coze, Hermes, OpenMausBot.                                               *)

\* Coze registers and tries again; the password is a random one on the user's
\* disk.  After the last round the marker is dropped all the same.
CozeTry ==
    /\ product = "coze" /\ script.step = "login"
    /\ \/ /\ Accepts /\ Reloads /\ Goto("mark")
          /\ UNCHANGED <<account, mark>>
       \/ /\ ~Accepts /\ UNCHANGED conf
          /\ account' \in {account, IF app /\ account = "none" THEN "ours" ELSE account}
          /\ IF LastTry THEN Goto("over") /\ mark' = TRUE ELSE Again /\ UNCHANGED mark
    /\ UNCHANGED <<app, wrong, saved, stored, chosen, others>>

CozeMark == product = "coze" /\ Mark("over")

\* Hermes: a configuration nginx does not take is another round; after the last
\* round the script ends, without the marker.
HermesTry ==
    /\ product = "hermes" /\ script.step = "login"
    /\ \/ Accepts /\ conf' = "live" /\ Goto("mark")
       \/ UNCHANGED conf /\ IF LastTry THEN Goto("over") ELSE Again
    /\ UNCHANGED <<app, account, wrong, saved, mark, stored, chosen, others>>

HermesMark == product = "hermes" /\ Mark("sleep")

\* OpenMausBot waits for the server, takes the session it kept, or pairs; a
\* pairing that fails ends the script, without the marker.
MausTry ==
    /\ product = "maus" /\ script.step = "login" /\ app
    /\ \/ saved = "live" /\ Reloads /\ Goto("mark") /\ UNCHANGED saved
       \/ saved # "live" /\ saved' = "live" /\ Reloads /\ Goto("mark")
       \/ saved # "live" /\ Goto("over") /\ UNCHANGED <<saved, conf>>
    /\ UNCHANGED <<app, account, wrong, mark, stored, chosen, others>>

MausMark == product = "maus" /\ Mark("over")

-----------------------------------------------------------------------------

\* Dify and Hermes log in again every twenty minutes.
Refresh ==
    /\ script.step = "sleep" /\ Goto("login")
    /\ UNCHANGED <<app, account, wrong, saved, conf, mark, stored, chosen, others>>

AppSwitches ==
    /\ app' = ~app
    /\ UNCHANGED <<account, wrong, saved, conf, mark, script, stored, chosen, others>>

\* The product ends the session: it is over, or the owner has changed the
\* password of an account.
SessionEnds ==
    /\ app /\ "live" \in {conf, saved}
    /\ conf' = IF conf = "live" THEN "dead" ELSE conf
    /\ saved' = IF saved = "live" THEN "dead" ELSE saved
    /\ account' \in {account, IF product = "dify" THEN "theirs" ELSE account}
    /\ UNCHANGED <<app, wrong, mark, script, stored, chosen, others>>

\* A new instance, with the user's disk and a new gateway token.
Rebuild ==
    /\ rebuilds < MaxRebuilds /\ rebuilds' = rebuilds + 1
    /\ app' = FALSE /\ conf' = PassesOn /\ mark' = FALSE /\ script' = Fresh
    /\ stored' = [m \in Models |-> IF stored[m] = "now" THEN "old" ELSE stored[m]]
    /\ UNCHANGED <<product, account, wrong, saved, chosen>>

ScriptStep ==
    \/ DifyLogin \/ DifyRefused \/ DifyMark \/ DifyPlugin \/ DifyDefault \/ DifyNotYet \/ DifyRest
    \/ CozeTry \/ CozeMark \/ HermesTry \/ HermesMark \/ MausTry \/ MausMark \/ Refresh

Next == ScriptStep \/ AppSwitches \/ SessionEnds \/ Rebuild

Spec == Init /\ [][Next]_signVars

-----------------------------------------------------------------------------
(* Correctness.                                                             *)

\* products.py:711-715, 1206-1208, 2114-2117: whoever the waiting page lets in
\* finds a session in nginx.
MarkedMeansIn == mark => conf = "live"

\* products.py:545-551: once the default models are provisioned in an instance,
\* Dify holds that instance's token with them, whatever it held before.
DefaultsAreCurrent ==
    script.step = "rest" => \A m \in Defaults : stored[m] = "now"

\* products.py:552-555: and they have been chosen as the defaults.
DefaultsAreChosen == script.step = "rest" => chosen = Defaults

\* products.py:499, 1193 ("not starting for ever"): a script that has ended has
\* dropped the marker.
NotStartingForEver == script.step = "over" => mark
=============================================================================
