------------------------------ MODULE SelfHost ------------------------------
(***************************************************************************)
(* The installer (packages/cli-python: cli.py and wizard.py).  A call works *)
(* on a directory: it writes a deployment there, file by file with the state *)
(* last, or reads the state back and hands over to docker compose.          *)
(*                                                                         *)
(* Calls on one directory may overlap and may be killed between two files.  *)
(* A file is its author, the call that wrote it; of .env the model keeps    *)
(* also whether a way to sign in is set up.                                 *)
(***************************************************************************)
CONSTANTS Calls, Names     \* invocations, and values of --project-name

VARIABLES
    compose,    \* docker-compose.yml: the secret is mounted once, or not
    config, secret, env, dot, state,    \* the other files
    call,       \* of each invocation: its command, options and place
    stacks,     \* what docker runs from this directory
    identity    \* .env has SMTP or OAuth

hostVars == <<compose, config, secret, env, dot, state, call, stacks, identity>>

Commands == {"init", "start", "up", "down"}
NoState  == [author |-> "none", name |-> "none", mode |-> "none"]
NotYet   == [cmd |-> "none", name |-> "none", mode |-> "none", pc |-> "idle", read |-> "none"]
Modes    == {"trial", "selfhost"}
Authors  == Calls \cup {"none"}

TypeOK ==
    /\ compose \in {"none", "template", "mounted", "twice"}
    /\ {config, secret, env} \subseteq Authors /\ {dot, identity} \subseteq BOOLEAN
    /\ state \in [author : Calls, name : Names, mode : Modes] \cup {NoState}
    /\ stacks \subseteq Names
    /\ \A c \in Calls :
          /\ call[c].cmd \in Commands \cup {"none"}
          /\ call[c].pc \in {"idle", "check", "copy", "read", "mount", "config", "secret", "env",
                             "dot", "state", "restore", "docker", "done"}

Init ==
    /\ compose = "none" /\ config = "none" /\ secret = "none" /\ env = "none"
    /\ dot = FALSE /\ state = NoState /\ identity = FALSE /\ stacks = {}
    /\ call = [c \in Calls |-> NotYet]

Goes(c, pc) == call' = [call EXCEPT ![c].pc = pc]
Files       == <<compose, config, secret, env, dot, state>>

\* A call at one place that moves to another.
At(c, from, to) == call[c].pc = from /\ Goes(c, to)

-----------------------------------------------------------------------------
(* parse_args, plan and execute, up to the directory.                       *)

Fresh == state = NoState

\* "not initialized" is judged here, once.
Begin(c) == \E cmd \in Commands, n \in Names, m \in Modes :
    /\ call[c].pc = "idle"
    /\ call' = [call EXCEPT ![c] =
          [cmd |-> cmd, name |-> n, mode |-> m, read |-> "none",
           pc |-> IF cmd = "init" \/ (cmd = "start" /\ Fresh) THEN "check" ELSE "restore"]]
    /\ UNCHANGED <<Files, stacks, identity>>

Empty == compose = "none" /\ config = "none" /\ ~dot

\* initialize: an initialized or a non-empty directory is refused.
Check(c) ==
    /\ call[c].pc = "check" /\ Goes(c, IF Empty THEN "copy" ELSE "done")
    /\ UNCHANGED <<Files, stacks, identity>>

-----------------------------------------------------------------------------
(* initialize, file by file.                                                *)

CopyTemplates(c) ==
    /\ At(c, "copy", "read") /\ compose' = "template"
    /\ UNCHANGED <<config, secret, env, dot, state, stacks, identity>>

\* One more line below the data volume, whatever is there already.
ReadCompose(c) ==
    /\ call[c].pc = "read"
    /\ call' = [call EXCEPT ![c].pc = "mount",
                           ![c].read = IF compose = "template" THEN "mounted" ELSE "twice"]
    /\ UNCHANGED <<Files, stacks, identity>>

WriteCompose(c) ==
    /\ At(c, "mount", "config") /\ compose' = call[c].read
    /\ UNCHANGED <<config, secret, env, dot, state, stacks, identity>>

CopyConfigOver(c) ==
    /\ At(c, "config", "secret") /\ config' = c
    /\ UNCHANGED <<compose, secret, env, dot, state, stacks, identity>>

\* copytree makes the directory itself: if it is there, it raises.
CopyConfig(c) ==
    /\ IF config = "none" THEN At(c, "config", "secret") /\ config' = c
       ELSE At(c, "config", "done") /\ UNCHANGED config
    /\ UNCHANGED <<compose, secret, env, dot, state, stacks, identity>>

WriteSecret(c) ==
    /\ At(c, "secret", "env") /\ secret' = c
    /\ UNCHANGED <<compose, config, env, dot, state, stacks, identity>>

\* Someone at a terminal who installs for others is asked how they sign in.
Asked(c)   == call[c].mode = "selfhost"
Answers(c) == IF Asked(c) THEN BOOLEAN ELSE {FALSE}

\* apply_answers: an answer takes the place of what is generated.
Applied(answer) == identity' = answer

WriteEnv(c) ==
    /\ At(c, "env", "dot") /\ env' = c
    /\ \E answer \in Answers(c) : Applied(answer)
    /\ UNCHANGED <<compose, config, secret, dot, state, stacks>>

\* atomic_write makes the directory before the file is in it.
MakeDot(c) ==
    /\ At(c, "dot", "state") /\ dot' = TRUE
    /\ UNCHANGED <<compose, config, secret, env, state, stacks, identity>>

WriteState(c) ==
    /\ At(c, "state", IF call[c].cmd = "init" THEN "done" ELSE "restore")
    /\ state' = [author |-> c, name |-> call[c].name, mode |-> call[c].mode]
    /\ UNCHANGED <<compose, config, secret, env, dot, stacks, identity>>

-----------------------------------------------------------------------------
(* execute, from the state on.                                              *)

RestoreNothing(c) ==
    /\ call[c].pc = "restore" /\ state # NoState /\ Goes(c, "docker")
    /\ UNCHANGED <<Files, stacks, identity>>

\* public_identity_configured: .env is read anew, as the user has left it.
Configured == identity

\* restore_deployment: name and mode come from the state, not from the call.
Restore(c) ==
    /\ call[c].pc = "restore" /\ state # NoState
    /\ call' = [call EXCEPT ![c].name = state.name, ![c].mode = state.mode,
          ![c].pc = IF state.mode = "selfhost" /\ call[c].cmd # "down" /\ ~Configured
                    THEN "done" ELSE "docker"]
    /\ UNCHANGED <<Files, stacks, identity>>

NotInitialized(c) ==
    /\ Fresh /\ At(c, "restore", "done") /\ UNCHANGED <<Files, stacks, identity>>

Docker(c) ==
    /\ At(c, "docker", "done")
    /\ stacks' = IF call[c].cmd = "down" THEN stacks \ {call[c].name}
                                         ELSE stacks \cup {call[c].name}
    /\ UNCHANGED <<Files, identity>>

\* Also: a file cannot be written, or docker compose exits with an error.
Killed(c) ==
    /\ call[c].pc \notin {"idle", "done"} /\ Goes(c, "done")
    /\ UNCHANGED <<Files, stacks, identity>>

\* The user fills in .env.
Edit ==
    /\ env # "none" /\ ~identity /\ identity' = TRUE
    /\ UNCHANGED <<Files, call, stacks>>

Initialize(c) ==
    \/ Check(c) \/ CopyTemplates(c) \/ ReadCompose(c) \/ WriteCompose(c) \/ CopyConfig(c)
    \/ WriteSecret(c) \/ WriteEnv(c) \/ MakeDot(c) \/ WriteState(c)

Step(c) ==
    \/ Begin(c) \/ Initialize(c) \/ Restore(c) \/ NotInitialized(c)
    \/ Docker(c) \/ Killed(c)

Next == Edit \/ \E c \in Calls : Step(c)

Spec == Init /\ [][Next]_hostVars

-----------------------------------------------------------------------------
(* What an installation promises.                                           *)

\* In a directory that counts as initialized the secret, the configuration and
\* the .env are those of one call, the one whose name its state has, and what
\* docker runs from it bears that name, so that "down" finds it - however many
\* calls began on the empty directory (cli.py:224-257, 272-295).  Of the compose
\* file it says nothing: see SecretIsMounted.
OneDeployment ==
    /\ state # NoState => {config, secret, env} = {state.author}
    /\ stacks \subseteq {state.name}

\* "start    safely initialize when needed" (cli.py:22): after a call that
\* was killed half way no command of the tool gets on in that directory.
StartGetsOn ==
    ~\E c \in Calls : call[c].cmd = "start" /\ call[c].pc = "check"
                      /\ Fresh /\ ~Empty /\ \A d \in Calls \ {c} : call[d].pc = "done"

\* The stack is started with the secret it was given: a second call on the
\* empty directory copies the template over the file that mounts it.
SecretIsMounted == state # NoState => compose = "mounted"
=============================================================================
