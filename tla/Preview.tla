------------------------------ MODULE Preview ------------------------------
(***************************************************************************)
(* The preview of what the agent made (workspace.py): the list of the files *)
(* of a workspace, awake or asleep; a file straight off the volume; and a   *)
(* proxy to the servers the agent has started in the instance.  An asset    *)
(* with an absolute path leaves the proxy's address; a cookie that names a  *)
(* port brings it back.                                                     *)
(*                                                                         *)
(* One signed-in user with several tabs of one browser.                     *)
(***************************************************************************)
EXTENDS Naturals, FiniteSets

CONSTANTS
    Tabs,
    Ports,      \* of servers the agent may start
    Blocked,    \* _PREVIEW_BLOCKED_PORTS
    Files

VARIABLES
    running,    \* of the instance
    static,     \* the server on PREVIEW_STATIC_PORT answers
    serving,    \* ports on which the agent's servers listen
    disk,       \* files on the volume
    cookie,     \* _PREVIEW_PORT_COOKIE: a port or 0
    tab,        \* what each tab shows and waits for
    conns,      \* tabs for which a connection to the instance is open
    mounted,    \* the server sees and reads the backend's volumes (never Kubernetes')
    stayed      \* history: the files that were there when a tab asked for the
                \* list, and have stayed

previewVars == <<running, static, serving, disk, cookie, tab, conns, mounted, stayed>>

Blank == [step |-> "idle", port |-> 0, page |-> 0, asset |-> FALSE, files |-> {}]
Steps == {"idle", "listing", "ports", "listed", "file", "asked", "answered", "html",
          "ready", "streaming", "forsaken"}
Open  == {"answered", "html", "ready", "streaming", "forsaken"}

TypeOK ==
    /\ running \in BOOLEAN /\ static \in BOOLEAN
    /\ serving \subseteq Ports /\ disk \subseteq Files
    /\ cookie \in Ports \union {0} /\ conns \subseteq Tabs
    /\ mounted \in BOOLEAN /\ stayed \in [Tabs -> SUBSET Files]
    /\ tab \in [Tabs -> [step : Steps, port : Ports \union {0}, page : Ports \union {0},
                         asset : BOOLEAN, files : SUBSET Files]]

Init ==
    /\ running = FALSE /\ static = TRUE /\ serving = {} /\ disk = {}
    /\ cookie = 0 /\ tab = [t \in Tabs |-> Blank] /\ conns = {}
    /\ mounted \in BOOLEAN /\ stayed = [t \in Tabs |-> {}]

Instance == <<running, static, serving, disk, mounted, stayed>>
At(t, step) == tab[t].step = step
Go(t, step) == tab' = [tab EXCEPT ![t].step = step]
Quiet(t)    == tab[t].step \in {"idle", "listed", "file"}

-----------------------------------------------------------------------------
(* The instance and the agent in it.                                        *)

Wakes ==
    /\ running' = ~running
    /\ serving' = {}
    /\ UNCHANGED <<static, disk, cookie, tab, conns, mounted, stayed>>

Works ==
    /\ running
    /\ \/ \E f \in Files : disk' \in {disk \union {f}, disk \ {f}} /\ UNCHANGED <<serving, static>>
       \/ \E p \in Ports : serving' \in {serving \union {p}, serving \ {p}} /\ UNCHANGED <<disk, static>>
       \/ static' = ~static /\ UNCHANGED <<disk, serving>>
    /\ stayed' = [t \in Tabs |-> stayed[t] \intersect disk']
    /\ UNCHANGED <<running, cookie, tab, conns, mounted>>

-----------------------------------------------------------------------------
(* preview_index.                                                           *)

Listed(t, files) == tab' = [tab EXCEPT ![t] = [Blank EXCEPT !.step = "listed", !.files = files]]

\* _workspace_files_offline: nothing where no volume is mounted, as with the
\* backends that have none (Backend.offline_workspace_dir).
OfflineFiles == IF mounted THEN disk ELSE {}

\* Asleep is the normal state: the files are listed off the volume.
Index(t) ==
    /\ Quiet(t)
    /\ IF running THEN tab' = [tab EXCEPT ![t] = [Blank EXCEPT !.step = "listing"]]
       ELSE Listed(t, OfflineFiles)
    /\ stayed' = [stayed EXCEPT ![t] = disk]
    /\ UNCHANGED <<running, static, serving, disk, mounted, cookie, conns>>

\* _workspace_files: what the instance's own server says, nothing if it cannot.
StaticFiles == IF running /\ static THEN disk ELSE {}

AskStatic(t) ==
    /\ At(t, "listing")
    /\ tab' = [tab EXCEPT ![t] = [Blank EXCEPT !.step = "ports", !.files = StaticFiles]]
    /\ UNCHANGED <<Instance, cookie, conns>>

\* Mutant of ListFiles: what the instance says is shown as it is.
ListWhatItSays(t) ==
    /\ At(t, "ports") /\ Listed(t, tab[t].files)
    /\ UNCHANGED <<Instance, cookie, conns>>

\* The ports have been tried one by one; where the instance said nothing, the
\* volume is looked at.
ListFiles(t) ==
    /\ At(t, "ports")
    /\ Listed(t, IF tab[t].files = {} THEN OfflineFiles ELSE tab[t].files)
    /\ UNCHANGED <<Instance, cookie, conns>>

\* preview_offline_file: of a sleeping instance too.
OpenFile(t, f) ==
    /\ At(t, "listed") /\ f \in tab[t].files
    /\ tab' = [tab EXCEPT ![t] = IF f \in disk THEN [Blank EXCEPT !.step = "file"] ELSE Blank]
    /\ UNCHANGED <<Instance, cookie, conns>>

-----------------------------------------------------------------------------
(* preview_proxy.                                                           *)

\* Without an instance the browser is sent to the workspace.
Proxy(t, p, asset) ==
    /\ Quiet(t) /\ p \notin Blocked
    /\ tab' = [tab EXCEPT ![t] =
          IF ~running THEN Blank
          ELSE [Blank EXCEPT !.step = "asked", !.port = p, !.asset = asset,
                             !.page = IF asset THEN tab[t].page ELSE 0]]
    /\ UNCHANGED <<Instance, cookie, conns>>

\* preview_fallback.
Fallback(t) ==
    /\ tab[t].page # 0 /\ cookie # 0
    /\ Proxy(t, cookie, TRUE)

\* The body may be refused, and the port may not answer.
Forward(t) ==
    /\ At(t, "asked")
    /\ \/ /\ running /\ tab[t].port \in serving
          /\ Go(t, "answered") /\ conns' = conns \union {t}
       \/ Go(t, "idle") /\ UNCHANGED conns
    /\ UNCHANGED <<Instance, cookie>>

\* _close_preview_upstream.
Close(t) == conns' = conns \ {t}

\* The answer carries the cookie; a page of a port is then shown.
Given(t, step) ==
    /\ cookie' = tab[t].port
    /\ tab' = [tab EXCEPT ![t].step = step,
                          ![t].page = IF tab[t].asset THEN @ ELSE tab[t].port]

\* HEAD, text/html as it stands, or anything else.
Sort(t) ==
    /\ At(t, "answered")
    /\ \/ Given(t, "idle") /\ Close(t)
       \/ Go(t, "html") /\ UNCHANGED <<cookie, conns>>
       \/ Given(t, "ready") /\ UNCHANGED conns
    /\ UNCHANGED Instance

\* Mutant of ReadHtml: only a page that was read whole is closed.
ReadHtmlOnly(t) ==
    /\ At(t, "html")
    /\ \/ Given(t, "idle") /\ Close(t)
       \/ Go(t, "idle") /\ UNCHANGED <<cookie, conns>>
    /\ UNCHANGED Instance

\* _read_preview_html: whole, too large, or broken off.
ReadHtml(t) ==
    /\ At(t, "html") /\ Close(t)
    /\ \/ Given(t, "idle")
       \/ Go(t, "idle") /\ UNCHANGED cookie
    /\ UNCHANGED Instance

\* relay.  A browser that has gone before its first step leaves it unrun.
Relay(t) ==
    /\ \/ At(t, "ready") /\ tab' \in {[tab EXCEPT ![t].step = s] : s \in {"streaming", "forsaken"}}
          /\ UNCHANGED conns
       \/ At(t, "streaming") /\ Go(t, "idle") /\ Close(t)
    /\ UNCHANGED <<Instance, cookie>>

\* What nothing refers to any more is collected.
Collect(t) ==
    /\ At(t, "forsaken") /\ Go(t, "idle") /\ Close(t)
    /\ UNCHANGED <<Instance, cookie>>

Next ==
    \/ Wakes \/ Works
    \/ \E t \in Tabs :
          \/ Index(t) \/ AskStatic(t) \/ ListFiles(t) \/ \E f \in Files : OpenFile(t, f)
          \/ \E p \in Ports : Proxy(t, p, FALSE)
          \/ Fallback(t) \/ Forward(t) \/ Sort(t) \/ ReadHtml(t) \/ Relay(t) \/ Collect(t)

Spec == Init /\ [][Next]_previewVars

-----------------------------------------------------------------------------
(* Correctness.                                                             *)

ListsThem ==
    \A t \in Tabs : mounted /\ tab[t].step # "listed" /\ tab'[t].step = "listed" =>
        stayed'[t] \subseteq tab'[t].files

\* Where the volume is mounted the list holds every file that was there all the
\* while, whether the instance is asleep, goes to sleep between two questions to
\* it, or its own server does not answer (workspace.py:531-536, 796-801).
FilesAreListed == [][ListsThem]_previewVars

\* workspace.py:525-528, 812-813: a sleeping instance's files are listed, whatever
\* backend it has.
AsleepIsListed ==
    [][\A t \in Tabs : ~running /\ tab[t].step # "listed" /\ tab'[t].step = "listed" =>
          stayed'[t] \subseteq tab'[t].files]_previewVars

\* A connection to an instance is open as long as something reads from it: a
\* page that is too large or breaks off, a HEAD and a stream whose browser has
\* gone all give it back.
ConnectionsReturn == conns = {t \in Tabs : tab[t].step \in Open}

\* workspace.py:951-953: the cookie names the port that a page came from.
AssetsComeFromTheirPage == \A t \in Tabs : tab[t].asset => tab[t].port = tab[t].page
=============================================================================
