------------------------------- MODULE Access -------------------------------
(***************************************************************************)
(* Who may act for an account: signing in (accounts.py, oauth.py), the      *)
(* tokens that workspaces call the gateway with (workspace.py), and what    *)
(* takes a right away again (accounts.py, admin.py).                        *)
(*                                                                         *)
(* Routes run in threads, side by side: what a request read when it began   *)
(* it uses until it ends.                                                   *)
(***************************************************************************)
EXTENDS Integers, FiniteSets

CONSTANTS
    Tokens,     \* the tokens that are signed for the account
    Requests,   \* requests in progress
    Spaces,     \* workspaces
    MaxEpoch    \* bounds what ends the sessions of the account

VARIABLES
    status, epoch,  \* of the row in users; the epoch counts what ends all tokens
    token,      \* each token with its row in devices
    key,        \* is there an API key that is not revoked?
    mailed,     \* is there a row in email_codes that may still be used?
    request     \* what each request has read, and is about to do

accessVars == <<status, epoch, token, key, mailed, request>>

Unsigned == [row |-> "unsigned"]
\* A session has no row.  The epoch in a token is that of its row.
Rows == {"session", "live", "revoked", "deleted"}
Idle == [does |-> "nothing"]
Deeds == {"password", "device", "mail", "flow", "identity", "change", "open"}

TypeOK ==
    /\ status \in {"active", "suspended", "deleted"} /\ epoch \in 0..MaxEpoch
    /\ token \in [Tokens -> {Unsigned} \union
          [row : Rows, epoch : 0..MaxEpoch, from : {"login"} \union Spaces]]
    /\ key \in BOOLEAN /\ mailed \in BOOLEAN
    /\ request \in [Requests -> {Idle} \union [does : Deeds, epoch : 0..MaxEpoch]]

Init ==
    /\ status = "active" /\ epoch = 0
    /\ token = [t \in Tokens |-> Unsigned] /\ key \in BOOLEAN
    /\ mailed = FALSE
    /\ request = [r \in Requests |-> Idle]

-----------------------------------------------------------------------------
(* resolve_user.                                                            *)

Accepted(t) ==
    /\ token[t].row \in {"session", "live"}
    /\ status = "active"
    /\ token[t].epoch = epoch

\* Anybody with a token that is accepted, or with the API key, comes in.
SignedIn == status = "active" /\ (key \/ \E t \in Tokens : Accepted(t))

Sign(t, row, e, from) ==
    /\ token[t] = Unsigned
    /\ token' = [token EXCEPT ![t] = [row |-> row, epoch |-> e, from |-> from]]

\* set_session_cookie: what a browser is given outlives its logging out.
SetCookie(t, e) == Sign(t, "session", e, "login")

\* The account of an address.  One that is deleted has given its address up; who
\* comes with it then gets a new account, which is not this one.
AtAddress == status # "deleted"

Begin(r, does) ==
    /\ request[r] = Idle
    /\ request' = [request EXCEPT ![r] = [does |-> does, epoch |-> epoch]]
Does(r, does) == request[r] # Idle /\ request[r].does = does
Ends(r) == request' = [request EXCEPT ![r] = Idle]

-----------------------------------------------------------------------------
(* Signing in.                                                              *)

\* login here and in device_auth: the row of the user is read and the
\* password verified against it, which takes its time.
Verify(r) ==
    /\ status = "active"
    /\ Begin(r, "password") \/ Begin(r, "device")
    /\ UNCHANGED <<status, epoch, token, key, mailed>>

\* What is signed carries the epoch that was read.
SignIn(r, t) ==
    /\ \/ Does(r, "password") /\ SetCookie(t, request[r].epoch)
       \/ Does(r, "device") /\ Sign(t, "live", request[r].epoch, "login")
    /\ Ends(r)
    /\ UNCHANGED <<status, epoch, key, mailed>>

\* email_send: a new code in the place of the old.
SendMail ==
    /\ AtAddress
    /\ mailed' = TRUE
    /\ UNCHANGED <<status, epoch, token, key, request>>

\* consume_email_code: compared, and spent in a statement of its own.  After
\* five wrong ones, or ten minutes, the right one is refused.
ReadMailed(r) ==
    /\ mailed
    /\ Begin(r, "mail")
    /\ UNCHANGED <<status, epoch, token, key, mailed>>

MailUseless ==
    /\ mailed /\ mailed' = FALSE
    /\ UNCHANGED <<status, epoch, token, key, request>>

\* email_login goes on with the user as he is then.
MailIn(r, t) ==
    /\ Does(r, "mail") /\ mailed' = FALSE
    /\ \/ status = "active" /\ SetCookie(t, epoch)
       \/ UNCHANGED token
    /\ Ends(r)
    /\ UNCHANGED <<status, epoch, key>>

\* oauth: a browser is sent to Google or GitHub with a signed state, whose
\* nonce its cookie repeats.
StartFlow(r) ==
    /\ Begin(r, "flow")
    /\ UNCHANGED <<status, epoch, token, key, mailed>>

\* It comes back; the provider is asked for a verified address, and awaited.
Callback(r) ==
    /\ Does(r, "flow")
    /\ request' = [request EXCEPT ![r].does = "identity"]
    /\ UNCHANGED <<status, epoch, token, key, mailed>>

\* _finish: the user is read now, after the provider's answer.
FinishFlow(r, t) ==
    /\ Does(r, "identity") /\ AtAddress /\ status = "active"
    /\ SetCookie(t, epoch)
    /\ Ends(r)
    /\ UNCHANGED <<status, epoch, key, mailed>>

-----------------------------------------------------------------------------
(* _mint_workspace_token: the tokens of the same workspace are revoked.     *)

\* work_open looks at the user, and takes its time.
Opening(r) ==
    /\ SignedIn /\ Begin(r, "open")
    /\ UNCHANGED <<status, epoch, token, key, mailed>>

Revoked(rows) == [t \in Tokens |-> IF t \in rows THEN [token[t] EXCEPT !.row = "revoked"] ELSE token[t]]
Live(froms)   == {t \in Tokens : token[t].row = "live" /\ token[t].from \in froms}

\* Mutant of Mint: the tokens of all the user's workspaces are revoked.
MintForAll(r, t, w) ==
    /\ Does(r, "open") /\ token[t] = Unsigned
    /\ token' = [Revoked(Live(Spaces)) EXCEPT ![t] =
                    [row |-> "live", epoch |-> request[r].epoch, from |-> w]]
    /\ Ends(r)
    /\ UNCHANGED <<status, epoch, key, mailed>>

Mint(r, t, w) ==
    /\ Does(r, "open") /\ token[t] = Unsigned
    /\ token' = [Revoked(Live({w})) EXCEPT ![t] =
                    [row |-> "live", epoch |-> request[r].epoch, from |-> w]]
    /\ Ends(r)
    /\ UNCHANGED <<status, epoch, key, mailed>>

-----------------------------------------------------------------------------
(* Taking rights away.                                                      *)

EndSessions == epoch < MaxEpoch /\ epoch' = epoch + 1
Rowed == {t \in Tokens : token[t].row \in {"live", "revoked"}}

\* change_password: the old one is verified against the row that was read; an
\* account without one needs a mailed code.
Changing(r) ==
    /\ SignedIn /\ Begin(r, "change")
    /\ \/ UNCHANGED mailed
       \/ mailed /\ mailed' = FALSE
    /\ UNCHANGED <<status, epoch, token, key>>

\* API keys outlast it.
ChangePassword(r) ==
    /\ Does(r, "change")
    /\ EndSessions /\ token' = Revoked(Rowed)
    /\ Ends(r)
    /\ UNCHANGED <<status, key, mailed>>

RevokeDevice(t) ==
    /\ SignedIn /\ token[t].row = "live"
    /\ token' = Revoked({t})
    /\ UNCHANGED <<status, epoch, key, mailed, request>>

CreateKey ==
    /\ SignedIn /\ key' = TRUE
    /\ UNCHANGED <<status, epoch, token, mailed, request>>

RevokeKey ==
    /\ SignedIn /\ key' = FALSE
    /\ UNCHANGED <<status, epoch, token, mailed, request>>

\* Mutant of SetStatus: the sessions of a suspended user are left alone.
SetStatusOnly(s) ==
    /\ s # status /\ status' = s
    /\ epoch < MaxEpoch /\ UNCHANGED epoch
    /\ UNCHANGED <<token, key, mailed, request>>

\* set_status, of an administrator, for any account there is.
SetStatus(s) ==
    /\ EndSessions /\ status' = s
    /\ UNCHANGED <<token, key, mailed, request>>

DeleteAccount ==
    /\ SignedIn /\ EndSessions
    /\ status' = "deleted" /\ mailed' = FALSE
    /\ token' = [t \in Tokens |-> IF t \in Rowed THEN [token[t] EXCEPT !.row = "deleted"] ELSE token[t]]
    /\ UNCHANGED <<key, request>>

\* A request ends without an effect: refused, or its reader gone.
GiveUp(r) ==
    /\ request[r] # Idle /\ Ends(r)
    /\ UNCHANGED <<status, epoch, token, key, mailed>>

-----------------------------------------------------------------------------
Next ==
    \/ \E r \in Requests :
        \/ Verify(r) \/ ReadMailed(r) \/ Opening(r) \/ StartFlow(r) \/ Callback(r)
        \/ Changing(r) \/ ChangePassword(r) \/ GiveUp(r)
        \/ \E t \in Tokens : SignIn(r, t) \/ MailIn(r, t) \/ FinishFlow(r, t) \/ \E w \in Spaces : Mint(r, t, w)
    \/ \E t \in Tokens : RevokeDevice(t)
    \/ \E s \in {"active", "suspended"} : SetStatus(s)
    \/ SendMail \/ MailUseless \/ CreateKey \/ RevokeKey \/ DeleteAccount

Spec == Init /\ [][Next]_accessVars

-----------------------------------------------------------------------------
(* Correctness.                                                             *)

StaysDead ==
    \A t \in Tokens : token'[t] # Unsigned /\ ~Accepted(t) /\ Accepted(t)'
         => token[t] = Unsigned /\ token'[t].epoch = epoch

\* security.py:6-8, every outstanding token dies at once: a token that is
\* refused, or was signed by a request that was overtaken, is refused for good,
\* through suspension and return and every order of what ends sessions.
DeadStaysDead == [][StaysDead]_accessVars

ReplacesItsOwn ==
    \A n \in Tokens : token[n] = Unsigned /\ token'[n] # Unsigned =>
      \A t \in Live({"login"} \union Spaces) :
         token'[t].row = "revoked" <=>
             token'[n].from \in Spaces /\ token[t].from = token'[n].from

\* _mint_workspace_token: a token replaces the token of its own workspace and
\* none other; no other way of signing in ends what is there.
ReplacedByItsOwn == [][ReplacesItsOwn]_accessVars
=============================================================================
