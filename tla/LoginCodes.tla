----------------------------- MODULE LoginCodes -----------------------------
(***************************************************************************)
(* The one-time codes of server/auth: the CLI's device flow (handlers.go)  *)
(* and the authorization codes of MCP clients (oauth_server.go).  Both are *)
(* maps in memory; a code is exchanged for a token by requests that may    *)
(* overlap, be repeated, or come late.  Identity providers are external,   *)
(* and tokens and challenges are only who they belong to.                  *)
(*                                                                          *)
(* An operator named X_Slip, defined just before X, is a mutant of X.       *)
(***************************************************************************)
EXTENDS Naturals, FiniteSets

CONSTANTS
    Users, Browsers,
    Clients,        \* MCP clients
    Requests,       \* the requests for a token that overlap
    Lifetime,       \* how long a code is valid
    MaxCodes, LoginMaxTime, MaxRestarts      \* bounds

ASSUME LoginAssumption ==
    Lifetime \in Nat /\ MaxCodes \in Nat /\ LoginMaxTime \in Nat /\ MaxRestarts \in Nat

VARIABLES
    loginNow,
    cookie,         \* [Browsers -> the session: its user and the client of a pending authorization]
    code,           \* [Codes -> what was stored under it; "none" is not made yet]
    known,          \* the codes in the two maps
    clients,        \* registered clients
    cleanup,        \* kinds of codes whose clean-up goroutine was started
    req,            \* [Requests -> where it is, its code, and the client that sent it]
    token,          \* history: [Requests -> the token it was given]
    approvals,      \* history: <<code, user>> for every approval of a device code
    restarts

loginVars == <<loginNow, cookie, code, known, clients, cleanup, req, token, approvals, restarts>>
time == <<loginNow, restarts>>

Codes == 1..MaxCodes
CodeRow(kind, owner, user, approved, expires) ==
    [kind |-> kind, owner |-> owner, user |-> user, approved |-> approved, expires |-> expires]
NoCode == CodeRow("none", "none", "none", FALSE, 0)
Req(at, c, client) == [at |-> at, code |-> c, client |-> client]
Session(user, pending) == [user |-> user, pending |-> pending]
NoReq == Req("idle", 0, "none")
Token(c, user) == [code |-> c, user |-> user, at |-> loginNow]
NoToken == [code |-> 0, user |-> "none", at |-> 0]
Of(kind) == {c \in Codes : code[c].kind = kind}
Expired(c) == loginNow > code[c].expires
Fresh(c) == code[c].kind = "none" /\ \A d \in Codes : d < c => code[d].kind # "none"   \* the next random code
Made(c, kind, owner, user) ==
    /\ Fresh(c)
    /\ code' = [code EXCEPT ![c] = CodeRow(kind, owner, user, FALSE, loginNow + Lifetime)]
    /\ known' = known \cup {c}
    /\ cleanup' = cleanup \cup {kind}
ReqGoes(r, s) == req' = [req EXCEPT ![r] = Req(s, @.code, @.client)]

LoginInit ==
    /\ loginNow = 0 /\ restarts = 0 /\ cookie = [b \in Browsers |-> Session("none", "none")]
    /\ code = [c \in Codes |-> NoCode] /\ known = {} /\ clients = {} /\ cleanup = {}
    /\ req = [r \in Requests |-> NoReq] /\ token = [r \in Requests |-> NoToken] /\ approvals = {}

---------------------------------------------------------------------------
(* Sessions and the device flow. *)

CLIBegin ==
    /\ \E c \in Codes : Made(c, "cli", "none", "none")
    /\ UNCHANGED <<time, cookie, clients, req, token, approvals>>

\* The approval of a device code by a logged-in user; a later one replaces an earlier one.
Approved(c, u) ==
    /\ code' = [code EXCEPT ![c] = CodeRow(@.kind, @.owner, u, TRUE, @.expires)]
    /\ approvals' = approvals \cup {<<c, u>>}

CLIApproveConfirm(b, c) ==
    /\ cookie[b].user # "none" /\ c \in known \cap Of("cli") /\ ~Expired(c)
    /\ Approved(c, cookie[b].user)
    /\ UNCHANGED <<time, cookie, known, clients, cleanup, req, token>>

\* issueCodeAndRedirect
IssueCode(u, m) == \E c \in Codes : Made(c, "mcp", m, u)

\* The provider sends the browser back.  A device code the server still has is approved, unless it is too old,
\* and that is the answer; otherwise a pending authorization is completed.
Callback(b, u) ==
    /\ \/ \E c \in known \cap Of("cli") :
            /\ cookie' = [cookie EXCEPT ![b] = Session(u, @.pending)]
            /\ IF loginNow < code[c].expires THEN Approved(c, u) ELSE UNCHANGED <<code, approvals>>
            /\ UNCHANGED <<known, cleanup>>
       \/ /\ cookie[b].pending = "none" /\ cookie' = [cookie EXCEPT ![b] = Session(u, @.pending)]
          /\ UNCHANGED <<code, known, cleanup, approvals>>
       \/ /\ cookie[b].pending # "none" /\ cookie' = [cookie EXCEPT ![b] = Session(u, "none")]
          /\ IssueCode(u, cookie[b].pending) /\ UNCHANGED approvals
    /\ UNCHANGED <<time, clients, req, token>>

Logout(b) ==
    /\ cookie[b].user # "none" /\ cookie' = [cookie EXCEPT ![b] = Session("none", "none")]
    /\ UNCHANGED <<time, code, known, clients, cleanup, req, token, approvals>>

\* CLIPoll reads the code under the lock and goes on without it.
CLIPoll(r, c) ==
    /\ req[r].at = "idle" /\ c \in Of("cli")
    /\ req' = [req EXCEPT ![r] = Req(IF c \in known THEN "poll" ELSE "refused", c, "none")]
    /\ UNCHANGED <<time, cookie, code, known, clients, cleanup, token, approvals>>

PollExpiry(r) ==
    /\ req[r].at = "poll"
    /\ ReqGoes(r, IF Expired(req[r].code) THEN "gone"
               ELSE IF code[req[r].code].approved THEN "generate" ELSE "idle")
    /\ UNCHANGED <<time, cookie, code, known, clients, cleanup, token, approvals>>

\* GenerateToken for whoever approved last, then the code is removed.
PollToken(r) ==
    /\ req[r].at = "generate" /\ ReqGoes(r, "consume")
    /\ token' = [token EXCEPT ![r] = Token(req[r].code, code[req[r].code].user)]
    /\ UNCHANGED <<time, cookie, code, known, clients, cleanup, approvals>>

PollRemoves(r) ==
    /\ req[r].at \in {"consume", "gone"} /\ known' = known \ {req[r].code}
    /\ ReqGoes(r, IF req[r].at = "consume" THEN "answered" ELSE "refused")
    /\ UNCHANGED <<time, cookie, code, clients, cleanup, token, approvals>>

---------------------------------------------------------------------------
(* The authorization server for MCP clients. *)

HandleRegister(m) ==
    /\ m \notin clients /\ clients' = clients \cup {m}
    /\ UNCHANGED <<time, cookie, code, known, cleanup, req, token, approvals>>

\* A registered client's user is sent here: with a session a code is made at once, without one the browser
\* remembers the client and goes to log in.
HandleAuthorize(b, m) ==
    /\ m \in clients
    /\ \/ cookie[b].user # "none" /\ IssueCode(cookie[b].user, m) /\ UNCHANGED cookie
       \/ /\ cookie[b].user = "none" /\ cookie' = [cookie EXCEPT ![b] = Session("none", m)]
          /\ UNCHANGED <<code, known, cleanup>>
    /\ UNCHANGED <<time, clients, req, token, approvals>>

HandleToken_RemovesLater(r, m, c) ==
    /\ req[r].at = "idle" /\ c \in Of("mcp")
    /\ req' = [req EXCEPT ![r] = Req(IF c \in known THEN "check" ELSE "refused", c, m)]
    /\ UNCHANGED <<time, cookie, code, known, clients, cleanup, token, approvals>>

\* HandleToken looks the code up and removes it in one step, whatever comes of it.
HandleToken(r, m, c) ==
    /\ req[r].at = "idle" /\ c \in Of("mcp")
    /\ req' = [req EXCEPT ![r] = Req(IF c \in known THEN "check" ELSE "refused", c, m)]
    /\ known' = known \ {c}
    /\ UNCHANGED <<time, cookie, code, clients, cleanup, token, approvals>>

\* The code's age, the redirect address and the verifier, which only the client that asked for the code knows.
CheckCode(r) ==
    /\ req[r].at = "check"
    /\ LET c == req[r].code IN
       IF Expired(c) \/ code[c].owner # req[r].client
       THEN ReqGoes(r, "refused") /\ UNCHANGED token
       ELSE ReqGoes(r, "answered") /\ token' = [token EXCEPT ![r] = Token(c, code[c].user)]
    /\ UNCHANGED <<time, cookie, code, known, clients, cleanup, approvals>>

---------------------------------------------------------------------------
\* cleanupExpiredCodes of either map, started by every new code.
CleanupExpiredCodes(kind) ==
    /\ kind \in cleanup /\ cleanup' = cleanup \ {kind}
    /\ known' = known \ {c \in Of(kind) : Expired(c)}
    /\ UNCHANGED <<time, cookie, code, clients, req, token, approvals>>

LoginTick ==
    /\ loginNow < LoginMaxTime /\ loginNow' = loginNow + 1
    /\ UNCHANGED <<cookie, code, known, clients, cleanup, req, token, approvals, restarts>>

\* The maps and the requests under way are lost; sessions live in the browsers.
Restart ==
    /\ restarts < MaxRestarts /\ restarts' = restarts + 1
    /\ known' = {} /\ clients' = {} /\ cleanup' = {}
    /\ req' = [r \in Requests |-> IF req[r].at \in {"answered", "idle"} THEN req[r]
                                  ELSE Req("refused", req[r].code, req[r].client)]
    /\ UNCHANGED <<loginNow, cookie, code, token, approvals>>

LoginNext ==
    \/ CLIBegin \/ LoginTick \/ Restart
    \/ \E b \in Browsers : \/ Logout(b)
                           \/ \E u \in Users : Callback(b, u)
                           \/ \E c \in Codes : CLIApproveConfirm(b, c)
                           \/ \E m \in Clients : HandleAuthorize(b, m)
    \/ \E m \in Clients : HandleRegister(m)
    \/ \E r \in Requests : \/ PollExpiry(r) \/ PollToken(r) \/ PollRemoves(r) \/ CheckCode(r)
                           \/ \E c \in Codes : CLIPoll(r, c) \/ \E m \in Clients : HandleToken(r, m, c)
    \/ \E kind \in {"cli", "mcp"} : CleanupExpiredCodes(kind)

LoginSpec == LoginInit /\ [][LoginNext]_loginVars

---------------------------------------------------------------------------
(* Properties. *)

CodeRows ==
    [kind : {"none", "cli", "mcp"}, owner : Clients \cup {"none"}, user : Users \cup {"none"}, approved : BOOLEAN,
     expires : 0..LoginMaxTime + Lifetime]
ReqStates == {"idle", "poll", "generate", "consume", "gone", "check", "refused", "answered"}

\* Type correctness of the sessions, the codes and the requests.
LoginTypeOK ==
    /\ loginNow \in 0..LoginMaxTime /\ restarts \in 0..MaxRestarts
    /\ cookie \in [Browsers -> [user : Users \cup {"none"}, pending : Clients \cup {"none"}]]
    /\ code \in [Codes -> CodeRows] /\ known \subseteq {c \in Codes : code[c].kind # "none"}
    /\ clients \subseteq Clients /\ cleanup \subseteq {"cli", "mcp"}
    /\ req \in [Requests -> [at : ReqStates, code : Codes \cup {0}, client : Clients \cup {"none"}]]
    /\ token \in [Requests -> [code : Codes \cup {0}, user : Users \cup {"none"}, at : 0..LoginMaxTime]]
    /\ approvals \subseteq Codes \X Users

\* Every token was earned: an authorization code is worth one token, in its lifetime, for the client and the user
\* it was made for, however requests overlap; a device token names a user who approved that code
\* (HandleToken, CLIPoll).
TokenIsEarned ==
    \A r \in Requests : LET t == token[r] IN t # NoToken =>
        \/ code[t.code].kind = "cli" /\ <<t.code, t.user>> \in approvals
        \/ /\ code[t.code].kind = "mcp" /\ code[t.code].owner = req[r].client
           /\ t.user = code[t.code].user /\ t.at <= code[t.code].expires
           /\ \A s \in Requests \ {r} : token[s].code # t.code
=============================================================================
