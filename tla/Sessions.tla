------------------------------ MODULE Sessions ------------------------------
(***************************************************************************)
(* The sessions of one user:                                               *)
(*                                                                         *)
(*   auth.service.ts, invitation.service.ts (backend),                     *)
(*   api.ts, AuthContext.tsx and socket.ts (the browser).                  *)
(*                                                                         *)
(* The browser holds the refresh token in a cookie and an access token in  *)
(* memory.  Its requests run on the server as calls; their answers arrive  *)
(* in any order.  Nothing in the browser keeps two refreshes apart: the    *)
(* ten-minute timer, a request answered 401 and each of the two sockets    *)
(* start one on their own.  Passwords and token expiry are left out: an    *)
(* expired refresh token is refused like a revoked one, and a password is  *)
(* the right one.                                                          *)
(***************************************************************************)
EXTENDS ServiceCalls

VARIABLES
    suspended,      \* the User row's status
    tokens,         \* [live, slipped] of the RefreshToken rows, in order of creation;
                    \* slipped is history: it goes back to a call that a revocation
                    \* of all sessions overtook
    authCalls,      \* [Calls -> request or administrator's call in progress]
    cookie,         \* the refresh token in the browser's cookie; 0 is none
    access          \* the browser's access token is set

sessionVars == <<suspended, tokens, authCalls, cookie, access>>

\* stage: "issue" and "revoke" have a database write to make, "ok" and "failed"
\* are answers on their way.  token: the one presented; issued: the one created.
AuthOps == {"login", "refresh", "logout", "changePassword", "suspend", "revokeAll"}
AuthCall == [op : AuthOps \cup {"idle"}, stage : {"load", "issue", "revoke", "ok", "failed"},
             token : Nat, issued : Nat, lost : BOOLEAN, overtaken : BOOLEAN]
AuthIdle == [op |-> "idle", stage |-> "load", token |-> 0, issued |-> 0, lost |-> FALSE,
             overtaken |-> FALSE]

SessionInit ==
    /\ suspended = FALSE
    /\ tokens = <<>>
    /\ authCalls = [c \in Calls |-> AuthIdle]
    /\ cookie = 0
    /\ access = FALSE

-----------------------------------------------------------------------------
(* The browser sends.                                                      *)

\* loginWithPassword
SendLogin(c) ==
    /\ authCalls[c] = AuthIdle
    /\ Len(tokens) < MaxUpdates
    /\ authCalls' = [authCalls EXCEPT ![c] = [AuthIdle EXCEPT !.op = "login"]]
    /\ UNCHANGED <<suspended, tokens, cookie, access>>

\* tryRefreshAccessToken: hydration, the timer, apiRequest after a 401, or a
\* socket told that its session expired.
SendRefresh(c) ==
    /\ authCalls[c] = AuthIdle
    /\ Len(tokens) < MaxUpdates
    /\ authCalls' = [authCalls EXCEPT ![c] = [AuthIdle EXCEPT !.op = "refresh", !.token = cookie]]
    /\ UNCHANGED <<suspended, tokens, cookie, access>>

\* logoutSession
SendLogout(c) ==
    /\ authCalls[c] = AuthIdle
    /\ access
    /\ authCalls' = [authCalls EXCEPT ![c] = [AuthIdle EXCEPT !.op = "logout", !.token = cookie]]
    /\ UNCHANGED <<suspended, tokens, cookie, access>>

\* changePassword; a logout follows it.
SendChangePassword(c) ==
    /\ authCalls[c] = AuthIdle
    /\ access
    /\ authCalls' = [authCalls EXCEPT ![c] = [AuthIdle EXCEPT !.op = "changePassword",
                                                              !.stage = "revoke"]]
    /\ UNCHANGED <<suspended, tokens, cookie, access>>

-----------------------------------------------------------------------------
(* The server.                                                             *)

Answer(c, stage) == authCalls' = [authCalls EXCEPT ![c].stage = stage]

\* loginUser loads the user and looks at its status.
LoginChecks(c) ==
    /\ authCalls[c].op = "login" /\ authCalls[c].stage = "load"
    /\ Answer(c, IF suspended THEN "failed" ELSE "issue")
    /\ UNCHANGED <<suspended, tokens, cookie, access>>

\* rotateRefreshToken loads the token, with its user, whose status it ignores.
RefreshChecks(c) ==
    /\ authCalls[c].op = "refresh" /\ authCalls[c].stage = "load"
    /\ Answer(c, IF authCalls[c].token # 0 /\ tokens[authCalls[c].token].live
                 THEN "issue" ELSE "failed")
    /\ UNCHANGED <<suspended, tokens, cookie, access>>

\* issueTokenPair
Issue(c) ==
    LET call == authCalls[c] IN
    /\ call.stage = "issue"
    /\ tokens' = Append(tokens, [live |-> TRUE,
                                 slipped |-> call.overtaken \/ (call.op = "refresh"
                                                                /\ tokens[call.token].slipped)])
    /\ authCalls' = [authCalls EXCEPT ![c] =
                       [@ EXCEPT !.issued = Len(tokens) + 1,
                                 !.stage = IF call.op = "login" THEN "ok" ELSE "revoke"]]
    /\ UNCHANGED <<suspended, cookie, access>>

\* ... and rotateRefreshToken revokes the presented one.
RevokePresented(c) ==
    /\ authCalls[c].op = "refresh" /\ authCalls[c].stage = "revoke"
    /\ tokens' = [tokens EXCEPT ![authCalls[c].token].live = FALSE]
    /\ Answer(c, "ok")
    /\ UNCHANGED <<suspended, cookie, access>>

\* revokeRefreshToken, for logout
Logout(c) ==
    /\ authCalls[c].op = "logout" /\ authCalls[c].stage = "load"
    /\ tokens' = IF authCalls[c].token = 0 THEN tokens
                 ELSE [tokens EXCEPT ![authCalls[c].token].live = FALSE]
    /\ Answer(c, "ok")
    /\ UNCHANGED <<suspended, cookie, access>>

\* setUserSuspension writes the status, ...
Suspend(c, value) ==
    /\ authCalls[c] = AuthIdle
    /\ suspended' = value
    /\ authCalls' = IF value THEN [authCalls EXCEPT ![c] = [AuthIdle EXCEPT !.op = "suspend",
                                                                           !.stage = "revoke"]]
                    ELSE authCalls
    /\ UNCHANGED <<tokens, cookie, access>>

\* forcePasswordReset and changePassword write a column no session depends on;
\* revokeAllSessions none at all, and it may spare the session that asks, ...
StartRevokeAll(c, spared) ==
    /\ authCalls[c] = AuthIdle
    /\ authCalls' = [authCalls EXCEPT ![c] = [AuthIdle EXCEPT !.op = "revokeAll",
                                                              !.stage = "revoke",
                                                              !.token = spared]]
    /\ UNCHANGED <<suspended, tokens, cookie, access>>

Revoking(call) == call.op \in {"suspend", "revokeAll", "changePassword"} /\ call.stage = "revoke"

\* A changed password is answered to the browser, the others to an administrator
\* or to nobody who waits.
RevocationAnswer(call) ==
    IF call.op = "changePassword" THEN [call EXCEPT !.stage = "ok"] ELSE AuthIdle

\* Mutant: only the session of the browser is revoked.
RevokeCookieOnly(c) ==
    /\ Revoking(authCalls[c])
    /\ tokens' = [i \in 1..Len(tokens) |->
                    [tokens[i] EXCEPT !.live = tokens[i].live /\ i # cookie]]
    /\ authCalls' = [Finish(authCalls, c, AuthIdle) EXCEPT ![c] = RevocationAnswer(authCalls[c])]
    /\ UNCHANGED <<suspended, cookie, access>>

\* ... and then revoke every live token of the user, in one statement.
RevokeAll(c) ==
    /\ Revoking(authCalls[c])
    /\ tokens' = [i \in 1..Len(tokens) |->
                    [tokens[i] EXCEPT !.live = tokens[i].live /\ i = authCalls[c].token]]
    /\ authCalls' = [Finish(authCalls, c, AuthIdle) EXCEPT ![c] = RevocationAnswer(authCalls[c])]
    /\ UNCHANGED <<suspended, cookie, access>>

-----------------------------------------------------------------------------
(* The browser receives.                                                   *)

\* Mutant: a refused login signs the browser out, too.
ReceiveClearing(c) ==
    LET call == authCalls[c] IN
    /\ call.stage \in {"ok", "failed"}
    /\ cookie' = IF call.stage = "ok" THEN call.issued ELSE cookie
    /\ access' = (call.stage = "ok" /\ call.op # "logout")
    /\ authCalls' = [authCalls EXCEPT ![c] = AuthIdle]
    /\ UNCHANGED <<suspended, tokens>>

\* An answer sets or clears the cookie: logout and a changed password clear it.
\* tryRefreshAccessToken clears the access token on any failure; a failed login
\* and a changed password leave it alone; logout clears it.
Receive(c) ==
    LET call == authCalls[c] IN
    /\ call.stage \in {"ok", "failed"}
    /\ cookie' = IF call.stage = "ok" THEN call.issued ELSE cookie
    /\ access' = IF call.op = "logout" THEN FALSE
                 ELSE IF call.op = "changePassword" THEN access
                 ELSE IF call.stage = "ok" THEN TRUE
                 ELSE IF call.op = "refresh" THEN FALSE ELSE access
    /\ authCalls' = [authCalls EXCEPT ![c] = AuthIdle]
    /\ UNCHANGED <<suspended, tokens>>

\* An answer is lost, or the handler died: the browser sees a failure, and the
\* cookie stays what it was.
LoseAnswer(c) ==
    /\ authCalls[c].op \in {"login", "refresh", "logout", "changePassword"}
    /\ authCalls[c].stage # "failed"
    /\ authCalls' = [authCalls EXCEPT ![c] = [@ EXCEPT !.stage = "failed", !.lost = TRUE]]
    /\ UNCHANGED <<suspended, tokens, cookie, access>>

SessionNext ==
    \E c \in Calls :
        \/ SendLogin(c) \/ SendRefresh(c) \/ SendLogout(c) \/ SendChangePassword(c)
        \/ LoginChecks(c) \/ RefreshChecks(c) \/ Issue(c) \/ RevokePresented(c) \/ Logout(c)
        \/ \E value \in BOOLEAN : Suspend(c, value)
        \/ \E spared \in {0, cookie} : StartRevokeAll(c, spared)
        \/ RevokeAll(c)
        \/ Receive(c) \/ LoseAnswer(c)

SessionSpec == SessionInit /\ [][SessionNext]_sessionVars

-----------------------------------------------------------------------------
SessionsTypeOK ==
    /\ suspended \in BOOLEAN
    /\ tokens \in Seq([live : BOOLEAN, slipped : BOOLEAN])
    /\ authCalls \in [Calls -> AuthCall]
    /\ cookie \in 0..Len(tokens)
    /\ access \in BOOLEAN

\* A suspended user, once the suspension has returned, has no live session but
\* those issued by a login or refresh that was past its checks when the sessions
\* were revoked, and their successors: rotateRefreshToken does not look at the
\* status (auth.service.ts:201-214), so such a session can be renewed for ever.
SuspendedSignedOut ==
    suspended /\ (\A c \in Calls : authCalls[c].op # "suspend")
        => \A i \in 1..Len(tokens) : tokens[i].live => tokens[i].slipped

\* The browser drops its access token while its cookie still holds a live
\* session only on logout, when an answer is lost, or when the refused refresh
\* presented a token that another refresh, answered before, had replaced
\* (api.ts:891: any failure clears the token the other one has just set).
SessionDroppedOnlyByRace ==
    [][access /\ ~access' /\ cookie # 0 /\ tokens[cookie].live
         => \E c \in Calls : /\ authCalls[c] # AuthIdle /\ authCalls'[c] = AuthIdle
                             /\ \/ authCalls[c].op = "logout"
                                \/ authCalls[c].lost
                                \/ /\ authCalls[c].op = "refresh"
                                   /\ authCalls[c].token # cookie]_<<access, authCalls>>
=============================================================================
