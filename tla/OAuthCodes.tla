------------------------------- MODULE OAuthCodes -------------------------------
(***************************************************************************)
(* oauth_auth.py: an authorization code becomes a token.  The page the     *)
(* authorization server sends the user back to exchanges it at once; the   *)
(* user may post it by hand as well; others poll for the token.  All run   *)
(* in one event loop, so a handler is one step from await to await.  One   *)
(* client makes one call.                                                  *)
(***************************************************************************)
EXTENDS Naturals

CONSTANTS OAuthSessions, OAuthClients, OAuthLifetimes, OAuthPatience, OAuthMaxTime, Codes

ASSUME LifetimesAreTimes == OAuthLifetimes \subseteq Nat

VARIABLES
    clock,
    oauth,      \* OAuthManager.sessions
    redeemed,   \* the codes the authorization server has taken
    tokenless,  \* sessions whose exchange was answered without a token
    handlers    \* what each client's handler is doing
oauthVars == <<clock, oauth, redeemed, tokenless, handlers>>

NoHandler == [pc |-> "idle", kind |-> "none", session |-> "none", start |-> 0, code |-> "none", answer |-> "none"]

OAuthInit ==
    /\ clock = 0 /\ redeemed = {} /\ tokenless = {}
    /\ oauth = [s \in OAuthSessions |-> [status |-> "none", expires |-> 0, token |-> "none"]]
    /\ handlers = [c \in OAuthClients |-> NoHandler]

OAuthTick == clock < OAuthMaxTime /\ clock' = clock + 1 /\ UNCHANGED <<oauth, redeemed, tokenless, handlers>>

Handles(c, call) == handlers' = [handlers EXCEPT ![c] = call]
Replies(c, answer) == handlers' = [handlers EXCEPT ![c].pc = "done", ![c].answer = answer]
RepliesAtOnce(c, s, kind, answer) ==
    Handles(c, [NoHandler EXCEPT !.pc = "done", !.kind = kind, !.session = s, !.answer = answer])

IsExpired(session) == clock > session.expires

CreateAuthSession(s, ttl) ==
    /\ oauth[s].status = "none"
    /\ oauth' = [oauth EXCEPT ![s].status = "pending", ![s].expires = clock + ttl]
    /\ UNCHANGED <<clock, redeemed, tokenless, handlers>>

GetOauthSession(s) ==
    IF oauth[s].status = "pending" /\ IsExpired(oauth[s]) THEN [oauth EXCEPT ![s].status = "expired"] ELSE oauth

Exchanges(c, s, kind, code) ==
    Handles(c, [NoHandler EXCEPT !.pc = "exchange", !.kind = kind, !.session = s, !.code = code])

(* The callback and the code display page find the session by its state,   *)
(* whatever its age; a code posted by hand is for a session without token. *)
Callback(c, s, code) ==
    /\ handlers[c].pc = "idle" /\ oauth[s].status # "none" /\ Exchanges(c, s, "callback", code)
    /\ UNCHANGED <<clock, oauth, redeemed, tokenless>>

SubmitCode(c, s, code) ==
    /\ handlers[c].pc = "idle" /\ oauth[s].status # "none" /\ oauth' = GetOauthSession(s)
    /\ IF oauth[s].token # "none" THEN RepliesAtOnce(c, s, "submit", "ok") ELSE Exchanges(c, s, "submit", code)
    /\ UNCHANGED <<clock, redeemed, tokenless>>

(* Mutant of Failed: a failed exchange takes the token away.               *)
ForgetsToken(s) == [oauth EXCEPT ![s].status = "error", ![s].token = "none"]

Failed(s) == [oauth EXCEPT ![s].status = "error"]

(* The authorization server takes a code once; a request may fail too.     *)
ExchangeFails(c) ==
    /\ handlers[c].pc = "exchange"
    /\ redeemed' \in {redeemed, redeemed \cup {handlers[c].code}}
    /\ oauth' = Failed(handlers[c].session) /\ Replies(c, "server_error")
    /\ UNCHANGED <<clock, tokenless>>

(* What a successful answer has as a token is stored at once, None if it   *)
(* has none; what else it has may still raise.                             *)
ExchangeCode(c) ==
    /\ handlers[c].pc = "exchange"
    /\ LET s == handlers[c].session
           code == handlers[c].code
       IN \E token \in {"none"} \cup ({code} \ redeemed) :
            /\ redeemed' = redeemed \cup {code}
            /\ tokenless' = IF token = "none" THEN tokenless \cup {s} ELSE tokenless
            /\ \/ /\ oauth' = [oauth EXCEPT ![s].status = "token_acquired", ![s].token = token]
                  /\ handlers' = [handlers EXCEPT ![c].pc = "cloud_id"]
               \/ oauth' = [oauth EXCEPT ![s].status = "error", ![s].token = token] /\ Replies(c, "server_error")
    /\ UNCHANGED clock

(* _fetch_cloud_id swallows its errors.                                    *)
FetchCloudId(c) ==
    /\ handlers[c].pc = "cloud_id" /\ Replies(c, "ok")
    /\ UNCHANGED <<clock, oauth, redeemed, tokenless>>

OauthWaits(session) == session.token = "none" /\ ~IsExpired(session) /\ session.status # "error"

OauthResult(session) ==
    IF session.token # "none" THEN "ok" ELSE IF session.status = "error" THEN "server_error" ELSE "gone"

OauthPoll(c, s) ==
    /\ handlers[c].pc = "idle" /\ oauth[s].status # "none" /\ oauth' = GetOauthSession(s)
    /\ IF OauthWaits(oauth'[s])
       THEN Handles(c, [NoHandler EXCEPT !.pc = "polling", !.kind = "poll", !.session = s, !.start = clock])
       ELSE RepliesAtOnce(c, s, "poll", OauthResult(oauth'[s]))
    /\ UNCHANGED <<clock, redeemed, tokenless>>

OauthPollAgain(c) ==
    /\ handlers[c].pc = "polling"
    /\ LET session == oauth[handlers[c].session]
       IN IF ~OauthWaits(session) THEN Replies(c, OauthResult(session))
          ELSE clock - handlers[c].start > OAuthPatience /\ Replies(c, "timeout")
    /\ UNCHANGED <<clock, oauth, redeemed, tokenless>>

OAuthNext ==
    \/ OAuthTick
    \/ \E s \in OAuthSessions :
          \/ \E ttl \in OAuthLifetimes : CreateAuthSession(s, ttl)
          \/ \E c \in OAuthClients : OauthPoll(c, s) \/ \E code \in Codes : Callback(c, s, code) \/ SubmitCode(c, s, code)
    \/ \E c \in OAuthClients : ExchangeCode(c) \/ ExchangeFails(c) \/ FetchCloudId(c) \/ OauthPollAgain(c)

OAuthSpec == OAuthInit /\ [][OAuthNext]_oauthVars

-----------------------------------------------------------------------------
(* Once somebody has been told that the sign-in succeeded, by the page the *)
(* user came back to or after posting the code, no poll of that session is *)
(* told otherwise: neither expiry nor the failure of another exchange, of  *)
(* the same code or a later one, takes it back.  Only an answer of the     *)
(* authorization server without a token does, which is a success as well.  *)
ToldOfSuccess(s) ==
    \E d \in OAuthClients : handlers[d].kind \in {"callback", "submit"} /\ handlers[d].answer = "ok" /\ handlers[d].session = s
PollSeesSuccess(c) ==
    /\ handlers'[c].kind = "poll" /\ handlers'[c].answer # handlers[c].answer
    /\ ToldOfSuccess(handlers'[c].session) /\ handlers'[c].session \notin tokenless
    => handlers'[c].answer = "ok"
PollsSeeSuccess == [][\A c \in OAuthClients : PollSeesSuccess(c)]_oauthVars
=============================================================================
