------------------------------ MODULE RemoteAuth ------------------------------
(***************************************************************************)
(* Cookies for the sidecar's browser from somebody else's browser: the     *)
(* sessions and the relay page of remote_auth.py, and the handlers of      *)
(* server.py that wait for the cookies and inject them.  All run in one    *)
(* event loop, so a handler is one step from await to await.               *)
(*                                                                         *)
(* A session is told apart by its name alone, and its domain goes with it; *)
(* the cookies of one submission are a number, 0 for an empty list.  The   *)
(* jar of the browser has the sessions some cookie of which is in it.  One *)
(* client makes one call.  The Gateway's commands, which do not take the request lock, are  *)
(* in BrowserTools.                                                        *)
(***************************************************************************)
EXTENDS Naturals, FiniteSets

CONSTANTS
    AuthSessions, AuthClients,
    TargetDomain,   \* the domain of each session
    Lifetimes,      \* ttl of a session
    Patience,       \* timeout of a poll
    MaxTime,        \* bound of the clock
    Submissions     \* how many different sets of cookies users send

ASSUME AuthAssumption == "none" \notin AuthClients \cup AuthSessions /\ Lifetimes \subseteq Nat /\ Submissions \in Nat

VARIABLES
    now,
    auth,       \* AuthSessionManager.sessions; a session removed from it is not listed
    relay,      \* a relay page, in some user's browser
    calls,      \* what each client's handler is doing
    requestLock,    \* the client whose handler holds _request_lock, or none
    browser     \* page and jar of the sidecar's browser
authVars == <<now, auth, relay, calls, requestLock, browser>>

Elsewhere == <<"none", "other">>
NoCall == [pc |-> "idle", session |-> "none", start |-> 0, cleared |-> FALSE, arrived |-> FALSE, answer |-> "none"]

AuthInit ==
    /\ now = 1     \* 0 is the time of what has not happened
    /\ auth = [s \in AuthSessions |-> [listed |-> FALSE, status |-> "none", expires |-> 0, cookies |-> 0, completedAt |-> 0]]
    /\ relay = [pc |-> "closed", session |-> "none", cookies |-> 0]
    /\ calls = [c \in AuthClients |-> NoCall]
    /\ requestLock = "none" /\ browser = [page |-> Elsewhere, jar |-> {}]

Expired(session) == now > session.expires
Tick == now < MaxTime /\ now' = now + 1 /\ UNCHANGED <<auth, relay, calls, requestLock, browser>>

-----------------------------------------------------------------------------
(* AuthSessionManager *)

(* get_session: an expired session is marked so, a completed one as well.  *)
GetSession(s) ==
    IF auth[s].listed /\ Expired(auth[s]) THEN [auth EXCEPT ![s].status = "expired"] ELSE auth

CleanupExpired(sessions) ==
    [s \in AuthSessions |-> IF sessions[s].listed /\ Expired(sessions[s]) /\ sessions[s].status # "completed"
                            THEN [sessions[s] EXCEPT !.listed = FALSE] ELSE sessions[s]]

CreateSession(s, ttl) ==
    [CleanupExpired(auth) EXCEPT ![s].listed = TRUE, ![s].status = "pending", ![s].expires = now + ttl]

AuthRequest(s, ttl) ==
    /\ auth[s].status = "none" /\ auth' = CreateSession(s, ttl)
    /\ UNCHANGED <<now, relay, calls, requestLock, browser>>

AuthStatus(s) ==
    /\ auth' = GetSession(s) /\ auth' # auth
    /\ UNCHANGED <<now, relay, calls, requestLock, browser>>

Accepts(s) == auth[s].listed /\ ~Expired(auth[s])

CompleteSession(s, cookies) ==
    IF ~Accepts(s) \/ auth[s].status = "completed" THEN GetSession(s)
    ELSE [auth EXCEPT ![s].status = "completed", ![s].cookies = cookies, ![s].completedAt = now]

(* A client other than the relay page posts cookies, or no cookies.        *)
SubmitCookies(s, cookies) ==
    /\ auth[s].listed /\ auth' = CompleteSession(s, cookies) /\ auth' # auth
    /\ UNCHANGED <<now, relay, calls, requestLock, browser>>

-----------------------------------------------------------------------------
(* The relay page in the user's browser *)

RelayGoes(pc) == relay' = [relay EXCEPT !.pc = pc] /\ UNCHANGED <<now, calls, requestLock, browser>>

OpenRelay(s) ==
    /\ relay.pc = "closed" /\ auth[s].listed /\ auth' = GetSession(s)
    /\ relay' = [relay EXCEPT !.pc = "checking", !.session = s] /\ UNCHANGED <<now, calls, requestLock, browser>>

(* init(): the page asks for the status; the request may fail.             *)
RelayChecks ==
    /\ relay.pc = "checking" /\ auth' = GetSession(relay.session)
    /\ LET s == relay.session
       IN \/ RelayGoes(IF ~auth[s].listed THEN "error" ELSE IF auth'[s].status = "completed" THEN "done" ELSE "ready")
          \/ RelayGoes("error")

RelayCaptures(cookies) ==
    /\ relay.pc = "ready" /\ cookies # 0
    /\ relay' = [relay EXCEPT !.pc = "sending", !.cookies = cookies]
    /\ UNCHANGED <<now, auth, calls, requestLock, browser>>

(* The request or the answer may be lost: the user can try again, with     *)
(* what the page captures then.                                            *)
RelaySent ==
    /\ relay.pc = "sending"
    /\ \/ /\ auth' = CompleteSession(relay.session, relay.cookies)
          /\ RelayGoes(IF Accepts(relay.session) THEN "done" ELSE "ready") \/ RelayGoes("ready")
       \/ auth' = auth /\ RelayGoes("ready")

-----------------------------------------------------------------------------
(* Handlers that inject *)

Calls(c, call) == calls' = [calls EXCEPT ![c] = call]
Answers(c, answer) == Calls(c, [NoCall EXCEPT !.pc = "done", !.answer = answer])
Goes(c, pc) == calls' = [calls EXCEPT ![c].pc = pc, ![c].start = 0]
NewCall(c, s, pc) == Calls(c, [NoCall EXCEPT !.pc = pc, !.session = s, !.start = now])

(* The plain inject hands the cookies out.                                 *)
AuthInject(c, s) ==
    /\ calls[c].pc = "idle" /\ auth' = GetSession(s)
    /\ Answers(c, IF ~auth[s].listed THEN "not_found" ELSE IF auth'[s].status # "completed" THEN "bad_request" ELSE "cookies")
    /\ UNCHANGED <<now, relay, requestLock, browser>>

InjectWithBrowser(c, s) ==
    /\ calls[c].pc = "idle" /\ auth' = GetSession(s)
    /\ IF ~auth[s].listed THEN Answers(c, "not_found")
       ELSE IF auth'[s].status # "completed" \/ auth[s].cookies = 0 THEN Answers(c, "bad_request")
       ELSE NewCall(c, s, "lock")
    /\ UNCHANGED <<now, relay, requestLock, browser>>

(* The loop of auth_poll_and_inject_handler from one sleep to the next.    *)
(* A session that was removed meanwhile is None, which has no status.      *)
PollLoop(c, s, session, found) ==
    CASE ~found -> Answers(c, "server_error")
      [] found /\ Expired(session) -> Answers(c, "gone")
      [] found /\ ~Expired(session) /\ session.status = "completed" -> Goes(c, "lock")
      [] OTHER -> IF now - calls[c].start > Patience THEN Answers(c, "timeout") ELSE UNCHANGED calls

PollAndInject(c, s) ==
    /\ calls[c].pc = "idle" /\ auth' = GetSession(s)
    /\ IF ~auth[s].listed THEN Answers(c, "not_found") ELSE NewCall(c, s, "polling")
    /\ UNCHANGED <<now, relay, requestLock, browser>>

PollAgain(c) ==
    /\ calls[c].pc = "polling"
    /\ LET s == calls[c].session IN auth' = GetSession(s) /\ PollLoop(c, s, auth'[s], auth[s].listed)
    /\ UNCHANGED <<now, relay, requestLock, browser>>

(* Mutant of TakeLock: nobody waits.                                       *)
TakesNoLock(c) ==
    /\ calls[c].pc = "lock" /\ requestLock' = c /\ Goes(c, "domain")
    /\ UNCHANGED <<now, auth, relay, browser>>

TakeLock(c) ==
    /\ calls[c].pc = "lock" /\ requestLock = "none" /\ requestLock' = c /\ Goes(c, "domain")
    /\ UNCHANGED <<now, auth, relay, browser>>

(* A failed navigation is reported in a result that is not looked at; one  *)
(* to the domain may end on another (a login page).                        *)
NavigateToDomain(c) ==
    /\ calls[c].pc = "domain" /\ Goes(c, "cookies")
    /\ \E page \in {browser.page, <<calls[c].session, "domain">>, Elsewhere} : browser' = [browser EXCEPT !.page = page]
    /\ UNCHANGED <<now, auth, relay, requestLock>>

(* Anything that raises ends the call, whatever was done before.           *)
InjectionFails(c) == Answers(c, "server_error") /\ requestLock' = "none"
BreaksOff(c) ==
    /\ calls[c].pc \in {"domain", "cookies", "target"} /\ InjectionFails(c)
    /\ UNCHANGED <<now, auth, relay, browser>>

(* Selenium deletes the cookies of the page's domain, Playwright all.  Of  *)
(* the session's cookies some are set, or none: a failure is only logged.  *)
SameDomain(s) == {t \in AuthSessions : TargetDomain[t] = TargetDomain[s]}
CookiesOf(page) == IF page = Elsewhere THEN {} ELSE SameDomain(page[1])
ReplaceCookies(c) ==
    /\ calls[c].pc = "cookies"
    /\ LET s == calls[c].session
       IN \E deleted \in {CookiesOf(browser.page), AuthSessions}, set \in SUBSET {t \in {s} : auth[t].cookies # 0} :
            /\ browser' = [browser EXCEPT !.jar = (@ \ deleted) \cup set]
            /\ \/ calls' = [calls EXCEPT ![c].pc = "target", ![c].cleared = SameDomain(s) \subseteq deleted]
                  /\ UNCHANGED requestLock
               \/ InjectionFails(c)
    /\ UNCHANGED <<now, auth, relay>>

NavigateToTarget(c) ==
    /\ calls[c].pc = "target"
    /\ \E arrives \in BOOLEAN :
          /\ calls' = [calls EXCEPT ![c].pc = "answering", ![c].arrived = arrives]
          /\ browser' = IF arrives THEN [browser EXCEPT !.page = <<calls[c].session, "target">>] ELSE browser
    /\ UNCHANGED <<now, auth, relay, requestLock>>

AnswerInjected(c) ==
    /\ calls[c].pc = "answering" /\ Answers(c, "ok") /\ requestLock' = "none"
    /\ UNCHANGED <<now, auth, relay, browser>>

(* Another request of the sidecar's API navigates.                         *)
OtherRequest ==
    /\ requestLock = "none" /\ browser.page # Elsewhere /\ browser' = [browser EXCEPT !.page = Elsewhere]
    /\ UNCHANGED <<now, auth, relay, calls, requestLock>>

AuthNext ==
    \/ Tick \/ OtherRequest \/ RelayChecks \/ RelaySent \/ \E cookies \in 0 .. Submissions : RelayCaptures(cookies)
    \/ \E s \in AuthSessions :
          \/ \E ttl \in Lifetimes : AuthRequest(s, ttl)
          \/ AuthStatus(s) \/ OpenRelay(s)
          \/ \E cookies \in 0 .. Submissions : SubmitCookies(s, cookies)
          \/ \E c \in AuthClients : AuthInject(c, s) \/ InjectWithBrowser(c, s) \/ PollAndInject(c, s)
    \/ \E c \in AuthClients :
          \/ PollAgain(c) \/ TakeLock(c) \/ NavigateToDomain(c) \/ ReplaceCookies(c) \/ NavigateToTarget(c) \/ AnswerInjected(c)
          \/ BreaksOff(c)

AuthSpec == AuthInit /\ [][AuthNext]_authVars

-----------------------------------------------------------------------------
(* When an injection is about to be answered, the browser has no cookies   *)
(* of another session for the domain, if it could be brought there to      *)
(* delete them; what was set was sent before the session expired; and it   *)
(* is on the target, if that could be reached.  Injections do not mix,     *)
(* with each other and with other requests, whatever fails in between.     *)
InjectsItsSession ==
    \A c \in AuthClients : calls[c].pc = "answering" =>
        LET s == calls[c].session
        IN /\ calls[c].cleared => browser.jar \cap SameDomain(s) \subseteq {s}
           /\ auth[s].completedAt <= auth[s].expires
           /\ calls[c].arrived => browser.page = <<s, "target">>
=============================================================================
