------------------------------- MODULE SignIn --------------------------------
(***************************************************************************)
(* Signing in with GitHub, the sessions, and signing out.  A browser has   *)
(* two cookies, the state of a sign-in and the token of a session; several *)
(* of its requests may be under way at once.  A request carries the        *)
(* cookies of the time it was sent, and the cookies its answer sets reach  *)
(* the browser when the answer does, in any order, or never.               *)
(*                                                                         *)
(* A sign-in is a flow: its number stands for the state token, for the     *)
(* code GitHub gives out at its end, and for the session made from it.     *)
(***************************************************************************)
EXTENDS RateLimit

CONSTANTS
    Browser, User, Slot,  \* browsers, GitHub users, requests under way
    Addr,                 \* [Browser -> Ip]
    MaxFlows,             \* bound: sign-ins begun
    MaxFaults             \* bound: failing calls and statements

Flow == 1 .. MaxFlows
None == 0

VARIABLES
    jar,      \* [Browser -> [state, session: Flow or None]]
    flows,    \* [Flow -> [by: Browser, user: User or Nil, code: its state]]
    session,  \* [Flow -> "none", "live", "expired" or "destroyed"]
    active,   \* users whose status is active
    req,      \* [Slot -> the request]
    faults

server == <<session, active>>
vars   == <<limiter, jar, flows, server, req, faults>>

Begun == {f \in Flow : flows[f].by # Nil}

(* What an answer does to a cookie: Keep it, or set it (None to clear). *)
Keep == -1

(* A request, at a step of its handler, with the cookies it came with. *)
Request ==
    [step : {"exchange", "refused", "fetch", "auth", "validate", "leave", "destroy"},
     from : Browser, flow : Flow \cup {None}, session : Flow \cup {None}]

(* Its answer, on the way back. *)
Response ==
    [step : {"answer"}, from : Browser, setState : Flow \cup {None, Keep},
     setSession : Flow \cup {None, Keep}]

ASSUME SignInAssumption ==
    /\ Addr \in [Browser -> Ip]
    /\ MaxFlows \in Nat /\ MaxFaults \in Nat
    /\ Nil \notin Browser \cup Request \cup Response

Init ==
    /\ LimiterInit
    /\ jar = [b \in Browser |-> [state |-> None, session |-> None]]
    /\ flows = [f \in Flow |-> [by |-> Nil, user |-> Nil, code |-> "none"]]
    /\ session = [f \in Flow |-> "none"]
    /\ active = User
    /\ req = [i \in Slot |-> Nil]
    /\ faults = 0

Fault == faults < MaxFaults /\ faults' = faults + 1

(* The row is there, it has not expired and the account is active. *)
Valid(s) == s # None /\ session[s] = "live" /\ flows[s].user \in active

Send(i, b, step, f) ==
    req' = [req EXCEPT ![i] = [step |-> step, from |-> b, flow |-> f, session |-> jar[b].session]]

Respond(i, b, st, se) ==
    req' = [req EXCEPT ![i] = [step |-> "answer", from |-> b, setState |-> st, setSession |-> se]]

At(i, step) == req[i] # Nil /\ req[i].step = step

Goto(i, step) == req' = [req EXCEPT ![i].step = step]

Answer(i, st, se) == Respond(i, req[i].from, st, se)

(* All the cookies are cleared, so that the user can try again. *)
clearAndRedirect(i) == Answer(i, None, None)

-----------------------------------------------------------------------------
(* Signing in. *)

(* GET /auth/github, behind the limiter: a new state, in a cookie. *)
oauthStartHandler(i, b) ==
    /\ req[i] = Nil
    /\ allow(Addr[b])
    /\ \E f \in Flow :
          /\ f \notin Begun /\ \A g \in 1 .. f - 1 : g \in Begun
          /\ flows' = [flows EXCEPT ![f].by = b]
          /\ Respond(i, b, f, Keep)
    /\ UNCHANGED <<jar, server, faults>>

(* The same request, turned away by the limiter, or with an answer that is  *)
(* not waited for.                                                          *)
StartInVain(b) ==
    /\ allow(Addr[b]) \/ deny(Addr[b])
    /\ UNCHANGED <<jar, flows, server, req, faults>>

(* GitHub: the user approves, and is sent back with a code. *)
Authorize(f, u) ==
    /\ f \in Begun /\ flows[f].code = "none"
    /\ flows' = [flows EXCEPT ![f].user = u, ![f].code = "ready"]
    /\ UNCHANGED <<limiter, jar, server, req, faults>>

(* Wrong variant: the cookie is not compared. *)
StateUnchecked(b, f) == TRUE

(* The state of the address must be the one in the cookie. *)
CheckState(b, f) == jar[b].state = f

(* The callback address is opened: by the browser of the flow, once or      *)
(* again, or by one it was passed on to.  With another state than that of   *)
(* the cookie, or without a cookie, all the cookies are cleared.            *)
OpenCallback(i, b, f) ==
    /\ flows[f].code # "none" /\ req[i] = Nil
    /\ IF CheckState(b, f) THEN Send(i, b, "exchange", f) ELSE Respond(i, b, None, None)
    /\ UNCHANGED <<limiter, jar, flows, server, faults>>

(* GitHub takes a code once; the answer may be lost on the way. *)
ExchangeCode(i) ==
    /\ At(i, "exchange")
    /\ LET f == req[i].flow
       IN  \/ flows[f].code = "ready" /\ Goto(i, "fetch")
              /\ flows' = [flows EXCEPT ![f].code = "spent"] /\ UNCHANGED faults
           \/ flows[f].code = "spent" /\ Goto(i, "refused") /\ UNCHANGED <<flows, faults>>
           \/ Fault /\ Goto(i, "refused")
              /\ flows' \in {flows, [flows EXCEPT ![f].code = "spent"]}
    /\ UNCHANGED <<limiter, jar, server>>

(* The exchange failed: a browser that has a session goes on with it. *)
ExchangeRefused(i) ==
    /\ At(i, "refused")
    /\ \/ /\ IF Valid(req[i].session) THEN Answer(i, None, Keep) ELSE clearAndRedirect(i)
          /\ UNCHANGED faults
       \/ Fault /\ clearAndRedirect(i)
    /\ UNCHANGED <<limiter, jar, flows, server>>

(* The profile of the user; without it all the cookies are cleared. *)
FetchUser(i) ==
    /\ At(i, "fetch")
    /\ \/ Goto(i, "auth") /\ UNCHANGED faults
       \/ Fault /\ clearAndRedirect(i)
    /\ UNCHANGED <<limiter, jar, flows, server>>

(* One row for one sign-in: its id is the hash of a new random token. *)
CreateRow(f) == session' = [session EXCEPT ![f] = "live"]

(* The tenant is upserted and a session made; the token is handed out only  *)
(* if the account is active.                                                *)
AuthenticateUser(i) ==
    /\ At(i, "auth")
    /\ LET f == req[i].flow
       IN  \/ /\ CreateRow(f)
              /\ Answer(i, None, IF flows[f].user \in active THEN f ELSE Keep)
              /\ UNCHANGED faults
           \/ Fault /\ clearAndRedirect(i) /\ UNCHANGED session
    /\ UNCHANGED <<limiter, jar, flows, active>>

-----------------------------------------------------------------------------
(* With a session. *)

(* A page or an API route behind RequireAuth, or POST /auth/signout, which  *)
(* is behind it too.  Without the cookie there is nothing to do.            *)
OpenPage(i, b, step) ==
    /\ step \in {"validate", "leave"} /\ req[i] = Nil /\ jar[b].session # None
    /\ Send(i, b, step, None)
    /\ UNCHANGED <<limiter, jar, flows, server, faults>>

(* RequireAuth takes the cookie away after any error of ValidateSession. *)
RequireAuth(i, ok) ==
    \/ ~ok /\ Answer(i, Keep, None)
    \/ ok /\ req[i].step = "validate" /\ Answer(i, Keep, Keep)
    \/ ok /\ req[i].step = "leave" /\ Goto(i, "destroy")

ValidateSession(i) ==
    /\ At(i, "validate") \/ At(i, "leave")
    /\ \/ RequireAuth(i, Valid(req[i].session)) /\ UNCHANGED faults
       \/ Fault /\ Answer(i, Keep, None)
    /\ UNCHANGED <<limiter, jar, flows, server>>

(* GET /auth/reset asks for no valid session. *)
OpenReset(i, b) ==
    /\ req[i] = Nil
    /\ IF jar[b].session = None THEN Respond(i, b, Keep, None)
       ELSE Send(i, b, "destroy", None)
    /\ UNCHANGED <<limiter, jar, flows, server, faults>>

DestroyRow(s) == session' = [session EXCEPT ![s] = "destroyed"]

(* signoutHandler: an error of DestroySession is dropped, the cookie goes   *)
(* all the same.                                                            *)
DestroySession(i) ==
    /\ At(i, "destroy")
    /\ Answer(i, Keep, None)
    /\ \/ DestroyRow(req[i].session) /\ UNCHANGED faults
       \/ Fault /\ UNCHANGED session
    /\ UNCHANGED <<limiter, jar, flows, active>>

-----------------------------------------------------------------------------
(* The browser and the rest of the world. *)

Set(old, new) == IF new = Keep THEN old ELSE new

Receive(i) ==
    /\ At(i, "answer")
    /\ jar' = [jar EXCEPT ![req[i].from] = [state |-> Set(@.state, req[i].setState),
                                            session |-> Set(@.session, req[i].setSession)]]
    /\ req' = [req EXCEPT ![i] = Nil]
    /\ UNCHANGED <<limiter, flows, server, faults>>

(* The user navigates away, or the connection breaks. *)
AnswerLost(i) ==
    /\ At(i, "answer") /\ Fault
    /\ req' = [req EXCEPT ![i] = Nil]
    /\ UNCHANGED <<limiter, jar, flows, server>>

(* Ten minutes go by. *)
StateExpires(b) ==
    /\ jar[b].state # None
    /\ jar' = [jar EXCEPT ![b].state = None]
    /\ UNCHANGED <<limiter, flows, server, req, faults>>

(* sessionTTL goes by; the cookie, set after the row, outlives it. *)
SessionExpires(f) ==
    /\ session[f] = "live"
    /\ session' = [session EXCEPT ![f] = "expired"]
    /\ UNCHANGED <<limiter, jar, flows, active, req, faults>>

UpdateStatus(u) ==
    /\ active' = IF u \in active THEN active \ {u} ELSE active \cup {u}
    /\ UNCHANGED <<limiter, jar, flows, session, req, faults>>

Tick ==
    /\ LimiterTick
    /\ UNCHANGED <<jar, flows, server, req, faults>>

Forget == Sweep /\ UNCHANGED <<jar, flows, server, req, faults>>

Handle(i) ==
    \/ ExchangeCode(i) \/ ExchangeRefused(i) \/ FetchUser(i) \/ AuthenticateUser(i)
    \/ ValidateSession(i) \/ DestroySession(i)

Next ==
    \/ \E i \in Slot :
          \/ Handle(i) \/ Receive(i) \/ AnswerLost(i)
          \/ \E b \in Browser :
                \/ oauthStartHandler(i, b) \/ OpenReset(i, b)
                \/ \E f \in Flow : OpenCallback(i, b, f)
                \/ \E step \in {"validate", "leave"} : OpenPage(i, b, step)
    \/ \E f \in Flow, u \in User : Authorize(f, u)
    \/ \E b \in Browser : StateExpires(b) \/ StartInVain(b)
    \/ \E f \in Flow : SessionExpires(f)
    \/ \E u \in User : UpdateStatus(u)
    \/ Tick \/ Forget

Spec == Init /\ [][Next]_vars

-----------------------------------------------------------------------------
(* The types of the limiter, the cookies, the flows and the requests. *)
TypeOK ==
    /\ LimiterTypeOK
    /\ jar \in [Browser -> [state : Flow \cup {None}, session : Flow \cup {None}]]
    /\ flows \in [Flow -> [by : Browser \cup {Nil}, user : User \cup {Nil},
                           code : {"none", "ready", "spent"}]]
    /\ session \in [Flow -> {"none", "live", "expired", "destroyed"}]
    /\ active \subseteq User
    /\ req \in [Slot -> Request \cup Response \cup {Nil}]
    /\ faults \in 0 .. MaxFaults

(* A browser has, or is about to be given, a session only from a sign-in    *)
(* that it began itself: a callback address opened in another browser does  *)
(* not sign that browser in.                                                *)
OwnSession ==
    /\ \A b \in Browser : jar[b].session # None => flows[jar[b].session].by = b
    /\ \A i \in Slot : At(i, "answer") /\ req[i].setSession \in Flow
                         => flows[req[i].setSession].by = req[i].from
=============================================================================
