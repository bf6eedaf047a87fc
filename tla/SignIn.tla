------------------------------- MODULE SignIn -------------------------------
(***************************************************************************)
(* The round trip of a Google sign-in (google_auth, routers/google_auth):   *)
(* browsers start sign-ins in several tabs, each of which replaces the one  *)
(* flow cookie, people choose an account at Google, and the addresses that  *)
(* Google sends them back to are opened late, again, or somewhere else.     *)
(* What a sign-in writes about users and grants is in Access.               *)
(*                                                                         *)
(* A flow stands for its state, its nonce and its PKCE verifier, which are  *)
(* drawn together and fresh each time.                                      *)
(***************************************************************************)
EXTENDS Integers, FiniteSets

CONSTANTS
    Flows,          \* sign-ins that may be started
    Browsers,
    People,         \* Google accounts
    Admitted,       \* those in the Workspace or invited, with a verified address
    Calls,          \* callback requests in progress
    MaxKey,         \* bound on the changes of the encryption key
    Nobody

ASSUME SignInAssumption == Admitted \subseteq People /\ MaxKey \in Nat /\ Nobody \notin Flows \cup Browsers \cup People

VARIABLES
    attempt,    \* per flow: the browser that started it and what Google knows of it
    flow_cookie,
    key_era,    \* the platform_token_encryption_key of this deployment
    callback,   \* the callback requests in progress
    held,       \* per browser: the session its cookie names
    made,       \* per flow: the sessions made of its code
    failed,     \* flows whose own browser was refused
    excused     \* flows that met one of the reasons a refusal may have

signInVars == <<attempt, flow_cookie, key_era, callback, held, made, failed, excused>>

NoCookie == [flow |-> Nobody, key |-> 0]
NoCall == [pc |-> "idle", browser |-> Nobody, flow |-> Nobody, url |-> Nobody]

SignInInit ==
    /\ attempt = [f \in Flows |-> [browser |-> Nobody, person |-> Nobody, code |-> "none"]]
    /\ flow_cookie = [b \in Browsers |-> NoCookie]
    /\ key_era = 0
    /\ callback = [c \in Calls |-> NoCall]
    /\ held = [b \in Browsers |-> [person |-> Nobody, flow |-> Nobody]]
    /\ made = [f \in Flows |-> 0]
    /\ failed = {} /\ excused = {}

Of(b) == {f \in Flows : attempt[f].browser = b}

\* A state, a nonce and a verifier that no other sign-in has.
initiate(f) == attempt[f].browser = Nobody

\* GET /login: the new flow goes into the browser's one flow cookie.
google_login(b, f) ==
    /\ initiate(f)
    /\ attempt' = [attempt EXCEPT ![f].browser = b]
    /\ flow_cookie' = [flow_cookie EXCEPT ![b] = [flow |-> f, key |-> key_era]]
    /\ excused' = excused \cup Of(b)
    /\ UNCHANGED <<key_era, callback, held, made, failed>>

\* At Google: an account is chosen, or the sign-in is given up; either way the
\* browser is sent back.
Choose(f, p) ==
    /\ attempt[f].browser # Nobody /\ attempt[f].code = "none"
    /\ attempt' = [attempt EXCEPT ![f].person = p, ![f].code = "fresh"]
    /\ UNCHANGED <<flow_cookie, key_era, callback, held, made, failed, excused>>

GiveUp(f) ==
    /\ attempt[f].browser # Nobody /\ attempt[f].code = "none"
    /\ attempt' = [attempt EXCEPT ![f].code = "error"]
    /\ excused' = excused \cup {f}
    /\ UNCHANGED <<flow_cookie, key_era, callback, held, made, failed>>

\* Mutant: the flow is looked up by the state that comes back.
FlowOfState(b, url) == url

\* The flow of a request is the one in the browser's cookie.
_load_flow(b, url) == flow_cookie[b].flow

\* The cookie can be read: it was encrypted with the key in use.
decrypt_token(b) == flow_cookie[b] # NoCookie /\ flow_cookie[b].key = key_era

\* What complete asks of the address before it turns to Google: its state is that of
\* the flow, and it brings a code.
complete(flow, url) == flow = url /\ attempt[url].code # "error"

\* Mutant: a refusal takes the flow cookie away.
CookieDropped(b) == [flow_cookie EXCEPT ![b] = NoCookie]

\* A refusal sets no cookie.
CookieAfterRefusal(b) == flow_cookie

\* A request ends with an error; the page of the browser that started it shows it.
Refuse(b, url) ==
    /\ flow_cookie' = CookieAfterRefusal(b)
    /\ failed' = IF b = attempt[url].browser THEN failed \cup {url} ELSE failed

\* GET /callback up to the exchange.  The address of a flow is opened in the browser
\* it belongs to or in another, for the first time or again.
callback_start(c, b, url) ==
    LET flow == _load_flow(b, url) IN
    /\ callback[c].pc = "idle" /\ attempt[url].code # "none"
    /\ IF decrypt_token(b) /\ complete(flow, url)
       THEN /\ callback' = [callback EXCEPT ![c] = [pc |-> "exchange", browser |-> b, flow |-> flow, url |-> url]]
            /\ UNCHANGED <<flow_cookie, failed>>
       ELSE Refuse(b, url) /\ UNCHANGED callback
    /\ UNCHANGED <<attempt, key_era, held, made, excused>>

\* Google gives the token of a code once, to who has its verifier.
Redeems(call) == attempt[call.url].code = "fresh" /\ call.flow = call.url

\* The POST to the token endpoint; it may fail or its answer come too late.
callback_exchange(c) ==
    LET call == callback[c] IN
    /\ call.pc = "exchange"
    /\ \/ /\ Redeems(call)
          /\ callback' = [callback EXCEPT ![c].pc = "verify"]
          /\ UNCHANGED <<flow_cookie, failed, excused>>
       \/ /\ callback' = [callback EXCEPT ![c] = NoCall]
          /\ excused' = excused \cup {call.url}
          /\ Refuse(call.browser, call.url)
    /\ attempt' = IF attempt[call.url].code = "fresh" /\ call.flow = call.url
                  THEN [attempt EXCEPT ![call.url].code = "spent"] ELSE attempt
    /\ UNCHANGED <<key_era, held, made>>

\* The nonce of the token is that of its flow, and the account is admitted.
Verified(call) == call.flow = call.url /\ attempt[call.url].person \in Admitted

\* verify_id_token and the transaction of the session.  Google's keys may be out of
\* reach, and the transaction may fail.
callback_verify(c) ==
    LET call == callback[c] IN
    /\ call.pc = "verify"
    /\ \/ /\ Verified(call)
          /\ made' = [made EXCEPT ![call.url] = @ + 1]
          /\ callback' = [callback EXCEPT ![c].pc = "reply"]
          /\ UNCHANGED <<flow_cookie, failed, excused>>
       \/ /\ callback' = [callback EXCEPT ![c] = NoCall]
          /\ excused' = excused \cup {call.url}
          /\ Refuse(call.browser, call.url)
          /\ UNCHANGED made
    /\ UNCHANGED <<attempt, key_era, held>>

\* The answer sets the session cookie and deletes the flow cookie, whichever flow it
\* holds by now; or it is lost.
callback_reply(c) ==
    LET call == callback[c] IN
    /\ call.pc = "reply"
    /\ callback' = [callback EXCEPT ![c] = NoCall]
    /\ \/ /\ held' = [held EXCEPT ![call.browser] = [person |-> attempt[call.url].person, flow |-> call.url]]
          /\ flow_cookie' = [flow_cookie EXCEPT ![call.browser] = NoCookie]
          /\ excused' = excused \cup Of(call.browser)
       \/ UNCHANGED <<held, flow_cookie, excused>>
    /\ UNCHANGED <<attempt, key_era, made, failed>>

\* The ten minutes of the cookie are over.
CookieExpires(b) ==
    /\ flow_cookie[b] # NoCookie
    /\ flow_cookie' = [flow_cookie EXCEPT ![b] = NoCookie]
    /\ excused' = excused \cup {flow_cookie[b].flow}
    /\ UNCHANGED <<attempt, key_era, callback, held, made, failed>>

\* A deployment with another encryption key; requests in progress end first or are
\* cut off.
ChangeKey ==
    /\ key_era < MaxKey /\ key_era' = key_era + 1
    /\ excused' = excused \cup {f \in Flows : attempt[f].browser # Nobody}
    /\ callback' = [c \in Calls |-> NoCall]
    /\ UNCHANGED <<attempt, flow_cookie, held, made, failed>>

SignInNext ==
    \/ \E b \in Browsers, f \in Flows : google_login(b, f)
    \/ \E f \in Flows, p \in People : Choose(f, p)
    \/ \E f \in Flows : GiveUp(f)
    \/ \E c \in Calls, b \in Browsers, f \in Flows : callback_start(c, b, f)
    \/ \E c \in Calls : callback_exchange(c) \/ callback_verify(c) \/ callback_reply(c)
    \/ \E b \in Browsers : CookieExpires(b)
    \/ ChangeKey

SignInSpec == SignInInit /\ [][SignInNext]_signInVars

-----------------------------------------------------------------------------
\* Whoever opens whichever address when: a browser's session is that of the account
\* which was chosen in a sign-in this browser started (google_callback).
OwnSignIn ==
    \A b \in Browsers : held[b].flow # Nobody =>
        /\ attempt[held[b].flow].browser = b
        /\ attempt[held[b].flow].person = held[b].person
        /\ held[b].person \in Admitted

\* One choice of an account makes one session at most, though its address is opened
\* in two tabs at once or loaded again before the first answer.
OneSessionPerSignIn == \A f \in Flows : made[f] <= 1

\* The sessions of a browser are those its own sign-ins made, one each.
SessionsOfSignIns == OwnSignIn /\ OneSessionPerSignIn

\* A sign-in is refused in its own browser for a reason only: it was given up or not
\* admitted, a later sign-in was started or another completed in that browser, the
\* cookie expired, the key changed, or Google or the database failed.  In particular
\* the late page of an old tab does not spoil the sign-in that replaced it.
RefusedForAReason == failed \subseteq excused
=============================================================================
