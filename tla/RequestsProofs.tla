--------------------------- MODULE RequestsProofs ---------------------------
(***************************************************************************)
(* Proofs about what stands between a request and the application: the      *)
(* body limit (BodyLimit) and the round trip of a Google sign-in (SignIn).  *)
(*                                                                         *)
(* BodyInv counts the bytes: what was delivered is what was received until  *)
(* the limit tripped, and a tripped request has been answered by the        *)
(* application before or not at all.  SignInInv says what ties a request in *)
(* progress to its sign-in: the flow of a request is that of its address    *)
(* and of the browser it came from, a code is spent by one request, and a   *)
(* sign-in without an excuse is the one in its browser's cookie.            *)
(***************************************************************************)
EXTENDS SignIn, BodyLimit, FiniteSetTheorems, TLAPS

-----------------------------------------------------------------------------
(* The body limit *)

BodyTypeOK ==
    /\ call \in [pc : {"new", "app", "raised", "done"}, upload : BOOLEAN, session : BOOLEAN,
                 declared : Declared]
    /\ received \in Nat /\ delivered \in Nat /\ exceeded \in BOOLEAN
    /\ sent \subseteq {200, 400, 401, 413}

(* What the counters say of each other, and when the client has an answer. *)
BodyInv ==
    /\ BodyTypeOK
    /\ ~exceeded => delivered = received /\ received <= Limit
    /\ delivered <= Limit
    /\ call.pc = "new" => delivered = 0 /\ sent = {} /\ ~exceeded
    /\ call.pc \in {"app", "raised"} => ~(call.upload /\ ~call.session)
    /\ call.upload /\ ~call.session => delivered = 0
    /\ call.pc = "done" => sent # {}
    /\ \A s, t \in sent : s = t

LEMMA BodyInitially == BodyInit => BodyInv
PROOF
<1> SUFFICES ASSUME BodyInit PROVE BodyInv
  OBVIOUS
<1>1. /\ call \in [pc : {"new", "app", "raised", "done"}, upload : BOOLEAN, session : BOOLEAN,
                   declared : Declared]
      /\ call.pc = "new"
  BY DEF BodyInit
<1>2. received = 0 /\ delivered = 0 /\ sent = {} /\ Limit \in Nat
  BY BodyLimitAssumption DEF BodyInit
<1>3. exceeded \in BOOLEAN /\ ~exceeded
  BY Zenon DEF BodyInit
<1>4. BodyTypeOK
  BY <1>1, <1>2, <1>3 DEF BodyTypeOK
<1> QED
  BY <1>1, <1>2, <1>3, <1>4 DEF BodyInv

LEMMA AdmitStep ==
    ASSUME BodyInv, admit
    PROVE  BodyInv'
PROOF
<1>1. /\ BodyTypeOK /\ call.pc = "new" /\ sent = {} /\ delivered = 0 /\ ~exceeded
      /\ UNCHANGED <<received, exceeded, delivered>>
  BY DEF BodyInv, admit
<1>2. CASE refuse = NoStatus
  <2>1. call' = [call EXCEPT !.pc = "app"] /\ sent' = sent
    BY <1>2 DEF admit
  <2>2. ~(call.upload /\ ~call.session)
    BY <1>2 DEF refuse, NoStatus
  <2>3. /\ call' \in [pc : {"new", "app", "raised", "done"}, upload : BOOLEAN,
                      session : BOOLEAN, declared : Declared]
        /\ call'.pc = "app" /\ call'.upload = call.upload /\ call'.session = call.session
    BY <1>1, <2>1 DEF BodyTypeOK
  <2> QED
    BY <1>1, <2>1, <2>2, <2>3 DEF BodyInv, BodyTypeOK
<1>3. CASE refuse # NoStatus
  <2>1. call' = [call EXCEPT !.pc = "done"] /\ sent' = {refuse}
    BY <1>3 DEF admit
  <2>2. refuse \in {400, 401, 413}
    BY <1>3 DEF refuse
  <2>3. /\ call' \in [pc : {"new", "app", "raised", "done"}, upload : BOOLEAN,
                      session : BOOLEAN, declared : Declared]
        /\ call'.pc = "done"
    BY <1>1, <2>1 DEF BodyTypeOK
  <2> QED
    BY <1>1, <2>1, <2>2, <2>3 DEF BodyInv, BodyTypeOK
<1> QED
  BY <1>2, <1>3

LEMMA ReceiveStep ==
    ASSUME BodyInv, NEW n \in Chunk, limited_receive(n)
    PROVE  BodyInv'
PROOF
<1>1. /\ BodyTypeOK /\ call.pc = "app" /\ sent' = sent /\ n \in Nat /\ Limit \in Nat
      /\ received \in Nat /\ delivered \in Nat
  BY BodyLimitAssumption DEF BodyInv, BodyTypeOK, limited_receive
<1>2. CASE exceeded
  <2>1. call' = [call EXCEPT !.pc = "raised"] /\ UNCHANGED <<received, exceeded, delivered>>
    BY <1>2 DEF limited_receive
  <2>2. /\ call' \in [pc : {"new", "app", "raised", "done"}, upload : BOOLEAN,
                      session : BOOLEAN, declared : Declared]
        /\ call'.pc = "raised" /\ call'.upload = call.upload /\ call'.session = call.session
    BY <1>1, <2>1 DEF BodyTypeOK
  <2> QED
    BY <1>1, <1>2, <2>1, <2>2 DEF BodyInv, BodyTypeOK
<1>3. CASE ~exceeded /\ received + n > Limit
  <2>1. /\ call' = [call EXCEPT !.pc = "raised"] /\ delivered' = delivered
        /\ received' = received + n /\ exceeded' = (received + n > Limit)
    BY <1>3 DEF limited_receive, OverLimit
  <2>3. exceeded' = TRUE
    BY <1>3, <2>1
  <2>2. /\ call' \in [pc : {"new", "app", "raised", "done"}, upload : BOOLEAN,
                      session : BOOLEAN, declared : Declared]
        /\ call'.pc = "raised" /\ call'.upload = call.upload /\ call'.session = call.session
    BY <1>1, <2>1 DEF BodyTypeOK
  <2> QED
    BY <1>1, <1>3, <2>1, <2>2, <2>3 DEF BodyInv, BodyTypeOK
<1>4. CASE ~exceeded /\ ~(received + n > Limit)
  <2>1. /\ call' = call /\ delivered' = delivered + n
        /\ received' = received + n /\ exceeded' = (received + n > Limit)
    BY <1>4 DEF limited_receive, OverLimit
  <2>2. delivered = received
    BY <1>4 DEF BodyInv
  <2>3. exceeded' \in BOOLEAN /\ ~exceeded'
    <3>1. exceeded' = OverLimit(received + n) /\ ~OverLimit(received + n)
      BY <1>4, <2>1 DEF OverLimit
    <3>2. OverLimit(received + n) \in BOOLEAN
      BY <1>1 DEF OverLimit
    <3> QED
      BY <3>1, <3>2
  <2>4. BodyTypeOK'
    BY <1>1, <2>1, <2>3 DEF BodyTypeOK
  <2> QED
    BY <1>1, <1>4, <2>1, <2>2, <2>3, <2>4 DEF BodyInv
<1> QED
  BY <1>2, <1>3, <1>4

LEMMA SendStep ==
    ASSUME BodyInv, NEW status \in {200, 400}, guarded_send(status)
    PROVE  BodyInv'
PROOF
<1>1. /\ BodyTypeOK /\ call.pc \in {"app", "raised"} /\ sent = {}
      /\ sent' \in {sent, {status}} /\ UNCHANGED <<received, exceeded, delivered>>
      /\ call' = IF call.pc = "raised" THEN [call EXCEPT !.pc = "app"] ELSE call
  BY DEF BodyInv, guarded_send
<1>2. /\ call' \in [pc : {"new", "app", "raised", "done"}, upload : BOOLEAN,
                    session : BOOLEAN, declared : Declared]
      /\ call'.pc = "app" /\ call'.upload = call.upload /\ call'.session = call.session
  BY <1>1 DEF BodyTypeOK
<1> QED
  BY <1>1, <1>2 DEF BodyInv, BodyTypeOK

LEMMA EndsStep ==
    ASSUME BodyInv, app_ends
    PROVE  BodyInv'
PROOF
<1>1. /\ BodyTypeOK /\ call.pc \in {"app", "raised"} /\ (exceeded \/ sent # {})
      /\ call' = [call EXCEPT !.pc = "done"]
      /\ sent' = IF exceeded /\ sent = {} THEN sent \cup {413} ELSE sent
      /\ UNCHANGED <<received, exceeded, delivered>>
  BY DEF BodyInv, app_ends, Answers413
<1>2. /\ call' \in [pc : {"new", "app", "raised", "done"}, upload : BOOLEAN,
                    session : BOOLEAN, declared : Declared]
      /\ call'.pc = "done" /\ call'.upload = call.upload /\ call'.session = call.session
  BY <1>1 DEF BodyTypeOK
<1> QED
  BY <1>1, <1>2 DEF BodyInv, BodyTypeOK

LEMMA BodyStep == BodyInv /\ [BodyNext]_bodyVars => BodyInv'
PROOF
<1>1. ASSUME BodyInv, UNCHANGED bodyVars PROVE BodyInv'
  BY <1>1 DEF BodyInv, BodyTypeOK, bodyVars
<1> QED
  BY <1>1, AdmitStep, ReceiveStep, SendStep, EndsStep DEF BodyNext

(* A set without two members has a cardinality of one at most. *)
LEMMA AtMostOne ==
    ASSUME NEW S, \A s, t \in S : s = t
    PROVE  Cardinality(S) <= 1
PROOF
<1>1. CASE S = {}
  BY <1>1, FS_EmptySet
<1>2. ASSUME NEW s \in S PROVE Cardinality(S) <= 1
  <2>1. S = {s}
    OBVIOUS
  <2> QED
    BY <2>1, FS_Singleton
<1> QED
  BY <1>1, <1>2

(* RequestBodyLimitMiddleware keeps its promises for every limit and however *)
(* the body is cut: the application is not fed past the limit, and the       *)
(* client is answered once.                                                  *)
THEOREM LimitCorrect == BodySpec => []LimitHolds
PROOF
<1>1. BodyInv => LimitHolds
  <2> SUFFICES ASSUME BodyInv PROVE LimitHolds
    OBVIOUS
  <2>1. Cardinality(sent) <= 1
    BY AtMostOne DEF BodyInv
  <2> QED
    BY <2>1 DEF BodyInv, LimitHolds, NeverOverfed, OneAnswer
<1> QED
  BY <1>1, BodyInitially, BodyStep, PTL DEF BodySpec

(* guarded_send lets nothing through once the limit has tripped: the client  *)
(* gets the 413 at the end.                                                  *)
THEOREM SilenceCorrect == BodySpec => NothingAfterTheLimit
PROOF
<1>1. BodyInv /\ [BodyNext]_bodyVars =>
        [exceeded /\ sent' # sent => sent' = {413} /\ call'.pc = "done"]_bodyVars
  <2> SUFFICES ASSUME BodyInv, BodyNext, exceeded, sent' # sent
               PROVE  sent' = {413} /\ call'.pc = "done"
    BY DEF bodyVars
  <2>1. ~admit /\ ~(\E n \in Chunk : limited_receive(n))
    BY DEF BodyInv, admit, limited_receive
  <2>2. ~(\E status \in {200, 400} : guarded_send(status))
    BY DEF guarded_send, Swallows
  <2>3. app_ends
    BY <2>1, <2>2 DEF BodyNext
  <2> QED
    BY <2>3 DEF app_ends, Answers413, BodyInv, BodyTypeOK
<1> QED
  BY <1>1, BodyInitially, BodyStep, PTL DEF BodySpec, NothingAfterTheLimit

-----------------------------------------------------------------------------
(* The round trip of a sign-in *)

Attempts == [browser : Browsers \cup {Nobody}, person : People \cup {Nobody},
             code : {"none", "fresh", "spent", "error"}]
Cookies == [flow : Flows \cup {Nobody}, key : Nat]
Requests == [pc : {"idle", "exchange", "verify", "reply"}, browser : Browsers \cup {Nobody},
             flow : Flows \cup {Nobody}, url : Flows \cup {Nobody}]
Sessions == [person : People \cup {Nobody}, flow : Flows \cup {Nobody}]

SignInTypeOK ==
    /\ attempt \in [Flows -> Attempts]
    /\ flow_cookie \in [Browsers -> Cookies]
    /\ key_era \in Nat
    /\ callback \in [Calls -> Requests]
    /\ held \in [Browsers -> Sessions]
    /\ made \in [Flows -> Nat]
    /\ failed \subseteq Flows /\ excused \subseteq Flows

(* Google knows nothing of a sign-in nobody started. *)
UnstartedRight == \A f \in Flows : attempt[f].browser = Nobody => attempt[f].code = "none"

(* The flow cookie of a browser holds a sign-in of that browser. *)
CookieRight ==
    \A b \in Browsers : flow_cookie[b] # NoCookie =>
        flow_cookie[b].flow \in Flows /\ attempt[flow_cookie[b].flow].browser = b

(* A request in progress is about the sign-in of its own browser, and has its code once *)
(* it is past the exchange.                                                             *)
CallRight(r) ==
    r.pc # "idle" =>
        /\ r.url \in Flows /\ r.flow = r.url
        /\ r.browser \in Browsers /\ attempt[r.url].browser = r.browser
        /\ attempt[r.url].code \in {"fresh", "spent"}
        /\ r.pc \in {"verify", "reply"} => attempt[r.url].code = "spent"
        /\ r.pc = "verify" => made[r.url] = 0
        /\ r.pc = "reply" => attempt[r.url].person \in Admitted
CallsRight == \A c \in Calls : CallRight(callback[c])

(* A code is redeemed by one request, which makes the one session. *)
OnceRedeemed ==
    /\ \A c, d \in Calls :
           callback[c].pc = "verify" /\ callback[d].pc = "verify" /\ callback[c].url = callback[d].url
               => c = d
    /\ \A f \in Flows : made[f] <= 1 /\ (attempt[f].code # "spent" => made[f] = 0)

(* The session of a browser is that of a sign-in it started and finished. *)
SessionRight ==
    \A b \in Browsers : held[b].flow # Nobody =>
        /\ attempt[held[b].flow].browser = b
        /\ attempt[held[b].flow].code = "spent"
        /\ attempt[held[b].flow].person = held[b].person
        /\ held[b].person \in Admitted

(* A started sign-in that has met no reason for a refusal is in its browser's cookie, *)
(* under the key in use.                                                              *)
StillValid ==
    \A f \in Flows : attempt[f].browser # Nobody /\ f \notin excused =>
        /\ flow_cookie[attempt[f].browser] = [flow |-> f, key |-> key_era]
        /\ attempt[f].code # "error"

SignInInv ==
    /\ SignInTypeOK /\ UnstartedRight /\ CookieRight /\ CallsRight /\ OnceRedeemed
    /\ SessionRight /\ StillValid /\ RefusedForAReason

LEMMA SignInInitially == SignInInit => SignInInv
PROOF
<1> SUFFICES ASSUME SignInInit PROVE SignInInv
  OBVIOUS
<1>1. SignInTypeOK
  <2>1. /\ attempt \in [Flows -> Attempts]
        /\ flow_cookie \in [Browsers -> Cookies]
    BY DEF SignInInit, Attempts, Cookies, NoCookie
  <2>2. callback \in [Calls -> Requests] /\ held \in [Browsers -> Sessions]
    BY DEF SignInInit, Requests, Sessions, NoCall
  <2> QED
    BY <2>1, <2>2 DEF SignInInit, SignInTypeOK
<1>2. \A f \in Flows : attempt[f].browser = Nobody /\ attempt[f].code = "none" /\ made[f] = 0
  BY DEF SignInInit
<1>3. \A b \in Browsers : flow_cookie[b] = NoCookie /\ held[b].flow = Nobody
  BY DEF SignInInit
<1>4. \A c \in Calls : callback[c].pc = "idle"
  BY DEF SignInInit, NoCall
<1> QED
  BY <1>1, <1>2, <1>3, <1>4
  DEF SignInInit, SignInInv, UnstartedRight, CookieRight, CallsRight, CallRight, OnceRedeemed,
      SessionRight, StillValid, RefusedForAReason

(* A new sign-in takes the place of the one in the cookie, which has its excuse. *)
LEMMA LoginStep ==
    ASSUME SignInInv, NEW b \in Browsers, NEW f \in Flows, google_login(b, f)
    PROVE  SignInInv'
PROOF
<1>1. /\ attempt[f].browser = Nobody
      /\ UNCHANGED <<key_era, callback, held, made, failed>>
      /\ excused' = excused \cup Of(b)
      /\ key_era \in Nat /\ b # Nobody
  BY SignInAssumption DEF google_login, initiate, SignInInv, SignInTypeOK
<1>2. /\ attempt' \in [Flows -> Attempts]
      /\ attempt'[f].browser = b /\ attempt'[f].code = attempt[f].code
      /\ \A g \in Flows : g # f => attempt'[g] = attempt[g]
  BY DEF google_login, SignInInv, SignInTypeOK, Attempts
<1>3. [flow |-> f, key |-> key_era] \in Cookies
  BY <1>1 DEF Cookies
<1>4. /\ flow_cookie' \in [Browsers -> Cookies]
      /\ flow_cookie'[b] = [flow |-> f, key |-> key_era]
      /\ \A a \in Browsers : a # b => flow_cookie'[a] = flow_cookie[a]
  BY <1>3 DEF google_login, SignInInv, SignInTypeOK
<1>5. SignInTypeOK'
  BY <1>1, <1>2, <1>4 DEF SignInInv, SignInTypeOK, Of
<1>6. UnstartedRight' /\ CookieRight'
  BY <1>1, <1>2, <1>4, SignInAssumption
  DEF SignInInv, SignInTypeOK, UnstartedRight, CookieRight, Cookies, NoCookie
<1>7. CallsRight'
  <2> SUFFICES ASSUME NEW c \in Calls PROVE CallRight(callback[c])'
    BY DEF CallsRight
  <2>1. CallRight(callback[c]) /\ callback'[c] = callback[c]
    BY <1>1 DEF SignInInv, CallsRight
  <2> QED
    BY <1>1, <1>2, <2>1, SignInAssumption DEF CallRight
<1>8. OnceRedeemed'
  BY <1>1, <1>2 DEF SignInInv, OnceRedeemed
<1>9. SessionRight'
  BY <1>1, <1>2, SignInAssumption DEF SignInInv, SignInTypeOK, Sessions, SessionRight
<1>10. StillValid'
  <2> SUFFICES ASSUME NEW g \in Flows, attempt'[g].browser # Nobody, g \notin excused'
               PROVE  /\ flow_cookie'[attempt'[g].browser] = [flow |-> g, key |-> key_era']
                      /\ attempt'[g].code # "error"
    BY DEF StillValid
  <2>1. CASE g = f
    BY <1>1, <1>2, <1>4, <2>1 DEF SignInInv, UnstartedRight
  <2>2. CASE g # f
    <3>1. attempt[g].browser \in Browsers /\ attempt[g].browser # b /\ g \notin excused
      BY <1>1, <1>2, <2>2 DEF Of, SignInInv, SignInTypeOK, Attempts
    <3> QED
      BY <1>1, <1>2, <1>4, <2>2, <3>1, SignInAssumption DEF SignInInv, StillValid
  <2> QED
    BY <2>1, <2>2
<1>11. RefusedForAReason'
  BY <1>1 DEF SignInInv, RefusedForAReason
<1> QED
  BY <1>5, <1>6, <1>7, <1>8, <1>9, <1>10, <1>11 DEF SignInInv

(* What happens at Google changes a sign-in that no request is about yet. *)
LEMMA GoogleStep ==
    ASSUME SignInInv, NEW f \in Flows,
           GiveUp(f) \/ \E p \in People : Choose(f, p)
    PROVE  SignInInv'
PROOF
<1>1. /\ attempt[f].browser # Nobody /\ attempt[f].code = "none"
      /\ UNCHANGED <<flow_cookie, key_era, callback, held, made, failed>>
  BY DEF GiveUp, Choose
<1>2. /\ attempt' \in [Flows -> Attempts]
      /\ attempt'[f].browser = attempt[f].browser
      /\ attempt'[f].code \in {"fresh", "error"}
      /\ \A g \in Flows : g # f => attempt'[g] = attempt[g]
  <2>1. CASE GiveUp(f)
    BY <2>1 DEF GiveUp, SignInInv, SignInTypeOK, Attempts
  <2>2. ASSUME NEW p \in People, Choose(f, p)
        PROVE  /\ attempt' \in [Flows -> Attempts]
               /\ attempt'[f].browser = attempt[f].browser /\ attempt'[f].code = "fresh"
               /\ \A g \in Flows : g # f => attempt'[g] = attempt[g]
    <3> DEFINE chosen == [attempt EXCEPT ![f].person = p]
    <3>1. /\ chosen \in [Flows -> Attempts] /\ chosen[f].browser = attempt[f].browser
          /\ \A g \in Flows : g # f => chosen[g] = attempt[g]
      BY <2>2 DEF SignInInv, SignInTypeOK, Attempts
    <3>2. attempt' = [chosen EXCEPT ![f].code = "fresh"]
      BY <2>2 DEF Choose
    <3> HIDE DEF chosen
    <3> QED
      BY <3>1, <3>2 DEF Attempts
  <2> QED
    BY <2>1, <2>2
<1>3. /\ excused \subseteq excused' /\ excused' \subseteq Flows
      /\ attempt'[f].code = "error" => f \in excused'
  BY DEF GiveUp, Choose, SignInInv, SignInTypeOK, Attempts
<1>4. SignInTypeOK'
  BY <1>1, <1>2, <1>3 DEF SignInInv, SignInTypeOK
<1>5. UnstartedRight' /\ CookieRight'
  BY <1>1, <1>2 DEF SignInInv, UnstartedRight, CookieRight
<1>6. CallsRight'
  <2> SUFFICES ASSUME NEW c \in Calls PROVE CallRight(callback[c])'
    BY DEF CallsRight
  <2>1. CallRight(callback[c]) /\ callback'[c] = callback[c]
    BY <1>1 DEF SignInInv, CallsRight
  <2> QED
    BY <1>1, <1>2, <2>1 DEF CallRight
<1>7. OnceRedeemed'
  BY <1>1, <1>2 DEF SignInInv, OnceRedeemed
<1>8. SessionRight'
  BY <1>1, <1>2 DEF SignInInv, SignInTypeOK, Sessions, SessionRight
<1>9. StillValid'
  BY <1>1, <1>2, <1>3 DEF SignInInv, StillValid
<1>10. RefusedForAReason'
  BY <1>1, <1>3 DEF SignInInv, RefusedForAReason
<1> QED
  BY <1>4, <1>5, <1>6, <1>7, <1>8, <1>9, <1>10 DEF SignInInv

(* An address that is refused in the browser of its sign-in met a reason before. *)
LEMMA StartStep ==
    ASSUME SignInInv, NEW c \in Calls, NEW b \in Browsers, NEW url \in Flows,
           callback_start(c, b, url)
    PROVE  SignInInv'
PROOF
<1> DEFINE flow == flow_cookie[b].flow
<1>1. /\ callback[c].pc = "idle" /\ attempt[url].code # "none"
      /\ UNCHANGED <<attempt, key_era, held, made, excused>>
  BY DEF callback_start
<1>2. flow_cookie' = flow_cookie
  BY DEF callback_start, Refuse, CookieAfterRefusal
<1>3. CASE decrypt_token(b) /\ complete(flow, url)
  <2>1. /\ callback' = [callback EXCEPT ![c] =
                           [pc |-> "exchange", browser |-> b, flow |-> flow, url |-> url]]
        /\ failed' = failed
    BY <1>3 DEF callback_start, _load_flow
  <2>2. flow = url /\ attempt[url].browser = b /\ attempt[url].code \in {"fresh", "spent"}
    BY <1>1, <1>3 DEF decrypt_token, complete, SignInInv, CookieRight, SignInTypeOK, Attempts
  <2>3. [pc |-> "exchange", browser |-> b, flow |-> flow, url |-> url] \in Requests
    BY <2>2 DEF Requests
  <2>4. /\ callback' \in [Calls -> Requests]
        /\ callback'[c] = [pc |-> "exchange", browser |-> b, flow |-> url, url |-> url]
        /\ \A d \in Calls : d # c => callback'[d] = callback[d]
    BY <2>1, <2>2, <2>3 DEF SignInInv, SignInTypeOK
  <2>5. SignInTypeOK'
    BY <1>1, <1>2, <2>1, <2>4 DEF SignInInv, SignInTypeOK
  <2>6. CallsRight'
    <3> SUFFICES ASSUME NEW d \in Calls PROVE CallRight(callback[d])'
      BY DEF CallsRight
    <3>1. CASE d = c
      BY <1>1, <2>2, <2>4, <3>1 DEF CallRight
    <3>2. CASE d # c
      <4>1. CallRight(callback[d]) /\ callback'[d] = callback[d]
        BY <2>4, <3>2 DEF SignInInv, CallsRight
      <4> QED
        BY <1>1, <4>1 DEF CallRight
    <3> QED
      BY <3>1, <3>2
  <2>7. OnceRedeemed'
    BY <1>1, <2>4 DEF SignInInv, OnceRedeemed
  <2> QED
    BY <1>1, <1>2, <2>1, <2>5, <2>6, <2>7
    DEF SignInInv, UnstartedRight, CookieRight, SessionRight, StillValid, RefusedForAReason
<1>4. CASE ~(decrypt_token(b) /\ complete(flow, url))
  <2>1. /\ callback' = callback
        /\ failed' = IF b = attempt[url].browser THEN failed \cup {url} ELSE failed
    BY <1>4 DEF callback_start, _load_flow, Refuse
  <2>2. ASSUME b = attempt[url].browser PROVE url \in excused
    <3> SUFFICES ASSUME url \notin excused PROVE FALSE
      OBVIOUS
    <3>1. flow_cookie[b] = [flow |-> url, key |-> key_era] /\ attempt[url].code # "error"
      BY <2>2, SignInAssumption DEF SignInInv, StillValid
    <3>2. flow_cookie[b] # NoCookie
      BY <3>1, SignInAssumption DEF NoCookie
    <3> QED
      BY <1>4, <3>1, <3>2 DEF decrypt_token, complete
  <2>3. RefusedForAReason'
    BY <1>1, <2>1, <2>2 DEF SignInInv, RefusedForAReason
  <2>4. SignInTypeOK'
    BY <1>1, <1>2, <2>1 DEF SignInInv, SignInTypeOK
  <2> QED
    BY <1>1, <1>2, <2>1, <2>3, <2>4
    DEF SignInInv, UnstartedRight, CookieRight, CallsRight, CallRight, OnceRedeemed,
        SessionRight, StillValid
<1> QED
  BY <1>3, <1>4

(* A request that ends, and nothing else of it: its code may be gone. *)
LEMMA CallEnds ==
    ASSUME SignInInv, NEW c \in Calls, callback[c].pc # "idle",
           callback' = [callback EXCEPT ![c] = NoCall]
    PROVE  /\ callback' \in [Calls -> Requests]
           /\ callback'[c].pc = "idle"
           /\ \A d \in Calls : d # c => callback'[d] = callback[d]
PROOF
<1>1. NoCall \in Requests
  BY DEF NoCall, Requests
<1> QED
  BY <1>1 DEF SignInInv, SignInTypeOK, NoCall

(* The exchange spends a fresh code for one request, the one that goes on to verify. *)
LEMMA ExchangeStep ==
    ASSUME SignInInv, NEW c \in Calls, callback_exchange(c)
    PROVE  SignInInv'
PROOF
<1> DEFINE u == callback[c].url
<1>1. /\ callback[c].pc = "exchange" /\ CallRight(callback[c])
      /\ UNCHANGED <<key_era, held, made>>
  BY DEF callback_exchange, SignInInv, CallsRight
<1>2. /\ u \in Flows /\ callback[c].flow = u /\ callback[c].browser \in Browsers
      /\ attempt[u].browser = callback[c].browser /\ attempt[u].code \in {"fresh", "spent"}
  BY <1>1 DEF CallRight
<1>3. flow_cookie' = flow_cookie
  BY DEF callback_exchange, Refuse, CookieAfterRefusal
<1>4. attempt' = IF attempt[u].code = "fresh" THEN [attempt EXCEPT ![u].code = "spent"] ELSE attempt
  BY <1>2 DEF callback_exchange
<1>5. /\ attempt' \in [Flows -> Attempts]
      /\ attempt'[u].code = "spent"
      /\ \A g \in Flows : /\ attempt'[g].browser = attempt[g].browser
                          /\ attempt'[g].person = attempt[g].person
                          /\ g # u => attempt'[g].code = attempt[g].code
  <2> HIDE DEF u
  <2> QED
    BY <1>2, <1>4 DEF SignInInv, SignInTypeOK, Attempts
<1>6. /\ callback' \in [Calls -> Requests]
      /\ \/ /\ callback'[c].pc = "idle" /\ excused' = excused \cup {u}
            /\ failed' \subseteq failed \cup {u}
         \/ /\ attempt[u].code = "fresh" /\ callback'[c].pc = "verify"
            /\ callback'[c].flow = u /\ callback'[c].url = u
            /\ callback'[c].browser = callback[c].browser
            /\ excused' = excused /\ failed' = failed
      /\ \A d \in Calls : d # c => callback'[d] = callback[d]
  <2>1. CASE /\ Redeems(callback[c])
             /\ callback' = [callback EXCEPT ![c].pc = "verify"]
             /\ UNCHANGED <<flow_cookie, failed, excused>>
    BY <1>2, <2>1 DEF Redeems, SignInInv, SignInTypeOK, Requests
  <2>2. CASE /\ callback' = [callback EXCEPT ![c] = NoCall]
             /\ excused' = excused \cup {u}
             /\ Refuse(callback[c].browser, u)
    BY <1>1, <1>2, <2>2, CallEnds DEF Refuse
  <2> QED
    BY <2>1, <2>2 DEF callback_exchange
<1> HIDE DEF u
<1>7. excused \subseteq excused' /\ excused' \subseteq Flows /\ failed' \subseteq Flows
  BY <1>2, <1>6 DEF SignInInv, SignInTypeOK
<1>8. SignInTypeOK'
  BY <1>1, <1>3, <1>5, <1>6, <1>7 DEF SignInInv, SignInTypeOK
<1>9. UnstartedRight' /\ CookieRight'
  BY <1>2, <1>3, <1>5, SignInAssumption DEF SignInInv, UnstartedRight, CookieRight
<1>10. CallsRight'
  <2> SUFFICES ASSUME NEW d \in Calls PROVE CallRight(callback[d])'
    BY DEF CallsRight
  <2>1. CASE d = c
    BY <1>1, <1>2, <1>5, <1>6, <2>1 DEF CallRight, SignInInv, OnceRedeemed
  <2>2. CASE d # c
    <3>1. CallRight(callback[d]) /\ callback'[d] = callback[d]
      BY <1>6, <2>2 DEF SignInInv, CallsRight
    <3> QED
      BY <1>1, <1>2, <1>5, <3>1 DEF CallRight
  <2> QED
    BY <2>1, <2>2
<1>11. OnceRedeemed'
  <2>1. ASSUME NEW d \in Calls, callback[d].pc = "verify", callback[d].url = u
        PROVE  attempt[u].code # "fresh"
    BY <2>1 DEF SignInInv, CallsRight, CallRight
  <2> QED
    BY <1>1, <1>2, <1>5, <1>6, <2>1 DEF SignInInv, OnceRedeemed
<1>12. SessionRight'
  BY <1>1, <1>2, <1>5 DEF SignInInv, SignInTypeOK, Sessions, SessionRight
<1>13. StillValid'
  BY <1>1, <1>2, <1>3, <1>5, <1>7 DEF SignInInv, StillValid
<1>14. RefusedForAReason'
  BY <1>6 DEF SignInInv, RefusedForAReason
<1> QED
  BY <1>8, <1>9, <1>10, <1>11, <1>12, <1>13, <1>14 DEF SignInInv

(* The one request that redeemed a code makes its one session. *)
LEMMA VerifyStep ==
    ASSUME SignInInv, NEW c \in Calls, callback_verify(c)
    PROVE  SignInInv'
PROOF
<1> DEFINE u == callback[c].url
<1>1. /\ callback[c].pc = "verify" /\ CallRight(callback[c])
      /\ UNCHANGED <<attempt, key_era, held>>
  BY DEF callback_verify, SignInInv, CallsRight
<1>2. /\ u \in Flows /\ callback[c].flow = u /\ callback[c].browser \in Browsers
      /\ attempt[u].browser = callback[c].browser /\ attempt[u].code = "spent" /\ made[u] = 0
  BY <1>1 DEF CallRight
<1>3. flow_cookie' = flow_cookie
  BY DEF callback_verify, Refuse, CookieAfterRefusal
<1>4. /\ callback' \in [Calls -> Requests]
      /\ \/ /\ callback'[c].pc = "idle" /\ excused' = excused \cup {u}
            /\ failed' \subseteq failed \cup {u} /\ made' = made
         \/ /\ attempt[u].person \in Admitted /\ callback'[c].pc = "reply"
            /\ callback'[c].flow = u /\ callback'[c].url = u
            /\ callback'[c].browser = callback[c].browser
            /\ excused' = excused /\ failed' = failed
            /\ made' = [made EXCEPT ![u] = @ + 1]
      /\ \A d \in Calls : d # c => callback'[d] = callback[d]
  <2>1. CASE /\ Verified(callback[c])
             /\ made' = [made EXCEPT ![u] = @ + 1]
             /\ callback' = [callback EXCEPT ![c].pc = "reply"]
             /\ UNCHANGED <<flow_cookie, failed, excused>>
    <3>1. /\ callback' \in [Calls -> Requests] /\ callback'[c].pc = "reply"
          /\ callback'[c].flow = u /\ callback'[c].url = u
          /\ callback'[c].browser = callback[c].browser
          /\ \A d \in Calls : d # c => callback'[d] = callback[d]
      BY <1>2, <2>1 DEF SignInInv, SignInTypeOK, Requests
    <3> QED
      BY <2>1, <3>1 DEF Verified
  <2>2. CASE /\ callback' = [callback EXCEPT ![c] = NoCall]
             /\ excused' = excused \cup {u}
             /\ Refuse(callback[c].browser, u)
             /\ made' = made
    BY <1>1, <1>2, <2>2, CallEnds DEF Refuse
  <2> QED
    BY <2>1, <2>2 DEF callback_verify
<1> HIDE DEF u
<1>5. /\ made' \in [Flows -> Nat] /\ made'[u] <= 1
      /\ \A g \in Flows : g # u => made'[g] = made[g]
  BY <1>2, <1>4 DEF SignInInv, SignInTypeOK
<1>6. excused \subseteq excused' /\ excused' \subseteq Flows /\ failed' \subseteq Flows
  BY <1>2, <1>4 DEF SignInInv, SignInTypeOK
<1>7. SignInTypeOK'
  BY <1>1, <1>3, <1>4, <1>5, <1>6 DEF SignInInv, SignInTypeOK
<1>8. UnstartedRight' /\ CookieRight' /\ SessionRight'
  BY <1>1, <1>3 DEF SignInInv, UnstartedRight, CookieRight, SessionRight
<1>9. ASSUME NEW d \in Calls, d # c, callback[d].pc = "verify" PROVE callback[d].url # u
  BY <1>1, <1>9 DEF u, SignInInv, OnceRedeemed
<1>10. CallsRight'
  <2> SUFFICES ASSUME NEW d \in Calls PROVE CallRight(callback[d])'
    BY DEF CallsRight
  <2>1. CASE d = c
    BY <1>1, <1>2, <1>4, <2>1 DEF CallRight
  <2>2. CASE d # c
    <3>1. CallRight(callback[d]) /\ callback'[d] = callback[d]
      BY <1>4, <2>2 DEF SignInInv, CallsRight
    <3>2. callback[d].pc = "verify" => callback[d].url # u
      BY <1>9, <2>2
    <3> QED
      BY <1>1, <1>5, <3>1, <3>2 DEF CallRight
  <2> QED
    BY <2>1, <2>2
<1>11. OnceRedeemed'
  BY <1>1, <1>2, <1>4, <1>5 DEF SignInInv, OnceRedeemed
<1>12. StillValid'
  BY <1>1, <1>3, <1>6 DEF SignInInv, StillValid
<1>13. RefusedForAReason'
  BY <1>4 DEF SignInInv, RefusedForAReason
<1> QED
  BY <1>7, <1>8, <1>10, <1>11, <1>12, <1>13 DEF SignInInv

(* The answer gives the browser the session of its own sign-in, and takes the cookie of *)
(* whatever sign-in it has started since, which is an excuse for those.                 *)
LEMMA ReplyStep ==
    ASSUME SignInInv, NEW c \in Calls, callback_reply(c)
    PROVE  SignInInv'
PROOF
<1> DEFINE u == callback[c].url
           b == callback[c].browser
<1>1. /\ callback[c].pc = "reply" /\ CallRight(callback[c])
      /\ callback' = [callback EXCEPT ![c] = NoCall]
      /\ UNCHANGED <<attempt, key_era, made, failed>>
  BY DEF callback_reply, SignInInv, CallsRight
<1>2. /\ u \in Flows /\ b \in Browsers /\ attempt[u].browser = b /\ attempt[u].code = "spent"
      /\ attempt[u].person \in Admitted
  BY <1>1 DEF CallRight
<1>3. /\ callback' \in [Calls -> Requests] /\ callback'[c].pc = "idle"
      /\ \A d \in Calls : d # c => callback'[d] = callback[d]
  BY <1>1, CallEnds
<1>4. CallsRight'
  <2> SUFFICES ASSUME NEW d \in Calls PROVE CallRight(callback[d])'
    BY DEF CallsRight
  <2>1. CASE d = c
    BY <1>3, <2>1 DEF CallRight
  <2>2. CASE d # c
    <3>1. CallRight(callback[d]) /\ callback'[d] = callback[d]
      BY <1>3, <2>2 DEF SignInInv, CallsRight
    <3> QED
      BY <1>1, <3>1 DEF CallRight
  <2> QED
    BY <2>1, <2>2
<1>5. UnstartedRight' /\ OnceRedeemed'
  BY <1>1, <1>3 DEF SignInInv, UnstartedRight, OnceRedeemed
<1>6. CASE /\ held' = [held EXCEPT ![b] = [person |-> attempt[u].person, flow |-> u]]
           /\ flow_cookie' = [flow_cookie EXCEPT ![b] = NoCookie]
           /\ excused' = excused \cup Of(b)
  <2> HIDE DEF u, b
  <2>1. NoCookie \in Cookies /\ [person |-> attempt[u].person, flow |-> u] \in Sessions
    BY <1>2, SignInAssumption DEF NoCookie, Cookies, Sessions
  <2>2. /\ held' \in [Browsers -> Sessions] /\ held'[b].person = attempt[u].person /\ held'[b].flow = u
        /\ \A a \in Browsers : a # b => held'[a] = held[a]
    BY <1>2, <1>6, <2>1 DEF SignInInv, SignInTypeOK
  <2>3. /\ flow_cookie' \in [Browsers -> Cookies] /\ flow_cookie'[b] = NoCookie
        /\ \A a \in Browsers : a # b => flow_cookie'[a] = flow_cookie[a]
    BY <1>2, <1>6, <2>1 DEF SignInInv, SignInTypeOK
  <2>4. SignInTypeOK'
    BY <1>1, <1>3, <1>6, <2>2, <2>3 DEF SignInInv, SignInTypeOK, Of
  <2>5. CookieRight' /\ SessionRight'
    BY <1>1, <1>2, <2>2, <2>3 DEF SignInInv, CookieRight, SessionRight
  <2>6. StillValid'
    <3> SUFFICES ASSUME NEW g \in Flows, attempt[g].browser # Nobody, g \notin excused'
                 PROVE  /\ flow_cookie'[attempt[g].browser] = [flow |-> g, key |-> key_era]
                        /\ attempt[g].code # "error"
      BY <1>1 DEF StillValid
    <3>1. attempt[g].browser \in Browsers /\ attempt[g].browser # b /\ g \notin excused
      BY <1>6 DEF Of, SignInInv, SignInTypeOK, Attempts
    <3> QED
      BY <2>3, <3>1 DEF SignInInv, StillValid
  <2>7. RefusedForAReason'
    BY <1>1, <1>6 DEF SignInInv, RefusedForAReason
  <2> QED
    BY <1>4, <1>5, <2>4, <2>5, <2>6, <2>7 DEF SignInInv
<1>7. CASE UNCHANGED <<held, flow_cookie, excused>>
  <2>1. SignInTypeOK'
    BY <1>1, <1>3, <1>7 DEF SignInInv, SignInTypeOK
  <2> QED
    BY <1>1, <1>4, <1>5, <1>7, <2>1
    DEF SignInInv, CookieRight, SessionRight, StillValid, RefusedForAReason
<1> QED
  BY <1>6, <1>7 DEF callback_reply

LEMMA ExpireStep ==
    ASSUME SignInInv, NEW b \in Browsers, CookieExpires(b)
    PROVE  SignInInv'
PROOF
<1>1. /\ flow_cookie[b] # NoCookie /\ flow_cookie[b].flow \in Flows
      /\ excused' = excused \cup {flow_cookie[b].flow}
      /\ UNCHANGED <<attempt, key_era, callback, held, made, failed>>
  BY DEF CookieExpires, SignInInv, CookieRight
<1>2. NoCookie \in Cookies
  BY DEF NoCookie, Cookies
<1>3. /\ flow_cookie' \in [Browsers -> Cookies] /\ flow_cookie'[b] = NoCookie
      /\ \A a \in Browsers : a # b => flow_cookie'[a] = flow_cookie[a]
  BY <1>2 DEF CookieExpires, SignInInv, SignInTypeOK
<1>4. SignInTypeOK'
  BY <1>1, <1>3 DEF SignInInv, SignInTypeOK
<1>5. CookieRight'
  BY <1>1, <1>3 DEF SignInInv, CookieRight
<1>6. StillValid'
  <2> SUFFICES ASSUME NEW g \in Flows, attempt[g].browser # Nobody, g \notin excused'
               PROVE  /\ flow_cookie'[attempt[g].browser] = [flow |-> g, key |-> key_era]
                      /\ attempt[g].code # "error"
    BY <1>1 DEF StillValid
  <2>1. /\ attempt[g].browser \in Browsers /\ g \notin excused
        /\ flow_cookie[attempt[g].browser] = [flow |-> g, key |-> key_era]
        /\ attempt[g].code # "error"
    BY <1>1 DEF SignInInv, SignInTypeOK, Attempts, StillValid
  <2>2. attempt[g].browser # b
    BY <1>1, <2>1
  <2> QED
    BY <1>3, <2>1, <2>2
<1> QED
  BY <1>1, <1>4, <1>5, <1>6
  DEF SignInInv, UnstartedRight, CallsRight, CallRight, OnceRedeemed, SessionRight,
      RefusedForAReason

LEMMA KeyStep ==
    ASSUME SignInInv, ChangeKey
    PROVE  SignInInv'
PROOF
<1>1. /\ key_era' \in Nat
      /\ excused' = excused \cup {f \in Flows : attempt[f].browser # Nobody}
      /\ UNCHANGED <<attempt, flow_cookie, held, made, failed>>
  BY DEF ChangeKey, SignInInv, SignInTypeOK
<1>2. NoCall \in Requests /\ NoCall.pc = "idle"
  BY DEF NoCall, Requests
<1>3. callback' \in [Calls -> Requests] /\ \A c \in Calls : callback'[c].pc = "idle"
  BY <1>2 DEF ChangeKey
<1>4. SignInTypeOK'
  BY <1>1, <1>3 DEF SignInInv, SignInTypeOK
<1>5. CallsRight' /\ OnceRedeemed'
  BY <1>1, <1>3 DEF SignInInv, CallsRight, CallRight, OnceRedeemed
<1>6. StillValid'
  BY <1>1 DEF StillValid
<1> QED
  BY <1>1, <1>4, <1>5, <1>6
  DEF SignInInv, UnstartedRight, CookieRight, SessionRight, RefusedForAReason

LEMMA SignInStep == SignInInv /\ [SignInNext]_signInVars => SignInInv'
PROOF
<1>1. ASSUME SignInInv, UNCHANGED signInVars PROVE SignInInv'
  BY <1>1
  DEF signInVars, SignInInv, SignInTypeOK, UnstartedRight, CookieRight, CallsRight, CallRight,
      OnceRedeemed, SessionRight, StillValid, RefusedForAReason
<1> QED
  BY <1>1, LoginStep, GoogleStep, StartStep, ExchangeStep, VerifyStep, ReplyStep, ExpireStep, KeyStep
  DEF SignInNext

(* The sessions of a browser are those its own sign-ins made, one each, for any number *)
(* of browsers, tabs and requests at once: the state in the address is checked against *)
(* the browser's cookie, and a code is redeemed once.                                  *)
THEOREM SessionsCorrect == SignInSpec => []SessionsOfSignIns
PROOF
<1>1. SignInInv => SessionsOfSignIns
  BY DEF SignInInv, SessionRight, OnceRedeemed, SessionsOfSignIns, OwnSignIn, OneSessionPerSignIn
<1> QED
  BY <1>1, SignInInitially, SignInStep, PTL DEF SignInSpec

(* A browser's own sign-in is refused for a reason only; an old tab's late page does    *)
(* not spoil the sign-in that replaced it, because a refusal leaves the flow cookie.    *)
THEOREM ReasonCorrect == SignInSpec => []RefusedForAReason
PROOF
<1>1. SignInInv => RefusedForAReason
  BY DEF SignInInv
<1> QED
  BY <1>1, SignInInitially, SignInStep, PTL DEF SignInSpec

=============================================================================
