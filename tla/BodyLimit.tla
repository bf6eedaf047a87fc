----------------------------- MODULE BodyLimit -----------------------------
(***************************************************************************)
(* One request through RequestBodyLimitMiddleware (http_hardening): the    *)
(* checks before the body is read, the bytes counted as the application    *)
(* receives them, and what reaches the client when the limit trips under   *)
(* an application that may have answered already or turns the error into   *)
(* an answer of its own.                                                   *)
(***************************************************************************)
EXTENDS Integers, FiniteSets

CONSTANTS
    Limit,          \* the limit of the path
    Chunk           \* sizes of the messages the server delivers

ASSUME BodyLimitAssumption == Limit \in Nat /\ Chunk \subseteq Nat

VARIABLES
    call,       \* the request and where it is
    received,   \* the nonlocal counters of __call__
    exceeded,
    delivered,  \* bytes the application has been given
    sent        \* the statuses sent to the client

bodyVars == <<call, received, exceeded, delivered, sent>>

NoStatus == 0

\* What the request declares: no length, an unreadable one, or a number.
NoLength == -1
BadLength == -2
Declared == {NoLength, BadLength} \cup 0..(Limit + 1)

BodyInit ==
    /\ call \in [pc : {"new"}, upload : BOOLEAN, session : BOOLEAN, declared : Declared]
    /\ received = 0 /\ exceeded = FALSE /\ delivered = 0 /\ sent = {}

\* The status the middleware answers itself before reading anything, if any.
refuse ==
    IF call.upload /\ ~call.session THEN 401
    ELSE IF call.declared = NoLength THEN NoStatus
    ELSE IF call.declared = BadLength THEN 400
    ELSE IF call.declared > Limit THEN 413 ELSE NoStatus

admit ==
    /\ call.pc = "new"
    /\ IF refuse = NoStatus
       THEN call' = [call EXCEPT !.pc = "app"] /\ UNCHANGED sent
       ELSE call' = [call EXCEPT !.pc = "done"] /\ sent' = {refuse}
    /\ UNCHANGED <<received, exceeded, delivered>>

OverLimit(n) == n > Limit

\* limited_receive: the message is counted before the application gets it, and
\* once the limit tripped every call raises.
limited_receive(n) ==
    /\ call.pc = "app" /\ (~exceeded => received + n <= Limit + 2)
    /\ IF exceeded THEN call' = [call EXCEPT !.pc = "raised"] /\ UNCHANGED <<received, exceeded, delivered>>
       ELSE /\ received' = received + n
            /\ exceeded' = OverLimit(received + n)
            /\ IF OverLimit(received + n)
               THEN call' = [call EXCEPT !.pc = "raised"] /\ UNCHANGED delivered
               ELSE delivered' = delivered + n /\ UNCHANGED call
    /\ UNCHANGED sent

\* guarded_send drops everything once the limit tripped.
Swallows == exceeded

\* The application starts its answer: before the end of the body, after it, or as
\* the 400 it makes of the error that reading raised.
guarded_send(status) ==
    /\ call.pc \in {"app", "raised"}
    /\ sent = {} /\ (call.pc = "raised" => status = 400)
    /\ sent' = IF Swallows THEN sent ELSE {status}
    /\ call' = IF call.pc = "raised" THEN [call EXCEPT !.pc = "app"] ELSE call
    /\ UNCHANGED <<received, exceeded, delivered>>

\* Mutant: a second answer follows one the application has started.
AnswersAgain == exceeded

\* Whether the middleware answers 413 when the application is through.
Answers413 == exceeded /\ sent = {}

\* The application returns, or lets the error out, which is swallowed.
app_ends ==
    /\ call.pc \in {"app", "raised"}
    /\ exceeded \/ sent # {}
    /\ call' = [call EXCEPT !.pc = "done"]
    /\ sent' = IF Answers413 THEN sent \cup {413} ELSE sent
    /\ UNCHANGED <<received, exceeded, delivered>>

BodyNext ==
    \/ admit
    \/ \E n \in Chunk : limited_receive(n)
    \/ \E status \in {200, 400} : guarded_send(status)
    \/ app_ends

BodySpec == BodyInit /\ [][BodyNext]_bodyVars

\* The application is never given more than the limit, and a request of an upload
\* path without a session gives it nothing, however the body is split.
NeverOverfed == delivered <= Limit /\ (call.upload /\ ~call.session => delivered = 0)

\* The client gets exactly one answer, also when the limit trips under an answer
\* that has started or the application answers the error itself.
OneAnswer ==
    /\ Cardinality(sent) <= 1
    /\ call.pc = "done" => sent # {}

\* The middleware keeps its two promises at once: the application is not fed past the
\* limit, and the client is answered once.
LimitHolds == NeverOverfed /\ OneAnswer

\* An answer the application starts after the limit tripped does not reach the
\* client: it gets the 413 at the end.
NothingAfterTheLimit ==
    [][exceeded /\ sent' # sent => sent' = {413} /\ call'.pc = "done"]_bodyVars
=============================================================================
