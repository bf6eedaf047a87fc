----------------------------- MODULE MCRequests -----------------------------
(* What stands between a caller and the routes, each on its own: accounts,   *)
(* grants and sessions, the limit on the body of a request, and the round    *)
(* trip of a sign-in.                                                        *)
EXTENDS Access, BodyLimit, SignIn

-----------------------------------------------------------------------------
(* Two administrators named for forestry, one of them also for Transelec,    *)
(* and an outsider, invited to Transelec by the second configuration, whose  *)
(* address an account of the Entra tenant has too.                           *)

CONSTANTS m, n, x, e, d

MCKind == [a \in Accounts |-> CASE a = e -> "entra" [] a = d -> "dev-local" [] OTHER -> "google"]
MCAddress == [a \in Accounts |-> CASE a = e -> x [] a = d -> None [] OTHER -> a]
MCSeedGrants == [a \in {d} |-> <<[product |-> "forestry", role |-> "operator"]>>]

MCSymmetry == Permutations(Requests) \cup Permutations(Sessions)

MCCasts == {{m, n}, {m, x}, {d}, {e, x}}

MCAdmins == <<[product |-> "forestry", email |-> m], [product |-> "forestry", email |-> n]>>
MCSettings ==
    LET Invited(p) == [product |-> p, role |-> "operator", email |-> x] IN
    <<[first |-> m, admins |-> <<>>, external |-> <<Invited("forestry")>>],
      [first |-> m, admins |-> MCAdmins, external |-> <<Invited("forestry"), Invited("transelect")>>]>>

-----------------------------------------------------------------------------
VARIABLE guarding

NoBody ==
    /\ call = [pc |-> "done", upload |-> FALSE, session |-> FALSE, declared |-> NoLength]
    /\ received = 0 /\ exceeded = FALSE /\ delivered = 0 /\ sent = {200}

RequestsInit ==
    /\ AccessInit /\ SignInInit
    /\ \/ guarding \in {"grants", "sign-ins"} /\ NoBody
       \/ guarding = "bodies" /\ BodyInit

RequestsNext ==
    \/ guarding = "grants" /\ AccessNext /\ UNCHANGED <<bodyVars, signInVars, guarding>>
    \/ guarding = "bodies" /\ BodyNext /\ UNCHANGED <<accessVars, signInVars, guarding>>
    \/ guarding = "sign-ins" /\ SignInNext /\ UNCHANGED <<accessVars, bodyVars, guarding>>

RequestsSpec == RequestsInit /\ [][RequestsNext]_<<accessVars, bodyVars, signInVars, guarding>>
=============================================================================
