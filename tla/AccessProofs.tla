---------------------------- MODULE AccessProofs ----------------------------
(***************************************************************************)
(* Theorems about Access, for any accounts, products, configurations and   *)
(* numbers of sessions and of requests at once.                            *)
(*                                                                         *)
(*   RolesCorrect   RolesInForce: the trail names the roles in force,      *)
(*                  outsiders hold what they were invited to, no request   *)
(*                  runs on a session that is gone                         *)
(*   GrantsCorrect  GrantsDecided: every change of a role is a decision    *)
(*                                                                         *)
(* Roles are read without a lock and rows are locked when they are         *)
(* written.  So the invariant says of an open request what it has read     *)
(* and is still so unless it was raced (Stands), and of a row it has       *)
(* written that it is its alone (RowsHeld) and that its event is the       *)
(* newest of the row (NotesRight).                                         *)
(***************************************************************************)
EXTENDS Access, SequenceTheorems, FiniteSetTheorems, TLAPS

-----------------------------------------------------------------------------
(* The invariant *)

IsRequest(q) ==
    q = [pc |-> q.pc, job |-> q.job, acct |-> q.acct, sess |-> q.sess, to |-> q.to,
         before |-> q.before, steps |-> q.steps, wrote |-> q.wrote, noted |-> q.noted,
         raced |-> q.raced]

IsEvent(e) == e = [id |-> e.id, before |-> e.before, role |-> e.role]

(* Where a request of a kind can be, and whom it is about. *)
PlaceRight(q) ==
    /\ \/ q = Closed
       \/ q.job = "sign-in" /\ q.pc \in {"signing", "check", "write"}
       \/ q.job = "request" /\ q.pc \in {"authed", "busy", "allowed", "check", "write"}
    /\ q.pc # "idle" => q.acct \in Accounts /\ q.sess \in Sessions
    /\ q.pc \in {"check", "write"} => q.to \in Accounts
    /\ q.pc \in {"check", "write"} /\ q.job = "sign-in" => q.to = q.acct
    /\ q.to \in Accounts \cup {None} /\ q.before \in Roles \cup {None} /\ q.raced \subseteq Products

Outsider(u) == Kind[u] = "google" /\ u \notin Workspace /\ Address[u] \notin OnDomain

EverInvited(u, p) ==
    \E i \in 1..era : \E e \in Range(Settings[i].external) : e.email = Address[u] /\ e.product = p

MayHold(u, p, role) == Outsider(u) => role # "admin" /\ EverInvited(u, p)

(* What a step of a sign-in may write: an outsider only what it is invited to, and an *)
(* administrator of a product other than Transelec only as its first.                *)
GivenByConfig(q, s, w) ==
    /\ Len(s.write) = 1
    /\ s.rule # "other-address" => MayHold(q.acct, w.product, w.role)
    /\ s.rule # "other-address" /\ w.role = "admin" /\ w.product # Transelect => s.rule = "first-admin"

StepRight(q, s) ==
    /\ s.write # <<>>
    /\ s.rule # "no-grant" => Len(s.write) = 1
    /\ s.rule = "granted" <=> q.job = "request"
    /\ q.job = "sign-in" /\ Kind[q.acct] = "google" =>
          \A i \in 1..Len(s.write) : GivenByConfig(q, s, s.write[i])

StepsRight(q) ==
    /\ q.steps \in Seq(Step)
    /\ \A i \in 1..Len(q.steps) : StepRight(q, q.steps[i])
    /\ q.pc = "write" \/ q.pc = "allowed" => q.steps # <<>>
    /\ q.job = "request" => Len(q.steps) <= 1 /\ (q.pc \in {"authed", "busy", "check"} => q.steps = <<>>)

(* The writes a request is about to make. *)
Pending(q) == IF q.pc \in {"allowed", "write"} THEN Range(Head(q.steps).write) ELSE {}

(* The row of a grant is that of the grantee, and is what it may hold. *)
WritesRight(q) ==
    /\ q.pc \in {"idle", "signing", "authed", "busy", "allowed"} => DOMAIN q.wrote = {}
    /\ \A g \in DOMAIN q.wrote :
          g = <<q.to, g[2]>> /\ g[2] \in Products /\ q.wrote[g] \in Roles /\ MayHold(q.to, g[2], q.wrote[g])
    /\ q.pc = "write" =>
          /\ Head(q.steps).rule # "other-address"
          /\ \A w \in Pending(q) : MayHold(q.to, w.product, w.role)

Shape(q) == IsRequest(q) /\ PlaceRight(q) /\ StepsRight(q) /\ WritesRight(q)

(* The event of a row an open request has written is the newest of the row. *)
NotesRight(q) ==
    /\ DOMAIN q.noted \subseteq DOMAIN q.wrote
    /\ \A g \in DOMAIN q.wrote : Kind[g[1]] = "google" => g \in DOMAIN q.noted
    /\ q.job = "sign-in" /\ Kind[q.acct] # "google" => DOMAIN q.noted = {}
    /\ \A g \in DOMAIN q.noted :
          /\ IsEvent(q.noted[g]) /\ q.noted[g].role = q.wrote[g]
          /\ q.noted[g].id = trail[g].given /\ trail[g].id < trail[g].given

NoAdmin(p) == \A u \in Accounts : grants[<<u, p>>] # "admin"

(* What a request has read of a product is still so, unless it was raced. *)
Stands(q) ==
    /\ \A p \in ReadBy(q) \ q.raced :
          /\ q.job = "sign-in" => grants[<<q.acct, p>>] = None
          /\ q.job = "request" => grants[<<q.acct, p>>] = "admin"
    /\ \A w \in Pending(q) :
          w.product \notin q.raced =>
             /\ q.pc = "write" => q.before = grants[<<q.to, w.product>>]
             /\ q.job = "sign-in" /\ Kind[q.acct] = "google" /\ w.role = "admin" /\ w.product # Transelect =>
                   NoAdmin(w.product)
    /\ \A g \in DOMAIN q.noted : g[2] \notin q.raced => q.noted[g].before = grants[g]
    /\ \A g \in DOMAIN q.wrote :
          q.job = "sign-in" /\ Kind[q.acct] = "google" /\ q.wrote[g] = "admin" /\ g[2] # Transelect
             /\ g[2] \notin q.raced => NoAdmin(g[2])

(* Whom a request grants something to is a user. *)
GranteeKnown(q) == q.job = "request" /\ q.pc \in {"check", "write"} => q.to \in users

(* The session of a request is its own, except for development sessions. *)
SessionRight(r) ==
    /\ req[r].job = "sign-in" =>
          /\ session[req[r].sess].row # "live"
          /\ \A q \in Requests \ {r} : req[q].sess # req[r].sess
    /\ req[r].job = "request" /\ Kind[req[r].acct] # "dev-local" =>
          /\ session[req[r].sess].row # "none" /\ session[req[r].sess].owner = req[r].acct
          /\ \A q \in Requests \ {r} : req[q].sess # req[r].sess

(* No two open requests have written the same row. *)
RowsHeld == \A r, q \in Requests : r # q => DOMAIN req[r].wrote \cap DOMAIN req[q].wrote = {}

TablesRight ==
    /\ users \subseteq Accounts
    /\ grants \in ProductGrant
    /\ \A g \in Rows : grants[g] # None => g[1] \in users
    /\ \A g \in Rows : \A role \in {grants[g]} \ {None} : MayHold(g[1], g[2], role)
    /\ trail \in [Rows -> Trail]
    /\ \A g \in Rows : trail[g].id <= trail[g].given
    /\ NewestEventInForce
    /\ session \in [Sessions -> Session]
    /\ \A s \in Sessions : session[s].row # "none" => session[s].owner \in users
    /\ era \in 1..Len(Settings)

RequestRight(q) == Shape(q) /\ NotesRight(q) /\ Stands(q) /\ GranteeKnown(q)

AccessInv ==
    /\ TablesRight
    /\ req = [r \in Requests |-> req[r]]
    /\ \A q \in {req[r] : r \in Requests} : RequestRight(q)
    /\ \A r \in Requests : SessionRight(r)
    /\ RowsHeld

-----------------------------------------------------------------------------
(* The steps of a sign-in *)

AllRight(q, steps) == steps \in Seq(Step) /\ \A i \in 1..Len(steps) : StepRight(q, steps[i])

(* SetToSeq lists the products, and there is one. *)
LEMMA ProductsListed ==
    /\ SetToSeq(Products) \in [1..Cardinality(Products) -> Products]
    /\ Cardinality(Products) \in Nat \ {0}
<1>1. Cardinality(Products) \in Nat /\ ExistsBijection(1..Cardinality(Products), Products)
  BY FS_CardinalityType, AccessAssumption DEF AccessAssumption
<1>2. Cardinality(Products) # 0
  BY FS_EmptySet, AccessAssumption DEF AccessAssumption
<1>3. PICK f \in [1..Cardinality(Products) -> Products] : IsInjective(f)
  BY <1>1 DEF ExistsBijection, Bijection, Injection
<1> QED
  BY <1>1, <1>2, <1>3 DEF SetToSeq

LEMMA OneElement ==
    ASSUME NEW S, NEW x \in S
    PROVE  /\ <<x>> \in Seq(S) /\ Len(<<x>>) = 1 /\ <<x>>[1] = x /\ <<x>> # <<>>
           /\ Head(<<x>>) = x /\ Tail(<<x>>) = <<>> /\ DOMAIN <<x>> = 1..1
<1>1. <<x>> \in Seq(S) /\ Len(<<x>>) = 1 /\ <<x>>[1] = x /\ DOMAIN <<x>> = 1..1
  OBVIOUS
<1>2. <<x>> # <<>>
  BY <1>1, EmptySeq
<1>3. Head(<<x>>) = x
  BY <1>1, <1>2
<1>4. Tail(<<x>>) \in Seq(S) /\ Len(Tail(<<x>>)) = 0
  BY <1>1, <1>2, HeadTailProperties
<1> QED
  BY <1>1, <1>2, <1>3, <1>4, EmptySeq

LEMMA AStep ==
    ASSUME NEW rule \in {"no-grant", "first-admin", "no-own-grant", "other-address", "granted"},
           NEW W \in Seq([product : Products, role : Roles])
    PROVE  /\ [rule |-> rule, write |-> W] \in Step
           /\ [rule |-> rule, write |-> W].rule = rule /\ [rule |-> rule, write |-> W].write = W
<1> DEFINE S == Seq([product : Products, role : Roles])
<1>1. W \in S
  OBVIOUS
<1> HIDE DEF S
<1>2. [rule |-> rule, write |-> W] \in
         [rule : {"no-grant", "first-admin", "no-own-grant", "other-address", "granted"}, write : S]
  BY <1>1
<1>3. Step = [rule : {"no-grant", "first-admin", "no-own-grant", "other-address", "granted"}, write : S]
  BY Zenon DEF Step, S
<1> QED
  BY <1>2, <1>3

(* A step with one grant, as every step but the first administrator's is. *)
LEMMA OneGrant ==
    ASSUME NEW rule \in {"no-grant", "first-admin", "no-own-grant", "other-address", "granted"},
           NEW p \in Products, NEW role \in Roles
    PROVE  /\ Grant(rule, p, role) \in Step
           /\ Grant(rule, p, role).rule = rule
           /\ Grant(rule, p, role).write # <<>> /\ Len(Grant(rule, p, role).write) = 1
           /\ Grant(rule, p, role).write[1] = [product |-> p, role |-> role]
<1>1. PICK w \in [product : Products, role : Roles] : w = [product |-> p, role |-> role]
  OBVIOUS
<1>2. <<w>> \in Seq([product : Products, role : Roles]) /\ Len(<<w>>) = 1 /\ <<w>>[1] = w /\ <<w>> # <<>>
  BY <1>1, OneElement, Zenon
<1>3. Grant(rule, p, role) = [rule |-> rule, write |-> <<w>>]
  BY <1>1, Zenon DEF Grant
<1>4. Grant(rule, p, role) \in Step /\ Grant(rule, p, role).rule = rule /\ Grant(rule, p, role).write = <<w>>
  <2>1. \A W \in Seq([product : Products, role : Roles]) :
           /\ [rule |-> rule, write |-> W] \in Step
           /\ [rule |-> rule, write |-> W].rule = rule /\ [rule |-> rule, write |-> W].write = W
    BY AStep, Zenon
  <2> QED
    BY <1>2, <1>3, <2>1, Zenon
<1> QED
  BY <1>1, <1>2, <1>4, Zenon

(* One right step after the other is right. *)
LEMMA RightConcat ==
    ASSUME NEW q, NEW s, NEW t, AllRight(q, s), AllRight(q, t)
    PROVE  AllRight(q, s \o t)
<1>1. /\ s \o t \in Seq(Step)
      /\ Len(s \o t) = Len(s) + Len(t)
      /\ \A i \in 1..Len(s) + Len(t) : (s \o t)[i] = IF i <= Len(s) THEN s[i] ELSE t[i - Len(s)]
  BY ConcatProperties DEF AllRight
<1>2. Len(s) \in Nat /\ Len(t) \in Nat
  BY LenProperties DEF AllRight
<1>3. ASSUME NEW i \in 1..Len(s \o t) PROVE StepRight(q, (s \o t)[i])
  <2>1. CASE i <= Len(s)
    BY <1>1, <1>2, <1>3, <2>1 DEF AllRight
  <2>2. CASE ~(i <= Len(s))
    <3>1. i - Len(s) \in 1..Len(t) /\ (s \o t)[i] = t[i - Len(s)]
      BY <1>1, <1>2, <1>3, <2>2
    <3> QED
      BY <3>1 DEF AllRight
  <2> QED
    BY <2>1, <2>2
<1> QED
  BY <1>1, <1>3 DEF AllRight

LEMMA RightNone == ASSUME NEW q PROVE AllRight(q, <<>>)
  BY EmptySeq DEF AllRight

LEMMA RightOne ==
    ASSUME NEW q, NEW s \in Step, StepRight(q, s)
    PROVE  AllRight(q, <<s>>)
  BY DEF AllRight

(* What is left after the first of several right steps is right, and so is the first. *)
LEMMA RightTail ==
    ASSUME NEW q, NEW s, AllRight(q, s), s # <<>>
    PROVE  /\ Head(s) \in Step /\ StepRight(q, Head(s))
           /\ AllRight(q, Tail(s)) /\ Len(Tail(s)) = Len(s) - 1 /\ Len(s) \in Nat \ {0}
<1>1. /\ Head(s) \in Step /\ Tail(s) \in Seq(Step) /\ Len(Tail(s)) = Len(s) - 1
      /\ \A i \in 1..Len(Tail(s)) : Tail(s)[i] = s[i + 1]
  BY HeadTailProperties DEF AllRight
<1>2. Len(s) \in Nat \ {0} /\ Head(s) = s[1]
  BY EmptySeq DEF AllRight
<1> QED
  BY <1>1, <1>2 DEF AllRight

(* Whether a right step depends only on the kind of request and on whose it is. *)
LEMMA RightOfAnother ==
    ASSUME NEW q, NEW n, NEW s, AllRight(q, s), n.job = q.job, n.acct = q.acct
    PROVE  AllRight(n, s)
  BY DEF AllRight, StepRight, GivenByConfig

(* The configuration that is deployed. *)
LEMMA ConfigValid ==
    ASSUME era \in 1..Len(Settings)
    PROVE  /\ Config.admins \in Seq(Range(Config.admins))
           /\ \A i \in 1..Len(Config.admins) : Config.admins[i].product \in Products
           /\ Config.external \in Seq(Range(Config.external))
           /\ \A i \in 1..Len(Config.external) :
                 /\ Config.external[i] \in Range(Config.external)
                 /\ Config.external[i].product \in Products
                 /\ Config.external[i].role \in {"operator", "viewer"}
<1>1. DOMAIN Settings = 1..Len(Settings)
  BY LenProperties, AccessAssumption DEF AccessAssumption
<1>2. ValidSettings(Config)
  BY <1>1, AccessAssumption DEF AccessAssumption, Config
<1>3. Config.admins \in Seq(Range(Config.admins)) /\ Config.external \in Seq(Range(Config.external))
  BY <1>2 DEF ValidSettings, parse_bootstrap_admins, parse_external_accounts
<1>4. \A i \in 1..Len(Config.admins) : Config.admins[i] \in Range(Config.admins)
  BY <1>3, ElementOfSeq
<1>5. \A i \in 1..Len(Config.external) : Config.external[i] \in Range(Config.external)
  BY <1>3, ElementOfSeq
<1> QED
  BY <1>2, <1>3, <1>4, <1>5 DEF ValidSettings, parse_bootstrap_admins, parse_external_accounts

(* A grant of one role is right of a sign-in when the account may hold the role, and *)
(* an administrator of another product than Transelec is only its first.             *)
LEMMA OneGrantRight ==
    ASSUME NEW q, q.job = "sign-in",
           NEW rule \in {"no-grant", "first-admin", "no-own-grant", "other-address"},
           NEW p \in Products, NEW role \in Roles,
           rule # "other-address" => MayHold(q.acct, p, role),
           rule # "other-address" /\ role = "admin" /\ p # Transelect => rule = "first-admin"
    PROVE  Grant(rule, p, role) \in Step /\ StepRight(q, Grant(rule, p, role))
<1>0. rule \in {"no-grant", "first-admin", "no-own-grant", "other-address", "granted"} /\ rule # "granted"
  OBVIOUS
<1>1. /\ Grant(rule, p, role) \in Step /\ Grant(rule, p, role).rule = rule
      /\ Grant(rule, p, role).write # <<>> /\ Len(Grant(rule, p, role).write) = 1
      /\ Grant(rule, p, role).write[1] = [product |-> p, role |-> role]
  BY <1>0, OneGrant
<1>2. PICK s, w :
         /\ s = Grant(rule, p, role) /\ w = [product |-> p, role |-> role]
         /\ s \in Step /\ s.rule = rule /\ s.write # <<>> /\ Len(s.write) = 1 /\ s.write[1] = w
  BY <1>1, Zenon
<1>3. w.product = p /\ w.role = role
  BY <1>2
<1>4. ASSUME NEW i \in 1..Len(s.write) PROVE GivenByConfig(q, s, s.write[i])
  <2>1. Len(s.write) = 1 /\ s.write[1] = w /\ s.rule = rule
    BY <1>2
  <2>2. i = 1
    BY <2>1
  <2> QED
    BY <2>1, <2>2, <1>3, Zenon DEF GivenByConfig
<1>5. s \in Step /\ StepRight(q, s)
  BY <1>0, <1>2, <1>4, Zenon DEF StepRight
<1> QED
  BY <1>2, <1>5, Zenon

(* The roles that PLATFORM_BOOTSTRAP_ADMINS gives. *)
LEMMA AdminStepsRight ==
    ASSUME era \in 1..Len(Settings), NEW q, q.job = "sign-in", q.acct \in Workspace
    PROVE  AllRight(q, maybe_grant_configured_product_admins(q.acct))
<1> DEFINE n == Len(Config.admins)
           f(i) == Grant(RuleOf(Config.admins[i], q.acct, "first-admin"), Config.admins[i].product, "admin")
           s == [i \in 1..n |-> f(i)]
<1>1. n \in Nat /\ DOMAIN Config.admins = 1..n /\ \A i \in 1..n : Config.admins[i].product \in Products
  BY ConfigValid, LenProperties
<1>2. maybe_grant_configured_product_admins(q.acct) = s
  BY <1>1 DEF maybe_grant_configured_product_admins
<1>3. ASSUME NEW i \in 1..n PROVE f(i) \in Step /\ StepRight(q, f(i))
  <2> DEFINE rule == RuleOf(Config.admins[i], q.acct, "first-admin")
  <2>1. rule \in {"first-admin", "other-address"}
    BY DEF RuleOf
  <2>2. MayHold(q.acct, Config.admins[i].product, "admin")
    BY DEF MayHold, Outsider
  <2> HIDE DEF rule
  <2>3. Grant(rule, Config.admins[i].product, "admin") \in Step
        /\ StepRight(q, Grant(rule, Config.admins[i].product, "admin"))
    BY <1>1, <2>1, <2>2, OneGrantRight DEF Roles
  <2> QED
    BY <2>3 DEF rule
<1> HIDE DEF f, n
<1>4. s \in Seq(Step) /\ Len(s) = n /\ \A i \in 1..n : s[i] = f(i)
  BY <1>1, <1>3
<1> QED
  BY <1>1, <1>2, <1>3, <1>4 DEF AllRight

(* The roles that PLATFORM_EXTERNAL_ACCOUNTS gives. *)
LEMMA ExternalStepsRight ==
    ASSUME era \in 1..Len(Settings), NEW q, q.job = "sign-in"
    PROVE  AllRight(q, maybe_grant_external_accounts(q.acct))
<1> DEFINE n == Len(Config.external)
           f(i) == Grant(RuleOf(Config.external[i], q.acct, "no-own-grant"),
                         Config.external[i].product, Config.external[i].role)
           s == [i \in 1..n |-> f(i)]
<1>1. /\ n \in Nat /\ DOMAIN Config.external = 1..n
      /\ \A i \in 1..n : /\ Config.external[i] \in Range(Config.external)
                         /\ Config.external[i].product \in Products
                         /\ Config.external[i].role \in {"operator", "viewer"}
  BY ConfigValid, LenProperties
<1>2. maybe_grant_external_accounts(q.acct) = s
  BY <1>1 DEF maybe_grant_external_accounts
<1>3. ASSUME NEW i \in 1..n PROVE f(i) \in Step /\ StepRight(q, f(i))
  <2> DEFINE rule == RuleOf(Config.external[i], q.acct, "no-own-grant")
  <2>1. rule \in {"no-own-grant", "other-address"}
    BY DEF RuleOf
  <2>2. rule # "other-address" => MayHold(q.acct, Config.external[i].product, Config.external[i].role)
    <3> SUFFICES ASSUME rule # "other-address"
                 PROVE  MayHold(q.acct, Config.external[i].product, Config.external[i].role)
      OBVIOUS
    <3>1. Config.external[i].email = Address[q.acct]
      BY DEF RuleOf
    <3>2. era \in 1..era /\ Config = Settings[era]
      BY DEF Config
    <3>3. EverInvited(q.acct, Config.external[i].product)
      BY <1>1, <3>1, <3>2 DEF EverInvited
    <3> QED
      BY <1>1, <3>3 DEF MayHold
  <2> HIDE DEF rule
  <2>3. Config.external[i].role \in Roles /\ Config.external[i].role # "admin"
    BY <1>1 DEF Roles
  <2>4. /\ Grant(rule, Config.external[i].product, Config.external[i].role) \in Step
        /\ StepRight(q, Grant(rule, Config.external[i].product, Config.external[i].role))
    BY <1>1, <2>1, <2>2, <2>3, OneGrantRight
  <2> QED
    BY <2>4 DEF rule
<1> HIDE DEF f, n
<1>4. s \in Seq(Step) /\ Len(s) = n /\ \A i \in 1..n : s[i] = f(i)
  BY <1>1, <1>3
<1> QED
  BY <1>1, <1>2, <1>3, <1>4 DEF AllRight

(* The roles of the first administrator of Transelec. *)
LEMMA TranselecStepsRight ==
    ASSUME NEW q, q.job = "sign-in", q.acct \in Workspace
    PROVE  AllRight(q, maybe_grant_transelec_bootstrap_admin(q.acct))
<1>1. MayHold(q.acct, Transelect, "admin")
  BY DEF MayHold, Outsider
<1>2. /\ Grant("no-grant", Transelect, "admin") \in Step
      /\ StepRight(q, Grant("no-grant", Transelect, "admin"))
  BY <1>1, OneGrantRight, AccessAssumption DEF AccessAssumption, Roles
<1>3. AllRight(q, <<Grant("no-grant", Transelect, "admin")>>)
  BY <1>2, RightOne, Zenon
<1> QED
  BY <1>3, RightNone, Zenon DEF maybe_grant_transelec_bootstrap_admin

(* One step that writes any number of roles, for an account Google does not vouch for. *)
LEMMA WriteStepRight ==
    ASSUME NEW q, q.job = "sign-in", Kind[q.acct] # "google",
           NEW W \in Seq([product : Products, role : Roles]) \ {<<>>}
    PROVE  AllRight(q, <<[rule |-> "no-grant", write |-> W]>>)
<1>1. PICK s \in Step : /\ s = [rule |-> "no-grant", write |-> W]
                        /\ s.rule = "no-grant" /\ s.write = W
  <2>1. PICK rule \in {"no-grant", "first-admin", "no-own-grant", "other-address", "granted"} :
           rule = "no-grant"
    OBVIOUS
  <2>2. /\ [rule |-> rule, write |-> W] \in Step
        /\ [rule |-> rule, write |-> W].rule = rule /\ [rule |-> rule, write |-> W].write = W
    BY AStep, Zenon
  <2> QED
    BY <2>1, <2>2, Zenon
<1>2. StepRight(q, s)
  BY <1>1 DEF StepRight
<1> QED
  BY <1>1, <1>2, RightOne, Zenon

(* The roles of the administrator of every product. *)
LEMMA EntraStepsRight ==
    ASSUME NEW q, q.job = "sign-in", Kind[q.acct] = "entra"
    PROVE  AllRight(q, maybe_grant_bootstrap_admin(q.acct))
<1> DEFINE All == SetToSeq(Products)
           n == Cardinality(Products)
           W == [i \in 1..n |-> [product |-> All[i], role |-> "admin"]]
<1>1. All \in [1..n -> Products] /\ n \in Nat \ {0}
  BY ProductsListed, Zenon
<1> HIDE DEF All, n
<1>2. \A i \in 1..n : [product |-> All[i], role |-> "admin"] \in [product : Products, role : Roles]
  BY <1>1 DEF Roles
<1>3. W \in Seq([product : Products, role : Roles]) /\ Len(W) = n
  <2> DEFINE S == [product : Products, role : Roles]
             e(i) == [product |-> All[i], role |-> "admin"]
  <2>1. \A i \in 1..n : e(i) \in S
    BY <1>2
  <2> HIDE DEF S, e
  <2>2. [i \in 1..n |-> e(i)] \in Seq(S) /\ Len([i \in 1..n |-> e(i)]) = n
    BY <1>1, <2>1
  <2> QED
    BY <2>2 DEF S, e
<1>4. W # <<>>
  BY <1>1, <1>3, EmptySeq
<1>5. DOMAIN All = 1..n
  BY <1>1
<1>6. AllRight(q, <<[rule |-> "no-grant", write |-> W]>>)
  <2> HIDE DEF W
  <2> QED
    BY <1>3, <1>4, WriteStepRight
<1>7. maybe_grant_bootstrap_admin(q.acct) \in {<<>>, <<[rule |-> "no-grant", write |-> W]>>}
  BY <1>5, Zenon DEF maybe_grant_bootstrap_admin, All
<1> QED
  BY <1>6, <1>7, RightNone, Zenon

(* The steps that a sign-in starts with are right. *)
LEMMA SignInStepsRight ==
    ASSUME era \in 1..Len(Settings), NEW q, q.job = "sign-in", q.acct \in Accounts
    PROVE  AllRight(q, GrantSteps(q.acct))
<1>1. CASE Kind[q.acct] = "entra"
  <2>1. GrantSteps(q.acct) = maybe_grant_bootstrap_admin(q.acct)
    BY <1>1 DEF GrantSteps
  <2> QED
    BY <1>1, <2>1, EntraStepsRight
<1>2. CASE Kind[q.acct] = "dev-local"
  <2>1. GrantSteps(q.acct) = <<[rule |-> "no-grant", write |-> SeedGrants[q.acct]]>>
    BY <1>2 DEF GrantSteps, DEFAULT_SEED_GRANTS
  <2>2. SeedGrants[q.acct] \in Seq([product : Products, role : Roles]) \ {<<>>}
    BY <1>2, AccessAssumption DEF AccessAssumption
  <2>3. AllRight(q, <<[rule |-> "no-grant", write |-> SeedGrants[q.acct]]>>)
    BY <1>2, <2>2, WriteStepRight
  <2> QED
    BY <2>1, <2>3, Zenon
<1>3. CASE Kind[q.acct] = "google"
  <2>1. GrantSteps(q.acct) = google_grants(q.acct)
    BY <1>3 DEF GrantSteps
  <2>2. CASE q.acct \in Workspace
    BY <2>1, <2>2, AdminStepsRight, TranselecStepsRight, RightConcat, Zenon DEF google_grants
  <2>3. CASE q.acct \notin Workspace
    BY <2>1, <2>3, ExternalStepsRight, Zenon DEF google_grants
  <2> QED
    BY <2>2, <2>3
<1> QED
  BY <1>1, <1>2, <1>3, AccessAssumption DEF AccessAssumption

-----------------------------------------------------------------------------
(* What a step that leaves the tables alone preserves *)

(* Invitations only accumulate. *)
LEMMA MayHoldKept ==
    ASSUME NEW u, NEW p, NEW role, MayHold(u, p, role), era \in Int, era' \in Int, era <= era'
    PROVE  MayHold(u, p, role)'
<1>1. EverInvited(u, p) => EverInvited(u, p)'
  <2> SUFFICES ASSUME NEW i \in 1..era, \E e \in Range(Settings[i].external) : e.email = Address[u] /\ e.product = p
               PROVE  \E j \in 1..era' : \E e \in Range(Settings[j].external) : e.email = Address[u] /\ e.product = p
    BY DEF EverInvited
  <2>1. i \in 1..era'
    OBVIOUS
  <2> QED
    BY <2>1
<1> QED
  BY <1>1 DEF MayHold, Outsider

LEMMA ShapeKept ==
    ASSUME NEW q, Shape(q), era \in Int, era' = era
    PROVE  Shape(q)'
<1>1. \A u, p, role : MayHold(u, p, role) => MayHold(u, p, role)'
  BY MayHoldKept
<1>2. ASSUME NEW s, StepRight(q, s) PROVE StepRight(q, s)'
  <2>1. \A w : GivenByConfig(q, s, w) => GivenByConfig(q, s, w)'
    BY <1>1 DEF GivenByConfig
  <2> QED
    BY <1>2, <2>1 DEF StepRight
<1>3. StepsRight(q)'
  BY <1>2 DEF StepsRight, Shape
<1>4. WritesRight(q)'
  BY <1>1 DEF WritesRight, Shape, Pending
<1> QED
  BY <1>3, <1>4 DEF Shape, PlaceRight

LEMMA NotesKept ==
    ASSUME NEW q, NotesRight(q), \A g \in DOMAIN q.wrote : trail'[g] = trail[g]
    PROVE  NotesRight(q)'
  BY DEF NotesRight

LEMMA StandsKept ==
    ASSUME NEW q, Stands(q), grants' = grants
    PROVE  Stands(q)'
  BY DEF Stands, NoAdmin, ReadBy, Pending

(* A request that stays on its session, or is closed. *)
LEMMA SessionStays ==
    ASSUME AccessInv, NEW r \in Requests, NEW n, req' = [req EXCEPT ![r] = n],
           session' = session,
           \/ n = Closed
           \/ n.sess = req[r].sess /\ n.job = req[r].job /\ n.acct = req[r].acct
    PROVE  \A q \in Requests : SessionRight(q)'
<1>1. req' = [q \in Requests |-> req'[q]] /\ req'[r] = n /\ \A q \in Requests \ {r} : req'[q] = req[q]
  BY DEF AccessInv
<1>2. ASSUME NEW q \in Requests PROVE SessionRight(q)'
  <2>1. None \notin Sessions
    BY AccessAssumption DEF AccessAssumption
  <2>2. CASE q = r
    BY <1>1, <2>1, <2>2 DEF AccessInv, SessionRight, RequestRight, Shape, PlaceRight, Closed
  <2>3. CASE q # r
    BY <1>1, <2>1, <2>3 DEF AccessInv, SessionRight, RequestRight, Shape, PlaceRight, Closed
  <2> QED
    BY <2>2, <2>3
<1> QED
  BY <1>2

(* A request goes to n; it has written no row more, and the tables stay. *)
LEMMA OneMoves ==
    ASSUME AccessInv, NEW r \in Requests, NEW n, req' = [req EXCEPT ![r] = n],
           UNCHANGED <<users, grants, trail, session, era>>,
           RequestRight(n), DOMAIN n.wrote \subseteq DOMAIN req[r].wrote,
           \A q \in Requests : SessionRight(q)'
    PROVE  AccessInv'
<1>1. req' = [q \in Requests |-> req'[q]] /\ req'[r] = n /\ \A q \in Requests \ {r} : req'[q] = req[q]
  BY DEF AccessInv
<1>2. era \in Int
  BY AccessAssumption, LenProperties DEF AccessInv, TablesRight, AccessAssumption
<1>3. TablesRight'
  <2>1. \A u, p, role : MayHold(u, p, role) => MayHold(u, p, role)'
    BY <1>2, MayHoldKept
  <2> QED
    BY <2>1 DEF AccessInv, TablesRight, NewestEventInForce
<1>4. ASSUME NEW q, RequestRight(q) PROVE RequestRight(q)'
  <2>1. NotesRight(q)'
    BY <1>4, NotesKept DEF RequestRight
  <2>2. GranteeKnown(q)'
    BY <1>4 DEF RequestRight, GranteeKnown
  <2>3. Shape(q)' /\ Stands(q)'
    BY <1>2, <1>4, ShapeKept, StandsKept DEF RequestRight
  <2> QED
    BY <2>1, <2>2, <2>3 DEF RequestRight
<1>5. \A q \in {req'[s] : s \in Requests} : RequestRight(q)'
  <2>1. \A s \in Requests : RequestRight(req[s])
    BY DEF AccessInv
  <2>2. \A q \in {req'[s] : s \in Requests} : RequestRight(q)
    BY <1>1, <2>1
  <2> QED
    BY <1>4, <2>2
<1>6. RowsHeld'
  BY <1>1 DEF AccessInv, RowsHeld
<1> QED
  BY <1>1, <1>3, <1>5, <1>6 DEF AccessInv

-----------------------------------------------------------------------------
(* Steps of one request *)

LEMMA ClosedRight == RequestRight(Closed) /\ DOMAIN Closed.wrote = {}
<1>1. <<>> \in Seq(Step) /\ Len(<<>>) = 0 /\ DOMAIN <<>> = {}
  BY EmptySeq
<1>2. Shape(Closed)
  BY <1>1, AccessAssumption
     DEF AccessAssumption, Closed, Shape, IsRequest, PlaceRight, StepsRight, WritesRight
<1> QED
  BY <1>1, <1>2 DEF Closed, RequestRight, NotesRight, Stands, ReadBy, Pending, GranteeKnown

(* What the invariant says of one request. *)
LEMMA OneRight ==
    ASSUME AccessInv, NEW r \in Requests
    PROVE  RequestRight(req[r]) /\ SessionRight(r)
  BY DEF AccessInv

(* A request that has written nothing has nothing to answer for but what it holds. *)
LEMMA NothingWritten ==
    ASSUME NEW n, DOMAIN n.wrote = {}, DOMAIN n.noted = {}, n.pc \notin {"allowed", "write"}
    PROVE  NotesRight(n) /\ Stands(n)
  BY DEF NotesRight, Stands, ReadBy, Pending

LEMMA SignIn ==
    ASSUME AccessInv, NEW r \in Requests, NEW a \in Accounts, sign_in(r, a)
    PROVE  AccessInv'
<1>1. PICK s \in Sessions :
         /\ session[s].row # "live" /\ \A q \in Requests : req[q].sess # s
         /\ req' = [req EXCEPT ![r] = [Closed EXCEPT !.pc = "signing", !.job = "sign-in", !.acct = a, !.sess = s]]
  BY DEF sign_in
<1>2. PICK n : n = [Closed EXCEPT !.pc = "signing", !.job = "sign-in", !.acct = a, !.sess = s]
  OBVIOUS
<1>3. n = [pc |-> "signing", job |-> "sign-in", acct |-> a, sess |-> s, to |-> None, before |-> None,
           steps |-> <<>>, wrote |-> <<>>, noted |-> <<>>, raced |-> {}]
  BY <1>2 DEF Closed
<1>4. <<>> \in Seq(Step) /\ Len(<<>>) = 0 /\ DOMAIN <<>> = {}
  BY EmptySeq
<1>5. Shape(n)
  BY <1>3, <1>4 DEF Shape, IsRequest, PlaceRight, StepsRight, WritesRight
<1>6. RequestRight(n) /\ DOMAIN n.wrote = {}
  BY <1>3, <1>4, <1>5, NothingWritten DEF RequestRight, GranteeKnown
<1>7. UNCHANGED <<users, grants, trail, session, era>>
  BY DEF sign_in
<1>8. ASSUME NEW q \in Requests PROVE SessionRight(q)'
  <2>1. req'[q] = IF q = r THEN n ELSE req[q]
    BY <1>1, <1>2 DEF AccessInv
  <2>2. \A t \in Requests : t # r => req'[t] = req[t]
    BY <1>1, <1>2 DEF AccessInv
  <2>3. req'[r] = n
    BY <1>1, <1>2 DEF AccessInv
  <2>4. CASE q = r
    BY <1>1, <1>3, <1>7, <2>1, <2>2, <2>4 DEF SessionRight
  <2>5. CASE q # r
    BY <1>1, <1>3, <1>7, <2>1, <2>2, <2>3, <2>5, OneRight DEF SessionRight
  <2> QED
    BY <2>4, <2>5
<1> QED
  BY <1>1, <1>2, <1>6, <1>7, <1>8, OneMoves

LEMMA SessionResolved ==
    ASSUME AccessInv, NEW r \in Requests, NEW s \in Sessions, get_current_app_user(r, s)
    PROVE  AccessInv'
<1> DEFINE a == session[s].owner
<1>1. /\ req[r].pc = "idle" /\ session[s].row = "live"
      /\ Kind[a] # "dev-local" => \A q \in Requests : req[q].sess # s
      /\ req' = [req EXCEPT ![r] = [Closed EXCEPT !.pc = "authed", !.job = "request", !.acct = a, !.sess = s]]
      /\ UNCHANGED <<users, grants, trail, session, era>>
  BY DEF get_current_app_user, resolve_session
<1>2. a \in Accounts
  BY <1>1 DEF AccessInv, TablesRight
<1>3. PICK n : n = [Closed EXCEPT !.pc = "authed", !.job = "request", !.acct = a, !.sess = s]
  OBVIOUS
<1>4. n = [pc |-> "authed", job |-> "request", acct |-> a, sess |-> s, to |-> None, before |-> None,
           steps |-> <<>>, wrote |-> <<>>, noted |-> <<>>, raced |-> {}]
  BY <1>3 DEF Closed
<1>5. <<>> \in Seq(Step) /\ Len(<<>>) = 0 /\ DOMAIN <<>> = {}
  BY EmptySeq
<1>6. Shape(n)
  BY <1>2, <1>4, <1>5 DEF Shape, IsRequest, PlaceRight, StepsRight, WritesRight
<1>7. RequestRight(n) /\ DOMAIN n.wrote = {}
  BY <1>4, <1>5, <1>6, NothingWritten DEF RequestRight, GranteeKnown
<1>8. ASSUME NEW q \in Requests PROVE SessionRight(q)'
  <2>1. \A t \in Requests : t # r => req'[t] = req[t]
    BY <1>1, <1>3 DEF AccessInv
  <2>2. req'[r] = n
    BY <1>1, <1>3 DEF AccessInv
  <2>3. CASE q = r
    BY <1>1, <1>4, <2>1, <2>2, <2>3 DEF SessionRight
  <2>4. CASE q # r
    BY <1>1, <1>4, <2>1, <2>2, <2>4, OneRight DEF SessionRight
  <2> QED
    BY <2>3, <2>4
<1> QED
  BY <1>1, <1>3, <1>7, <1>8, OneMoves

LEMMA UserResolved ==
    ASSUME AccessInv, NEW r \in Requests, resolve_or_create_app_user(r)
    PROVE  AccessInv'
<1> DEFINE q == req[r]
<1>1. /\ q.pc = "signing"
      /\ req' = [req EXCEPT ![r] = [q EXCEPT !.pc = "check", !.to = q.acct, !.steps = GrantSteps(q.acct)]]
      /\ UNCHANGED <<users, grants, trail, session, era>>
  BY DEF resolve_or_create_app_user, AccessInv
<1>2. RequestRight(q) /\ SessionRight(r) /\ era \in 1..Len(Settings)
  BY OneRight DEF AccessInv, TablesRight
<1>3. q.job = "sign-in" /\ q.acct \in Accounts /\ DOMAIN q.wrote = {} /\ DOMAIN q.noted = {}
  BY <1>1, <1>2 DEF RequestRight, Shape, PlaceRight, WritesRight, NotesRight, Closed
<1>4. PICK n : n = [q EXCEPT !.pc = "check", !.to = q.acct, !.steps = GrantSteps(q.acct)]
  OBVIOUS
<1>5. n = [pc |-> "check", job |-> q.job, acct |-> q.acct, sess |-> q.sess, to |-> q.acct, before |-> q.before,
           steps |-> GrantSteps(q.acct), wrote |-> q.wrote, noted |-> q.noted, raced |-> q.raced]
  BY <1>2, <1>4 DEF RequestRight, Shape, IsRequest
<1>6. AllRight(n, n.steps)
  BY <1>2, <1>3, <1>5, SignInStepsRight
<1>7. Shape(n)
  BY <1>1, <1>2, <1>3, <1>5, <1>6
     DEF AllRight, RequestRight, Shape, IsRequest, PlaceRight, StepsRight, WritesRight
<1>8. RequestRight(n) /\ DOMAIN n.wrote = {}
  BY <1>3, <1>5, <1>7, NothingWritten DEF RequestRight, GranteeKnown
<1>9. \A t \in Requests : SessionRight(t)'
  BY <1>1, <1>4, <1>5, SessionStays
<1> QED
  BY <1>1, <1>4, <1>8, <1>9, OneMoves

(* A step's roles are of products. *)
LEMMA WritesOfStep ==
    ASSUME NEW s \in Step
    PROVE  /\ s.write \in Seq([product : Products, role : Roles])
           /\ \A w \in Range(s.write) :
                 /\ w.product \in Products /\ w.role \in Roles
                 /\ \E i \in 1..Len(s.write) : w = s.write[i]
<1>1. s.write \in Seq([product : Products, role : Roles])
  BY DEF Step
<1>2. PICK S : S = [product : Products, role : Roles]
  OBVIOUS
<1>3. s.write \in Seq(S)
  BY <1>1, <1>2
<1>4. DOMAIN s.write = 1..Len(s.write) /\ \A i \in 1..Len(s.write) : s.write[i] \in S
  BY <1>3, LenProperties, ElementOfSeq
<1>5. ASSUME NEW w \in Range(s.write) PROVE \E i \in 1..Len(s.write) : w = s.write[i]
  BY <1>4 DEF Range
<1> QED
  BY <1>1, <1>2, <1>4, <1>5

(* A sign-in whose rule holds has found no role of the account on the products of the *)
(* step, and no administrator where it is to write the first.                         *)
LEMMA RuleMet ==
    ASSUME AccessInv, NEW r \in Requests, req[r].job = "sign-in", req[r].pc = "check",
           NEW s \in Step, StepRight(req[r], s), RuleHolds(r, req[r].acct, s),
           NEW w \in Range(s.write)
    PROVE  /\ s.rule # "other-address"
           /\ grants[<<req[r].acct, w.product>>] = None
           /\ Kind[req[r].acct] = "google" /\ w.role = "admin" /\ w.product # Transelect => NoAdmin(w.product)
           /\ MayHold(req[r].acct, w.product, w.role)
<1> DEFINE q == req[r]
<1>1. /\ RequestRight(q) /\ q.acct \in Accounts /\ q.to = q.acct
  BY OneRight DEF RequestRight, Shape, PlaceRight, Closed
<1>2. w.product \in Products /\ w.role \in Roles /\ \E i \in 1..Len(s.write) : w = s.write[i]
  BY WritesOfStep
<1>3. None \notin Roles
  BY AccessAssumption DEF AccessAssumption
<1>4. \A u \in Accounts, p \in Products :
         get_product_role(r, u, p) = None => <<u, p>> \notin DOMAIN q.wrote /\ grants[<<u, p>>] = None
  BY <1>1, <1>3 DEF get_product_role, RequestRight, Shape, WritesRight
<1>5. s.rule # "other-address"
  BY DEF RuleHolds
<1>6. get_product_role(r, q.acct, w.product) = None
  <2>1. CASE s.rule = "no-grant"
    BY <1>1, <1>2, <2>1 DEF RuleHolds, list_grants_for_user
  <2>2. CASE s.rule # "no-grant"
    <3>1. Len(s.write) = 1 /\ s.rule # "granted"
      BY <2>2 DEF StepRight
    <3>2. w = s.write[1]
      BY <1>2, <3>1
    <3>3. s.rule \in {"first-admin", "no-own-grant"}
      BY <1>5, <2>2, <3>1 DEF Step
    <3> QED
      BY <3>2, <3>3 DEF RuleHolds
  <2> QED
    BY <2>1, <2>2
<1>7. ASSUME Kind[q.acct] = "google"
      PROVE  /\ w.role = "admin" /\ w.product # Transelect => NoAdmin(w.product)
             /\ MayHold(q.acct, w.product, w.role)
  <2>1. GivenByConfig(q, s, w)
    BY <1>2, <1>7 DEF StepRight
  <2>2. MayHold(q.acct, w.product, w.role)
    BY <1>5, <2>1 DEF GivenByConfig
  <2>3. ASSUME w.role = "admin", w.product # Transelect PROVE NoAdmin(w.product)
    <3>1. s.rule = "first-admin" /\ Len(s.write) = 1
      BY <1>5, <2>1, <2>3 DEF GivenByConfig
    <3>2. w = s.write[1]
      BY <1>2, <3>1
    <3>3. ~product_has_admin(r, w.product)
      BY <3>1, <3>2 DEF RuleHolds
    <3>4. ASSUME NEW u \in Accounts PROVE <<u, w.product>> \notin DOMAIN q.wrote
      <4>1. <<q.acct, w.product>> \notin DOMAIN q.wrote
        BY <1>1, <1>2, <1>4, <1>6
      <4>2. \A g \in DOMAIN q.wrote : g = <<q.acct, g[2]>>
        BY <1>1 DEF RequestRight, Shape, WritesRight
      <4> QED
        BY <4>1, <4>2
    <3> QED
      BY <3>3, <3>4 DEF NoAdmin, product_has_admin, get_product_role
  <2> QED
    BY <2>2, <2>3
<1>8. Kind[q.acct] # "google" => MayHold(q.acct, w.product, w.role)
  BY DEF MayHold, Outsider
<1> QED
  BY <1>1, <1>2, <1>4, <1>5, <1>6, <1>7, <1>8

LEMMA RuleTried ==
    ASSUME AccessInv, NEW r \in Requests, maybe_grant(r)
    PROVE  AccessInv'
<1> DEFINE q == req[r]
<1>1. /\ q.pc = "check" /\ q.steps # <<>> /\ UNCHANGED <<users, grants, trail, session, era>>
  BY DEF maybe_grant
<1>2. RequestRight(q) /\ SessionRight(r)
  BY OneRight
<1>3. AllRight(q, q.steps)
  BY <1>2 DEF AllRight, RequestRight, Shape, StepsRight
<1>4. /\ Head(q.steps) \in Step /\ StepRight(q, Head(q.steps))
      /\ AllRight(q, Tail(q.steps)) /\ Len(Tail(q.steps)) = Len(q.steps) - 1 /\ Len(q.steps) \in Nat \ {0}
  BY <1>1, <1>3, RightTail
<1>5. q.job = "sign-in" /\ q.acct \in Accounts /\ q.to = q.acct
  BY <1>1, <1>2 DEF RequestRight, Shape, PlaceRight, StepsRight, Closed
<1>6. CASE RuleHolds(r, q.acct, Head(q.steps))
  <2>1. PICK n : n = [q EXCEPT !.pc = "write", !.before = None]
    OBVIOUS
  <2>2. n = [pc |-> "write", job |-> q.job, acct |-> q.acct, sess |-> q.sess, to |-> q.to, before |-> None,
             steps |-> q.steps, wrote |-> q.wrote, noted |-> q.noted, raced |-> q.raced]
    BY <1>2, <2>1 DEF RequestRight, Shape, IsRequest
  <2>3. req' = [req EXCEPT ![r] = n]
    BY <1>6, <2>1 DEF maybe_grant, AccessInv
  <2>4. AllRight(n, n.steps)
    BY <1>3, <2>2, RightOfAnother
  <2>5. \A w \in Pending(n) :
           /\ Head(q.steps).rule # "other-address"
           /\ grants[<<q.acct, w.product>>] = None /\ w.product \in Products
           /\ Kind[q.acct] = "google" /\ w.role = "admin" /\ w.product # Transelect => NoAdmin(w.product)
           /\ MayHold(q.acct, w.product, w.role)
    BY <1>1, <1>4, <1>5, <1>6, <2>2, RuleMet, WritesOfStep DEF Pending
  <2>6. Head(q.steps).rule # "other-address"
    BY <1>6 DEF RuleHolds
  <2>7. WritesRight(n)
    BY <1>1, <1>2, <1>5, <2>2, <2>5, <2>6 DEF RequestRight, Shape, WritesRight
  <2>8. Shape(n)
    BY <1>1, <1>2, <1>5, <2>2, <2>4, <2>7
       DEF AllRight, RequestRight, Shape, IsRequest, PlaceRight, StepsRight, Closed
  <2>9. NotesRight(n) /\ GranteeKnown(n)
    BY <1>2, <1>5, <2>2 DEF RequestRight, NotesRight, GranteeKnown
  <2>10. Stands(n)
    <3>1. ReadBy(n) = ReadBy(q) \cup {w.product : w \in Pending(n)}
      BY <1>1, <2>2 DEF ReadBy, Pending
    <3>2. \A p \in ReadBy(n) \ n.raced : grants[<<n.acct, p>>] = None
      BY <1>2, <1>5, <2>2, <2>5, <3>1 DEF RequestRight, Stands
    <3> QED
      BY <1>2, <1>5, <2>2, <2>5, <3>2 DEF RequestRight, Stands
  <2>11. \A t \in Requests : SessionRight(t)'
    BY <1>1, <2>2, <2>3, SessionStays
  <2> QED
    BY <1>1, <2>2, <2>3, <2>8, <2>9, <2>10, <2>11, OneMoves DEF RequestRight
<1>7. CASE ~RuleHolds(r, q.acct, Head(q.steps))
  <2>1. PICK n : n = [q EXCEPT !.steps = Tail(@)]
    OBVIOUS
  <2>2. n = [pc |-> "check", job |-> q.job, acct |-> q.acct, sess |-> q.sess, to |-> q.to, before |-> q.before,
             steps |-> Tail(q.steps), wrote |-> q.wrote, noted |-> q.noted, raced |-> q.raced]
    BY <1>1, <1>2, <2>1 DEF RequestRight, Shape, IsRequest
  <2>3. req' = [req EXCEPT ![r] = n]
    BY <1>7, <2>1 DEF maybe_grant, AccessInv
  <2>4. AllRight(n, n.steps)
    BY <1>4, <2>2, RightOfAnother
  <2>5. WritesRight(n)
    BY <1>1, <1>2, <2>2 DEF RequestRight, Shape, WritesRight
  <2>6. Shape(n)
    BY <1>1, <1>2, <1>5, <2>2, <2>4, <2>5
       DEF AllRight, RequestRight, Shape, IsRequest, PlaceRight, StepsRight, Closed
  <2>7. NotesRight(n) /\ GranteeKnown(n)
    BY <1>2, <1>5, <2>2 DEF RequestRight, NotesRight, GranteeKnown
  <2>8. Stands(n)
    BY <1>1, <1>2, <2>2 DEF RequestRight, Stands, ReadBy, Pending
  <2>9. \A t \in Requests : SessionRight(t)'
    BY <1>1, <2>2, <2>3, SessionStays
  <2> QED
    BY <1>1, <2>2, <2>3, <2>6, <2>7, <2>8, <2>9, OneMoves DEF RequestRight
<1> QED
  BY <1>6, <1>7

(* A request that is refused is closed. *)
LEMMA Refused ==
    ASSUME AccessInv, NEW r \in Requests, req' = [req EXCEPT ![r] = Closed],
           UNCHANGED <<users, grants, trail, session, era>>
    PROVE  AccessInv'
<1>1. PICK n : n = Closed
  OBVIOUS
<1>2. \A t \in Requests : SessionRight(t)'
  BY SessionStays
<1>3. RequestRight(n) /\ DOMAIN n.wrote \subseteq DOMAIN req[r].wrote
  BY <1>1, ClosedRight
<1> QED
  BY <1>1, <1>2, <1>3, OneMoves

LEMMA Ensured ==
    ASSUME AccessInv, NEW r \in Requests, NEW p \in Products, NEW action, ensure_can(r, p, action)
    PROVE  AccessInv'
<1> DEFINE q == req[r]
<1>1. q.pc = "authed" /\ UNCHANGED <<users, grants, trail, session, era>>
  BY DEF ensure_can
<1>2. RequestRight(q)
  BY OneRight
<1>3. CASE req' = [req EXCEPT ![r] = Closed]
  BY <1>1, <1>3, Refused
<1>4. CASE req' = [req EXCEPT ![r] = [q EXCEPT !.pc = "busy"]]
  <2>1. PICK n : n = [q EXCEPT !.pc = "busy"]
    OBVIOUS
  <2>2. n = [pc |-> "busy", job |-> q.job, acct |-> q.acct, sess |-> q.sess, to |-> q.to, before |-> q.before,
             steps |-> q.steps, wrote |-> q.wrote, noted |-> q.noted, raced |-> q.raced]
    BY <1>2, <2>1 DEF RequestRight, Shape, IsRequest
  <2>3. q.job = "request" /\ DOMAIN q.wrote = {} /\ DOMAIN q.noted = {}
    BY <1>1, <1>2 DEF RequestRight, Shape, PlaceRight, WritesRight, NotesRight, Closed
  <2>4. AllRight(n, n.steps)
    BY <1>2, <2>2, RightOfAnother DEF AllRight, RequestRight, Shape, StepsRight
  <2>5. Shape(n)
    BY <1>1, <1>2, <2>2, <2>3, <2>4
       DEF AllRight, RequestRight, Shape, IsRequest, PlaceRight, StepsRight, WritesRight
  <2>6. RequestRight(n) /\ DOMAIN n.wrote = {}
    BY <2>2, <2>3, <2>5, NothingWritten DEF RequestRight, GranteeKnown
  <2>7. \A t \in Requests : SessionRight(t)'
    BY <1>1, <1>4, <2>1, <2>2, SessionStays
  <2> QED
    BY <1>1, <1>4, <2>1, <2>6, <2>7, OneMoves
<1> QED
  BY <1>3, <1>4 DEF ensure_can, AccessInv

(* The step of an administrator. *)
LEMMA GrantedStepRight ==
    ASSUME NEW q, q.job = "request", NEW p \in Products, NEW role \in Roles
    PROVE  LET steps == <<[rule |-> "granted", write |-> <<[product |-> p, role |-> role]>>]>> IN
           /\ AllRight(q, steps) /\ Len(steps) = 1 /\ steps # <<>>
           /\ Head(steps).rule = "granted"
           /\ Range(Head(steps).write) = {[product |-> p, role |-> role]}
<1>1. PICK s, w :
         /\ s = [rule |-> "granted", write |-> <<w>>] /\ w = [product |-> p, role |-> role]
  OBVIOUS
<1>2. <<w>> \in Seq([product : Products, role : Roles]) /\ Len(<<w>>) = 1 /\ <<w>>[1] = w /\ <<w>> # <<>>
      /\ DOMAIN <<w>> = 1..1
  <2>1. w \in [product : Products, role : Roles]
    BY <1>1
  <2> QED
    BY <2>1, OneElement, Zenon
<1>3. s.rule = "granted" /\ s.write = <<w>>
  BY <1>1
<1>4. s \in Step
  <2>1. PICK rule \in {"no-grant", "first-admin", "no-own-grant", "other-address", "granted"} : rule = "granted"
    OBVIOUS
  <2>2. \A W \in Seq([product : Products, role : Roles]) : [rule |-> rule, write |-> W] \in Step
    BY AStep, Zenon
  <2> QED
    BY <1>1, <1>2, <2>1, <2>2, Zenon
<1>5. StepRight(q, s)
  BY <1>2, <1>3 DEF StepRight
<1>6. AllRight(q, <<s>>) /\ Len(<<s>>) = 1 /\ <<s>> # <<>> /\ Head(<<s>>) = s
  BY <1>4, <1>5, RightOne, OneElement, Zenon
<1>7. Range(s.write) = {w}
  BY <1>2, <1>3 DEF Range
<1> QED
  BY <1>1, <1>3, <1>6, <1>7, Zenon

LEMMA ManageAllowed ==
    ASSUME AccessInv, NEW r \in Requests, NEW p \in Products, NEW role \in Given,
           require_manage_access(r, p, role)
    PROVE  AccessInv'
<1> DEFINE q == req[r]
           steps == <<[rule |-> "granted", write |-> <<[product |-> p, role |-> role]>>]>>
<1>1. q.pc = "authed" /\ UNCHANGED <<users, grants, trail, session, era>>
  BY DEF require_manage_access
<1>2. RequestRight(q)
  BY OneRight
<1>3. q.job = "request" /\ DOMAIN q.wrote = {} /\ DOMAIN q.noted = {} /\ q.acct \in Accounts
  BY <1>1, <1>2 DEF RequestRight, Shape, PlaceRight, WritesRight, NotesRight, Closed
<1>4. CASE req' = [req EXCEPT ![r] = Closed]
  BY <1>1, <1>4, Refused
<1>5. CASE /\ can(get_product_role(r, q.acct, p), ManagingAction)
           /\ req' = [req EXCEPT ![r] = [q EXCEPT !.pc = "allowed", !.steps = steps]]
  <2>1. PICK n : n = [q EXCEPT !.pc = "allowed", !.steps = steps]
    OBVIOUS
  <2>2. n = [pc |-> "allowed", job |-> q.job, acct |-> q.acct, sess |-> q.sess, to |-> q.to, before |-> q.before,
             steps |-> steps, wrote |-> q.wrote, noted |-> q.noted, raced |-> q.raced]
    BY <1>2, <2>1 DEF RequestRight, Shape, IsRequest
  <2>3. role \in Roles
    BY AccessAssumption DEF AccessAssumption
  <2>4. /\ AllRight(q, steps) /\ Len(steps) = 1 /\ steps # <<>> /\ Head(steps).rule = "granted"
        /\ Range(Head(steps).write) = {[product |-> p, role |-> role]}
    BY <1>3, <2>3, GrantedStepRight
  <2> HIDE DEF steps
  <2>5. AllRight(n, n.steps)
    BY <2>2, <2>4, RightOfAnother
  <2>6. Shape(n)
    <3>1. IsRequest(n) /\ PlaceRight(n)
      BY <1>1, <1>2, <1>3, <2>2 DEF RequestRight, Shape, IsRequest, PlaceRight, Closed
    <3>2. StepsRight(n)
      <4>1. n.pc = "allowed" /\ n.steps = steps
        BY <2>2
      <4>2. Len(n.steps) = 1 /\ n.steps # <<>>
        BY <2>4, <4>1, Zenon
      <4> QED
        BY <2>5, <4>1, <4>2 DEF AllRight, StepsRight
    <3>3. WritesRight(n)
      BY <1>3, <2>2 DEF WritesRight
    <3> QED
      BY <3>1, <3>2, <3>3 DEF Shape
  <2>7. grants[<<q.acct, p>>] = "admin"
    <3>1. can(grants[<<q.acct, p>>], "manage_access")
      BY <1>3, <1>5 DEF get_product_role, ManagingAction
    <3> QED
      BY <3>1 DEF can, _ALLOWED, Actions
  <2>8. Stands(n)
    <3>1. Pending(n) = {[product |-> p, role |-> role]}
      BY <2>2, <2>4 DEF Pending
    <3>2. ReadBy(n) = {p}
      <4>1. ReadBy(n) = {v.product : v \in Pending(n)}
        BY <1>3, <2>2 DEF ReadBy, Pending
      <4>2. [product |-> p, role |-> role].product = p
        OBVIOUS
      <4> QED
        BY <3>1, <4>1, <4>2, Zenon
    <3> QED
      BY <1>3, <2>2, <2>7, <3>1, <3>2 DEF Stands
  <2>9. RequestRight(n) /\ DOMAIN n.wrote = {}
    BY <1>3, <2>2, <2>6, <2>8 DEF RequestRight, NotesRight, GranteeKnown
  <2>10. \A t \in Requests : SessionRight(t)'
    BY <1>1, <1>5, <2>1, <2>2, SessionStays
  <2> QED
    BY <1>1, <1>5, <2>1, <2>9, <2>10, OneMoves
<1> QED
  BY <1>4, <1>5 DEF require_manage_access, AccessInv

LEMMA GranteeFound ==
    ASSUME AccessInv, NEW r \in Requests, NEW email, grant_product_role_by_email(r, email)
    PROVE  AccessInv'
<1> DEFINE q == req[r]
           found == get_app_user_by_email(email)
           w == Head(Head(q.steps).write)
           target == CHOOSE u \in found : TRUE
<1>1. q.pc = "allowed" /\ UNCHANGED <<users, grants, trail, session, era>>
  BY DEF grant_product_role_by_email
<1>2. RequestRight(q)
  BY OneRight
<1>3. /\ q.job = "request" /\ DOMAIN q.wrote = {} /\ DOMAIN q.noted = {} /\ q.acct \in Accounts
      /\ q.steps # <<>>
  BY <1>1, <1>2 DEF RequestRight, Shape, PlaceRight, StepsRight, WritesRight, NotesRight, Closed
<1>4. CASE req' = [req EXCEPT ![r] = Closed]
  BY <1>1, <1>4, Refused
<1>5. CASE /\ Cardinality(found) = 1 /\ Grantable(target, w)
           /\ req' = [req EXCEPT ![r] = [q EXCEPT !.pc = "write", !.to = target,
                                                !.before = Replaced(r, target, w.product)]]
  <2>1. target \in users /\ target \in Accounts
    <3>1. found # {}
      BY <1>5, FS_EmptySet
    <3>2. target \in found
      BY <3>1
    <3> QED
      BY <3>2 DEF get_app_user_by_email, AccessInv, TablesRight
  <2> HIDE DEF target, found
  <2>2. PICK n : n = [q EXCEPT !.pc = "write", !.to = target, !.before = Replaced(r, target, w.product)]
    OBVIOUS
  <2>3. n = [pc |-> "write", job |-> q.job, acct |-> q.acct, sess |-> q.sess, to |-> target,
             before |-> Replaced(r, target, w.product),
             steps |-> q.steps, wrote |-> q.wrote, noted |-> q.noted, raced |-> q.raced]
    BY <1>2, <2>2 DEF RequestRight, Shape, IsRequest
  <2>4. AllRight(q, q.steps)
    BY <1>2 DEF AllRight, RequestRight, Shape, StepsRight
  <2>5. Head(q.steps) \in Step /\ StepRight(q, Head(q.steps))
    BY <1>3, <2>4, RightTail
  <2>6. Head(q.steps).rule = "granted" /\ Len(Head(q.steps).write) = 1
    BY <1>3, <2>5 DEF StepRight
  <2>7. \A v \in Range(Head(q.steps).write) : v = w /\ v.product \in Products /\ v.role \in Roles
    BY <2>5, <2>6, WritesOfStep
  <2>8. w \in Range(Head(q.steps).write)
    <3>1. PICK S : S = [product : Products, role : Roles]
      OBVIOUS
    <3>2. Head(q.steps).write \in Seq(S)
      BY <2>5, <3>1, WritesOfStep
    <3>3. DOMAIN Head(q.steps).write = 1..1 /\ w = Head(q.steps).write[1]
      BY <2>6, <3>2, LenProperties
    <3> QED
      BY <3>3 DEF Range
  <2>9. w.product \in Products /\ w.role \in Roles
    BY <2>7, <2>8
  <2>10. MayHold(target, w.product, w.role)
    <3> SUFFICES ASSUME Outsider(target) PROVE w.role # "admin" /\ EverInvited(target, w.product)
      BY DEF MayHold
    <3>1. _external_grant_allowed(target, w)
      BY <1>5 DEF Grantable, _is_external, Outsider
    <3>2. era \in 1..era
      BY DEF AccessInv, TablesRight
    <3> QED
      BY <3>1, <3>2 DEF _external_grant_allowed, InvitedTo, Config, EverInvited
  <2>11. Replaced(r, target, w.product) = grants[<<target, w.product>>]
    BY <1>3 DEF Replaced, get_product_role
  <2>12. grants[<<target, w.product>>] \in Roles \cup {None}
    BY <2>1, <2>9 DEF AccessInv, TablesRight, ProductGrant, Rows
  <2> HIDE DEF w
  <2>13. AllRight(n, n.steps)
    BY <2>3, <2>4, RightOfAnother
  <2>14. Pending(n) = Pending(q) /\ ReadBy(n) = ReadBy(q) /\ \A v \in Pending(n) : v = w
    BY <1>1, <2>3, <2>7 DEF Pending, ReadBy
  <2>15. Shape(n)
    BY <1>1, <1>2, <1>3, <2>1, <2>3, <2>6, <2>10, <2>11, <2>12, <2>13, <2>14
       DEF AllRight, RequestRight, Shape, IsRequest, PlaceRight, StepsRight, WritesRight
  <2>16. Stands(n)
    BY <1>2, <1>3, <2>3, <2>11, <2>14 DEF RequestRight, Stands
  <2>17. RequestRight(n) /\ DOMAIN n.wrote = {}
    BY <1>3, <2>1, <2>3, <2>15, <2>16 DEF RequestRight, NotesRight, GranteeKnown
  <2>18. \A t \in Requests : SessionRight(t)'
    BY <1>1, <1>5, <2>2, <2>3, SessionStays
  <2> QED
    BY <1>1, <1>5, <2>2, <2>17, <2>18, OneMoves
<1> QED
  BY <1>4, <1>5 DEF grant_product_role_by_email, AccessInv

(* The rows a request has written are rows of the table. *)
LEMMA RowsOfRequest ==
    ASSUME NEW q, Shape(q)
    PROVE  DOMAIN q.wrote \subseteq Rows
<1> SUFFICES ASSUME NEW g \in DOMAIN q.wrote PROVE g \in Rows
  OBVIOUS
<1>1. g = <<q.to, g[2]>> /\ g[2] \in Products /\ DOMAIN q.wrote # {}
  BY DEF Shape, WritesRight
<1>2. q.to \in Accounts
  <2>1. q.pc \in {"check", "write"}
    BY <1>1, EmptySeq DEF Shape, PlaceRight, WritesRight, Closed
  <2> QED
    BY <2>1 DEF Shape, PlaceRight
<1>3. <<q.to, g[2]>> \in Accounts \X Products
  BY <1>1, <1>2
<1> QED
  BY <1>1, <1>3 DEF Rows

(* The row a request has written is its own until it ends, and its event the newest. *)
LEMMA RowWritten ==
    ASSUME AccessInv, NEW r \in Requests, NEW n, NEW g \in Rows,
           req' = [req EXCEPT ![r] = n], UNCHANGED <<users, grants, session, era>>,
           trail' \in {trail, [trail EXCEPT ![g].given = @ + 1]},
           RowFree(r, g), DOMAIN n.wrote \subseteq DOMAIN req[r].wrote \cup {g},
           RequestRight(n)',
           n.sess = req[r].sess /\ n.job = req[r].job /\ n.acct = req[r].acct
    PROVE  AccessInv'
<1>1. req' = [q \in Requests |-> req'[q]] /\ req'[r] = n /\ \A q \in Requests \ {r} : req'[q] = req[q]
  BY DEF AccessInv
<1>2. era \in Int
  BY AccessAssumption, LenProperties DEF AccessInv, TablesRight, AccessAssumption
<1>3. /\ trail' \in [Rows -> Trail] /\ \A h \in Rows \ {g} : trail'[h] = trail[h]
      /\ \A h \in Rows : trail'[h].id = trail[h].id /\ trail'[h].role = trail[h].role
                         /\ trail[h].given <= trail'[h].given
  <2>1. trail \in [Rows -> Trail]
    BY DEF AccessInv, TablesRight
  <2>2. trail[g] \in Trail /\ [trail[g] EXCEPT !.given = @ + 1] \in Trail
    BY <2>1 DEF Trail
  <2>3. trail' = trail \/ trail' = [trail EXCEPT ![g] = [trail[g] EXCEPT !.given = @ + 1]]
    OBVIOUS
  <2>4. /\ [trail[g] EXCEPT !.given = @ + 1].id = trail[g].id
        /\ [trail[g] EXCEPT !.given = @ + 1].role = trail[g].role
        /\ trail[g].given <= [trail[g] EXCEPT !.given = @ + 1].given
    BY <2>1 DEF Trail
  <2>5. \A h \in Rows : trail[h].given <= trail[h].given
    BY <2>1 DEF Trail
  <2> QED
    BY <2>1, <2>2, <2>3, <2>4, <2>5
<1>4. TablesRight'
  <2>1. \A u, p, role : MayHold(u, p, role) => MayHold(u, p, role)'
    BY <1>2, MayHoldKept
  <2>2. \A h \in Rows : trail'[h].id <= trail'[h].given
    <3>1. \A h \in Rows : trail[h].id <= trail[h].given /\ trail[h] \in Trail /\ trail'[h] \in Trail
      BY <1>3 DEF AccessInv, TablesRight
    <3> QED
      BY <1>3, <3>1 DEF Trail
  <2> QED
    BY <1>3, <2>1, <2>2 DEF AccessInv, TablesRight, NewestEventInForce
<1>5. ASSUME NEW q, RequestRight(q), g \notin DOMAIN q.wrote PROVE RequestRight(q)'
  <2>1. NotesRight(q)'
    <3>1. DOMAIN q.wrote \subseteq Rows
      BY <1>5, RowsOfRequest DEF RequestRight
    <3>2. \A h \in DOMAIN q.wrote : trail'[h] = trail[h]
      BY <1>3, <1>5, <3>1
    <3> QED
      BY <1>5, <3>2, NotesKept DEF RequestRight
  <2>2. GranteeKnown(q)'
    BY <1>5 DEF RequestRight, GranteeKnown
  <2>3. Shape(q)' /\ Stands(q)'
    BY <1>2, <1>5, ShapeKept, StandsKept DEF RequestRight
  <2> QED
    BY <2>1, <2>2, <2>3 DEF RequestRight
<1>6. \A q \in {req'[s] : s \in Requests} : RequestRight(q)'
  <2>1. \A s \in Requests : RequestRight(req[s]) /\ (s # r => g \notin DOMAIN req[s].wrote)
    BY DEF AccessInv, RowFree
  <2>2. ASSUME NEW s \in Requests, NEW q, q = req'[s] PROVE RequestRight(q)'
    <3>1. CASE s = r
      BY <1>1, <2>2, <3>1
    <3>2. CASE s # r
      <4>1. RequestRight(q) /\ g \notin DOMAIN q.wrote
        BY <1>1, <2>1, <2>2, <3>2
      <4> QED
        BY <1>5, <4>1
    <3> QED
      BY <3>1, <3>2
  <2> QED
    BY <2>2
<1>7. RowsHeld'
  BY <1>1 DEF AccessInv, RowsHeld, RowFree
<1>8. \A q \in Requests : SessionRight(q)'
  BY SessionStays
<1> QED
  BY <1>1, <1>4, <1>6, <1>7, <1>8 DEF AccessInv

(* A step is done with its last role. *)
LEMMA StepDone ==
    ASSUME NEW q, NEW steps, AllRight(q, steps), steps # <<>>
    PROVE  /\ AllRight(q, Tail(steps)) /\ Len(Tail(steps)) = Len(steps) - 1 /\ Len(steps) \in Nat \ {0}
           /\ Head(steps).rule \in {"no-grant", "first-admin", "no-own-grant", "other-address", "granted"}
           /\ Head(Head(steps).write) \in Range(Head(steps).write)
<1> DEFINE s == Head(steps)
<1>1. /\ s \in Step /\ StepRight(q, s)
      /\ AllRight(q, Tail(steps)) /\ Len(Tail(steps)) = Len(steps) - 1 /\ Len(steps) \in Nat \ {0}
  BY RightTail
<1>2. PICK S : S = [product : Products, role : Roles]
  OBVIOUS
<1>3. s.write \in Seq(S) /\ s.write # <<>>
  BY <1>1, <1>2, WritesOfStep DEF StepRight
<1>4. Len(s.write) \in Nat \ {0} /\ DOMAIN s.write = 1..Len(s.write) /\ Head(s.write) = s.write[1]
  BY <1>3, LenProperties, EmptySeq
<1> QED
  BY <1>1, <1>4 DEF Step, Range

(* What is left of a step after one of several roles: only steps of the rule that asks *)
(* for no grant at all have several.                                                   *)
LEMMA StepLeft ==
    ASSUME NEW q, NEW steps, AllRight(q, steps), steps # <<>>,
           NEW left, left = Tail(Head(steps).write), left # <<>>,
           NEW t, t = [Head(steps) EXCEPT !.write = left]
    PROVE  /\ AllRight(q, <<t>> \o Tail(steps)) /\ <<t>> \o Tail(steps) # <<>>
           /\ Head(steps).rule = "no-grant"
           /\ Head(<<t>> \o Tail(steps)).rule = "no-grant"
           /\ Range(Head(<<t>> \o Tail(steps)).write) \subseteq Range(Head(steps).write)
<1> DEFINE s == Head(steps)
           rest == <<t>> \o Tail(steps)
<1>1. /\ s \in Step /\ StepRight(q, s)
      /\ AllRight(q, Tail(steps)) /\ Len(Tail(steps)) = Len(steps) - 1 /\ Len(steps) \in Nat \ {0}
  BY RightTail
<1>2. PICK S : S = [product : Products, role : Roles]
  OBVIOUS
<1>3. s.write \in Seq(S) /\ s.write # <<>>
  BY <1>1, <1>2, WritesOfStep DEF StepRight
<1>4. /\ left \in Seq(S) /\ Len(left) = Len(s.write) - 1 /\ Len(s.write) \in Nat \ {0}
      /\ \A i \in 1..Len(left) : left[i] = s.write[i + 1]
      /\ DOMAIN s.write = 1..Len(s.write) /\ DOMAIN left = 1..Len(left)
  BY <1>3, HeadTailProperties, LenProperties, EmptySeq
<1>5. Len(left) # 0
  BY <1>4, EmptySeq
<1>6. s.rule = "no-grant"
  BY <1>1, <1>4, <1>5 DEF StepRight
<1>7. t = [rule |-> "no-grant", write |-> left]
  <2>1. PICK b : s = [rule |-> "no-grant", write |-> b]
    BY <1>1, <1>6 DEF Step
  <2>2. \A x, y, z : [[rule |-> x, write |-> y] EXCEPT !.write = z] = [rule |-> x, write |-> z]
    OBVIOUS
  <2> HIDE DEF s
  <2>3. t = [s EXCEPT !.write = left]
    BY DEF s
  <2> QED
    BY <2>1, <2>2, <2>3
<1>8. t \in Step /\ t.rule = "no-grant" /\ t.write = left
  <2>1. PICK rule \in {"no-grant", "first-admin", "no-own-grant", "other-address", "granted"} : rule = "no-grant"
    OBVIOUS
  <2>2. left \in Seq([product : Products, role : Roles])
    BY <1>2, <1>4
  <2>3. /\ [rule |-> rule, write |-> left] \in Step
        /\ [rule |-> rule, write |-> left].rule = rule /\ [rule |-> rule, write |-> left].write = left
    BY <2>2, AStep, Zenon
  <2> QED
    BY <1>7, <2>1, <2>3, Zenon
<1>9. StepRight(q, t)
  BY <1>1, <1>4, <1>5, <1>6, <1>8 DEF StepRight, GivenByConfig
<1>10. AllRight(q, <<t>>) /\ <<t>> \in Seq(Step) /\ Len(<<t>>) = 1 /\ <<t>>[1] = t
  BY <1>8, <1>9, RightOne, OneElement, Zenon
<1>11. AllRight(q, rest)
  BY <1>1, <1>10, RightConcat, Zenon
<1>12. Tail(steps) \in Seq(Step) /\ Len(Tail(steps)) \in Nat
  BY <1>1, LenProperties DEF AllRight
<1>13. Len(rest) = 1 + Len(Tail(steps)) /\ rest[1] = t
  BY <1>10, <1>12, ConcatProperties
<1>14. rest # <<>> /\ Head(rest) = t
  BY <1>12, <1>13, EmptySeq
<1>15. Range(left) \subseteq Range(s.write)
  <2> SUFFICES ASSUME NEW i \in 1..Len(left) PROVE left[i] \in Range(s.write)
    BY <1>4 DEF Range
  <2>1. i + 1 \in DOMAIN s.write /\ left[i] = s.write[i + 1]
    BY <1>4
  <2> QED
    BY <2>1 DEF Range
<1> QED
  BY <1>6, <1>8, <1>11, <1>14, <1>15

LEMMA RoleWritten ==
    ASSUME AccessInv, NEW r \in Requests, grant_product_role(r)
    PROVE  AccessInv'
<1> DEFINE q == req[r]
           step == Head(q.steps)
           w == Head(step.write)
           g == <<q.to, w.product>>
           event == [id |-> trail[g].given + 1, before |-> q.before, role |-> w.role]
           left == Tail(step.write)
           rest == IF left = <<>> THEN Tail(q.steps) ELSE <<[step EXCEPT !.write = left]>> \o Tail(q.steps)
           place == IF left = <<>> THEN "check" ELSE "write"
           to == [q EXCEPT !.wrote = WithRow(@, g, w.role), !.pc = place, !.steps = rest]
           noted == step.rule = "granted" \/ Kind[q.acct] = "google"
<1>1. /\ q.pc = "write" /\ RowFree(r, g) /\ UNCHANGED <<users, grants, session, era>>
      /\ \/ /\ noted
            /\ trail' = [trail EXCEPT ![g].given = @ + 1]
            /\ req' = [req EXCEPT ![r] = [to EXCEPT !.noted = WithRow(@, g, event)]]
         \/ /\ ~noted
            /\ req' = [req EXCEPT ![r] = to]
            /\ UNCHANGED trail
  <2>1. to = [q EXCEPT !.wrote = WithRow(@, g, w.role), !.pc = place,
                       !.steps = IF left = <<>> THEN Tail(@) ELSE <<[step EXCEPT !.write = left]>> \o Tail(@)]
    OBVIOUS
  <2> QED
    BY <2>1, Zenon DEF grant_product_role
<1>2. RequestRight(q) /\ SessionRight(r)
  BY OneRight
<1>3. AllRight(q, q.steps) /\ q.steps # <<>>
  BY <1>1, <1>2 DEF AllRight, RequestRight, Shape, StepsRight
<1>4. /\ AllRight(q, rest)
      /\ step.rule \in {"no-grant", "first-admin", "no-own-grant", "other-address", "granted"}
      /\ left # <<>> => /\ rest # <<>> /\ step.rule = "no-grant" /\ Head(rest).rule = "no-grant"
                        /\ Range(Head(rest).write) \subseteq Range(step.write)
      /\ left = <<>> => Len(rest) = Len(q.steps) - 1 /\ Len(q.steps) \in Nat
      /\ w \in Range(step.write)
  <2>1. /\ AllRight(q, Tail(q.steps)) /\ Len(Tail(q.steps)) = Len(q.steps) - 1 /\ Len(q.steps) \in Nat \ {0}
        /\ step.rule \in {"no-grant", "first-admin", "no-own-grant", "other-address", "granted"}
        /\ w \in Range(step.write)
    BY <1>3, StepDone, Zenon
  <2>2. CASE left = <<>>
    <3>1. rest = Tail(q.steps)
      BY <2>2
    <3> HIDE DEF rest, left, step, w, q
    <3> QED
      BY <2>1, <2>2, <3>1
  <2>3. CASE left # <<>>
    <3>1. PICK t : t = [step EXCEPT !.write = left]
      OBVIOUS
    <3>2. rest = <<t>> \o Tail(q.steps)
      BY <2>3, <3>1
    <3>3. /\ AllRight(q, <<t>> \o Tail(q.steps)) /\ <<t>> \o Tail(q.steps) # <<>>
          /\ step.rule = "no-grant"
          /\ Head(<<t>> \o Tail(q.steps)).rule = "no-grant"
          /\ Range(Head(<<t>> \o Tail(q.steps)).write) \subseteq Range(step.write)
      BY <1>3, <2>3, <3>1, StepLeft, Zenon
    <3> HIDE DEF rest, left, step, w, q
    <3> QED
      BY <2>1, <2>3, <3>2, <3>3, Zenon
  <2> QED
    BY <2>2, <2>3
<1>5. step \in Step /\ StepRight(q, step) /\ w.product \in Products /\ w.role \in Roles
  BY <1>3, <1>4, RightTail, WritesOfStep
<1>6. /\ q.acct \in Accounts /\ q.to \in Accounts /\ q.job \in {"sign-in", "request"}
      /\ q.job = "sign-in" => q.to = q.acct
  <2> HIDE DEF q
  <2> QED
    BY <1>1, <1>2 DEF RequestRight, Shape, PlaceRight, Closed
<1>7. g \in Rows /\ g[2] = w.product /\ g[1] = q.to /\ g = <<q.to, g[2]>>
  BY <1>5, <1>6 DEF Rows
<1>8. w \in Pending(q) /\ w.product \in ReadBy(q)
  BY <1>1, <1>4 DEF Pending, ReadBy
<1>9. q.job = "request" => Len(q.steps) = 1 /\ left = <<>> /\ rest = <<>>
  <2> SUFFICES ASSUME q.job = "request" PROVE Len(q.steps) = 1 /\ left = <<>> /\ rest = <<>>
    OBVIOUS
  <2>1. Len(q.steps) \in Nat \ {0} /\ Len(q.steps) <= 1
    BY <1>2, <1>3, RightTail DEF RequestRight, Shape, StepsRight
  <2>2. left = <<>>
    BY <1>4, <1>5 DEF StepRight
  <2>3. rest \in Seq(Step) /\ Len(rest) = 0
    <3> HIDE DEF rest
    <3> QED
      BY <1>4, <2>1, <2>2 DEF AllRight
  <2> QED
    BY <2>1, <2>2, <2>3, EmptySeq
<1> HIDE DEF w, left, rest, step
<1>10. PICK n : n = IF noted THEN [to EXCEPT !.noted = WithRow(@, g, event)] ELSE to
  OBVIOUS
<1>11. req' = [req EXCEPT ![r] = n]
  BY <1>1, <1>10
<1>12. PICK wrote : wrote = WithRow(q.wrote, g, w.role)
  OBVIOUS
<1>13. PICK notes : notes = IF noted THEN WithRow(q.noted, g, event) ELSE q.noted
  OBVIOUS
<1>14. n = [pc |-> place, job |-> q.job, acct |-> q.acct, sess |-> q.sess, to |-> q.to, before |-> q.before,
            steps |-> rest, wrote |-> wrote, noted |-> notes, raced |-> q.raced]
  <2>1. q = [pc |-> q.pc, job |-> q.job, acct |-> q.acct, sess |-> q.sess, to |-> q.to,
             before |-> q.before, steps |-> q.steps, wrote |-> q.wrote, noted |-> q.noted,
             raced |-> q.raced]
    BY <1>2 DEF RequestRight, Shape, IsRequest
  <2>2. to = [pc |-> place, job |-> q.job, acct |-> q.acct, sess |-> q.sess, to |-> q.to, before |-> q.before,
              steps |-> rest, wrote |-> wrote, noted |-> q.noted, raced |-> q.raced]
    <3>1. to = [q EXCEPT !.wrote = wrote, !.pc = place, !.steps = rest]
      BY <1>12
    <3> HIDE DEF g, place, q, to
    <3> QED
      BY <2>1, <3>1
  <2> HIDE DEF to, event, noted, g, place
  <2>3. CASE noted
    BY <1>10, <1>13, <2>2, <2>3
  <2>4. CASE ~noted
    BY <1>10, <1>13, <2>2, <2>4
  <2> QED
    BY <2>3, <2>4
<1>15. /\ DOMAIN wrote = DOMAIN q.wrote \cup {g}
       /\ wrote[g] = w.role /\ \A h \in DOMAIN q.wrote : h # g => wrote[h] = q.wrote[h]
  <2> HIDE DEF g
  <2> QED
    BY <1>12 DEF WithRow
<1>16. /\ noted => DOMAIN notes = DOMAIN q.noted \cup {g}
                   /\ notes[g] = event /\ \A h \in DOMAIN q.noted : h # g => notes[h] = q.noted[h]
       /\ ~noted => notes = q.noted
  <2> HIDE DEF g, event, noted
  <2> QED
    BY <1>13 DEF WithRow
<1> HIDE DEF g
<1>17. AllRight(n, n.steps)
  BY <1>4, <1>14, RightOfAnother
<1>18. place = (IF rest # <<>> /\ left # <<>> THEN "write" ELSE "check") /\ (place = "write" => left # <<>>)
  BY <1>4
<1>19. /\ Pending(n) \subseteq Pending(q) /\ ReadBy(n) \subseteq ReadBy(q)
  <2>1. Pending(n) \subseteq Pending(q)
    BY <1>1, <1>4, <1>14, <1>18 DEF Pending, step
  <2>2. ReadBy(n) = {h[2] : h \in DOMAIN n.wrote} \cup {v.product : v \in Pending(n)}
    BY <1>14 DEF ReadBy, Pending
  <2>3. ReadBy(q) = {h[2] : h \in DOMAIN q.wrote} \cup {v.product : v \in Pending(q)}
    BY <1>1 DEF ReadBy, Pending
  <2>4. n.wrote = wrote
    BY <1>14
  <2> HIDE DEF place
  <2> QED
    BY <1>7, <1>8, <1>15, <2>1, <2>2, <2>3, <2>4
<1>20. WritesRight(n)
  <2>1. MayHold(q.to, w.product, w.role) /\ \A v \in Pending(n) : MayHold(q.to, v.product, v.role)
    BY <1>1, <1>2, <1>8, <1>19 DEF RequestRight, Shape, WritesRight
  <2>2. place = "write" => Head(rest).rule # "other-address"
    BY <1>4, <1>18
  <2>3. \A h \in DOMAIN wrote :
           /\ h = <<q.to, h[2]>> /\ h[2] \in Products /\ wrote[h] \in Roles
           /\ MayHold(q.to, h[2], wrote[h])
    <3> SUFFICES ASSUME NEW h \in DOMAIN wrote
                 PROVE  /\ h = <<q.to, h[2]>> /\ h[2] \in Products /\ wrote[h] \in Roles
                        /\ MayHold(q.to, h[2], wrote[h])
      OBVIOUS
    <3>1. CASE h = g
      BY <1>5, <1>7, <1>15, <2>1, <3>1
    <3>2. CASE h # g
      BY <1>2, <1>15, <3>2 DEF RequestRight, Shape, WritesRight
    <3> QED
      BY <3>1, <3>2
  <2>4. n.pc \in {"check", "write"} /\ n.pc = place /\ n.wrote = wrote /\ n.to = q.to /\ n.steps = rest
    BY <1>14
  <2> HIDE DEF place
  <2> QED
    BY <2>1, <2>2, <2>3, <2>4 DEF WritesRight
<1>21. StepsRight(n)
  <2>1. n.pc = place /\ n.pc \in {"check", "write"} /\ n.steps = rest /\ n.job = q.job
    BY <1>14
  <2>2. rest = <<>> => Len(rest) <= 1
    BY EmptySeq
  <2>3. n.pc = "write" => rest # <<>>
    BY <1>4, <1>18, <2>1
  <2> HIDE DEF place
  <2> QED
    BY <1>9, <1>17, <2>1, <2>2, <2>3 DEF StepsRight, AllRight
<1>22. Shape(n)
  <2>1. PlaceRight(n) /\ IsRequest(n)
    BY <1>2, <1>6, <1>14 DEF RequestRight, Shape, PlaceRight, IsRequest, Closed
  <2> QED
    BY <1>20, <1>21, <2>1 DEF Shape
<1>23. NotesRight(n)'
  <2>1. /\ n.job = q.job /\ n.acct = q.acct /\ n.wrote = wrote /\ n.noted = notes
    BY <1>14
  <2>2. NotesRight(q)
    BY <1>2 DEF RequestRight
  <2>3. /\ trail[g] \in Trail /\ trail[g].id <= trail[g].given
        /\ trail \in [Rows -> Trail]
    BY <1>7 DEF AccessInv, TablesRight
  <2> HIDE DEF event, place, to
  <2>4. CASE noted
    <3>1. trail' = [trail EXCEPT ![g].given = @ + 1]
      BY <1>1, <2>4
    <3>2. trail'[g].given = trail[g].given + 1 /\ trail'[g].id = trail[g].id /\ trail[g].given \in Nat /\ trail[g].id \in Nat
      BY <1>7, <2>3, <3>1 DEF Trail
    <3>3. \A h \in Rows : h # g => trail'[h] = trail[h]
      BY <2>3, <3>1
    <3>4. notes[g] = event /\ IsEvent(event) /\ event.role = w.role /\ event.id = trail[g].given + 1
      BY <1>16, <2>4 DEF event, IsEvent
    <3>5. DOMAIN q.noted \subseteq Rows
      BY <1>2, <2>2, RowsOfRequest DEF NotesRight, RequestRight
    <3>6. DOMAIN notes \subseteq DOMAIN wrote
      BY <1>15, <1>16, <2>2, <2>4 DEF NotesRight
    <3>7. \A h \in DOMAIN wrote : Kind[h[1]] = "google" => h \in DOMAIN notes
      BY <1>15, <1>16, <2>2, <2>4 DEF NotesRight
    <3>8. n.job = "sign-in" /\ Kind[n.acct] # "google" => DOMAIN notes = {}
      <4>1. ~(n.job = "sign-in" /\ Kind[n.acct] # "google")
        BY <1>5, <2>1, <2>4 DEF StepRight
      <4> QED
        BY <4>1
    <3>9. ASSUME NEW h \in DOMAIN notes
          PROVE  /\ IsEvent(notes[h]) /\ notes[h].role = wrote[h]
                 /\ notes[h].id = trail'[h].given /\ trail'[h].id < trail'[h].given
      <4>1. CASE h = g
        BY <1>15, <2>3, <3>2, <3>4, <4>1
      <4>2. CASE h # g
        <5>1. h \in DOMAIN q.noted /\ notes[h] = q.noted[h] /\ h \in DOMAIN q.wrote /\ h \in Rows
          BY <1>16, <2>2, <2>4, <3>5, <4>2 DEF NotesRight
        <5>2. wrote[h] = q.wrote[h] /\ trail'[h] = trail[h]
          BY <1>15, <3>3, <4>2, <5>1
        <5> QED
          BY <2>2, <5>1, <5>2 DEF NotesRight
      <4> QED
        BY <4>1, <4>2
    <3> QED
      BY <2>1, <3>6, <3>7, <3>8, <3>9 DEF NotesRight
  <2>5. CASE ~noted
    <3>1. trail' = trail /\ notes = q.noted
      BY <1>1, <1>16, <2>5
    <3>2. q.job = "sign-in" /\ Kind[q.acct] # "google"
      BY <1>5, <1>6, <2>5 DEF StepRight
    <3>3. DOMAIN q.noted = {}
      BY <2>2, <3>2 DEF NotesRight
    <3>4. Kind[g[1]] # "google"
      BY <1>6, <1>7, <3>2
    <3> QED
      BY <1>15, <2>1, <2>2, <3>1, <3>3, <3>4 DEF NotesRight
  <2> QED
    BY <2>4, <2>5
<1>24. Stands(n)
  <2>1. /\ n.job = q.job /\ n.acct = q.acct /\ n.to = q.to /\ n.before = q.before
        /\ n.wrote = wrote /\ n.noted = notes /\ n.raced = q.raced
    BY <1>14
  <2>2. Stands(q)
    BY <1>2 DEF RequestRight
  <2> HIDE DEF place, to, event
  <2>3. \A p \in ReadBy(n) \ n.raced :
           /\ n.job = "sign-in" => grants[<<n.acct, p>>] = None
           /\ n.job = "request" => grants[<<n.acct, p>>] = "admin"
    BY <1>19, <2>1, <2>2 DEF Stands
  <2>4. \A v \in Pending(n) : v.product \notin n.raced =>
           /\ n.pc = "write" => n.before = grants[<<n.to, v.product>>]
           /\ n.job = "sign-in" /\ Kind[n.acct] = "google" /\ v.role = "admin" /\ v.product # Transelect =>
                 NoAdmin(v.product)
    BY <1>1, <1>19, <2>1, <2>2 DEF Stands
  <2>5. \A h \in DOMAIN notes : h[2] \notin n.raced => notes[h].before = grants[h]
    <3> SUFFICES ASSUME NEW h \in DOMAIN notes, h[2] \notin q.raced PROVE notes[h].before = grants[h]
      BY <2>1
    <3>1. CASE h \in DOMAIN q.noted /\ notes[h] = q.noted[h]
      BY <2>2, <3>1 DEF Stands
    <3>2. CASE h = g /\ notes[h] = event
      <4>1. event.before = q.before
        BY DEF event
      <4>2. q.before = grants[<<q.to, w.product>>]
        BY <1>1, <1>7, <1>8, <2>2, <3>2 DEF Stands
      <4> QED
        BY <1>7, <3>2, <4>1, <4>2
    <3> QED
      BY <1>16, <3>1, <3>2
  <2>6. \A h \in DOMAIN wrote :
           n.job = "sign-in" /\ Kind[n.acct] = "google" /\ wrote[h] = "admin" /\ h[2] # Transelect
              /\ h[2] \notin n.raced => NoAdmin(h[2])
    <3> SUFFICES ASSUME NEW h \in DOMAIN wrote, q.job = "sign-in", Kind[q.acct] = "google",
                        wrote[h] = "admin", h[2] # Transelect, h[2] \notin q.raced
                 PROVE  NoAdmin(h[2])
      BY <2>1
    <3>1. CASE h = g
      BY <1>7, <1>8, <1>15, <2>2, <3>1 DEF Stands
    <3>2. CASE h # g
      BY <1>15, <2>2, <3>2 DEF Stands
    <3> QED
      BY <3>1, <3>2
  <2> QED
    BY <2>1, <2>3, <2>4, <2>5, <2>6 DEF Stands
<1>25. Shape(n)' /\ Stands(n)'
  <2>1. era \in Int /\ era' = era /\ grants' = grants
    BY <1>1, AccessAssumption, LenProperties DEF AccessInv, TablesRight, AccessAssumption
  <2> QED
    BY <1>22, <1>24, <2>1, ShapeKept, StandsKept
<1>26. GranteeKnown(n)'
  BY <1>1, <1>2, <1>14 DEF RequestRight, GranteeKnown
<1>27. RequestRight(n)'
  BY <1>23, <1>25, <1>26 DEF RequestRight
<1>28. /\ DOMAIN n.wrote \subseteq DOMAIN q.wrote \cup {g}
       /\ n.sess = q.sess /\ n.job = q.job /\ n.acct = q.acct
  BY <1>14, <1>15
<1>29. trail' \in {trail, [trail EXCEPT ![g].given = @ + 1]}
  BY <1>1
<1>30. RowFree(r, g) /\ UNCHANGED <<users, grants, session, era>>
  BY <1>1
<1> QED
  BY <1>7, <1>11, <1>27, <1>28, <1>29, <1>30, RowWritten

-----------------------------------------------------------------------------
(* The end of a request *)

(* A request reads of products. *)
LEMMA ReadOfProducts ==
    ASSUME NEW q, Shape(q)
    PROVE  /\ ReadBy(q) \subseteq Products
           /\ \A g \in DOMAIN q.wrote : g \in Rows /\ g[2] \in ReadBy(q)
           /\ \A w \in Pending(q) : w.product \in ReadBy(q)
           /\ ReadBy(q) # {} => q.acct \in Accounts
           /\ q.pc = "write" => q.to \in Accounts
<1>1. DOMAIN q.wrote \subseteq Rows
  BY RowsOfRequest
<1>2. ReadBy(q) = {g[2] : g \in DOMAIN q.wrote} \cup {w.product : w \in Pending(q)}
  BY DEF ReadBy, Pending
<1>3. \A w \in Pending(q) : w.product \in Products
  <2> SUFFICES ASSUME NEW w \in Pending(q) PROVE w.product \in Products
    OBVIOUS
  <2>1. w \in Range(Head(q.steps).write) /\ q.steps # <<>>
    BY DEF Pending, Shape, StepsRight
  <2>2. Head(q.steps) \in Step
    BY <2>1, RightTail DEF AllRight, Shape, StepsRight
  <2> QED
    BY <2>1, <2>2, WritesOfStep
<1>4. \A g \in DOMAIN q.wrote : g[2] \in Products
  BY DEF Shape, WritesRight
<1>5. ReadBy(q) # {} => q.pc # "idle"
  BY <1>2 DEF Pending, Shape, WritesRight
<1> QED
  BY <1>1, <1>2, <1>3, <1>4, <1>5 DEF Shape, PlaceRight

(* A request that is open when another commits W: what it has read of the products of W *)
(* counts as raced.                                                                     *)
LEMMA Outlived ==
    ASSUME TablesRight, NEW q, RequestRight(q), NEW W, DOMAIN W \subseteq Rows,
           DOMAIN q.wrote \cap DOMAIN W = {},
           \A g \in Rows : grants'[g] = IF g \in DOMAIN W THEN W[g] ELSE grants[g],
           \A g \in Rows : g \notin DOMAIN W => trail'[g] = trail[g],
           era' = era, users \subseteq users',
           NEW n, n = [q EXCEPT !.raced = @ \cup (ReadBy(q) \cap {g[2] : g \in DOMAIN W})]
    PROVE  RequestRight(n)'
<1> DEFINE X == {g[2] : g \in DOMAIN W}
<1>1. n = [pc |-> q.pc, job |-> q.job, acct |-> q.acct, sess |-> q.sess, to |-> q.to, before |-> q.before,
           steps |-> q.steps, wrote |-> q.wrote, noted |-> q.noted, raced |-> q.raced \cup (ReadBy(q) \cap X)]
  <2>1. q = [pc |-> q.pc, job |-> q.job, acct |-> q.acct, sess |-> q.sess, to |-> q.to,
             before |-> q.before, steps |-> q.steps, wrote |-> q.wrote, noted |-> q.noted,
             raced |-> q.raced]
    BY DEF RequestRight, Shape, IsRequest
  <2> HIDE DEF X
  <2>2. n = [q EXCEPT !.raced = @ \cup (ReadBy(q) \cap X)]
    BY DEF X
  <2> QED
    BY <2>1, <2>2
<1>2. Shape(q)
  BY DEF RequestRight
<1>3. /\ ReadBy(q) \subseteq Products
      /\ \A g \in DOMAIN q.wrote : g \in Rows /\ g[2] \in ReadBy(q)
      /\ \A w \in Pending(q) : w.product \in ReadBy(q)
      /\ ReadBy(q) # {} => q.acct \in Accounts
      /\ q.pc = "write" => q.to \in Accounts
  BY <1>2, ReadOfProducts
<1>4. ReadBy(n) = ReadBy(q) /\ Pending(n) = Pending(q)
  BY <1>1 DEF ReadBy, Pending
<1>5. Shape(n)
  <2>1. IsRequest(n)
    BY <1>1 DEF IsRequest
  <2>2. PlaceRight(n)
    <3>1. CASE q = Closed
      <4>1. ReadBy(q) = {}
        BY <3>1, ClosedRight DEF ReadBy, Closed
      <4>2. n = q
        BY <1>1, <3>1, <4>1 DEF Closed
      <4> QED
        BY <1>2, <4>2 DEF Shape
    <3>2. CASE q # Closed
      BY <1>1, <1>2, <1>3, <3>2 DEF Shape, PlaceRight
    <3> QED
      BY <3>1, <3>2
  <2>3. StepsRight(n)
    <3>1. AllRight(n, n.steps)
      BY <1>1, <1>2, RightOfAnother DEF AllRight, Shape, StepsRight
    <3> QED
      BY <1>1, <1>2, <3>1 DEF AllRight, Shape, StepsRight
  <2>4. WritesRight(n)
    BY <1>1, <1>2, <1>4 DEF Shape, WritesRight
  <2> QED
    BY <2>1, <2>2, <2>3, <2>4 DEF Shape
<1>6. Shape(n)'
  <2>1. era \in Int
    BY AccessAssumption, LenProperties DEF TablesRight, AccessAssumption
  <2> QED
    BY <1>5, <2>1, ShapeKept
<1>7. NotesRight(n)'
  <2>1. NotesRight(n)
    BY <1>1 DEF RequestRight, NotesRight
  <2>2. \A g \in DOMAIN n.wrote : trail'[g] = trail[g]
    BY <1>1, <1>3
  <2> QED
    BY <2>1, <2>2, NotesKept
<1>8. \A p \in ReadBy(q) \ n.raced : \A u \in Accounts : grants'[<<u, p>>] = grants[<<u, p>>]
  <2> SUFFICES ASSUME NEW p \in ReadBy(q), p \notin n.raced, NEW u \in Accounts
               PROVE  grants'[<<u, p>>] = grants[<<u, p>>]
    OBVIOUS
  <2>1. p \notin X
    BY <1>1
  <2>2. <<u, p>> \notin DOMAIN W
    BY <2>1
  <2>3. <<u, p>> \in Rows
    BY <1>3 DEF Rows
  <2> QED
    BY <2>2, <2>3
<1>9. Stands(n)'
  <2>1. /\ n.pc = q.pc /\ n.job = q.job /\ n.acct = q.acct /\ n.to = q.to /\ n.before = q.before
        /\ n.wrote = q.wrote /\ n.noted = q.noted /\ q.raced \subseteq n.raced
    BY <1>1
  <2>2. Stands(q) /\ DOMAIN q.noted \subseteq DOMAIN q.wrote
    BY DEF RequestRight, NotesRight
  <2> HIDE DEF X
  <2>3. \A p \in ReadBy(n) \ n.raced :
           /\ n.job = "sign-in" => grants'[<<n.acct, p>>] = None
           /\ n.job = "request" => grants'[<<n.acct, p>>] = "admin"
    BY <1>3, <1>4, <1>8, <2>1, <2>2 DEF Stands
  <2>4. \A p \in ReadBy(q) \ n.raced : NoAdmin(p) => NoAdmin(p)'
    BY <1>8 DEF NoAdmin
  <2>5. \A w \in Pending(n) : w.product \notin n.raced =>
           /\ n.pc = "write" => n.before = grants'[<<n.to, w.product>>]
           /\ n.job = "sign-in" /\ Kind[n.acct] = "google" /\ w.role = "admin" /\ w.product # Transelect =>
                 NoAdmin(w.product)'
    BY <1>3, <1>4, <1>8, <2>1, <2>2, <2>4 DEF Stands
  <2>6. \A g \in DOMAIN n.noted : g[2] \notin n.raced => n.noted[g].before = grants'[g]
    BY <1>3, <2>1, <2>2 DEF Stands
  <2>7. \A g \in DOMAIN n.wrote :
           n.job = "sign-in" /\ Kind[n.acct] = "google" /\ n.wrote[g] = "admin" /\ g[2] # Transelect
              /\ g[2] \notin n.raced => NoAdmin(g[2])'
    BY <1>3, <2>1, <2>2, <2>4 DEF Stands
  <2>8. ReadBy(n)' = ReadBy(n) /\ Pending(n)' = Pending(n)
    BY DEF ReadBy, Pending
  <2> QED
    BY <2>3, <2>5, <2>6, <2>7, <2>8 DEF Stands
<1>10. GranteeKnown(n)'
  BY <1>1 DEF RequestRight, GranteeKnown
<1> QED
  BY <1>6, <1>7, <1>9, <1>10 DEF RequestRight

(* What a request has written comes into force. *)
LEMMA Comes ==
    ASSUME AccessInv, NEW r \in Requests, Committed(r), era' = era,
           users \subseteq users', users' \subseteq Accounts,
           DOMAIN req[r].wrote # {} => req[r].to \in users',
           session' \in [Sessions -> Session],
           \A s \in Sessions : session'[s].row # "none" => session'[s].owner \in users',
           \A q \in Requests : SessionRight(q)'
    PROVE  AccessInv'
<1> DEFINE q == req[r]
<1>1. RequestRight(q) /\ TablesRight
  BY OneRight DEF AccessInv
<1>2. DOMAIN q.wrote \subseteq Rows /\ DOMAIN q.noted \subseteq DOMAIN q.wrote
  BY <1>1, RowsOfRequest DEF RequestRight, NotesRight
<1>3. era \in Int
  BY <1>1, AccessAssumption, LenProperties DEF TablesRight, AccessAssumption
<1>4. DOMAIN grants = Rows /\ trail \in [Rows -> Trail]
  BY <1>1 DEF TablesRight, ProductGrant
<1>5. /\ grants' = [g \in Rows |-> IF g \in DOMAIN q.wrote THEN q.wrote[g] ELSE grants[g]]
      /\ trail' = [g \in Rows |->
                     IF g \in DOMAIN q.noted /\ q.noted[g].id > trail[g].id
                     THEN [id |-> q.noted[g].id, role |-> q.noted[g].role, given |-> trail[g].given]
                     ELSE trail[g]]
      /\ req' = Overtaken(r)
  BY <1>4 DEF Committed
<1>6. \A g \in DOMAIN q.wrote :
         /\ g = <<q.to, g[2]>> /\ q.wrote[g] \in Roles /\ MayHold(g[1], g[2], q.wrote[g])
         /\ g[1] = q.to
  BY <1>1 DEF RequestRight, Shape, WritesRight
<1>7. \A g \in DOMAIN q.noted :
         /\ q.noted[g].role = q.wrote[g] /\ q.noted[g].id = trail[g].given /\ trail[g].id < trail[g].given
         /\ trail[g].id \in Nat /\ trail[g].given \in Nat /\ g \in Rows
  BY <1>1, <1>2, <1>4 DEF RequestRight, NotesRight, Trail
<1>8. /\ trail' \in [Rows -> Trail]
      /\ \A g \in Rows : trail'[g].id <= trail'[g].given
      /\ \A g \in Rows : g \notin DOMAIN q.noted => trail'[g] = trail[g]
      /\ \A g \in DOMAIN q.noted : trail'[g].role = q.wrote[g]
  <2>1. ASSUME NEW g \in Rows, g \notin DOMAIN q.noted PROVE trail'[g] = trail[g]
    BY <1>5, <2>1
  <2>2. ASSUME NEW g \in DOMAIN q.noted
        PROVE  /\ trail'[g] = [id |-> trail[g].given, role |-> q.wrote[g], given |-> trail[g].given]
               /\ trail'[g].id = trail[g].given /\ trail'[g].role = q.wrote[g] /\ trail'[g].given = trail[g].given
    <3>1. q.noted[g].id > trail[g].id
      BY <1>7
    <3>2. trail'[g] = [id |-> q.noted[g].id, role |-> q.noted[g].role, given |-> trail[g].given]
      BY <1>5, <1>7, <3>1
    <3>3. trail'[g] = [id |-> trail[g].given, role |-> q.wrote[g], given |-> trail[g].given]
      BY <1>7, <3>2
    <3>4. PICK x, y, z : x = trail[g].given /\ y = q.wrote[g] /\ z = trail[g].given
      OBVIOUS
    <3>5. trail'[g] = [id |-> x, role |-> y, given |-> z]
      BY <3>3, <3>4, Zenon
    <3>6. trail'[g].id = x /\ trail'[g].role = y /\ trail'[g].given = z
      BY <3>5
    <3> QED
      BY <3>3, <3>4, <3>6, Zenon
  <2>3. \A g \in Rows : trail[g] \in Trail /\ trail[g].id <= trail[g].given
    BY <1>1, <1>4 DEF TablesRight
  <2>4. ASSUME NEW g \in Rows PROVE trail'[g] \in Trail /\ trail'[g].id <= trail'[g].given
    <3>1. CASE g \in DOMAIN q.noted
      <4>1. q.wrote[g] \in Roles
        BY <1>2, <1>6, <3>1
      <4>2. [id |-> trail[g].given, role |-> q.wrote[g], given |-> trail[g].given] \in Trail
        BY <1>7, <3>1, <4>1 DEF Trail
      <4>3. trail'[g].id = trail'[g].given /\ trail'[g] \in Trail
        BY <2>2, <3>1, <4>2
      <4> QED
        BY <1>4, <1>7, <2>2, <3>1, <4>3 DEF Trail
    <3>2. CASE g \notin DOMAIN q.noted
      BY <2>1, <2>3, <3>2
    <3> QED
      BY <3>1, <3>2
  <2>5. trail' = [g \in Rows |-> trail'[g]]
    BY <1>5
  <2>6. \A g \in DOMAIN q.noted : trail'[g].role = q.wrote[g]
    BY <2>2
  <2> QED
    BY <2>1, <2>4, <2>5, <2>6
<1>9. TablesRight'
  <2>1. \A u, p, role : MayHold(u, p, role) => MayHold(u, p, role)'
    BY <1>3, MayHoldKept
  <2>2. grants' \in ProductGrant
    BY <1>1, <1>5, <1>6 DEF TablesRight, ProductGrant
  <2>3. \A g \in Rows : grants'[g] # None => g[1] \in users'
    BY <1>1, <1>5, <1>6 DEF TablesRight
  <2>4. \A g \in Rows : \A role \in {grants'[g]} \ {None} : MayHold(g[1], g[2], role)'
    <3> SUFFICES ASSUME NEW g \in Rows, NEW v, v = grants'[g], v # None PROVE MayHold(g[1], g[2], v)'
      OBVIOUS
    <3>1. CASE g \in DOMAIN q.wrote
      BY <1>5, <1>6, <2>1, <3>1
    <3>2. CASE g \notin DOMAIN q.wrote
      <4>1. v = grants[g]
        BY <1>5, <3>2
      <4> QED
        BY <1>1, <2>1, <4>1 DEF TablesRight
    <3> QED
      BY <3>1, <3>2
  <2>5. NewestEventInForce'
    <3> SUFFICES ASSUME NEW g \in Rows, Kind[g[1]] = "google" PROVE grants'[g] = trail'[g].role
      BY DEF NewestEventInForce
    <3>1. CASE g \in DOMAIN q.wrote
      <4>1. g \in DOMAIN q.noted
        BY <1>1, <3>1 DEF RequestRight, NotesRight
      <4> QED
        BY <1>5, <1>8, <3>1, <4>1
    <3>2. CASE g \notin DOMAIN q.wrote
      BY <1>1, <1>2, <1>5, <1>8, <3>2 DEF TablesRight, NewestEventInForce
    <3> QED
      BY <3>1, <3>2
  <2> QED
    BY <1>1, <1>8, <2>2, <2>3, <2>4, <2>5 DEF TablesRight
<1>10. /\ req' = [t \in Requests |-> req'[t]] /\ req'[r] = Closed
       /\ \A t \in Requests \ {r} :
             req'[t] = [req[t] EXCEPT !.raced = @ \cup (ReadBy(req[t]) \cap {g[2] : g \in DOMAIN q.wrote})]
  BY <1>5 DEF Overtaken
<1>11. \A v \in {req'[t] : t \in Requests} : RequestRight(v)'
  <2> SUFFICES ASSUME NEW t \in Requests, NEW v, v = req'[t] PROVE RequestRight(v)'
    OBVIOUS
  <2>1. CASE t = r
    <3>1. v = Closed
      BY <1>10, <2>1
    <3>2. RequestRight(Closed)'
      BY ClosedRight, PTL
    <3> QED
      BY <3>1, <3>2
  <2>2. CASE t # r
    <3>1. PICK W : W = q.wrote
      OBVIOUS
    <3>2. PICK u : u = req[t]
      OBVIOUS
    <3>3. RequestRight(u)
      BY <3>2, OneRight
    <3>4. DOMAIN u.wrote \cap DOMAIN W = {}
      BY <2>2, <3>1, <3>2 DEF AccessInv, RowsHeld
    <3>5. v = [u EXCEPT !.raced = @ \cup (ReadBy(u) \cap {g[2] : g \in DOMAIN W})]
      BY <1>10, <2>2, <3>1, <3>2
    <3>6. \A g \in Rows : grants'[g] = IF g \in DOMAIN W THEN W[g] ELSE grants[g]
      BY <1>5, <3>1
    <3>7. \A g \in Rows : g \notin DOMAIN W => trail'[g] = trail[g]
      BY <1>2, <1>8, <3>1
    <3>8. DOMAIN W \subseteq Rows
      BY <1>2, <3>1
    <3> QED
      BY <1>1, <3>3, <3>4, <3>5, <3>6, <3>7, <3>8, Outlived
  <2> QED
    BY <2>1, <2>2
<1>12. RowsHeld'
  <2>1. DOMAIN req'[r].wrote = {}
    BY <1>10, ClosedRight
  <2>2. \A t \in Requests \ {r} : req'[t].wrote = req[t].wrote
    <3> SUFFICES ASSUME NEW t \in Requests \ {r} PROVE req'[t].wrote = req[t].wrote
      OBVIOUS
    <3>1. \A u, y : IsRequest(u) => [u EXCEPT !.raced = y].wrote = u.wrote
      BY DEF IsRequest
    <3>2. IsRequest(req[t])
      BY OneRight DEF RequestRight, Shape
    <3>3. PICK y : req'[t] = [req[t] EXCEPT !.raced = y]
      <4>1. req'[t] = [req[t] EXCEPT !.raced = @ \cup (ReadBy(req[t]) \cap {g[2] : g \in DOMAIN q.wrote})]
        BY <1>10, Zenon
      <4> QED
        BY <4>1
    <3> QED
      BY <3>1, <3>2, <3>3, Zenon
  <2> QED
    BY <2>1, <2>2 DEF AccessInv, RowsHeld
<1> QED
  BY <1>9, <1>10, <1>11, <1>12 DEF AccessInv

(* The requests that outlive a commit stay on their sessions. *)
LEMMA OvertakenStay ==
    ASSUME AccessInv, NEW r \in Requests, Committed(r)
    PROVE  /\ req'[r] = Closed
           /\ \A t \in Requests \ {r} : /\ req'[t].sess = req[t].sess /\ req'[t].job = req[t].job
                                        /\ req'[t].acct = req[t].acct
<1>1. \A t \in Requests \ {r} :
         req'[t] = [req[t] EXCEPT !.raced = @ \cup (ReadBy(req[t]) \cap {g[2] : g \in DOMAIN req[r].wrote})]
  BY DEF Committed, Overtaken
<1>2. \A u, y : IsRequest(u) =>
         /\ [u EXCEPT !.raced = y].sess = u.sess /\ [u EXCEPT !.raced = y].job = u.job
         /\ [u EXCEPT !.raced = y].acct = u.acct
  BY DEF IsRequest
<1>3. \A t \in Requests : IsRequest(req[t])
  BY OneRight DEF RequestRight, Shape
<1>4. req'[r] = Closed
  BY DEF Committed, Overtaken
<1>5. ASSUME NEW t \in Requests \ {r}
      PROVE  req'[t].sess = req[t].sess /\ req'[t].job = req[t].job /\ req'[t].acct = req[t].acct
  <2>1. PICK u : u = req[t]
    OBVIOUS
  <2>2. PICK y : req'[t] = [u EXCEPT !.raced = y]
    BY <1>1, <2>1
  <2>3. IsRequest(u)
    BY <1>3, <2>1
  <2> QED
    BY <1>2, <2>1, <2>2, <2>3
<1> QED
  BY <1>4, <1>5

LEMMA NoSession == Closed.sess \notin Sessions /\ Closed.job = "none"
  BY AccessAssumption DEF AccessAssumption, Closed

(* A request is on a session of the table. *)
LEMMA OnASession ==
    ASSUME AccessInv, NEW r \in Requests, req[r].job # "none"
    PROVE  req[r].sess \in Sessions /\ req[r].acct \in Accounts
  BY OneRight DEF RequestRight, Shape, PlaceRight, Closed

LEMMA SignedIn ==
    ASSUME AccessInv, NEW r \in Requests, create_session(r)
    PROVE  AccessInv'
<1> DEFINE q == req[r]
<1>1. /\ q.pc = "check" /\ q.job = "sign-in"
      /\ users' = users \cup {q.acct} /\ era' = era /\ Committed(r)
      /\ session' = [session EXCEPT ![q.sess] = [owner |-> q.acct, row |-> "live"]]
  BY DEF create_session
<1>2. RequestRight(q) /\ SessionRight(r) /\ TablesRight
  BY OneRight DEF AccessInv
<1>3. q.acct \in Accounts /\ q.sess \in Sessions /\ q.to = q.acct
  BY <1>1, <1>2 DEF RequestRight, Shape, PlaceRight, Closed
<1>4. /\ session' \in [Sessions -> Session]
      /\ session'[q.sess].owner = q.acct /\ session'[q.sess].row = "live"
      /\ \A s \in Sessions : s # q.sess => session'[s] = session[s]
  <2>1. [owner |-> q.acct, row |-> "live"] \in Session
    BY <1>3 DEF Session
  <2> QED
    BY <1>1, <1>2, <1>3, <2>1 DEF TablesRight
<1>5. \A s \in Sessions : session'[s].row # "none" => session'[s].owner \in users'
  BY <1>1, <1>2, <1>4 DEF TablesRight
<1>6. /\ req'[r] = Closed
      /\ \A t \in Requests \ {r} : /\ req'[t].sess = req[t].sess /\ req'[t].job = req[t].job
                                   /\ req'[t].acct = req[t].acct
  BY <1>1, OvertakenStay
<1>7. ASSUME NEW t \in Requests PROVE SessionRight(t)'
  <2>1. CASE t = r
    BY <1>6, <2>1, NoSession DEF SessionRight
  <2>2. CASE t # r
    <3>1. SessionRight(t) /\ req[t].sess # q.sess
      BY <1>1, <1>2, <2>2, OneRight DEF SessionRight
    <3>2. req[t].job # "none" => req[t].sess \in Sessions
      BY OnASession
    <3> QED
      BY <1>4, <1>6, <2>2, <3>1, <3>2, NoSession DEF SessionRight
  <2> QED
    BY <2>1, <2>2
<1> QED
  BY <1>1, <1>2, <1>3, <1>4, <1>5, <1>7, Comes DEF TablesRight

LEMMA RequestEnded ==
    ASSUME AccessInv, NEW r \in Requests, get_db_connection(r)
    PROVE  AccessInv'
<1> DEFINE q == req[r]
<1>1. /\ q.pc \in {"busy", "authed"} \/ (q.pc = "check" /\ q.job = "request")
      /\ Committed(r) /\ UNCHANGED <<users, session, era>>
  BY DEF get_db_connection
<1>2. RequestRight(q) /\ TablesRight
  BY OneRight DEF AccessInv
<1>3. DOMAIN q.wrote # {} => q.to \in users
  BY <1>1, <1>2 DEF RequestRight, GranteeKnown, Shape, WritesRight
<1>4. /\ req'[r] = Closed
      /\ \A t \in Requests \ {r} : /\ req'[t].sess = req[t].sess /\ req'[t].job = req[t].job
                                   /\ req'[t].acct = req[t].acct
  BY <1>1, OvertakenStay
<1>5. ASSUME NEW t \in Requests PROVE SessionRight(t)'
  <2>1. CASE t = r
    BY <1>4, <2>1, NoSession DEF SessionRight
  <2>2. CASE t # r
    <3>1. SessionRight(t) /\ (req[t].job # "none" => req[t].sess \in Sessions)
      BY OneRight, OnASession
    <3> QED
      BY <1>1, <1>4, <2>2, <3>1, NoSession DEF SessionRight
  <2> QED
    BY <2>1, <2>2
<1> QED
  BY <1>1, <1>2, <1>3, <1>5, Comes DEF TablesRight

LEMMA LoggedOut ==
    ASSUME AccessInv, NEW r \in Requests, logout(r)
    PROVE  AccessInv'
<1> DEFINE q == req[r]
<1>1. /\ q.pc = "authed" /\ Committed(r) /\ UNCHANGED <<users, era>>
      /\ session' = [session EXCEPT ![q.sess] = [owner |-> None, row |-> "none"]]
  BY DEF logout
<1>2. RequestRight(q) /\ SessionRight(r) /\ TablesRight
  BY OneRight DEF AccessInv
<1>3. q.job = "request" /\ DOMAIN q.wrote = {} /\ q.sess \in Sessions
  BY <1>1, <1>2 DEF RequestRight, Shape, PlaceRight, WritesRight, Closed
<1>4. /\ session' \in [Sessions -> Session]
      /\ session'[q.sess].owner = None /\ session'[q.sess].row = "none"
      /\ \A s \in Sessions : s # q.sess => session'[s] = session[s]
  <2>1. [owner |-> None, row |-> "none"] \in Session
    BY DEF Session
  <2> QED
    BY <1>1, <1>2, <1>3, <2>1 DEF TablesRight
<1>5. \A s \in Sessions : session'[s].row # "none" => session'[s].owner \in users'
  BY <1>1, <1>2, <1>4 DEF TablesRight
<1>6. /\ req'[r] = Closed
      /\ \A t \in Requests \ {r} : /\ req'[t].sess = req[t].sess /\ req'[t].job = req[t].job
                                   /\ req'[t].acct = req[t].acct
  BY <1>1, OvertakenStay
<1>7. ASSUME NEW t \in Requests PROVE SessionRight(t)'
  <2>1. CASE t = r
    BY <1>6, <2>1, NoSession DEF SessionRight
  <2>2. CASE t # r
    <3>1. SessionRight(t) /\ (req[t].job # "none" => req[t].sess \in Sessions)
      BY OneRight, OnASession
    <3>2. CASE req[t].sess # q.sess
      BY <1>4, <1>6, <2>2, <3>1, <3>2, NoSession DEF SessionRight
    <3>3. CASE req[t].sess = q.sess
      <4>1. req[t].job # "sign-in" /\ (req[t].job = "request" => Kind[req[t].acct] = "dev-local")
        BY <1>3, <2>2, <3>1, <3>3 DEF SessionRight
      <4> QED
        BY <1>6, <2>2, <4>1 DEF SessionRight
    <3> QED
      BY <3>2, <3>3
  <2> QED
    BY <2>1, <2>2
<1> QED
  BY <1>1, <1>2, <1>3, <1>4, <1>5, <1>7, Comes DEF TablesRight

-----------------------------------------------------------------------------
(* Sessions that end and processes that are replaced *)

(* The tables keep when only a session is taken away. *)
LEMMA SessionEnds ==
    ASSUME TablesRight, UNCHANGED <<users, grants, trail>>,
           era' \in 1..Len(Settings), era \in Int, era' \in Int, era <= era',
           session' \in [Sessions -> Session],
           \A s \in Sessions : session'[s].row # "none" => session[s].row # "none" /\ session'[s].owner = session[s].owner
    PROVE  TablesRight'
<1>1. \A u, p, role : MayHold(u, p, role) => MayHold(u, p, role)'
  BY MayHoldKept
<1> QED
  BY <1>1 DEF TablesRight, NewestEventInForce

LEMMA Expired ==
    ASSUME AccessInv, NEW s \in Sessions, Expire(s)
    PROVE  AccessInv'
<1>1. /\ session[s].row = "live" /\ Kind[session[s].owner] # "dev-local"
      /\ session' = [session EXCEPT ![s] =
                      IF \E r \in Requests : req[r].sess = s THEN [session[s] EXCEPT !.row = "expired"]
                      ELSE [owner |-> None, row |-> "none"]]
      /\ UNCHANGED <<users, grants, trail, req, era>>
  BY DEF Expire
<1>2. session \in [Sessions -> Session] /\ era \in 1..Len(Settings) /\ TablesRight
  BY DEF AccessInv, TablesRight
<1>3. /\ session' \in [Sessions -> Session] /\ \A t \in Sessions : t # s => session'[t] = session[t]
      /\ session'[s].row # "live"
      /\ session'[s].row # "none" => session'[s].owner = session[s].owner
      /\ (\E r \in Requests : req[r].sess = s) => session'[s].row # "none"
  <2>1. CASE \E r \in Requests : req[r].sess = s
    <3>1. PICK t : t = [session[s] EXCEPT !.row = "expired"]
      OBVIOUS
    <3>2. t \in Session /\ t.row = "expired" /\ t.owner = session[s].owner
      BY <1>2, <3>1 DEF Session
    <3>3. session' = [session EXCEPT ![s] = t]
      BY <1>1, <2>1, <3>1
    <3> QED
      BY <1>2, <3>2, <3>3
  <2>2. CASE ~\E r \in Requests : req[r].sess = s
    <3>1. PICK t : t = [owner |-> None, row |-> "none"]
      OBVIOUS
    <3>2. t \in Session /\ t.row = "none"
      BY <3>1 DEF Session
    <3>3. session' = [session EXCEPT ![s] = t]
      BY <1>1, <2>2, <3>1
    <3> QED
      BY <1>2, <2>2, <3>2, <3>3
  <2> QED
    BY <2>1, <2>2
<1>4. era \in Int /\ era' = era /\ era <= era'
  BY <1>1, <1>2, AccessAssumption, LenProperties DEF AccessAssumption
<1>5. TablesRight'
  <2>1. \A t \in Sessions : session'[t].row # "none" => session[t].row # "none" /\ session'[t].owner = session[t].owner
    BY <1>1, <1>3
  <2> QED
    BY <1>1, <1>2, <1>3, <1>4, <2>1, SessionEnds
<1>6. ASSUME NEW q, RequestRight(q) PROVE RequestRight(q)'
  <2>1. NotesRight(q)' /\ GranteeKnown(q)'
    BY <1>1, <1>6, NotesKept DEF RequestRight, GranteeKnown
  <2>2. Shape(q)' /\ Stands(q)'
    BY <1>1, <1>4, <1>6, ShapeKept, StandsKept DEF RequestRight
  <2> QED
    BY <2>1, <2>2 DEF RequestRight
<1>7. ASSUME NEW r \in Requests PROVE SessionRight(r)'
  <2>1. SessionRight(r) /\ (req[r].job # "none" => req[r].sess \in Sessions)
    BY OneRight, OnASession
  <2>2. CASE req[r].sess = s
    BY <1>1, <1>3, <2>1, <2>2 DEF SessionRight
  <2>3. CASE req[r].sess # s
    BY <1>1, <1>3, <2>1, <2>3 DEF SessionRight
  <2> QED
    BY <2>2, <2>3
<1>8. \A q \in {req'[r] : r \in Requests} : RequestRight(q)'
  BY <1>1, <1>6 DEF AccessInv
<1> QED
  BY <1>1, <1>5, <1>7, <1>8 DEF AccessInv, RowsHeld

LEMMA Deployed ==
    ASSUME AccessInv, Deploy
    PROVE  AccessInv'
<1>1. /\ era < Len(Settings) /\ era' = era + 1
      /\ req' = [r \in Requests |-> Closed]
      /\ session' = [s \in Sessions |->
                       IF session[s].row = "live" /\ Kind[session[s].owner] = "dev-local"
                       THEN [owner |-> None, row |-> "none"] ELSE session[s]]
      /\ UNCHANGED <<users, grants, trail>>
  BY DEF Deploy
<1>2. session \in [Sessions -> Session] /\ era \in 1..Len(Settings) /\ TablesRight
  BY DEF AccessInv, TablesRight
<1>3. Len(Settings) \in Nat
  BY AccessAssumption, LenProperties DEF AccessAssumption
<1>4. era \in Int /\ era' \in 1..Len(Settings) /\ era' \in Int /\ era <= era'
  BY <1>1, <1>2, <1>3
<1>5. /\ session' \in [Sessions -> Session]
      /\ \A s \in Sessions : session'[s].row # "none" => session[s].row # "none" /\ session'[s].owner = session[s].owner
  <2>1. PICK t : t = [owner |-> None, row |-> "none"]
    OBVIOUS
  <2>2. t \in Session /\ t.row = "none"
    BY <2>1 DEF Session
  <2>3. session' = [s \in Sessions |->
                      IF session[s].row = "live" /\ Kind[session[s].owner] = "dev-local" THEN t ELSE session[s]]
    BY <1>1, <2>1
  <2> QED
    BY <1>2, <2>2, <2>3
<1>6. TablesRight'
  BY <1>1, <1>2, <1>4, <1>5, SessionEnds
<1>7. \A q \in {req'[r] : r \in Requests} : RequestRight(q)'
  <2>1. RequestRight(Closed)'
    BY ClosedRight, PTL
  <2>2. \A q \in {req'[r] : r \in Requests} : q = Closed
    BY <1>1
  <2> QED
    BY <2>1, <2>2
<1>8. \A r \in Requests : SessionRight(r)'
  BY <1>1, NoSession DEF SessionRight
<1>9. RowsHeld'
  BY <1>1, ClosedRight DEF RowsHeld
<1> QED
  BY <1>1, <1>6, <1>7, <1>8, <1>9 DEF AccessInv

-----------------------------------------------------------------------------
(* The invariant holds *)

LEMMA AccessStarts == AccessInit => AccessInv
<1> SUFFICES ASSUME AccessInit PROVE AccessInv
  OBVIOUS
<1>1. /\ users = {} /\ grants = [g \in Rows |-> None]
      /\ trail = [g \in Rows |-> [id |-> 0, role |-> None, given |-> 0]]
      /\ session = [s \in Sessions |-> [owner |-> None, row |-> "none"]]
      /\ req = [r \in Requests |-> Closed] /\ era = 1
  BY DEF AccessInit
<1>2. era \in 1..Len(Settings)
  <2>1. Len(Settings) \in Nat \ {0}
    BY AccessAssumption, EmptySeq DEF AccessAssumption
  <2> QED
    BY <1>1, <2>1
<1>3. trail \in [Rows -> Trail] /\ \A g \in Rows : trail[g].id <= trail[g].given /\ trail[g].role = None
  <2>1. PICK t : t = [id |-> 0, role |-> None, given |-> 0]
    OBVIOUS
  <2>2. t \in Trail /\ t.id <= t.given /\ t.role = None
    BY <2>1 DEF Trail
  <2>3. trail = [g \in Rows |-> t]
    BY <1>1, <2>1
  <2> QED
    BY <2>2, <2>3
<1>4. session \in [Sessions -> Session] /\ \A s \in Sessions : session[s].row = "none"
  <2>1. PICK t : t = [owner |-> None, row |-> "none"]
    OBVIOUS
  <2>2. t \in Session /\ t.row = "none"
    BY <2>1 DEF Session
  <2>3. session = [s \in Sessions |-> t]
    BY <1>1, <2>1
  <2> QED
    BY <2>2, <2>3
<1>5. TablesRight
  BY <1>1, <1>2, <1>3, <1>4 DEF TablesRight, ProductGrant, NewestEventInForce
<1>6. \A q \in {req[r] : r \in Requests} : RequestRight(q)
  <2>1. \A q \in {req[r] : r \in Requests} : q = Closed
    BY <1>1
  <2> QED
    BY <2>1, ClosedRight
<1>7. \A r \in Requests : SessionRight(r)
  BY <1>1, NoSession DEF SessionRight
<1>8. RowsHeld
  BY <1>1, ClosedRight DEF RowsHeld
<1> QED
  BY <1>1, <1>5, <1>6, <1>7, <1>8 DEF AccessInv

LEMMA AccessKept == AccessInv /\ [AccessNext]_accessVars => AccessInv'
<1> SUFFICES ASSUME AccessInv, [AccessNext]_accessVars PROVE AccessInv'
  OBVIOUS
<1>1. ASSUME NEW r \in Requests, SignInStep(r) PROVE AccessInv'
  BY <1>1, UserResolved, RuleTried, RoleWritten, SignedIn DEF SignInStep
<1>2. ASSUME NEW r \in Requests, RequestStep(r) PROVE AccessInv'
  BY <1>2, Ensured, ManageAllowed, GranteeFound, RequestEnded, LoggedOut DEF RequestStep
<1>3. ASSUME UNCHANGED accessVars PROVE AccessInv'
  <2>1. UNCHANGED <<users, grants, trail, session, req, era>>
    BY <1>3 DEF accessVars
  <2>2. era \in 1..Len(Settings) /\ era \in Int /\ era <= era' /\ era' \in Int /\ TablesRight
    BY <2>1, AccessAssumption, LenProperties DEF AccessInv, TablesRight, AccessAssumption
  <2>3. TablesRight'
    <3>1. \A u, p, role : MayHold(u, p, role) => MayHold(u, p, role)'
      BY <2>2, MayHoldKept
    <3> QED
      BY <2>1, <2>2, <3>1 DEF TablesRight, NewestEventInForce
  <2>4. ASSUME NEW q, RequestRight(q) PROVE RequestRight(q)'
    <3>1. NotesRight(q)' /\ GranteeKnown(q)'
      BY <2>1, <2>4, NotesKept DEF RequestRight, GranteeKnown
    <3>2. Shape(q)' /\ Stands(q)'
      BY <2>1, <2>2, <2>4, ShapeKept, StandsKept DEF RequestRight
    <3> QED
      BY <3>1, <3>2 DEF RequestRight
  <2>5. \A q \in {req'[r] : r \in Requests} : RequestRight(q)'
    BY <2>1, <2>4 DEF AccessInv
  <2> QED
    BY <2>1, <2>3, <2>5 DEF AccessInv, SessionRight, RowsHeld
<1> QED
  BY <1>1, <1>2, <1>3, SignIn, SessionResolved, Expired, Deployed DEF AccessNext

LEMMA AccessAlways == AccessSpec => []AccessInv
  BY AccessStarts, AccessKept, PTL DEF AccessSpec

-----------------------------------------------------------------------------
(* Theorems *)

LEMMA InForceFollows == AccessInv => RolesInForce
<1> SUFFICES ASSUME AccessInv PROVE RolesInForce
  OBVIOUS
<1>1. TablesRight
  BY DEF AccessInv
<1>2. \A r \in Requests : RequestRight(req[r]) /\ SessionRight(r)
  BY OneRight
<1>3. AccessTypeOK
  <2>1. /\ users \in AppUser /\ grants \in ProductGrant
        /\ \A g \in DOMAIN grants : grants[g] # None => g[1] \in users
        /\ trail \in [Rows -> Trail] /\ session \in [Sessions -> Session]
        /\ \A s \in Sessions : session[s].row # "none" => session[s].owner \in users
    BY <1>1 DEF TablesRight, AppUser, ProductGrant
  <2>2. era \in DOMAIN Settings
    BY <1>1, AccessAssumption, LenProperties DEF TablesRight, AccessAssumption
  <2>3. ASSUME NEW q, RequestRight(q)
        PROVE  /\ q.pc \in {"idle", "signing", "check", "write", "authed", "busy", "allowed"}
               /\ q.job \in {"none", "sign-in", "request"}
               /\ q.acct \in Accounts \cup {None} /\ q.to \in Accounts \cup {None}
               /\ q.sess \in Sessions \cup {None} /\ q.before \in Roles \cup {None}
               /\ q.steps \in Seq(Step) /\ DOMAIN q.noted \subseteq DOMAIN q.wrote
               /\ q.raced \subseteq Products
    <3>1. PlaceRight(q) /\ StepsRight(q) /\ NotesRight(q)
      BY <2>3 DEF RequestRight, Shape
    <3>2. CASE q = Closed
      BY <3>1, <3>2 DEF PlaceRight, StepsRight, NotesRight, Closed
    <3>3. CASE q # Closed
      BY <3>1, <3>3 DEF PlaceRight, StepsRight, NotesRight
    <3> QED
      BY <3>2, <3>3
  <2>4. \A r \in Requests :
          /\ req[r].pc \in {"idle", "signing", "check", "write", "authed", "busy", "allowed"}
          /\ req[r].job \in {"none", "sign-in", "request"}
          /\ req[r].acct \in Accounts \cup {None} /\ req[r].to \in Accounts \cup {None}
          /\ req[r].sess \in Sessions \cup {None} /\ req[r].before \in Roles \cup {None}
          /\ req[r].steps \in Seq(Step) /\ DOMAIN req[r].noted \subseteq DOMAIN req[r].wrote
          /\ req[r].raced \subseteq Products
    BY <1>2, <2>3
  <2> QED
    BY <2>1, <2>2, <2>4 DEF AccessTypeOK
<1>4. ExternalsConfined
  <2> SUFFICES ASSUME NEW a \in Accounts, NEW p \in Products,
                      Kind[a] = "google", a \notin Workspace, Address[a] \notin OnDomain,
                      grants[<<a, p>>] # None
               PROVE  grants[<<a, p>>] # "admin" /\ EverInvited(a, p)
    BY DEF ExternalsConfined, EverInvited
  <2>1. <<a, p>> \in Rows /\ <<a, p>>[1] = a /\ <<a, p>>[2] = p
    BY DEF Rows
  <2>2. MayHold(a, p, grants[<<a, p>>])
    <3>1. \A g \in Rows : \A role \in {grants[g]} \ {None} : MayHold(g[1], g[2], role)
      BY <1>1 DEF TablesRight
    <3>2. PICK role : role = grants[<<a, p>>]
      OBVIOUS
    <3>3. MayHold(<<a, p>>[1], <<a, p>>[2], role)
      BY <2>1, <3>1, <3>2
    <3> QED
      BY <2>1, <3>2, <3>3
  <2> QED
    BY <2>2 DEF MayHold, Outsider
<1>5. SessionKeptWhileUsed
  BY <1>2 DEF SessionRight, SessionKeptWhileUsed
<1> QED
  BY <1>1, <1>3, <1>4, <1>5 DEF RolesInForce, TablesRight

(* RolesInForce: rows refer to users, the newest event of a grant names the role that is *)
(* in force, outsiders hold only what they were invited to and are never administrators, *)
(* and no request runs on a session that is gone.                                        *)
THEOREM RolesCorrect == AccessSpec => []RolesInForce
  BY AccessAlways, InForceFollows, PTL

(* What is in force at the end of a sign-in or a request was so when it looked. *)
LEMMA EndedAsDecided ==
    ASSUME AccessInv, NEW r \in Requests, create_session(r) \/ get_db_connection(r)
    PROVE  /\ \A g \in DOMAIN req[r].noted :
                 req[r].noted[g].before = grants[g] \/ g[2] \in req[r].raced
           /\ create_session(r) => \A g \in DOMAIN req[r].wrote :
                 g[2] \notin req[r].raced =>
                     /\ grants[g] = None
                     /\ g[2] # Transelect /\ Kind[g[1]] = "google" /\ grants'[g] = "admin" => NoAdmin(g[2])
           /\ get_db_connection(r) => \A g \in DOMAIN req[r].wrote :
                 grants[<<req[r].acct, g[2]>>] = "admin" \/ g[2] \in req[r].raced
<1> DEFINE q == req[r]
<1>1. RequestRight(q) /\ TablesRight
  BY OneRight DEF AccessInv
<1>2. Stands(q) /\ Shape(q)
  BY <1>1 DEF RequestRight
<1>3. \A g \in DOMAIN q.wrote : g \in Rows /\ g[2] \in ReadBy(q) /\ g = <<q.to, g[2]>> /\ g[1] = q.to
  BY <1>2, ReadOfProducts DEF Shape, WritesRight
<1>4. \A g \in DOMAIN q.noted : q.noted[g].before = grants[g] \/ g[2] \in q.raced
  BY <1>2 DEF Stands
<1>5. ASSUME create_session(r), NEW g \in DOMAIN q.wrote, g[2] \notin q.raced
      PROVE  /\ grants[g] = None
             /\ g[2] # Transelect /\ Kind[g[1]] = "google" /\ grants'[g] = "admin" => NoAdmin(g[2])
  <2>1. q.job = "sign-in" /\ q.pc = "check" /\ Committed(r)
    BY <1>5 DEF create_session
  <2>2. q.to = q.acct
    BY <1>2, <2>1 DEF Shape, PlaceRight, Closed
  <2>3. grants[g] = None
    BY <1>2, <1>3, <1>5, <2>1, <2>2 DEF Stands
  <2>4. grants'[g] = q.wrote[g]
    <3>1. g \in DOMAIN grants
      BY <1>1, <1>3, <1>5 DEF TablesRight, ProductGrant
    <3> QED
      BY <1>5, <2>1, <3>1 DEF Committed
  <2> QED
    BY <1>2, <1>3, <1>5, <2>1, <2>2, <2>3, <2>4 DEF Stands
<1>6. ASSUME get_db_connection(r), NEW g \in DOMAIN q.wrote
      PROVE  grants[<<q.acct, g[2]>>] = "admin" \/ g[2] \in q.raced
  <2>1. q.pc \in {"busy", "authed"} \/ (q.pc = "check" /\ q.job = "request")
    BY <1>6 DEF get_db_connection
  <2>2. q.job = "request"
    BY <1>2, <2>1 DEF Shape, PlaceRight, Closed
  <2> QED
    BY <1>2, <1>3, <1>6, <2>2 DEF Stands
<1> QED
  BY <1>4, <1>5, <1>6

(* GrantsDecided: a sign-in replaces no role in force and makes no second administrator, *)
(* an administrator's change is made by one, and its event names the role it replaces,   *)
(* unless what they read was changed while they ran.                                     *)
THEOREM GrantsCorrect == AccessSpec => GrantsDecided
<1>1. AccessInv => DecisionsStand /\ ReplacedRoleNamed /\ ChangedByAnAdmin
  <2> SUFFICES ASSUME AccessInv PROVE DecisionsStand /\ ReplacedRoleNamed /\ ChangedByAnAdmin
    OBVIOUS
  <2>1. DecisionsStand
    BY EndedAsDecided DEF DecisionsStand, NoAdmin
  <2>2. ReplacedRoleNamed
    BY EndedAsDecided DEF ReplacedRoleNamed
  <2>3. ChangedByAnAdmin
    BY EndedAsDecided DEF ChangedByAnAdmin
  <2> QED
    BY <2>1, <2>2, <2>3
<1> QED
  BY <1>1, AccessAlways, PTL DEF GrantsDecided

=============================================================================
