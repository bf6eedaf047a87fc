------------------------------- MODULE Access -------------------------------
(***************************************************************************)
(* Who may do what: the users that sign-ins create, their product grants,  *)
(* the audit events of those grants and the sessions requests run on       *)
(* (access, access_repository, session_store, deps, audit and the routers  *)
(* google_auth, entra_auth, dev_auth, session and access_admin).           *)
(*                                                                         *)
(* A request is one READ COMMITTED transaction.  Its writes are visible to *)
(* others when it commits; a row it has written is locked until then, and  *)
(* so is the session it runs on, which resolve_session updates.  Whom      *)
(* Google vouches for (membership of the Workspace, the verified address)  *)
(* is a constant of the account.                                           *)
(***************************************************************************)
EXTENDS Integers, Sequences, FiniteSets, SequencesExt

CONSTANTS
    Accounts,       \* (identity_kind, identity_key) pairs
    Kind,           \* the identity_kind of an account
    Workspace,      \* the google accounts whose hd claim is the Workspace
    Address,        \* the casefolded email of an account, or None
    OnDomain,       \* the addresses that end with GOOGLE_WORKSPACE_DOMAIN
    Products,
    Transelect,     \* TRANSELEC_PRODUCT_KEY
    EntraAdmin,     \* PLATFORM_BOOTSTRAP_ADMIN_TENANT_ID : _OBJECT_ID
    SeedGrants,     \* DEFAULT_SEED_GRANTS, by dev account
    Settings,       \* the deployed configurations, one after the other
    Sessions,       \* session cookies
    Requests,       \* transactions that may be open at once
    None,           \* SQL NULL, and "no row"
    Given,          \* bound: the roles administrators give
    Casts,          \* bound: the sets of accounts that sign in in one behaviour
    MaxGrants       \* bound: administrators act until there are this many events

Roles == {"admin", "operator", "viewer"}

Actions == {"view", "upload", "process", "retry", "publish", "edit", "approve", "manage_access"}

_ALLOWED ==
    ({"admin"} \X Actions)
        \cup ({"operator"} \X {"view", "upload", "process", "retry", "publish", "edit"})
        \cup {<<"viewer", "view">>}

can(role, action) == role # None /\ <<role, action>> \in _ALLOWED

\* PLATFORM_BOOTSTRAP_ADMINS as (product, email), in its order.
parse_bootstrap_admins(entries) ==
    /\ entries \in Seq(Range(entries))
    /\ \A e \in Range(entries) : e.product \in Products

\* PLATFORM_EXTERNAL_ACCOUNTS as (product, role, email): no address is named twice
\* for a product and nobody is admin.
parse_external_accounts(entries) ==
    /\ entries \in Seq(Range(entries))
    /\ \A e \in Range(entries) :
          e.product \in Products /\ e.role \in {"operator", "viewer"} /\ e.email # None
    /\ \A i, j \in DOMAIN entries :
          entries[i].product = entries[j].product /\ entries[i].email = entries[j].email => i = j

\* A configuration, with TRANSELEC_BOOTSTRAP_ADMIN_EMAIL as its first.
ValidSettings(c) ==
    /\ DOMAIN c = {"first", "admins", "external"}
    /\ parse_bootstrap_admins(c.admins)
    /\ parse_external_accounts(c.external)

ASSUME AccessAssumption ==
    /\ None \notin Roles /\ None \notin Accounts /\ None \notin Sessions
    /\ Kind \in [Accounts -> {"google", "entra", "dev-local"}]
    /\ \A a \in Workspace : a \in Accounts /\ Kind[a] = "google"
    /\ \A a \in Accounts : Kind[a] = "google" => Address[a] # None
    /\ Transelect \in Products /\ IsFiniteSet(Products)
    /\ \A a \in Accounts : Kind[a] = "dev-local" =>
          SeedGrants[a] \in Seq([product : Products, role : Roles]) \ {<<>>}
    /\ Settings \in Seq(Range(Settings)) \ {<<>>}
    /\ \A i \in DOMAIN Settings : ValidSettings(Settings[i])
    /\ Given \subseteq Roles /\ MaxGrants \in Nat

VARIABLES
    users,      \* platform.app_user
    grants,     \* platform.product_grant
    trail,      \* the product_grant.changed rows of platform.audit_event, by id
    session,    \* platform.session, and the process's dev sessions
    req,        \* the open requests
    era         \* which configuration is deployed

accessVars == <<users, grants, trail, session, req, era>>

Config == Settings[era]

Rows == Accounts \X Products

\* platform.app_user, one row per identity; platform.product_grant, one per user and
\* product; platform.session, one per cookie.
AppUser == SUBSET Accounts

ProductGrant == [Rows -> Roles \cup {None}]

Session == [owner : Accounts \cup {None}, row : {"none", "live", "expired"}]

\* The newest committed event of a grant, and how many have been inserted for it.
Trail == [id : Nat, role : Roles \cup {None}, given : Nat]

\* A step of a sign-in or of a grant: which rule lets it happen, and the roles it
\* then writes, in order.
Step == [rule : {"no-grant", "first-admin", "no-own-grant", "other-address", "granted"},
         write : Seq([product : Products, role : Roles])]

Closed == [pc |-> "idle", job |-> "none", acct |-> None, sess |-> None, to |-> None, before |-> None,
           steps |-> <<>>, wrote |-> <<>>, noted |-> <<>>, raced |-> {}]

AccessTypeOK ==
    /\ users \in AppUser
    /\ grants \in ProductGrant
    /\ \A g \in DOMAIN grants : grants[g] # None => g[1] \in users
    /\ trail \in [Rows -> Trail]
    /\ session \in [Sessions -> Session]
    /\ \A s \in Sessions : session[s].row # "none" => session[s].owner \in users
    /\ era \in DOMAIN Settings
    /\ \A r \in Requests :
          /\ req[r].pc \in {"idle", "signing", "check", "write", "authed", "busy", "allowed"}
          /\ req[r].job \in {"none", "sign-in", "request"}
          /\ req[r].acct \in Accounts \cup {None} /\ req[r].to \in Accounts \cup {None}
          /\ req[r].sess \in Sessions \cup {None}
          /\ req[r].before \in Roles \cup {None}
          /\ req[r].steps \in Seq(Step)
          /\ DOMAIN req[r].noted \subseteq DOMAIN req[r].wrote
          /\ req[r].raced \subseteq Products

AccessInit ==
    /\ users = {}
    /\ grants = [g \in Rows |-> None]
    /\ trail = [g \in Rows |-> [id |-> 0, role |-> None, given |-> 0]]
    /\ session = [s \in Sessions |-> [owner |-> None, row |-> "none"]]
    /\ req = [r \in Requests |-> Closed]
    /\ era = 1

-----------------------------------------------------------------------------
(* What a request sees and what it must wait for.                          *)

\* A role as the request r reads it: its own write, else the committed row.
get_product_role(r, u, p) ==
    IF <<u, p>> \in DOMAIN req[r].wrote THEN req[r].wrote[<<u, p>>] ELSE grants[<<u, p>>]

list_grants_for_user(r, u) == {p \in Products : get_product_role(r, u, p) # None}

product_has_admin(r, p) == \E u \in Accounts : get_product_role(r, u, p) = "admin"

\* Whether resolve_session finds the row of a cookie: not expired, and the UPDATE
\* of last_seen_at waits for any other request on the same session.
resolve_session(s) ==
    /\ session[s].row = "live"
    /\ Kind[session[s].owner] # "dev-local" => \A r \in Requests : req[r].sess # s

\* The products whose grants a request has read and goes by.
ReadBy(q) ==
    {g[2] : g \in DOMAIN q.wrote}
        \cup IF q.pc \in {"allowed", "write"}
             THEN {w.product : w \in Range(Head(q.steps).write)} ELSE {}

\* The other requests once r has changed grants of what they have read.
Overtaken(r) ==
    [q \in Requests |->
        IF q = r THEN Closed
        ELSE [req[q] EXCEPT !.raced = @ \cup (ReadBy(req[q]) \cap {g[2] : g \in DOMAIN req[r].wrote})]]

\* The commit of get_db_connection: the request's grants and events become
\* visible, and requests still open may have read the rows it replaced.
Committed(r) ==
    /\ grants' = [g \in DOMAIN grants |->
                    IF g \in DOMAIN req[r].wrote THEN req[r].wrote[g] ELSE grants[g]]
    /\ trail' = [g \in Rows |->
                   IF g \in DOMAIN req[r].noted /\ req[r].noted[g].id > trail[g].id
                   THEN [id |-> req[r].noted[g].id, role |-> req[r].noted[g].role, given |-> trail[g].given]
                   ELSE trail[g]]
    /\ req' = Overtaken(r)

-----------------------------------------------------------------------------
(* Sign-in.                                                                *)

InvitedTo(email) == {e \in Range(Config.external) : e.email = email}

external_account_emails == {e.email : e \in Range(Config.external)}

Grant(rule, product, role) == [rule |-> rule, write |-> <<[product |-> product, role |-> role]>>]

\* One administrator of every product, for the configured Entra identity.
maybe_grant_bootstrap_admin(a) ==
    LET AllProducts == SetToSeq(Products) IN
    IF a # EntraAdmin THEN <<>>
    ELSE <<[rule |-> "no-grant",
            write |-> [i \in DOMAIN AllProducts |-> [product |-> AllProducts[i], role |-> "admin"]]]>>

maybe_grant_transelec_bootstrap_admin(a) ==
    IF Config.first = Address[a] THEN <<Grant("no-grant", Transelect, "admin")>> ELSE <<>>

\* The rule of an entry of the configuration at the sign-in of an account: entries
\* that name another address are passed over.
RuleOf(entry, a, rule) == IF entry.email = Address[a] THEN rule ELSE "other-address"

maybe_grant_configured_product_admins(a) ==
    [i \in DOMAIN Config.admins |-> LET entry == Config.admins[i] IN
        Grant(RuleOf(entry, a, "first-admin"), entry.product, "admin")]

maybe_grant_external_accounts(a) ==
    [i \in DOMAIN Config.external |-> LET entry == Config.external[i] IN
        Grant(RuleOf(entry, a, "no-own-grant"), entry.product, entry.role)]

\* The first roles of a seeded development identity.
DEFAULT_SEED_GRANTS(a) == <<[rule |-> "no-grant", write |-> SeedGrants[a]]>>

\* The grants that configuration may give at the sign-in of an account.
google_grants(a) ==
    IF a \in Workspace
    THEN maybe_grant_transelec_bootstrap_admin(a) \o maybe_grant_configured_product_admins(a)
    ELSE maybe_grant_external_accounts(a)

GrantSteps(a) ==
    CASE Kind[a] = "entra" -> maybe_grant_bootstrap_admin(a)
      [] Kind[a] = "dev-local" -> DEFAULT_SEED_GRANTS(a)
      [] Kind[a] = "google" -> google_grants(a)

\* Another google identity that committed with the same address.
other_identity_holds_email(a) ==
    \E u \in users \ {a} : Kind[u] = "google" /\ Address[u] = Address[a]

\* verify_id_token admits the Workspace and the invited addresses.
verify_id_token(a) == a \in Workspace \/ Address[a] \in external_account_emails

\* An account of a known provider whose callback is not refused.
google_callback(a) ==
    /\ Kind[a] = "google"
    /\ verify_id_token(a)
    /\ a \notin Workspace => ~other_identity_holds_email(a)

\* What the tenant vouches for is taken.
entra_callback(a) == Kind[a] = "entra"

\* One of SEEDED_DEV_IDENTITIES, which only a development settings file has.
dev_login(a) == Kind[a] = "dev-local"

\* The callback of a provider goes on to the user.  A cookie to be set is one no
\* browser still uses.
sign_in(r, a) ==
    /\ req[r].pc = "idle"
    /\ \E c \in Casts : users \cup {a} \cup {req[q].acct : q \in Requests} \subseteq c \cup {None}
    /\ google_callback(a) \/ entra_callback(a) \/ dev_login(a)
    /\ \E s \in Sessions :
          /\ session[s].row # "live" /\ \A q \in Requests : req[q].sess # s
          /\ req' = [req EXCEPT ![r] = [Closed EXCEPT !.pc = "signing", !.job = "sign-in",
                                                    !.acct = a, !.sess = s]]
    /\ UNCHANGED <<users, grants, trail, session, era>>

\* INSERT ... ON CONFLICT DO NOTHING waits for an uncommitted row of the identity.
resolve_or_create_app_user(r) ==
    /\ req[r].pc = "signing"
    /\ \A q \in Requests \ {r} :
          req[q].acct = req[r].acct /\ req[r].acct \notin users => req[q].pc = "signing"
    /\ req' = [req EXCEPT ![r].pc = "check", ![r].to = req[r].acct,
                          ![r].steps = GrantSteps(req[r].acct)]
    /\ UNCHANGED <<users, grants, trail, session, era>>

\* Mutant: the product may already have an administrator.
RuleHoldsForEveryAdmin(r, u, s) ==
    CASE s.rule = "no-grant" -> list_grants_for_user(r, u) = {}
      [] s.rule = "other-address" -> FALSE
      [] OTHER -> get_product_role(r, u, s.write[1].product) = None

RuleHolds(r, u, s) ==
    CASE s.rule = "no-grant" -> list_grants_for_user(r, u) = {}
      [] s.rule = "first-admin" ->
            get_product_role(r, u, s.write[1].product) = None /\ ~product_has_admin(r, s.write[1].product)
      [] s.rule = "no-own-grant" -> get_product_role(r, u, s.write[1].product) = None
      [] s.rule = "other-address" -> FALSE

maybe_grant(r) ==
    /\ req[r].pc = "check" /\ req[r].steps # <<>>
    /\ IF RuleHolds(r, req[r].acct, Head(req[r].steps))
       THEN req' = [req EXCEPT ![r].pc = "write", ![r].before = None]
       ELSE req' = [req EXCEPT ![r].steps = Tail(@)]
    /\ UNCHANGED <<users, grants, trail, session, era>>

\* Mutant: the row is free although another request has written it.
RowFreeAnyway(r, g) == TRUE

\* Whether no other open request has written the row of a grant.
RowFree(r, g) == \A q \in Requests \ {r} : g \notin DOMAIN req[q].wrote

\* A request's table of rows with one more, or another, entry.
WithRow(rows, g, v) == [h \in DOMAIN rows \cup {g} |-> IF h = g THEN v ELSE rows[h]]

\* The upsert of one grant, which locks its row until the request ends, and its
\* event, for google sign-ins and administrators.  Then the next role or the next
\* step.
grant_product_role(r) ==
    LET step == Head(req[r].steps)
        w == Head(step.write)
        left == Tail(step.write)
        g == <<req[r].to, w.product>>
        event == [id |-> trail[g].given + 1, before |-> req[r].before, role |-> w.role]
        q == [req[r] EXCEPT !.wrote = WithRow(@, g, w.role),
                            !.pc = IF left = <<>> THEN "check" ELSE "write",
                            !.steps = IF left = <<>> THEN Tail(@)
                                      ELSE <<[step EXCEPT !.write = left]>> \o Tail(@)] IN
    /\ req[r].pc = "write"
    /\ RowFree(r, g)
    /\ IF step.rule = "granted" \/ Kind[req[r].acct] = "google"
       THEN /\ trail' = [trail EXCEPT ![g].given = @ + 1]
            /\ req' = [req EXCEPT ![r] = [q EXCEPT !.noted = WithRow(@, g, event)]]
       ELSE /\ req' = [req EXCEPT ![r] = q]
            /\ UNCHANGED trail
    /\ UNCHANGED <<users, grants, session, era>>

\* The end of a sign-in: the session and the commit.
create_session(r) ==
    /\ req[r].pc = "check" /\ req[r].steps = <<>> /\ req[r].job = "sign-in"
    /\ users' = users \cup {req[r].acct}
    /\ session' = [session EXCEPT ![req[r].sess] = [owner |-> req[r].acct, row |-> "live"]]
    /\ Committed(r)
    /\ UNCHANGED era

-----------------------------------------------------------------------------
(* Requests on a session.                                                  *)

\* get_current_app_user.
get_current_app_user(r, s) ==
    /\ req[r].pc = "idle"
    /\ resolve_session(s)
    /\ req' = [req EXCEPT ![r] = [Closed EXCEPT !.pc = "authed", !.job = "request",
                                              !.acct = session[s].owner, !.sess = s]]
    /\ UNCHANGED <<users, grants, trail, session, era>>

\* A mutation from elsewhere names its origin; a script's has none.
is_trusted_origin(origin) == origin = "trusted"

\* The token is signed with the secret of one session.
verify_csrf_token(token, s) == token = s

require_csrf(s, origin, token) ==
    (origin # None => is_trusted_origin(origin)) /\ verify_csrf_token(token, s)

\* A product request past ensure_can, and one refused.
ensure_can(r, p, action) ==
    /\ req[r].pc = "authed"
    /\ req' = [req EXCEPT ![r] = IF can(get_product_role(r, req[r].acct, p), action)
                                 THEN [@ EXCEPT !.pc = "busy"] ELSE Closed]
    /\ UNCHANGED <<users, grants, trail, session, era>>

ManagingAction == "manage_access"

\* POST /product-grants/{product}: the caller's role is read without a lock.
require_manage_access(r, p, role) ==
    /\ req[r].pc = "authed"
    /\ FoldFunction(LAMBDA t, n : t.given + n, 0, trail) < MaxGrants
    /\ \E origin \in {None, "trusted", "other"}, token \in Sessions :
          req' = [req EXCEPT ![r] =
                    IF /\ require_csrf(req[r].sess, origin, token)
                       /\ can(get_product_role(r, req[r].acct, p), ManagingAction)
                    THEN [@ EXCEPT !.pc = "allowed",
                                   !.steps = <<[rule |-> "granted",
                                                write |-> <<[product |-> p, role |-> role]>>]>>]
                    ELSE Closed]
    /\ UNCHANGED <<users, grants, trail, session, era>>

\* Whether an account is held to its invitation: invited by configuration, or a
\* google identity whose address is not on the domain, be it a member or not.
_is_external(u) ==
    InvitedTo(Address[u]) # {} \/ (Kind[u] = "google" /\ Address[u] \notin OnDomain)

_external_grant_allowed(u, w) ==
    w.role # "admin" /\ \E e \in InvitedTo(Address[u]) : e.product = w.product

Grantable(u, w) == _is_external(u) => _external_grant_allowed(u, w)

Replaced(r, u, p) == get_product_role(r, u, p)

\* No row has the address NULL asks for.
get_app_user_by_email(email) == {u \in users : email # None /\ Address[u] = email}

\* The grantee is found by address: nobody (404), two users of one address (an
\* error), or one, who may not be allowed the role (403).
grant_product_role_by_email(r, email) ==
    LET found == get_app_user_by_email(email)
        w == Head(Head(req[r].steps).write)
        target == CHOOSE u \in found : TRUE IN
    /\ req[r].pc = "allowed"
    /\ req' = [req EXCEPT ![r] =
                 IF Cardinality(found) = 1 /\ Grantable(target, w)
                 THEN [@ EXCEPT !.pc = "write", !.to = target,
                                !.before = Replaced(r, target, w.product)]
                 ELSE Closed]
    /\ UNCHANGED <<users, grants, trail, session, era>>

\* A request ends: its transaction commits.
get_db_connection(r) ==
    /\ \/ req[r].pc \in {"busy", "authed"}
       \/ req[r].pc = "check" /\ req[r].steps = <<>> /\ req[r].job = "request"
    /\ Committed(r)
    /\ UNCHANGED <<users, session, era>>

\* POST /logout deletes the session it runs on.
logout(r) ==
    /\ req[r].pc = "authed"
    /\ session' = [session EXCEPT ![req[r].sess] = [owner |-> None, row |-> "none"]]
    /\ Committed(r)
    /\ UNCHANGED <<users, era>>

\* expires_at passes, also under an open request; an expired row that no request
\* runs on is never found again and counts as none.
Expire(s) ==
    /\ session[s].row = "live" /\ Kind[session[s].owner] # "dev-local"
    /\ session' = [session EXCEPT ![s] =
                      IF \E r \in Requests : req[r].sess = s THEN [@ EXCEPT !.row = "expired"]
                      ELSE [owner |-> None, row |-> "none"]]
    /\ UNCHANGED <<users, grants, trail, req, era>>

\* The process is replaced by one with the next configuration: open transactions
\* roll back and the dev sessions, kept in memory, are gone.
Deploy ==
    /\ era < Len(Settings)
    /\ era' = era + 1
    /\ req' = [r \in Requests |-> Closed]
    /\ session' = [s \in Sessions |->
                     IF session[s].row = "live" /\ Kind[session[s].owner] = "dev-local"
                     THEN [owner |-> None, row |-> "none"] ELSE session[s]]
    /\ UNCHANGED <<users, grants, trail>>

SignInStep(r) ==
    \/ resolve_or_create_app_user(r)
    \/ maybe_grant(r)
    \/ grant_product_role(r)
    \/ create_session(r)

RequestStep(r) ==
    \/ \E p \in Products, a \in Actions : ensure_can(r, p, a)
    \/ \E p \in Products, role \in Given : require_manage_access(r, p, role)
    \/ \E a \in Accounts : grant_product_role_by_email(r, Address[a])
    \/ get_db_connection(r)
    \/ logout(r)

AccessNext ==
    \/ \E r \in Requests :
          \/ \E a \in Accounts : sign_in(r, a)
          \/ \E s \in Sessions : get_current_app_user(r, s)
          \/ SignInStep(r)
          \/ RequestStep(r)
    \/ \E s \in Sessions : Expire(s)
    \/ Deploy

AccessSpec == AccessInit /\ [][AccessNext]_accessVars

-----------------------------------------------------------------------------
(* Properties.                                                             *)

\* The newest product_grant.changed event of a google user and a product names the
\* role that is in force, however sign-ins and administrators interleave: a grant
\* is locked before its event takes an id (access_repository.grant_product_role).
NewestEventInForce == \A g \in Rows : Kind[g[1]] = "google" => grants[g] = trail[g].role

\* The previous_role of an event is the role it replaces, unless a request that
\* overlapped it changed the product's grants in between: it is read before the
\* row is locked (grant_product_role_by_email).
ReplacedRoleNamed ==
    \A r \in Requests : create_session(r) \/ get_db_connection(r) =>
       \A g \in DOMAIN req[r].noted :
           req[r].noted[g].before = grants[g] \/ g[2] \in req[r].raced

\* An account outside the Workspace never administers a product and holds roles
\* only on products some configuration invited its address to, whether they come
\* from its sign-in, which goes by the hd claim, or from an administrator, for
\* whom an address on the domain that is not invited any more is a member's.
ExternalsConfined ==
    \A a \in Accounts, p \in Products :
        Kind[a] = "google" /\ a \notin Workspace /\ Address[a] \notin OnDomain
          /\ grants[<<a, p>>] # None =>
            /\ grants[<<a, p>>] # "admin"
            /\ \E i \in 1..era : \E e \in Range(Settings[i].external) :
                  e.email = Address[a] /\ e.product = p

\* No request outlives the session it runs on: resolve_session locks the row, so a
\* logout of the same session waits for the request to end.  Dev sessions are a
\* dictionary without locks.
SessionKeptWhileUsed ==
    \A r \in Requests :
        req[r].job = "request" /\ Kind[req[r].acct] # "dev-local" =>
            /\ session[req[r].sess].row # "none" /\ session[req[r].sess].owner = req[r].acct
            /\ \A q \in Requests \ {r} : req[q].sess # req[r].sess

\* Roles and sessions are consistent at every moment: rows refer to users, the trail
\* names the roles in force, outsiders hold only what they were invited to, and no
\* request runs on a session that is gone.
RolesInForce ==
    AccessTypeOK /\ NewestEventInForce /\ ExternalsConfined /\ SessionKeptWhileUsed

\* A sign-in never replaces a role that is in force, and never adds an
\* administrator by PLATFORM_BOOTSTRAP_ADMINS to a product that has one, unless the
\* role was committed after the sign-in had looked (maybe_grant_* read without a
\* lock).
DecisionsStand ==
    \A r \in Requests : create_session(r) =>
       \A g \in DOMAIN req[r].wrote :
           g[2] \notin req[r].raced =>
               /\ grants[g] = None
               /\ g[2] # Transelect /\ Kind[g[1]] = "google" /\ grants'[g] = "admin" =>
                     \A u \in Accounts : grants[<<u, g[2]>>] # "admin"

\* A role is changed by somebody who administers the product when the change takes
\* effect, unless that role was itself changed while the request ran (ensure_can
\* reads it without a lock).
ChangedByAnAdmin ==
    \A r \in Requests : get_db_connection(r) =>
       \A g \in DOMAIN req[r].wrote :
           grants[<<req[r].acct, g[2]>>] = "admin" \/ g[2] \in req[r].raced

\* Every change of a role is a decision: an administrator's, naming what it replaced, or
\* that of a sign-in where nothing was decided before.
GrantsDecided == [][DecisionsStand /\ ReplacedRoleNamed /\ ChangedByAnAdmin]_accessVars
=============================================================================
