--------------------------------- MODULE Access ---------------------------------
(***************************************************************************)
(* Who may query and what is written about it: API keys (control/auth.py,  *)
(* services/control_routes/keys.py, services/deps.py), break-glass grants  *)
(* (control/break_glass.py and its routes), the audit log, the rate        *)
(* limiter, and a query's way through them (services/retrieval_api.py,     *)
(* services/mcp_server.py, retrieval/service.py).                          *)
(*                                                                         *)
(* A request keeps what it learnt of its key and its grant while keys are  *)
(* rotated and grants end.  Every handler opens one session for the        *)
(* caller's key and another one for its work, and a row is loaded in one   *)
(* step and written back in a later one.  What the index holds does not    *)
(* change here (module Retrieval has that part of a query).                *)
(***************************************************************************)
EXTENDS RateLimit, FiniteSets

CONSTANTS Root,          \* the administrator's key that exists from the start
          Grants,        \* break_glass_grants: ids that may be given
          Admins,        \* concurrent calls of the control routes
          Kbs, Workspaces,
          KbWorkspace,   \* KbWorkspace[b]: workspace_id of the alias record, or Noone
          Preset,        \* keys there from the start beside Root, issued with ApiKeyRepository
          Offered,       \* roles the administrators issue keys for
          Content,       \* points: [kb, ws, readers, score, corrupt]
          TopK, Threshold,
          MaxRequests, MaxOps, MaxTime,  \* bounds
          Window,        \* window of a grant
          CommitsOnExit  \* the session context given to the service commits when left

Keys == Tenants   \* the limiter's tenant is principal_id, which is the key's id

ASSUME AccessAssumption ==
  /\ Root \in Keys /\ Noone \notin Kbs \cup Workspaces \cup Grants
  /\ Window \in Nat \ {0} /\ TopK \in Nat \ {0} /\ MaxTime \in Nat
  /\ CommitsOnExit \in BOOLEAN
  /\ DOMAIN Preset \subseteq Keys /\ Offered \subseteq {"admin", "editor", "viewer", "service"}

VARIABLES
  keys,     \* service_principal_keys
  grants,   \* break_glass_grants
  audit,    \* rows of audit_log about keys and grants
  reads,    \* reads[g]: break_glass_read rows that name grant g
  answered, \* history: answers with content that left under grant g
  refused,  \* history: requests refused with a grant that was in force
  req,      \* req[i]: the request thread i is in, or its answer
  adm,      \* adm[a]: the call of a control route
  asked, ops

accessVars == <<keys, grants, audit, reads, answered, refused, req, adm, asked, ops>>
allVars == <<limiterVars, accessVars>>

Roles == {"admin", "editor", "viewer", "service"}
Scopes == {"global", "workspace", "kb"}

Key ==
  [there : BOOLEAN, role : Roles, scope : Scopes, ws : Workspaces \cup {Noone},
        kb : Kbs \cup {Noone}, expires : 0 .. MaxTime + 1, revoked : BOOLEAN, from : Keys]
Never == MaxTime + 1   \* expires_at is null
NoKey ==
  [there |-> FALSE, role |-> "service", scope |-> "kb", ws |-> Noone, kb |-> Noone,
          expires |-> Never, revoked |-> FALSE, from |-> Root]
RootKey == [NoKey EXCEPT !.there = TRUE, !.role = "admin", !.scope = "global"]

ASSUME PresetAssumption == \A k \in DOMAIN Preset : Preset[k] \in Key

Grant == [there : BOOLEAN, kb : Kbs \cup {Noone}, admin : Keys,
          since : 0 .. MaxTime, until : 0 .. MaxTime + Window, revoked : BOOLEAN]
NoGrant == [there |-> FALSE, kb |-> Noone, admin |-> Root, since |-> 0, until |-> 0,
            revoked |-> FALSE]

Entry == [type : {"key_issued", "key_revoked", "break_glass_grant", "break_glass_expiry"},
          of : Keys \cup Grants]

Statuses == {"none", "error", "401", "403", "429", "PERMISSION_DENIED", "no_matches",
             "filtered_to_zero", "matches", "PAYLOAD_CORRUPT", "CONTROL_PLANE_UNAVAILABLE"}
Request == [pc : {"idle", "limit", "check", "search", "audit"}, key : Keys,
            kb : Kbs \cup {Noone}, with : Grants \cup {Noone}, strict : BOOLEAN,
            under : Grants \cup {Noone}, status : Statuses]
NoRequest == [pc |-> "idle", key |-> Root, kb |-> Noone, with |-> Noone, strict |-> FALSE,
              under |-> Noone, status |-> "none"]

Ops == {"revoke_key", "rotate_key", "revoke_grant"}
Call == [pc : {"idle", "admin", "loaded"}, by : Keys, op : Ops,
         of : Keys \cup Grants \cup {Noone}]
NoCall == [pc |-> "idle", by |-> Root, op |-> "revoke_key", of |-> Noone]

AccessTypeOK ==
  /\ LimiterTypeOK
  /\ keys \in [Keys -> Key] /\ grants \in [Grants -> Grant]
  /\ audit \subseteq Entry /\ reads \in [Grants -> Nat] /\ answered \in [Grants -> Nat]
  /\ refused \subseteq Grants
  /\ req \in [Threads -> Request] /\ adm \in [Admins -> Call]

AccessInit ==
  /\ LimiterInit
  /\ keys = [k \in Keys |-> IF k = Root THEN RootKey
                            ELSE IF k \in DOMAIN Preset THEN Preset[k] ELSE NoKey]
  /\ grants = [g \in Grants |-> NoGrant]
  /\ audit = {} /\ refused = {}
  /\ reads = [g \in Grants |-> 0]
  /\ answered = [g \in Grants |-> 0]
  /\ req = [i \in Threads |-> NoRequest]
  /\ adm = [a \in Admins |-> NoCall]
  /\ asked = 0 /\ ops = 0

-----------------------------------------------------------------------------
(* Keys.                                                                   *)

\* validate: found, not revoked, and valid up to and including expires_at.
Usable(k) == keys[k].there /\ ~keys[k].revoked /\ ~(keys[k].expires < time)

\* The capability matrix of query_kb.
QueryScopes(role) ==
  CASE role = "admin"  -> Scopes
    [] role = "editor" -> {"workspace", "kb"}
    [] OTHER           -> {"kb"}

\* authorize, as every caller calls it: with the knowledge base only.
Authorized(k, b) ==
  /\ keys[k].scope \in QueryScopes(keys[k].role)
  /\ keys[k].scope = "kb" => keys[k].kb = b

\* The key that issue adds: the routes issue keys for one knowledge base only.
Issued(role, b, expires) ==
  [NoKey EXCEPT !.there = TRUE, !.role = role, !.kb = b, !.expires = expires]

\* rotate: the new key has everything of the old one but its expiry.
Rotated(k, expires) ==
  [keys[k] EXCEPT !.revoked = FALSE, !.expires = expires, !.from = k]

Entered(type, of) == audit \cup {[type |-> type, of |-> of]}

-----------------------------------------------------------------------------
(* The control routes: the caller's key is checked in a session of its     *)
(* own, before the session that does the work.                             *)

RequireAdmin(a, k) ==
  /\ adm[a].pc = "idle" /\ ops < MaxOps
  /\ Usable(k) /\ keys[k].role = "admin"
  /\ adm' = [adm EXCEPT ![a] = [NoCall EXCEPT !.pc = "admin", !.by = k]]
  /\ ops' = ops + 1
  /\ UNCHANGED <<limiterVars, keys, grants, audit, reads, answered, refused, req, asked>>

EndCall(a) == adm' = [adm EXCEPT ![a] = NoCall]

IssueKey(a, k, role, b, expires) ==
  /\ adm[a].pc = "admin" /\ ~keys[k].there
  /\ keys' = [keys EXCEPT ![k] = Issued(role, b, expires)]
  /\ audit' = Entered("key_issued", k)
  /\ EndCall(a)
  /\ UNCHANGED <<limiterVars, grants, reads, answered, refused, req, asked, ops>>

\* revoke and rotate load the row; one that is missing or revoked ends the call.
LoadKey(a, op, k) ==
  /\ adm[a].pc = "admin" /\ op \in {"revoke_key", "rotate_key"}
  /\ IF keys[k].there /\ ~keys[k].revoked
     THEN adm' = [adm EXCEPT ![a].pc = "loaded", ![a].op = op, ![a].of = k]
     ELSE EndCall(a)
  /\ UNCHANGED <<limiterVars, keys, grants, audit, reads, answered, refused, req, asked, ops>>

RevokeKey(a) ==
  /\ adm[a].pc = "loaded" /\ adm[a].op = "revoke_key"
  /\ keys' = [keys EXCEPT ![adm[a].of].revoked = TRUE]
  /\ audit' = Entered("key_revoked", adm[a].of)
  /\ EndCall(a)
  /\ UNCHANGED <<limiterVars, grants, reads, answered, refused, req, asked, ops>>

\* The entry of a rotation has type key_issued and names both keys.
RotateKey(a, new, expires) ==
  LET old == adm[a].of
  IN  /\ adm[a].pc = "loaded" /\ adm[a].op = "rotate_key" /\ ~keys[new].there
      /\ keys' = [keys EXCEPT ![old].revoked = TRUE, ![new] = Rotated(old, expires)]
      /\ audit' = Entered("key_issued", new)
      /\ EndCall(a)
      /\ UNCHANGED <<limiterVars, grants, reads, answered, refused, req, asked, ops>>

-----------------------------------------------------------------------------
(* Break-glass grants.                                                     *)

\* issue_grant: the audit row and the grant, one transaction.
IssueGrant(a, g, b) ==
  /\ adm[a].pc = "admin" /\ ~grants[g].there
  /\ grants' = [grants EXCEPT ![g] =
       [there |-> TRUE, kb |-> b, admin |-> adm[a].by, since |-> time,
        until |-> time + Window, revoked |-> FALSE]]
  /\ audit' = Entered("break_glass_grant", g)
  /\ EndCall(a)
  /\ UNCHANGED <<limiterVars, keys, reads, answered, refused, req, asked, ops>>

LoadGrant(a, g) ==
  /\ adm[a].pc = "admin"
  /\ IF grants[g].there /\ ~grants[g].revoked
     THEN adm' = [adm EXCEPT ![a].pc = "loaded", ![a].op = "revoke_grant", ![a].of = g]
     ELSE EndCall(a)
  /\ UNCHANGED <<limiterVars, keys, grants, audit, reads, answered, refused, req, asked, ops>>

RevokeGrant(a) ==
  /\ adm[a].pc = "loaded" /\ adm[a].op = "revoke_grant"
  /\ grants' = [grants EXCEPT ![adm[a].of].revoked = TRUE]
  /\ EndCall(a)
  /\ UNCHANGED <<limiterVars, keys, audit, reads, answered, refused, req, asked, ops>>

\* Mutant: a grant is in force at its last instant as well.
InForceAtEnd(g) == grants[g].there /\ ~grants[g].revoked /\ grants[g].until >= time

\* The conditions of active_grant_for on one grant.
InForce(g) == grants[g].there /\ ~grants[g].revoked /\ grants[g].until > time

\* expire_due
Due == {g \in Grants : grants[g].there /\ grants[g].until <= time /\ ~grants[g].revoked}

\* sweep_expired_grants: a row for each due grant, the grants stay as they are.
Sweep ==
  /\ Due # {}
  /\ audit' = audit \cup {[type |-> "break_glass_expiry", of |-> g] : g \in Due}
  /\ UNCHANGED <<limiterVars, keys, grants, reads, answered, refused, req, adm, asked, ops>>

\* active_grant_for: the latest of the grants in force for this admin and base.
ActiveGrantFor(b, k) ==
  LET mine == {g \in Grants : InForce(g) /\ grants[g].kb = b /\ grants[g].admin = k}
  IN  {g \in mine : \A h \in mine : grants[h].since <= grants[g].since}

-----------------------------------------------------------------------------
(* A request.                                                              *)

Answer(i, status) == req' = [req EXCEPT ![i] = [NoRequest EXCEPT !.status = status]]

Asked(i, r) ==
  /\ req[i].pc = "idle" /\ asked < MaxRequests
  /\ asked' = asked + 1
  /\ req' = [req EXCEPT ![i] = r]
  /\ UNCHANGED <<limiterVars, keys, grants, audit, reads, answered, refused, adm, ops>>

\* The dependencies of the route: 401 without a valid key, 403 without permission.
\* The limiter comes next.
Authenticate(i, k, b, g, strict) ==
  Asked(i, CASE ~Usable(k)        -> [NoRequest EXCEPT !.status = "401"]
             [] Usable(k) /\ ~Authorized(k, b) -> [NoRequest EXCEPT !.status = "403"]
             [] OTHER -> [NoRequest EXCEPT !.pc = "limit", !.key = k, !.kb = b,
                                           !.with = g, !.strict = strict])

\* The MCP tools have no limiter, take no grant and no threshold, and answer "error".
AuthenticateTool(i, k, b) ==
  Asked(i, IF Usable(k) /\ Authorized(k, b)
           THEN [NoRequest EXCEPT !.pc = "check", !.key = k, !.kb = b]
           ELSE [NoRequest EXCEPT !.status = "error"])

LimiterClock(i) ==
  /\ req[i].pc = "limit"
  /\ ReadClock(i, req[i].key)
  /\ UNCHANGED accessVars

LimiterAcquire(i) ==
  /\ req[i].pc = "limit"
  /\ \E ok \in BOOLEAN :
       /\ Acquire(i, ok)
       /\ IF ok THEN req' = [req EXCEPT ![i].pc = "check"] ELSE Answer(i, "429")
  /\ UNCHANGED <<keys, grants, audit, reads, answered, refused, adm, asked, ops>>

\* The checks of query before the index is touched.
CheckQuery(i) ==
  LET r == req[i]
      k == keys[r.key]
      foreign == /\ k.scope = "workspace" /\ KbWorkspace[r.kb] # Noone
                 /\ KbWorkspace[r.kb] # k.ws
      active == ActiveGrantFor(r.kb, r.key)
  IN  /\ r.pc = "check"
      /\ \/ /\ foreign /\ Answer(i, "PERMISSION_DENIED") /\ UNCHANGED refused
         \/ /\ ~foreign /\ k.role # "admin"
            /\ req' = [req EXCEPT ![i].pc = "search"] /\ UNCHANGED refused
         \/ /\ ~foreign /\ k.role = "admin" /\ r.with \in active
            /\ req' = [req EXCEPT ![i].pc = "search", ![i].under = r.with]
            /\ UNCHANGED refused
         \/ /\ ~foreign /\ k.role = "admin" /\ \A g \in active : g # r.with \/ Cardinality(active) > 1
            /\ Answer(i, "PERMISSION_DENIED")
            /\ refused' = refused \cup {g \in {r.with} \cap Grants :
                 InForce(g) /\ grants[g].kb = r.kb /\ grants[g].admin = r.key}
      /\ UNCHANGED <<limiterVars, keys, grants, audit, reads, answered, adm, asked, ops>>

\* The tenancy filter: the base always, the workspace and the reader unless the key
\* has global scope; a break-glass read is not filtered by reader.
TenancyFilter(r) ==
  LET scoped == keys[r.key].scope # "global"
  IN  {"kb"} \cup (IF scoped /\ keys[r.key].ws # Noone THEN {"workspace"} ELSE {})
             \cup (IF scoped /\ r.under = Noone THEN {"readers"} ELSE {})

\* One condition on the payload of c: a value, or an element of a list.
Fulfils(r, c, field) ==
  CASE field = "kb" -> c.kb = r.kb
    [] field = "workspace" -> c.ws = keys[r.key].ws
    [] field = "readers" -> r.key \in c.readers

\* What the vector search returns: the conditions are joined by "and".
Visible(r) == {c \in Content : \A field \in TenancyFilter(r) : Fulfils(r, c, field)}

\* The survivors of the threshold, best first, cut to top_k.
Kept(r) ==
  LET above == {c \in Visible(r) : r.strict => c.score >= Threshold}
  IN  {c \in above : Cardinality({d \in above : d.score > c.score}) < TopK}

\* _provenance_from_payload: a required field is missing or null.
Corrupt(c) == c.corrupt

SearchIndex(i) ==
  LET r == req[i]
  IN  /\ r.pc = "search"
      /\ IF Visible(r) = {} THEN Answer(i, "no_matches")
         ELSE IF Kept(r) = {} THEN Answer(i, "filtered_to_zero")
         ELSE IF \E c \in Kept(r) : Corrupt(c) THEN Answer(i, "PAYLOAD_CORRUPT")
         ELSE IF r.under = Noone THEN Answer(i, "matches")
         ELSE req' = [req EXCEPT ![i].pc = "audit"]
      /\ UNCHANGED <<limiterVars, keys, grants, audit, reads, answered, refused, adm, asked, ops>>

\* Mutant: a failing append is logged and the content is served.
AuditReadOptimistic(i, written) ==
  LET g == req[i].under
  IN  /\ req[i].pc = "audit"
      /\ Answer(i, "matches")
      /\ answered' = [answered EXCEPT ![g] = @ + 1]
      /\ reads' = [reads EXCEPT ![g] = IF written /\ CommitsOnExit THEN @ + 1 ELSE @]
      /\ UNCHANGED <<limiterVars, keys, grants, audit, refused, adm, asked, ops>>

\* The row is flushed before the answer is built, and is durable once the session is
\* left; when it cannot be written no content leaves (M-003).
AuditRead(i, written) ==
  LET g == req[i].under
  IN  /\ req[i].pc = "audit"
      /\ IF written
         THEN /\ Answer(i, "matches")
              /\ answered' = [answered EXCEPT ![g] = @ + 1]
              /\ reads' = [reads EXCEPT ![g] = IF CommitsOnExit THEN @ + 1 ELSE @]
         ELSE Answer(i, "CONTROL_PLANE_UNAVAILABLE") /\ UNCHANGED <<answered, reads>>
      /\ UNCHANGED <<limiterVars, keys, grants, audit, refused, adm, asked, ops>>

Pass == time < MaxTime /\ Tick /\ UNCHANGED accessVars

AdminStep(a) ==
  \/ \E k \in Keys : RequireAdmin(a, k)
  \/ \E k \in Keys, role \in Offered, b \in Kbs, e \in {time, Never} : IssueKey(a, k, role, b, e)
  \/ \E k \in Keys, op \in Ops : LoadKey(a, op, k)
  \/ RevokeKey(a)
  \/ \E k \in Keys, e \in {time, Never} : RotateKey(a, k, e)
  \/ \E g \in Grants, b \in Kbs : IssueGrant(a, g, b)
  \/ \E g \in Grants : LoadGrant(a, g)
  \/ RevokeGrant(a)

RequestStep(i) ==
  \/ \E k \in Keys, b \in Kbs, g \in Grants \cup {Noone}, strict \in BOOLEAN :
       Authenticate(i, k, b, g, strict)
  \/ \E k \in Keys, b \in Kbs : AuthenticateTool(i, k, b)
  \/ LimiterClock(i) \/ LimiterAcquire(i) \/ CheckQuery(i) \/ SearchIndex(i)
  \/ \E written \in BOOLEAN : AuditRead(i, written)

AccessNext ==
  \/ \E a \in Admins : AdminStep(a)
  \/ \E i \in Threads : RequestStep(i)
  \/ Sweep
  \/ Pass

AccessSpec == AccessInit /\ [][AccessNext]_allVars

-----------------------------------------------------------------------------
(* Properties.                                                             *)

\* No content leaves under a grant without its row in the audit log (M-003, T-05),
\* when the session the service was given commits on exit.
ReadsAreAudited == \A g \in Grants : answered[g] <= reads[g]

\* Once the log says that a grant expired, no request is let through with it: the
\* sweep and the check draw the line at the same instant (M-002).
ExpiredIsOver ==
  [][\A i \in Threads :
       req'[i].under # Noone /\ req'[i].under # req[i].under
       => [type |-> "break_glass_expiry", of |-> req'[i].under] \notin audit]_allVars

-----------------------------------------------------------------------------
(* What the documents say and the code does not do.                        *)

\* A valid grant (active, unexpired, of this base and admin) lets the admin read
\* (retrieval_api.py:559): only the latest of several is accepted.
GrantIsHonoured == refused = {}

\* A rotation leaves one usable key (auth.py:398): two concurrent ones leave two.
OneSuccessor ==
  \A k \in Keys : Cardinality({n \in Keys : keys[n].there /\ n # Root /\ keys[n].from = k
                                            /\ k # Root /\ ~keys[n].revoked}) <= 1

\* Content leaves under a grant only while it is in force (M-002): it may end
\* between the check and the answer.
AnsweredInForce ==
  [][\A g \in Grants : answered'[g] > answered[g] => InForce(g)]_allVars
=============================================================================
