------------------------------- MODULE OAuth -------------------------------
(***************************************************************************)
(* The OAuth provider app.  Other apps ask it for access tokens of the     *)
(* owner's accounts; a user consents in the browser, at the upstream       *)
(* provider, by the redirect of the authorization-code flow or by the user *)
(* code of the device flow.  What a flow is about lives in two dicts of    *)
(* the process until the flow ends; tokens are rows of its database, and   *)
(* what an app may ask for is a grant in the router's table.               *)
(*                                                                         *)
(* The pages /grant, /device and /callback are public paths of the app     *)
(* that take what they are about from the query: whoever opens one names   *)
(* the app, and the account of a device flow.  The model does not tell the *)
(* owner from another visitor, as the code does not: "consent" is that     *)
(* somebody approved at the provider, as an account.                       *)
(*                                                                         *)
(* The app is one asyncio process.  Each action is what runs between two   *)
(* awaits; a request that waits for credentials, for the upstream provider *)
(* or for the router is a slot of "req".                                   *)
(***************************************************************************)
EXTENDS Naturals, Sequences, SequencesExt, FiniteSets, FiniteSetsExt

CONSTANTS
  Apps, Router, \* consumers; the router vouches for itself
  Accounts,     \* identities at the upstream providers
  Asks,         \* the sets of scopes that are asked for
  Reqs,         \* requests served at a time
  MaxOps, MaxDevs, MaxRows, MaxFaults, \* bounds on requests, device flows, stored tokens, failures and restarts
  None

Provs == {"google", "github"}      \* with a redirect, with a device code
Labels == Accounts \cup {"default", "NEW"}

ASSUME OAuthAssumption ==
  /\ Router \notin Apps /\ None \notin Apps \cup {Router} \cup Accounts
  /\ {"default", "NEW"} \cap Accounts = {} /\ {} \notin Asks
  /\ {MaxOps, MaxDevs, MaxFaults} \subseteq Nat /\ MaxRows \in Nat \ {0}

VARIABLES
  pending,   \* pending_auth_flows, in insertion order
  devs,      \* active_device_flows: flow ids are indices, None once popped
  rows,      \* oauth_tokens
  nextId,    \* AUTOINCREMENT
  grants,    \* app-scoped grants of the router's permissions_v2
  req,
  answer,    \* the token the last step handed out
  consents,  \* history: what was approved upstream, for which app and as whom
  unnamed,   \* history: those of them whose identity call then failed
  ops, faults

flows == <<pending, devs>>
table == <<rows, nextId>>
bounds == <<ops, faults>>
history == <<consents, unnamed>>
vars == <<flows, table, grants, req, answer, history, bounds>>

Idle == [pc |-> "idle"]
Ask == ops < MaxOps /\ ops' = ops + 1 /\ UNCHANGED faults
Fault == faults < MaxFaults /\ faults' = faults + 1 /\ UNCHANGED ops
Quiet == answer' = None
End(r) == req' = [req EXCEPT ![r] = Idle]
Wait(r, rec) == req' = [req EXCEPT ![r] = rec]

---------------------------------------------------------------------------
(* Tokens and grants                                                       *)

(* check_oauth_v2_permission: the union of the caller's grants; a grant    *)
(* with an account serves only requests that name it.  The router forges   *)
(* a grant without one.                                                    *)
CoveredByAny(c, prov, scopes, label) ==
  scopes \subseteq UNION {g.scopes : g \in {h \in grants : h.app = c /\ h.prov = prov}}

Covered(c, prov, scopes, label) ==
  \/ c = Router
  \/ scopes \subseteq UNION {g.scopes : g \in
       {h \in grants : h.app = c /\ h.prov = prov /\ h.account = label}}

(* select_tokens: "default" stands for any account.                        *)
Matching(prov, scopes, label) ==
  {t \in rows : /\ t.prov = prov /\ t.scopes = scopes
                /\ label = "default" \/ t.label = label}
First(ts) == CHOOSE t \in ts : \A u \in ts : t.id <= u.id

(* Only Google was asked for a refresh token.                              *)
Renews(prov) == prov = "google"

(* store_token inserts, whatever is there.                                 *)
Row(id, f, label, known) ==
  [id |-> id, prov |-> f.prov, scopes |-> f.scopes, label |-> label, of |-> f.of,
   known |-> known]
Store(f, label, known) ==
  /\ nextId <= MaxRows
  /\ rows' = rows \cup {Row(nextId, f, label, known)} /\ nextId' = nextId + 1

Forget(t) == rows' = rows \ {t} /\ UNCHANGED nextId

(* update_token_after_refresh, of the row with that id if it is there: the  *)
(* access token of the account whose refresh token was sent.               *)
Refreshed(t) == {IF u.id = t.id THEN [u EXCEPT !.of = t.of] ELSE u : u \in rows}

(* The upstream provider names the account, or the call fails and the      *)
(* label of the flow is kept.                                              *)
Identity(f, known) == IF known THEN f.of ELSE f.label

(* "for" is history: the app that the flow was opened for, or None.        *)
Flow(app, prov, scopes, label) ==
  [for |-> app, app |-> app, prov |-> prov, scopes |-> scopes, label |-> label, of |-> None]

---------------------------------------------------------------------------
(* The service: apps ask the router, which calls these                     *)

(* _authorize_response: the flow of a redirect is made once the            *)
(* credentials are there; for a device flow the answer is a link to its    *)
(* page, and nothing is kept.  An app that asked for a new account is      *)
(* annotated.                                                              *)
Authorize(r, f) == IF f.prov = "google" THEN Wait(r, [pc |-> "creds", flow |-> f]) ELSE End(r)

(* get_token_request.  A stored token may have expired.                    *)
AskToken == \E r \in Reqs, c \in Apps \cup {Router}, prov \in Provs, scopes \in Asks,
               label \in Labels, fresh \in BOOLEAN :
  /\ req[r] = Idle /\ (c = Router => label = "default") /\ Ask
  /\ LET found == Matching(prov, scopes, label)
         t == First(found)
         again == Flow(None, prov, scopes, label)
     IN IF label = "NEW"
        THEN Authorize(r, Flow(c, prov, scopes, label)) /\ Quiet
        ELSE /\ Covered(c, prov, scopes, label)
             /\ IF found = {} \/ (~fresh /\ ~Renews(prov))
                THEN Authorize(r, again) /\ Quiet
                ELSE IF fresh
                THEN UNCHANGED req /\ answer' = [by |-> c, flow |-> again, row |-> t]
                ELSE Wait(r, [pc |-> "refresh", by |-> c, flow |-> again, row |-> t]) /\ Quiet
  /\ UNCHANGED <<flows, table, grants, history>>

(* get_valid_token after its awaits; a token that cannot be refreshed is   *)
(* asked for again.                                                        *)
Refresh == \E r \in Reqs, works \in BOOLEAN :
  /\ req[r].pc = "refresh"
  /\ IF works
     THEN /\ rows' = Refreshed(req[r].row)
          /\ answer' = [by |-> req[r].by, flow |-> req[r].flow, row |-> req[r].row] /\ End(r)
     ELSE Authorize(r, req[r].flow) /\ Quiet /\ UNCHANGED rows
  /\ UNCHANGED <<flows, nextId, grants, history, bounds>>

(* svc_revoke: the row goes before the upstream provider is asked.         *)
Revoke == \E c \in Apps, prov \in Provs, scopes \in Asks, x \in Labels :
  /\ Ask /\ Covered(c, prov, scopes, x)
  /\ LET found == {t \in Matching(prov, scopes, x) : t.label = x}
     IN found # {} /\ Forget(First(found))
  /\ Quiet /\ UNCHANGED <<flows, grants, req, history>>

(* api_delete_token reads the row, waits for credentials, deletes by id.   *)
AskDelete == \E r \in Reqs, t \in rows :
  /\ req[r] = Idle /\ Ask
  /\ Wait(r, [pc |-> "delete", row |-> t])
  /\ Quiet /\ UNCHANGED <<flows, table, grants, history>>

Delete == \E r \in Reqs, works \in BOOLEAN :
  /\ req[r].pc = "delete"
  /\ End(r)
  /\ rows' = IF works THEN {t \in rows : t.id # req[r].row.id} ELSE rows
  /\ Quiet /\ UNCHANGED <<flows, nextId, grants, history, bounds>>

---------------------------------------------------------------------------
(* The consent pages, opened by anybody                                    *)

(* /grant, for any app and scopes: a redirect needs credentials, and for a *)
(* device code it only sends the browser on to /device.                    *)
OauthGrant == \E r \in Reqs, c \in Apps, prov \in Provs, scopes \in Asks :
  /\ req[r] = Idle /\ Ask
  /\ Authorize(r, Flow(c, prov, scopes, "default"))
  /\ Quiet /\ UNCHANGED <<flows, table, grants, history>>

BuildUrlLate == \E r \in Reqs :
  /\ req[r].pc = "creds"
  /\ LET f == req[r].flow
         n == Len(pending)
     IN pending' = Append(IF n = 0 THEN pending ELSE [pending EXCEPT ![n].app = f.app],
                          [f EXCEPT !.app = None])
  /\ End(r) /\ Quiet /\ UNCHANGED <<devs, table, grants, history, bounds>>

(* build_auth_url, and the annotation of the flow it put last into the     *)
(* dict, without an await between the two.                                 *)
BuildUrl == \E r \in Reqs :
  /\ req[r].pc = "creds"
  /\ LET all == Append(pending, [req[r].flow EXCEPT !.app = None])
     IN pending' = [all EXCEPT ![Len(all)].app = req[r].flow.app]
  /\ End(r) /\ Quiet /\ UNCHANGED <<devs, table, grants, history, bounds>>

(* A request that fails: no credentials, an upstream error, a closed tab.  *)
GiveUp == \E r \in Reqs :
  /\ req[r].pc \in {"creds", "link", "exchange"} /\ Fault
  /\ End(r) /\ Quiet /\ UNCHANGED <<flows, table, grants, history>>

Approval(f, x) ==
  [app |-> f.for, prov |-> f.prov, scopes |-> f.scopes, label |-> f.label, of |-> x]
Consent(f, x) == UNCHANGED unnamed /\ consents' = consents \cup
  {Approval(f, x)}

(* A user approves at the provider, as some account, and comes back with   *)
(* the state of the flow; or with fewer scopes than asked, as the provider *)
(* names them in the callback.                                             *)
Callback == \E r \in Reqs, i \in DOMAIN pending, x \in Accounts, all \in BOOLEAN :
  /\ req[r] = Idle
  /\ pending' = RemoveAt(pending, i)
  /\ IF all
     THEN /\ Consent(pending[i], x) /\ UNCHANGED bounds
          /\ Wait(r, [pc |-> "exchange", flow |-> [pending[i] EXCEPT !.of = x], dev |-> 0])
     ELSE Fault /\ UNCHANGED <<history, req>>
  /\ Quiet /\ UNCHANGED <<devs, table, grants>>

Popped(d) == IF d = 0 THEN devs ELSE [devs EXCEPT ![d] = None]

(* The code is exchanged, the identity asked for, the token stored; then   *)
(* the grant, if the flow knows its app.                                   *)
Exchange == \E r \in Reqs, known \in BOOLEAN :
  /\ req[r].pc = "exchange"
  /\ IF known THEN UNCHANGED bounds ELSE Fault
  /\ LET f == req[r].flow
         label == Identity(f, known)
     IN /\ Store(f, label, known)
        /\ unnamed' = IF known THEN unnamed ELSE unnamed \cup {Approval(f, f.of)}
        /\ IF f.app = None THEN End(r) /\ devs' = Popped(req[r].dev)
           ELSE UNCHANGED devs /\ Wait(r, [pc |-> "grant", flow |-> f, account |-> label, dev |-> req[r].dev])
  /\ Quiet /\ UNCHANGED <<pending, grants, consents>>

(* grant_app_scoped_permission: an answer of the router, whatever it says, *)
(* is not looked at, and a device flow is popped after it; without an      *)
(* answer within ten seconds the request fails, the grant may be written,  *)
(* and the next poll of the device flow does everything again.             *)
GrantAppScoped == \E r \in Reqs, written, answered \in BOOLEAN :
  /\ req[r].pc = "grant"
  /\ LET q == req[r]
     IN /\ IF written /\ answered THEN UNCHANGED bounds ELSE Fault
        /\ grants' = IF written
                     THEN grants \cup {[app |-> q.flow.app, prov |-> q.flow.prov,
                                        scopes |-> q.flow.scopes, account |-> q.account]}
                     ELSE grants
        /\ devs' = IF answered THEN Popped(q.dev) ELSE devs
  /\ End(r) /\ Quiet /\ UNCHANGED <<pending, table, history>>

---------------------------------------------------------------------------
(* The device flow                                                         *)

NewDevice(f) == [flow |-> f, status |-> "pending"]

(* device_page: app, scopes and account are the query's; a code is asked   *)
(* for upstream.                                                           *)
DevicePage == \E r \in Reqs, app \in Apps \cup {None}, scopes \in Asks, label \in Labels :
  /\ req[r] = Idle /\ Ask
  /\ Wait(r, [pc |-> "link", flow |-> Flow(app, "github", scopes, label)])
  /\ Quiet /\ UNCHANGED <<flows, table, grants, history>>

(* create_device_flow: the flow and its polling task.                      *)
CreateDeviceFlow == \E r \in Reqs :
  /\ req[r].pc = "link" /\ Len(devs) < MaxDevs
  /\ devs' = Append(devs, NewDevice(req[r].flow))
  /\ End(r) /\ Quiet /\ UNCHANGED <<pending, table, grants, history, bounds>>

Pending(d) == d \in DOMAIN devs /\ devs[d] # None /\ devs[d].status = "pending"

(* A user types the code in at the provider, as some account.              *)
DeviceApprove == \E d \in DOMAIN devs, x \in Accounts :
  /\ Pending(d) /\ devs[d].flow.of = None
  /\ devs' = [devs EXCEPT ![d].flow.of = x]
  /\ Consent(devs[d].flow, x)
  /\ Quiet /\ UNCHANGED <<pending, table, grants, req, bounds>>

(* _poll_device_flow asks again while the answer is pending or slow_down;  *)
(* it gives up when the user refuses  and after three hundred seconds.     *)
PollDeviceFlow == \E d \in DOMAIN devs, st \in {"completed", "error"} :
  /\ Pending(d) /\ (st = "completed" => devs[d].flow.of # None)
  /\ devs' = [devs EXCEPT ![d].status = st]
  /\ Quiet /\ UNCHANGED <<pending, table, grants, req, history, bounds>>

(* device_poll, by the page every second, also when an earlier call has    *)
(* not come back.                                                          *)
DevicePoll == \E r \in Reqs, d \in DOMAIN devs :
  /\ devs[d] # None /\ req[r] = Idle
  /\ \/ /\ devs[d].status = "completed"
        /\ Wait(r, [pc |-> "exchange", flow |-> devs[d].flow, dev |-> d])
        /\ UNCHANGED devs
     \/ /\ devs[d].status = "error"
        /\ devs' = [devs EXCEPT ![d] = None] /\ UNCHANGED req
  /\ Quiet /\ UNCHANGED <<pending, table, grants, history, bounds>>

(* The app is restarted: both dicts and every request are gone.            *)
Restart ==
  /\ Fault
  /\ pending' = <<>>
  /\ devs' = [d \in DOMAIN devs |-> None]
  /\ req' = [r \in Reqs |-> Idle]
  /\ Quiet /\ UNCHANGED <<table, grants, history>>

(* At the start no app was served yet, or one has a token of one account.  *)
Init ==
  /\ pending = <<>> /\ devs = <<>>
  /\ req = [r \in Reqs |-> Idle] /\ answer = None
  /\ unnamed = {} /\ ops = 0 /\ faults = 0
  /\ \/ rows = {} /\ nextId = 1 /\ grants = {} /\ consents = {}
     \/ \E c \in Apps, x \in Accounts, scopes \in Asks :
          LET f == [Flow(c, "google", scopes, "default") EXCEPT !.of = x]
          IN /\ rows = {Row(1, f, x, TRUE)} /\ nextId = 2
             /\ grants = {[app |-> c, prov |-> "google", scopes |-> scopes, account |-> x]}
             /\ consents = {Approval(f, x)}

Next ==
  \/ AskToken \/ Refresh \/ Revoke \/ AskDelete \/ Delete
  \/ OauthGrant \/ BuildUrl \/ GiveUp \/ Callback \/ Exchange \/ GrantAppScoped
  \/ DevicePage \/ CreateDeviceFlow \/ DeviceApprove \/ PollDeviceFlow \/ DevicePoll \/ Restart

Spec == Init /\ [][Next]_vars

---------------------------------------------------------------------------
(* Properties                                                              *)

FlowType == [for : Apps \cup {None}, app : Apps \cup {None}, prov : Provs, scopes : Asks,
             label : Labels, of : Accounts \cup {None}]
RowType == [id : 1..MaxRows, prov : Provs, scopes : Asks, label : Labels, of : Accounts,
            known : BOOLEAN]

(* Types; the key of the table; flows of a redirect wait only for Google.  *)
TypeOK ==
  /\ \A i \in DOMAIN pending : pending[i] \in FlowType /\ pending[i].prov = "google"
  /\ \A d \in DOMAIN devs : devs[d] # None =>
       /\ devs[d].flow \in FlowType /\ devs[d].flow.prov = "github"
       /\ devs[d].status \in {"pending", "completed", "error"}
       /\ devs[d].status = "completed" => devs[d].flow.of # None
  /\ rows \subseteq RowType /\ nextId \in 1..(MaxRows + 1)
  /\ \A t, u \in rows : t.id = u.id => t = u
  /\ \A t \in rows : t.id < nextId
  /\ grants \subseteq [app : Apps, prov : Provs, scopes : Asks, account : Labels]
  /\ \A r \in Reqs : req[r].pc \in {"idle", "creds", "link", "refresh", "delete", "exchange", "grant"}
  /\ ops \in 0..MaxOps /\ faults \in 0..MaxFaults

(* The account that an approval stands for: the one that gave it, or the   *)
(* one that the flow was opened for when its identity call failed.         *)
StandsFor(c, x) == c.of = x \/ (c \in unnamed /\ c.label = x)

(* oauth_grant, oauth_callback, device_poll: an app holds a grant only for *)
(* scopes that somebody approved upstream in a flow that named this app,   *)
(* as the account of the grant, however many flows overlap.  When the      *)
(* provider did not name the account, it is the one of the query.          *)
GrantsConsented ==
  \A g \in grants : \E c \in consents :
    c.app = g.app /\ c.prov = g.prov /\ c.scopes = g.scopes /\ StandsFor(c, g.account)

(* check_oauth_v2_permission, get_valid_token: an app that names an        *)
(* account gets a token of that account, unless the row was stored while   *)
(* the account had no name, and only scopes that somebody approved there   *)
(* in flows that named this app.                                           *)
AnswersConsented ==
  answer # None /\ answer.flow.label \in Accounts =>
    LET f == answer.flow IN
    /\ answer.row.known => answer.row.of = f.label
    /\ \A s \in f.scopes : \E c \in consents :
         c.app = answer.by /\ c.prov = f.prov /\ s \in c.scopes /\ StandsFor(c, f.label)
============================================================================
