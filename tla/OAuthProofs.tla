----------------------------- MODULE OAuthProofs -----------------------------
(***************************************************************************)
(* Proofs about OAuth, for any apps, accounts, scopes and number of        *)
(* overlapping requests: an app is granted what somebody consented to in a *)
(* flow that named that app, and is handed only tokens of the account it   *)
(* names.                                                                  *)
(***************************************************************************)
EXTENDS OAuth, WellFoundedInduction, TLAPS

USE OAuthAssumption DEF Provs, Labels

-----------------------------------------------------------------------------
(* What a flow, a slot, a row and a grant may be, given the history "cs"    *)
(* of the consents, those of them ("un") without a name, and the tokens    *)

\* A flow is annotated with the app that it was opened for.
FlowOK(f) == f \in FlowType /\ f.app = f.for

Approved(f, cs) == f.of \in Accounts /\ Approval(f, f.of) \in cs

Stands(c, x, un) == c.of = x \/ (c \in un /\ c.label = x)

\* What an app that names an account may ask for.
MayHave(by, f, cs, un) ==
    f.label \in Accounts =>
        \A s \in f.scopes : \E c \in cs :
            c.app = by /\ c.prov = f.prov /\ s \in c.scopes /\ Stands(c, f.label, un)

Named(t) == t.known => t.of = t.label

\* A row that a request read before an await: whatever carries its id now was
\* stored under the same label.
Snapshot(t, rs, n) ==
    /\ t.id < n /\ Named(t)
    /\ \A u \in rs : u.id = t.id => u.label = t.label /\ u.known = t.known

Slots ==
    {Idle} \cup [pc : {"creds", "link"}, flow : FlowType]
           \cup [pc : {"refresh"}, by : Apps \cup {Router}, flow : FlowType, row : RowType]
           \cup [pc : {"delete"}, row : RowType]
           \cup [pc : {"exchange"}, flow : FlowType, dev : Nat]
           \cup [pc : {"grant"}, flow : FlowType, account : Labels, dev : Nat]

SlotOK(q, cs, un, rs, n) ==
    /\ q \in Slots
    /\ q.pc \in {"creds", "link", "refresh", "exchange", "grant"} => FlowOK(q.flow)
    /\ q.pc = "creds" => q.flow.prov = "google"
    /\ q.pc = "link" => q.flow.prov = "github"
    /\ q.pc \in {"creds", "link"} => q.flow.of = None
    /\ q.pc \in {"exchange", "grant"} => Approved(q.flow, cs)
    /\ q.pc = "grant" => /\ q.flow.app # None
                         /\ \/ q.account = q.flow.of
                            \/ q.account = q.flow.label /\ Approval(q.flow, q.flow.of) \in un
    /\ q.pc \in {"refresh", "delete"} => Snapshot(q.row, rs, n)
    /\ q.pc = "refresh" => /\ MayHave(q.by, q.flow, cs, un) /\ q.flow.of = None
                           /\ q.flow.label \in Accounts => q.row.label = q.flow.label

DevType == [flow : FlowType, status : {"pending", "completed", "error"}]

DevOK(v, cs) ==
    v # None =>
        /\ FlowOK(v.flow) /\ v.flow.prov = "github"
        /\ v.status = "completed" => v.flow.of # None
        /\ v.flow.of # None => Approved(v.flow, cs)

\* The account of a grant is one that an approval for its app stands for.
GrantOK(g, cs, un) ==
    \E c \in cs : c.app = g.app /\ c.prov = g.prov /\ c.scopes = g.scopes /\ Stands(c, g.account, un)

-----------------------------------------------------------------------------
(* The invariant *)

PendingOK ==
    /\ pending \in Seq(FlowType)
    /\ \A i \in 1..Len(pending) : FlowOK(pending[i]) /\ pending[i].prov = "google"

DevsOK ==
    /\ devs \in Seq(DevType \cup {None})
    /\ \A d \in 1..Len(devs) : DevOK(devs[d], consents)

RowsOK ==
    /\ rows \subseteq RowType /\ nextId \in 1..(MaxRows + 1)
    /\ \A t, u \in rows : t.id = u.id => t = u
    /\ \A t \in rows : t.id < nextId /\ Named(t)

ReqsOK ==
    /\ req \in [Reqs -> Slots]
    /\ \A r \in Reqs : SlotOK(req[r], consents, unnamed, rows, nextId)

GrantsOK ==
    /\ grants \subseteq [app : Apps, prov : Provs, scopes : Asks, account : Labels]
    /\ \A g \in grants : GrantOK(g, consents, unnamed)

CountsOK == ops \in 0..MaxOps /\ faults \in 0..MaxFaults

IInv == PendingOK /\ DevsOK /\ RowsOK /\ ReqsOK /\ GrantsOK /\ CountsOK /\ AnswersConsented

-----------------------------------------------------------------------------
(* Lemmas about the operators *)

\* The first of the matching rows is one of them: ids are numbers.
LEMMA FirstIsThere ==
    ASSUME NEW S \in SUBSET RowType, S # {}
    PROVE  First(S) \in S
  <1> DEFINE R == OpToRel(<, Nat)
  <1> DEFINE N == {t.id : t \in S}
  <1>1. \A m, n \in Nat : m < n => <<m, n>> \in R
    BY DEF OpToRel
  <1>2. IsWellFoundedOn(R, Nat)
    BY NatLessThanWellFounded
  <1>3. N \subseteq Nat /\ N # {}
    BY DEF RowType
  <1> HIDE DEF R, N
  <1>4. \E n \in N : \A m \in N : <<m, n>> \notin R
    BY <1>2, <1>3, WFMin
  <1>5. PICK n \in N : \A m \in N : <<m, n>> \notin R
    BY <1>4
  <1> USE DEF N
  <1>6. PICK t \in S : t.id = n
    OBVIOUS
  <1>7. \A u \in S : u.id \in Nat /\ ~(u.id < n)
    <2> SUFFICES ASSUME NEW u \in S PROVE u.id \in Nat /\ ~(u.id < n)
      OBVIOUS
    <2>1. u.id \in N /\ u.id \in Nat /\ n \in Nat
      BY <1>3
    <2> QED
      BY <1>1, <1>5, <2>1
  <1>8. n \in Nat
    BY <1>3
  <1>9. \A u \in S : t.id <= u.id
    BY <1>6, <1>7, <1>8
  <1> QED
    BY <1>9 DEF First

LEMMA RemovedFrom ==
    ASSUME NEW S, NEW s \in Seq(S), NEW i \in 1..Len(s)
    PROVE  /\ RemoveAt(s, i) \in Seq(S)
           /\ \A j \in 1..Len(RemoveAt(s, i)) : \E k \in 1..Len(s) : RemoveAt(s, i)[j] = s[k]
  <1> DEFINE a == SubSeq(s, 1, i - 1)
  <1> DEFINE b == SubSeq(s, i + 1, Len(s))
  <1>1. a \in Seq(S) /\ Len(a) = i - 1 /\ \A j \in 1..Len(a) : a[j] = s[j]
    OBVIOUS
  <1>2. b \in Seq(S) /\ Len(b) = Len(s) - i /\ \A j \in 1..Len(b) : b[j] = s[i + j]
    OBVIOUS
  <1>3. RemoveAt(s, i) = a \o b
    BY DEF RemoveAt
  <1> HIDE DEF a, b
  <1>4. a \o b \in Seq(S) /\ Len(a \o b) = Len(s) - 1
    <2>1. \A p, q \in Seq(S) : p \o q \in Seq(S) /\ Len(p \o q) = Len(p) + Len(q)
      OBVIOUS
    <2>2. a \o b \in Seq(S) /\ Len(a \o b) = Len(a) + Len(b)
      BY <1>1, <1>2, <2>1
    <2>3. i \in Int /\ Len(s) \in Int
      OBVIOUS
    <2> QED
      BY <1>1, <1>2, <2>2, <2>3
  <1>5. ASSUME NEW j \in 1..Len(a \o b) PROVE \E k \in 1..Len(s) : (a \o b)[j] = s[k]
    <2>1. CASE j <= i - 1
      <3>1. (a \o b)[j] = a[j]
        BY <1>1, <1>2, <1>4, <2>1
      <3> QED
        BY <1>1, <1>4, <2>1, <3>1
    <2>2. CASE j > i - 1
      <3>1. (a \o b)[j] = b[j - (i - 1)] /\ j - (i - 1) \in 1..Len(b)
        BY <1>1, <1>2, <1>4, <2>2
      <3>2. b[j - (i - 1)] = s[i + (j - (i - 1))] /\ i + (j - (i - 1)) \in 1..Len(s)
        BY <1>2, <1>4, <3>1
      <3> QED
        BY <3>1, <3>2
    <2> QED
      BY <1>4, <2>1, <2>2
  <1> QED
    BY <1>3, <1>4, <1>5

\* What a step may do to the world of a request that waits.
Grows ==
    /\ consents \subseteq consents' /\ unnamed \subseteq unnamed' /\ nextId <= nextId'
    /\ \A u \in rows' : u.id < nextId => \E v \in rows : v.id = u.id /\ v.label = u.label /\ v.known = u.known

LEMMA SlotLasts ==
    ASSUME RowsOK, RowsOK', Grows, NEW q, SlotOK(q, consents, unnamed, rows, nextId)
    PROVE  SlotOK(q, consents', unnamed', rows', nextId')
  <1>1. /\ q.pc \in {"exchange", "grant"} => Approved(q.flow, consents')
        /\ Approval(q.flow, q.flow.of) \in unnamed => Approval(q.flow, q.flow.of) \in unnamed'
    BY DEF SlotOK, Grows, Approved
  <1>2. q.pc \in {"refresh", "delete"} => Snapshot(q.row, rows', nextId')
    <2> SUFFICES ASSUME q.pc \in {"refresh", "delete"} PROVE Snapshot(q.row, rows', nextId')
      OBVIOUS
    <2>1. Snapshot(q.row, rows, nextId) /\ q.row \in RowType
      BY DEF SlotOK, Slots, Idle
    <2>2. q.row.id \in Nat /\ nextId \in Nat /\ nextId' \in Nat
      BY <2>1 DEF RowType, RowsOK
    <2>3. q.row.id < nextId /\ q.row.id < nextId'
      BY <2>1, <2>2 DEF Snapshot, Grows
    <2>4. ASSUME NEW u \in rows', u.id = q.row.id PROVE u.label = q.row.label /\ u.known = q.row.known
      <3>1. PICK v \in rows : v.id = u.id /\ v.label = u.label /\ v.known = u.known
        BY <2>3, <2>4 DEF Grows
      <3> QED
        BY <2>1, <2>4, <3>1 DEF Snapshot
    <2> QED
      BY <2>1, <2>3, <2>4 DEF Snapshot
  <1>3. q.pc = "refresh" => MayHave(q.by, q.flow, consents', unnamed')
    BY DEF SlotOK, Grows, MayHave, Stands
  <1> QED
    BY <1>1, <1>2, <1>3 DEF SlotOK

LEMMA DevLasts ==
    ASSUME consents \subseteq consents', NEW v, DevOK(v, consents)
    PROVE  DevOK(v, consents')
  BY DEF DevOK, Approved

LEMMA GrantLasts ==
    ASSUME consents \subseteq consents', unnamed \subseteq unnamed', NEW g, GrantOK(g, consents, unnamed)
    PROVE  GrantOK(g, consents', unnamed')
  BY DEF GrantOK, Stands

\* What an app with an account may ask for, by the grants it has.
LEMMA CoveredIsConsented ==
    ASSUME GrantsOK, NEW c \in Apps \cup {Router}, NEW prov \in Provs, NEW scopes \in Asks, NEW label \in Labels,
           c = Router => label = "default", Covered(c, prov, scopes, label)
    PROVE  MayHave(c, Flow(None, prov, scopes, label), consents, unnamed)
  <1> SUFFICES ASSUME label \in Accounts, NEW s \in scopes
               PROVE  \E d \in consents : d.app = c /\ d.prov = prov /\ s \in d.scopes /\ Stands(d, label, unnamed)
    BY DEF MayHave, Flow
  <1>1. c # Router
    OBVIOUS
  <1>2. PICK g \in grants : g.app = c /\ g.prov = prov /\ g.account = label /\ s \in g.scopes
    BY <1>1 DEF Covered
  <1>3. PICK d \in consents : /\ d.app = g.app /\ d.prov = g.prov /\ d.scopes = g.scopes
                              /\ Stands(d, g.account, unnamed)
    BY <1>2 DEF GrantsOK, GrantOK
  <1> QED
    BY <1>2, <1>3

-----------------------------------------------------------------------------
(* The actions *)

\* A step that leaves the history, the table and the grants alone.
Still == UNCHANGED <<consents, unnamed, rows, nextId, grants>>

LEMMA InitOK == Init => IInv
  <1> SUFFICES ASSUME Init PROVE IInv
    OBVIOUS
  <1>1. PendingOK /\ DevsOK
    BY DEF Init, PendingOK, DevsOK
  <1>2. ReqsOK
    BY DEF Init, ReqsOK, SlotOK, Slots, Idle
  <1>3. CountsOK /\ AnswersConsented
    BY DEF Init, CountsOK, AnswersConsented
  <1>4. RowsOK /\ GrantsOK
    <2>1. CASE rows = {} /\ nextId = 1 /\ grants = {}
      BY <2>1 DEF RowsOK, GrantsOK
    <2>2. ASSUME NEW c \in Apps, NEW x \in Accounts, NEW scopes \in Asks,
                 rows = {Row(1, [Flow(c, "google", scopes, "default") EXCEPT !.of = x], x, TRUE)}, nextId = 2,
                 grants = {[app |-> c, prov |-> "google", scopes |-> scopes, account |-> x]},
                 consents = {Approval([Flow(c, "google", scopes, "default") EXCEPT !.of = x], x)}
          PROVE  RowsOK /\ GrantsOK
      <3>1. Row(1, [Flow(c, "google", scopes, "default") EXCEPT !.of = x], x, TRUE)
              = [id |-> 1, prov |-> "google", scopes |-> scopes, label |-> x, of |-> x, known |-> TRUE]
        BY DEF Row, Flow
      <3>2. RowsOK
        <4>1. 1 \in 1..MaxRows /\ 2 \in 1..(MaxRows + 1)
          OBVIOUS
        <4> DEFINE t == [id |-> 1, prov |-> "google", scopes |-> scopes, label |-> x, of |-> x, known |-> TRUE]
        <4>2. t \in RowType
          BY <4>1 DEF RowType
        <4>3. t.id = 1 /\ t.of = t.label
          OBVIOUS
        <4>4. rows = {t}
          BY <2>2, <3>1
        <4>5. Named(t)
          BY <4>3 DEF Named
        <4>6. nextId = 2
          BY <2>2
        <4> HIDE DEF t
        <4> QED
          BY <4>1, <4>2, <4>3, <4>4, <4>5, <4>6 DEF RowsOK
      <3>3. GrantsOK
        BY <2>2 DEF GrantsOK, GrantOK, Stands, Approval, Flow
      <3> QED
        BY <3>2, <3>3
    <2> QED
      BY <2>1, <2>2 DEF Init
  <1> QED
    BY <1>1, <1>2, <1>3, <1>4 DEF IInv

\* A request's slot takes the record "q", or is given back.
LEMMA ReqsStep ==
    ASSUME RowsOK, RowsOK', Grows, ReqsOK, NEW r \in Reqs, NEW q,
           SlotOK(q, consents', unnamed', rows', nextId'), req' = [req EXCEPT ![r] = q]
    PROVE  ReqsOK'
  <1>1. q \in Slots
    BY DEF SlotOK
  <1>2. req' \in [Reqs -> Slots]
    BY <1>1 DEF ReqsOK
  <1>3. ASSUME NEW s \in Reqs PROVE SlotOK(req'[s], consents', unnamed', rows', nextId')
    <2>1. CASE s = r
      BY <2>1 DEF ReqsOK
    <2>2. CASE s # r
      BY <2>2, SlotLasts DEF ReqsOK
    <2> QED
      BY <2>1, <2>2
  <1> QED
    BY <1>2, <1>3 DEF ReqsOK

LEMMA ReqsKept ==
    ASSUME RowsOK, RowsOK', Grows, ReqsOK, UNCHANGED req
    PROVE  ReqsOK'
  BY SlotLasts DEF ReqsOK

LEMMA IdleOK == \A cs, un, rs, n : SlotOK(Idle, cs, un, rs, n)
  BY DEF SlotOK, Slots, Idle

LEMMA ReqsEnd ==
    ASSUME RowsOK, RowsOK', Grows, ReqsOK, NEW r \in Reqs, End(r)
    PROVE  ReqsOK'
  BY ReqsStep, IdleOK DEF End

\* Without a change of the table a waiting request sees the world it saw.
LEMMA StillGrows == RowsOK /\ Still => Grows /\ RowsOK'
  BY DEF Still, Grows, RowsOK, Named

LEMMA OthersKept ==
    ASSUME IInv, consents \subseteq consents', unnamed \subseteq unnamed'
    PROVE  /\ UNCHANGED pending => PendingOK'
           /\ UNCHANGED devs => DevsOK'
           /\ UNCHANGED grants => GrantsOK'
           /\ Quiet => AnswersConsented'
           /\ UNCHANGED bounds \/ Ask \/ Fault => CountsOK'
  <1>1. UNCHANGED pending => PendingOK'
    BY DEF IInv, PendingOK
  <1>2. UNCHANGED devs => DevsOK'
    BY DevLasts DEF IInv, DevsOK
  <1>3. UNCHANGED grants => GrantsOK'
    BY GrantLasts DEF IInv, GrantsOK
  <1>4. Quiet => AnswersConsented'
    BY DEF Quiet, AnswersConsented
  <1>5. UNCHANGED bounds \/ Ask \/ Fault => CountsOK'
    BY DEF IInv, CountsOK, bounds, Ask, Fault
  <1> QED
    BY <1>1, <1>2, <1>3, <1>4, <1>5

\* A flow as it is asked for, before anybody consented.
LEMMA AuthorizeOK ==
    ASSUME RowsOK, RowsOK', Grows, ReqsOK, NEW r \in Reqs,
           NEW f, FlowOK(f), f.of = None, Authorize(r, f)
    PROVE  ReqsOK'
  <1>1. CASE f.prov = "google"
    <2>1. SlotOK([pc |-> "creds", flow |-> f], consents', unnamed', rows', nextId')
      BY <1>1 DEF SlotOK, Slots, FlowOK
    <2> QED
      BY <1>1, <2>1, ReqsStep DEF Authorize, Wait
  <1>2. CASE f.prov # "google"
    BY <1>2, ReqsEnd DEF Authorize
  <1> QED
    BY <1>1, <1>2

LEMMA AskTokenStep == IInv /\ AskToken => IInv'
  <1> SUFFICES ASSUME IInv, AskToken PROVE IInv'
    OBVIOUS
  <1>1. PICK r \in Reqs, c \in Apps \cup {Router}, prov \in Provs, scopes \in Asks, label \in Labels, fresh \in BOOLEAN :
             /\ req[r] = Idle /\ (c = Router => label = "default") /\ Ask
             /\ LET found == Matching(prov, scopes, label)
                    t == First(found)
                    again == Flow(None, prov, scopes, label)
                IN IF label = "NEW"
                   THEN Authorize(r, Flow(c, prov, scopes, label)) /\ Quiet
                   ELSE /\ Covered(c, prov, scopes, label)
                        /\ IF found = {} \/ (~fresh /\ ~Renews(prov))
                           THEN Authorize(r, again) /\ Quiet
                           ELSE IF fresh
                           THEN UNCHANGED req /\ answer' = [by |-> c, flow |-> again, row |-> t]
                           ELSE Wait(r, [pc |-> "refresh", by |-> c, flow |-> again, row |-> t]) /\ Quiet
    BY DEF AskToken
  <1> DEFINE found == Matching(prov, scopes, label)
  <1> DEFINE t == First(found)
  <1> DEFINE again == Flow(None, prov, scopes, label)
  <1>2. Still /\ UNCHANGED <<pending, devs>>
    BY DEF AskToken, Still, flows, table, history
  <1>3. Grows /\ RowsOK'
    BY <1>2, StillGrows DEF IInv
  <1>4. PendingOK' /\ DevsOK' /\ GrantsOK' /\ CountsOK' /\ (Quiet => AnswersConsented')
    BY <1>1, <1>2, OthersKept DEF Still
  <1>5. again \in FlowType /\ FlowOK(again) /\ again.of = None /\ again.label = label /\ again.prov = prov
    BY DEF Flow, FlowType, FlowOK
  <1>6. CASE label = "NEW"
    <2> DEFINE f == Flow(c, prov, scopes, label)
    <2>1. c \in Apps
      BY <1>1, <1>6
    <2>2. FlowOK(f) /\ f.of = None
      BY <1>6, <2>1 DEF Flow, FlowType, FlowOK
    <2>3. Authorize(r, f) /\ Quiet
      BY <1>1, <1>6
    <2> HIDE DEF f
    <2>4. ReqsOK'
      BY <1>3, <2>2, <2>3, AuthorizeOK DEF IInv
    <2> QED
      BY <1>3, <1>4, <2>3, <2>4 DEF IInv
  <1>7. CASE label # "NEW" /\ Authorize(r, again) /\ Quiet
    <2> HIDE DEF again
    <2>1. ReqsOK'
      BY <1>3, <1>5, <1>7, AuthorizeOK DEF IInv
    <2> QED
      BY <1>3, <1>4, <1>7, <2>1 DEF IInv
  <1>8. ASSUME label # "NEW", found # {}, Covered(c, prov, scopes, label)
        PROVE  /\ t \in rows /\ (label \in Accounts => t.label = label)
               /\ MayHave(c, again, consents, unnamed)
    <2>1. found \in SUBSET RowType /\ found \subseteq rows
      BY DEF IInv, RowsOK, Matching
    <2>2. t \in found
      BY <1>8, <2>1, FirstIsThere
    <2>3. label \in Accounts => \A u \in found : u.label = label
      BY DEF Matching
    <2>4. MayHave(c, again, consents, unnamed)
      BY <1>1, <1>8, CoveredIsConsented DEF IInv
    <2> HIDE DEF found, t
    <2> QED
      BY <2>1, <2>2, <2>3, <2>4
  <1>9. CASE /\ label # "NEW" /\ found # {} /\ Covered(c, prov, scopes, label)
             /\ UNCHANGED req /\ answer' = [by |-> c, flow |-> again, row |-> t]
    <2> HIDE DEF found, t, again
    <2>1. ReqsOK'
      BY <1>3, <1>9, ReqsKept DEF IInv
    <2>2. t \in rows /\ MayHave(c, again, consents', unnamed') /\ (label \in Accounts => t.label = label) /\ Named(t)
      BY <1>2, <1>8, <1>9 DEF Still, IInv, RowsOK
    <2>3. AnswersConsented'
      BY <1>5, <1>9, <2>2 DEF AnswersConsented, MayHave, Named, Stands, StandsFor
    <2> QED
      BY <1>3, <1>4, <2>1, <2>3 DEF IInv
  <1>10. CASE /\ label # "NEW" /\ found # {} /\ Covered(c, prov, scopes, label)
              /\ Wait(r, [pc |-> "refresh", by |-> c, flow |-> again, row |-> t]) /\ Quiet
    <2> HIDE DEF found, t, again
    <2>1. t \in rows /\ t \in RowType /\ MayHave(c, again, consents', unnamed') /\ (label \in Accounts => t.label = label)
      BY <1>2, <1>8, <1>10 DEF Still, IInv, RowsOK
    <2>2. Snapshot(t, rows', nextId')
      BY <1>2, <2>1 DEF Snapshot, Still, IInv, RowsOK
    <2> DEFINE q == [pc |-> "refresh", by |-> c, flow |-> again, row |-> t]
    <2>3. q \in Slots /\ q.pc = "refresh" /\ q.flow = again /\ q.row = t /\ q.by = c
      BY <1>5, <2>1 DEF Slots
    <2> HIDE DEF q
    <2>4. SlotOK(q, consents', unnamed', rows', nextId')
      BY <1>5, <2>1, <2>2, <2>3 DEF SlotOK
    <2>5. ReqsOK'
      BY <1>3, <1>10, <2>4, ReqsStep DEF IInv, Wait, q
    <2> QED
      BY <1>3, <1>4, <1>10, <2>5 DEF IInv
  <1> QED
    BY <1>1, <1>6, <1>7, <1>9, <1>10

LEMMA RefreshStep == IInv /\ Refresh => IInv'
  <1> SUFFICES ASSUME IInv, Refresh PROVE IInv'
    OBVIOUS
  <1>1. PICK r \in Reqs, works \in BOOLEAN :
             /\ req[r].pc = "refresh"
             /\ IF works
                THEN /\ rows' = Refreshed(req[r].row)
                     /\ answer' = [by |-> req[r].by, flow |-> req[r].flow, row |-> req[r].row] /\ End(r)
                ELSE Authorize(r, req[r].flow) /\ Quiet /\ UNCHANGED rows
    BY DEF Refresh
  <1> DEFINE q == req[r]
  <1>2. UNCHANGED <<pending, devs, nextId, grants, consents, unnamed, ops, faults>>
    BY DEF Refresh, flows, bounds, history
  <1>3. PendingOK' /\ DevsOK' /\ GrantsOK' /\ CountsOK' /\ (Quiet => AnswersConsented')
    BY <1>2, OthersKept DEF bounds
  <1>4. /\ q.row \in RowType /\ q.flow \in FlowType
        /\ FlowOK(q.flow) /\ q.flow.of = None
        /\ Snapshot(q.row, rows, nextId) /\ MayHave(q.by, q.flow, consents, unnamed)
        /\ q.flow.label \in Accounts => q.row.label = q.flow.label
    BY <1>1 DEF IInv, ReqsOK, SlotOK, FlowOK, Slots, Idle
  <1> HIDE DEF q
  <1>5. CASE works
    <2>1. rows' = {IF u.id = q.row.id THEN [u EXCEPT !.of = q.row.of] ELSE u : u \in rows}
      BY <1>1, <1>5 DEF Refreshed, q
    <2>2. ASSUME NEW v \in rows'
          PROVE  \E u \in rows : /\ v.id = u.id /\ v.label = u.label /\ v.known = u.known /\ v \in RowType
                                 /\ v = IF u.id = q.row.id THEN [u EXCEPT !.of = q.row.of] ELSE u
      <3>1. PICK u \in rows : v = IF u.id = q.row.id THEN [u EXCEPT !.of = q.row.of] ELSE u
        BY <2>1
      <3>2. u \in RowType
        BY DEF IInv, RowsOK
      <3> QED
        BY <1>4, <3>1, <3>2 DEF RowType
    <2>3. Grows
      BY <1>2, <2>2 DEF Grows, IInv, RowsOK
    <2>4. RowsOK'
      <3>1. rows' \subseteq RowType
        BY <2>2
      <3>2. ASSUME NEW v \in rows', NEW w \in rows', v.id = w.id PROVE v = w
        BY <2>2, <3>2 DEF IInv, RowsOK
      <3>3. ASSUME NEW v \in rows' PROVE v.id < nextId /\ Named(v)
        <4>1. PICK u \in rows : /\ v.id = u.id /\ v.label = u.label /\ v.known = u.known
                                /\ v = IF u.id = q.row.id THEN [u EXCEPT !.of = q.row.of] ELSE u
          BY <2>2
        <4>2. u.id < nextId /\ Named(u) /\ u \in RowType
          BY DEF IInv, RowsOK
        <4>3. CASE u.id = q.row.id /\ v = [u EXCEPT !.of = q.row.of]
          <5>1. u.label = q.row.label /\ u.known = q.row.known /\ Named(q.row)
            BY <1>4, <4>3 DEF Snapshot
          <5>2. v.of = q.row.of
            BY <4>2, <4>3 DEF RowType
          <5> QED
            BY <4>1, <4>2, <5>1, <5>2 DEF Named
        <4> QED
          BY <4>1, <4>2, <4>3
      <3> QED
        BY <1>2, <3>1, <3>2, <3>3 DEF IInv, RowsOK
    <2>5. ReqsOK'
      BY <1>1, <1>5, <2>3, <2>4, ReqsEnd DEF IInv
    <2>6. AnswersConsented'
      <3>1. answer' = [by |-> q.by, flow |-> q.flow, row |-> q.row] /\ UNCHANGED <<consents, unnamed>>
        BY <1>1, <1>2, <1>5 DEF q
      <3> QED
        BY <1>4, <3>1 DEF AnswersConsented, MayHave, Snapshot, Named, Stands, StandsFor
    <2> QED
      BY <1>3, <2>4, <2>5, <2>6 DEF IInv
  <1>6. CASE ~works
    <2>1. Still
      BY <1>1, <1>2, <1>6 DEF Still
    <2>2. Grows /\ RowsOK'
      BY <2>1, StillGrows DEF IInv
    <2>3. Authorize(r, q.flow) /\ Quiet
      BY <1>1, <1>6 DEF q
    <2>4. ReqsOK'
      BY <1>4, <2>2, <2>3, AuthorizeOK DEF IInv
    <2> QED
      BY <1>3, <2>2, <2>3, <2>4 DEF IInv
  <1> QED
    BY <1>5, <1>6

\* Rows may go: ids are never used again, so no snapshot meets another row.
LEMMA RowsGo ==
    ASSUME IInv, rows' \subseteq rows, UNCHANGED <<nextId, consents, unnamed>>
    PROVE  Grows /\ RowsOK'
  BY DEF IInv, RowsOK, Grows, Named

LEMMA RevokeStep == IInv /\ Revoke => IInv'
  <1> SUFFICES ASSUME IInv, Revoke PROVE IInv'
    OBVIOUS
  <1>1. rows' \subseteq rows /\ UNCHANGED <<nextId, consents, unnamed, pending, devs, grants, req>> /\ Quiet /\ Ask
    BY DEF Revoke, Forget, flows, history
  <1>2. Grows /\ RowsOK'
    BY <1>1, RowsGo
  <1> QED
    BY <1>1, <1>2, OthersKept, ReqsKept DEF IInv

LEMMA AskDeleteStep == IInv /\ AskDelete => IInv'
  <1> SUFFICES ASSUME IInv, AskDelete PROVE IInv'
    OBVIOUS
  <1>1. PICK r \in Reqs, t \in rows : Wait(r, [pc |-> "delete", row |-> t])
    BY DEF AskDelete
  <1>2. Still /\ UNCHANGED <<pending, devs>> /\ Quiet /\ Ask
    BY DEF AskDelete, Still, flows, table, history
  <1>3. Grows /\ RowsOK'
    BY <1>2, StillGrows DEF IInv
  <1> DEFINE q == [pc |-> "delete", row |-> t]
  <1>4. Snapshot(t, rows', nextId') /\ t \in RowType
    BY <1>2 DEF Snapshot, Still, IInv, RowsOK
  <1>5. q \in Slots /\ q.pc = "delete" /\ q.row = t
    BY <1>4 DEF Slots
  <1>6. req' = [req EXCEPT ![r] = q]
    BY <1>1 DEF Wait
  <1> HIDE DEF q
  <1>7. SlotOK(q, consents', unnamed', rows', nextId')
    BY <1>4, <1>5 DEF SlotOK
  <1>8. ReqsOK'
    BY <1>3, <1>6, <1>7, ReqsStep DEF IInv
  <1> QED
    BY <1>2, <1>3, <1>8, OthersKept DEF IInv, Still

LEMMA DeleteStep == IInv /\ Delete => IInv'
  <1> SUFFICES ASSUME IInv, Delete PROVE IInv'
    OBVIOUS
  <1>1. PICK r \in Reqs : End(r)
    BY DEF Delete
  <1>2. rows' \subseteq rows /\ UNCHANGED <<nextId, consents, unnamed, pending, devs, grants, bounds>> /\ Quiet
    BY DEF Delete, flows, history
  <1>3. Grows /\ RowsOK'
    BY <1>2, RowsGo
  <1>4. ReqsOK'
    BY <1>1, <1>3, ReqsEnd DEF IInv
  <1> QED
    BY <1>2, <1>3, <1>4, OthersKept DEF IInv

LEMMA OauthGrantStep == IInv /\ OauthGrant => IInv'
  <1> SUFFICES ASSUME IInv, OauthGrant PROVE IInv'
    OBVIOUS
  <1>1. PICK r \in Reqs, c \in Apps, prov \in Provs, scopes \in Asks : Authorize(r, Flow(c, prov, scopes, "default"))
    BY DEF OauthGrant
  <1>2. Still /\ UNCHANGED <<pending, devs>> /\ Quiet /\ Ask
    BY DEF OauthGrant, Still, flows, table, history
  <1>3. Grows /\ RowsOK'
    BY <1>2, StillGrows DEF IInv
  <1> DEFINE f == Flow(c, prov, scopes, "default")
  <1>4. FlowOK(f) /\ f.of = None
    BY DEF Flow, FlowType, FlowOK
  <1>5. Authorize(r, f)
    BY <1>1
  <1> HIDE DEF f
  <1>6. ReqsOK'
    BY <1>3, <1>4, <1>5, AuthorizeOK DEF IInv
  <1> QED
    BY <1>2, <1>3, <1>6, OthersKept DEF IInv, Still

\* build_auth_url and the annotation together put the flow itself at the end.
LEMMA BuildUrlStep == IInv /\ BuildUrl => IInv'
  <1> SUFFICES ASSUME IInv, BuildUrl PROVE IInv'
    OBVIOUS
  <1>1. PICK r \in Reqs :
             /\ req[r].pc = "creds" /\ End(r)
             /\ LET all == Append(pending, [req[r].flow EXCEPT !.app = None])
                IN pending' = [all EXCEPT ![Len(all)].app = req[r].flow.app]
    BY DEF BuildUrl
  <1>2. Still /\ UNCHANGED <<devs, bounds>> /\ Quiet
    BY DEF BuildUrl, Still, table, history
  <1>3. Grows /\ RowsOK'
    BY <1>2, StillGrows DEF IInv
  <1>4. ReqsOK'
    BY <1>1, <1>3, ReqsEnd DEF IInv
  <1> DEFINE f == req[r].flow
  <1> DEFINE g == [f EXCEPT !.app = None]
  <1>5. FlowOK(f) /\ f.prov = "google" /\ f \in FlowType
    BY <1>1 DEF IInv, ReqsOK, SlotOK, FlowOK
  <1>6. g \in FlowType /\ [g EXCEPT !.app = f.app] \in FlowType
    BY <1>5 DEF FlowType
  <1>7. LET h == [g EXCEPT !.app = f.app]
        IN  h.app = f.app /\ h.for = f.for /\ h.label = f.label /\ h.prov = f.prov
    BY <1>5 DEF FlowType
  <1>8. FlowOK([g EXCEPT !.app = f.app]) /\ [g EXCEPT !.app = f.app].prov = "google"
    <2> DEFINE h == [g EXCEPT !.app = f.app]
    <2>1. h \in FlowType /\ h.app = f.app /\ h.for = f.for /\ h.label = f.label /\ h.prov = f.prov
      BY <1>6, <1>7
    <2> HIDE DEF h, f
    <2>2. FlowOK(h) /\ h.prov = "google"
      BY <1>5, <2>1 DEF FlowOK
    <2> QED
      BY <2>2 DEF h
  <1> DEFINE all == Append(pending, g)
  <1> HIDE DEF f, g
  <1>9. all \in Seq(FlowType) /\ Len(all) = Len(pending) + 1 /\ all[Len(pending) + 1] = g
        /\ \A i \in 1..Len(pending) : all[i] = pending[i]
    BY <1>6 DEF IInv, PendingOK
  <1>10. pending' = [all EXCEPT ![Len(all)] = [g EXCEPT !.app = f.app]]
    BY <1>1, <1>9 DEF f, g
  <1> HIDE DEF all
  <1>11. PendingOK'
    <2>1. pending' \in Seq(FlowType) /\ Len(pending') = Len(all)
      BY <1>6, <1>9, <1>10
    <2>2. \A i \in 1..Len(pending') : pending'[i] = IF i = Len(all) THEN [g EXCEPT !.app = f.app] ELSE pending[i]
      BY <1>9, <1>10, <2>1
    <2>3. \A i \in 1..Len(pending') : i # Len(all) => i \in 1..Len(pending)
      BY <1>9, <2>1 DEF IInv, PendingOK
    <2> QED
      BY <1>8, <2>1, <2>2, <2>3 DEF IInv, PendingOK
  <1> QED
    BY <1>2, <1>3, <1>4, <1>11, OthersKept DEF IInv, Still

LEMMA GiveUpStep == IInv /\ GiveUp => IInv'
  <1> SUFFICES ASSUME IInv, GiveUp PROVE IInv'
    OBVIOUS
  <1>1. PICK r \in Reqs : End(r)
    BY DEF GiveUp
  <1>2. Still /\ UNCHANGED <<pending, devs>> /\ Quiet /\ Fault
    BY DEF GiveUp, Still, flows, table, history
  <1>3. Grows /\ RowsOK'
    BY <1>2, StillGrows DEF IInv
  <1>4. ReqsOK'
    BY <1>1, <1>3, ReqsEnd DEF IInv
  <1> QED
    BY <1>2, <1>3, <1>4, OthersKept DEF IInv, Still

LEMMA CallbackStep == IInv /\ Callback => IInv'
  <1> SUFFICES ASSUME IInv, Callback PROVE IInv'
    OBVIOUS
  <1>1. PICK r \in Reqs, i \in DOMAIN pending, x \in Accounts :
             /\ pending' = RemoveAt(pending, i)
             /\ \/ /\ Consent(pending[i], x) /\ UNCHANGED bounds
                   /\ Wait(r, [pc |-> "exchange", flow |-> [pending[i] EXCEPT !.of = x], dev |-> 0])
                \/ Fault /\ UNCHANGED <<history, req>>
    BY DEF Callback
  <1>2. UNCHANGED <<devs, rows, nextId, grants>> /\ Quiet
    BY DEF Callback, table
  <1>3. i \in 1..Len(pending) /\ pending \in Seq(FlowType) /\ FlowOK(pending[i])
    BY DEF IInv, PendingOK
  <1>4. PendingOK'
    <2>1. \A S : \A s \in Seq(S) : \A k \in 1..Len(s) :
             /\ RemoveAt(s, k) \in Seq(S)
             /\ \A j \in 1..Len(RemoveAt(s, k)) : \E m \in 1..Len(s) : RemoveAt(s, k)[j] = s[m]
      BY RemovedFrom
    <2>2. /\ RemoveAt(pending, i) \in Seq(FlowType)
          /\ \A j \in 1..Len(RemoveAt(pending, i)) : \E m \in 1..Len(pending) : RemoveAt(pending, i)[j] = pending[m]
      BY <1>3, <2>1
    <2> DEFINE rest == RemoveAt(pending, i)
    <2>3. /\ pending' = rest /\ rest \in Seq(FlowType)
          /\ \A j \in 1..Len(rest) : \E m \in 1..Len(pending) : rest[j] = pending[m]
      BY <1>1, <2>2
    <2> HIDE DEF rest
    <2> QED
      BY <2>3 DEF IInv, PendingOK
  <1>5. consents \subseteq consents' /\ unnamed' = unnamed /\ (UNCHANGED bounds \/ Fault)
    BY <1>1 DEF Consent, history
  <1>6. Grows /\ RowsOK'
    BY <1>2, <1>5 DEF Grows, IInv, RowsOK, Named
  <1>7. ReqsOK'
    <2>1. CASE UNCHANGED req
      BY <1>6, <2>1, ReqsKept DEF IInv
    <2>2. CASE /\ Consent(pending[i], x)
               /\ Wait(r, [pc |-> "exchange", flow |-> [pending[i] EXCEPT !.of = x], dev |-> 0])
      <3> DEFINE f == [pending[i] EXCEPT !.of = x]
      <3>1. /\ f \in FlowType /\ f.app = pending[i].app /\ f.for = pending[i].for /\ f.label = pending[i].label
            /\ f.prov = pending[i].prov /\ f.scopes = pending[i].scopes /\ f.of = x
        BY <1>3 DEF FlowType, FlowOK
      <3> DEFINE q == [pc |-> "exchange", flow |-> f, dev |-> 0]
      <3>2. req' = [req EXCEPT ![r] = q]
        BY <2>2 DEF Wait
      <3> HIDE DEF f
      <3>3. FlowOK(f) /\ Approved(f, consents')
        BY <1>3, <2>2, <3>1 DEF FlowOK, Approved, Approval, Consent
      <3>4. q \in Slots /\ q.pc = "exchange" /\ q.flow = f
        BY <3>1 DEF Slots
      <3> HIDE DEF q
      <3>5. SlotOK(q, consents', unnamed', rows', nextId')
        BY <3>3, <3>4 DEF SlotOK
      <3> QED
        BY <1>6, <3>2, <3>5, ReqsStep DEF IInv
    <2> QED
      BY <1>1, <2>1, <2>2
  <1> QED
    BY <1>2, <1>4, <1>5, <1>6, <1>7, OthersKept DEF IInv

LEMMA PoppedOK ==
    ASSUME DevsOK, consents \subseteq consents', NEW d, devs' = Popped(d)
    PROVE  DevsOK'
  <1>1. CASE devs' = devs
    BY <1>1, DevLasts DEF DevsOK
  <1>2. CASE d \in 1..Len(devs) /\ devs' = [devs EXCEPT ![d] = None]
    <2>1. devs' \in Seq(DevType \cup {None}) /\ Len(devs') = Len(devs)
          /\ \A e \in 1..Len(devs) : devs'[e] = None \/ devs'[e] = devs[e]
      BY <1>2 DEF DevsOK
    <2> QED
      BY <2>1, DevLasts DEF DevsOK, DevOK
  <1> QED
    <2>1. d \notin 1..Len(devs) => [devs EXCEPT ![d] = None] = devs
      BY DEF DevsOK
    <2> QED
      BY <1>1, <1>2, <2>1 DEF Popped

LEMMA ExchangeStep == IInv /\ Exchange => IInv'
  <1> SUFFICES ASSUME IInv, Exchange PROVE IInv'
    OBVIOUS
  <1>1. PICK r \in Reqs, known \in BOOLEAN :
             /\ req[r].pc = "exchange"
             /\ IF known THEN UNCHANGED bounds ELSE Fault
             /\ LET f == req[r].flow
                    label == Identity(f, known)
                IN /\ Store(f, label, known)
                   /\ unnamed' = IF known THEN unnamed ELSE unnamed \cup {Approval(f, f.of)}
                   /\ IF f.app = None THEN End(r) /\ devs' = Popped(req[r].dev)
                      ELSE UNCHANGED devs /\ Wait(r, [pc |-> "grant", flow |-> f, account |-> label, dev |-> req[r].dev])
    BY DEF Exchange
  <1>2. UNCHANGED <<pending, grants, consents>> /\ Quiet
    BY DEF Exchange
  <1> DEFINE f == req[r].flow
  <1> DEFINE label == Identity(f, known)
  <1>3. FlowOK(f) /\ f \in FlowType /\ Approved(f, consents) /\ req[r].dev \in Nat
    BY <1>1 DEF IInv, ReqsOK, SlotOK, FlowOK, Slots, Idle
  <1>4. /\ f.of \in Accounts /\ label \in Labels /\ (known => label = f.of)
        /\ label = f.of \/ (label = f.label /\ Approval(f, f.of) \in unnamed')
        /\ unnamed \subseteq unnamed'
    BY <1>1, <1>3 DEF Approved, Identity, FlowType
  <1> HIDE DEF f, label
  <1> DEFINE t == Row(nextId, f, label, known)
  <1>5. nextId \in 1..MaxRows /\ rows' = rows \cup {t} /\ nextId' = nextId + 1
    BY <1>1 DEF Store, IInv, RowsOK, f, label
  <1>6. t \in RowType /\ t.id = nextId /\ Named(t)
    BY <1>3, <1>4, <1>5 DEF Row, RowType, FlowType, Named
  <1> HIDE DEF t
  <1>7. \A u \in rows : u.id \in Nat /\ u.id < nextId /\ nextId \in Nat
    BY <1>5 DEF IInv, RowsOK, RowType
  <1>8. Grows
    BY <1>2, <1>4, <1>5, <1>6, <1>7 DEF Grows
  <1>9. RowsOK'
    <2>1. rows' \subseteq RowType /\ nextId' \in 1..(MaxRows + 1)
      BY <1>5, <1>6 DEF IInv, RowsOK
    <2>2. \A u, v \in rows' : u.id = v.id => u = v
      BY <1>5, <1>6, <1>7 DEF IInv, RowsOK
    <2>3. \A u \in rows' : u.id < nextId' /\ Named(u)
      BY <1>5, <1>6, <1>7 DEF IInv, RowsOK
    <2> QED
      BY <2>1, <2>2, <2>3 DEF RowsOK
  <1>10. ReqsOK' /\ DevsOK'
    <2>1. CASE End(r) /\ devs' = Popped(req[r].dev)
      BY <1>2, <1>8, <1>9, <2>1, ReqsEnd, PoppedOK DEF IInv
    <2>2. CASE /\ f.app # None /\ UNCHANGED devs
               /\ Wait(r, [pc |-> "grant", flow |-> f, account |-> label, dev |-> req[r].dev])
      <3> DEFINE q == [pc |-> "grant", flow |-> f, account |-> label, dev |-> req[r].dev]
      <3>1. q \in Slots /\ q.pc = "grant" /\ q.flow = f /\ q.account = label
        BY <1>3, <1>4 DEF Slots
      <3>2. req' = [req EXCEPT ![r] = q]
        BY <2>2 DEF Wait
      <3> HIDE DEF q
      <3>3. SlotOK(q, consents', unnamed', rows', nextId')
        BY <1>2, <1>3, <1>4, <2>2, <3>1 DEF SlotOK
      <3>4. ReqsOK'
        BY <1>8, <1>9, <3>2, <3>3, ReqsStep DEF IInv
      <3> QED
        BY <1>2, <1>4, <2>2, <3>4, OthersKept
    <2> QED
      BY <1>1, <2>1, <2>2 DEF f, label
  <1> QED
    BY <1>1, <1>2, <1>4, <1>9, <1>10, OthersKept DEF IInv

LEMMA GrantStep == IInv /\ GrantAppScoped => IInv'
  <1> SUFFICES ASSUME IInv, GrantAppScoped PROVE IInv'
    OBVIOUS
  <1>1. PICK r \in Reqs, written, answered \in BOOLEAN :
             /\ req[r].pc = "grant" /\ End(r)
             /\ IF written /\ answered THEN UNCHANGED bounds ELSE Fault
             /\ grants' = IF written
                          THEN grants \cup {[app |-> req[r].flow.app, prov |-> req[r].flow.prov,
                                             scopes |-> req[r].flow.scopes, account |-> req[r].account]}
                          ELSE grants
             /\ devs' = IF answered THEN Popped(req[r].dev) ELSE devs
    BY DEF GrantAppScoped
  <1>2. UNCHANGED <<pending, rows, nextId, consents, unnamed>> /\ Quiet
    BY DEF GrantAppScoped, table, history
  <1>3. Grows /\ RowsOK'
    BY <1>2 DEF Grows, IInv, RowsOK, Named
  <1>4. ReqsOK'
    BY <1>1, <1>3, ReqsEnd DEF IInv
  <1>5. DevsOK'
    BY <1>1, <1>2, PoppedOK, OthersKept DEF IInv
  <1> DEFINE f == req[r].flow
  <1> DEFINE a == req[r].account
  <1>6. /\ FlowOK(f) /\ Approved(f, consents) /\ f.app # None
        /\ a = f.of \/ (a = f.label /\ Approval(f, f.of) \in unnamed)
        /\ f \in FlowType /\ a \in Labels
    BY <1>1 DEF IInv, ReqsOK, SlotOK, FlowOK, Slots, Idle
  <1> HIDE DEF f, a
  <1> DEFINE g == [app |-> f.app, prov |-> f.prov, scopes |-> f.scopes, account |-> a]
  <1>7. g \in [app : Apps, prov : Provs, scopes : Asks, account : Labels] /\ GrantOK(g, consents, unnamed)
    <2>1. f.app \in Apps /\ f.app = f.for
      BY <1>6 DEF FlowOK, FlowType
    <2>2. Approval(f, f.of) \in consents
      BY <1>6 DEF Approved
    <2>3. Stands(Approval(f, f.of), a, unnamed)
      BY <1>6 DEF Stands, Approval
    <2>4. GrantOK(g, consents, unnamed)
      BY <2>1, <2>2, <2>3 DEF GrantOK, Approval
    <2> QED
      BY <1>6, <2>1, <2>4 DEF FlowType
  <1>8. grants' \subseteq grants \cup {g}
    BY <1>1 DEF f, a
  <1> HIDE DEF g
  <1>9. GrantsOK'
    BY <1>2, <1>7, <1>8 DEF IInv, GrantsOK
  <1> QED
    BY <1>1, <1>2, <1>3, <1>4, <1>5, <1>9, OthersKept DEF IInv

LEMMA DevicePageStep == IInv /\ DevicePage => IInv'
  <1> SUFFICES ASSUME IInv, DevicePage PROVE IInv'
    OBVIOUS
  <1>1. PICK r \in Reqs, app \in Apps \cup {None}, scopes \in Asks, label \in Labels :
             Wait(r, [pc |-> "link", flow |-> Flow(app, "github", scopes, label)])
    BY DEF DevicePage
  <1>2. Still /\ UNCHANGED <<pending, devs>> /\ Quiet /\ Ask
    BY DEF DevicePage, Still, flows, table, history
  <1>3. Grows /\ RowsOK'
    BY <1>2, StillGrows DEF IInv
  <1> DEFINE f == Flow(app, "github", scopes, label)
  <1>4. FlowOK(f) /\ f.of = None /\ f.prov = "github"
    BY DEF Flow, FlowType, FlowOK
  <1>5. Wait(r, [pc |-> "link", flow |-> f])
    BY <1>1
  <1> HIDE DEF f
  <1>6. SlotOK([pc |-> "link", flow |-> f], consents', unnamed', rows', nextId')
    BY <1>4 DEF SlotOK, Slots, FlowOK
  <1>7. ReqsOK'
    BY <1>3, <1>5, <1>6, ReqsStep DEF IInv, Wait
  <1> QED
    BY <1>2, <1>3, <1>7, OthersKept DEF IInv, Still

LEMMA CreateDeviceFlowStep == IInv /\ CreateDeviceFlow => IInv'
  <1> SUFFICES ASSUME IInv, CreateDeviceFlow PROVE IInv'
    OBVIOUS
  <1>1. PICK r \in Reqs : req[r].pc = "link" /\ devs' = Append(devs, NewDevice(req[r].flow)) /\ End(r)
    BY DEF CreateDeviceFlow
  <1>2. Still /\ UNCHANGED <<pending, bounds>> /\ Quiet
    BY DEF CreateDeviceFlow, Still, table, history
  <1>3. Grows /\ RowsOK'
    BY <1>2, StillGrows DEF IInv
  <1>4. ReqsOK'
    BY <1>1, <1>3, ReqsEnd DEF IInv
  <1> DEFINE f == req[r].flow
  <1>5. FlowOK(f) /\ f \in FlowType /\ f.prov = "github" /\ f.of = None
    BY <1>1 DEF IInv, ReqsOK, SlotOK, FlowOK
  <1> HIDE DEF f
  <1> DEFINE v == NewDevice(f)
  <1>6. v \in DevType /\ DevOK(v, consents)
    BY <1>5 DEF NewDevice, DevType, DevOK
  <1>7. devs' = Append(devs, v)
    BY <1>1 DEF f
  <1> HIDE DEF v
  <1>8. DevsOK'
    <2>1. devs' \in Seq(DevType \cup {None}) /\ Len(devs') = Len(devs) + 1 /\ devs'[Len(devs) + 1] = v
          /\ \A d \in 1..Len(devs) : devs'[d] = devs[d]
      BY <1>6, <1>7 DEF IInv, DevsOK
    <2>2. \A d \in 1..Len(devs') : d \in 1..Len(devs) \/ d = Len(devs) + 1
      BY <2>1 DEF IInv, DevsOK
    <2> QED
      BY <1>2, <1>6, <2>1, <2>2 DEF IInv, DevsOK, Still
  <1> QED
    BY <1>2, <1>3, <1>4, <1>8, OthersKept DEF IInv, Still

LEMMA DeviceApproveStep == IInv /\ DeviceApprove => IInv'
  <1> SUFFICES ASSUME IInv, DeviceApprove PROVE IInv'
    OBVIOUS
  <1>1. PICK d \in DOMAIN devs, x \in Accounts :
             /\ Pending(d) /\ devs' = [devs EXCEPT ![d].flow.of = x] /\ Consent(devs[d].flow, x)
    BY DEF DeviceApprove
  <1>2. UNCHANGED <<pending, rows, nextId, grants, req, bounds>> /\ Quiet
        /\ consents \subseteq consents' /\ unnamed' = unnamed
    BY DEF DeviceApprove, Consent, table
  <1>3. Grows /\ RowsOK'
    BY <1>2 DEF Grows, IInv, RowsOK, Named
  <1>4. ReqsOK'
    BY <1>2, <1>3, ReqsKept DEF IInv
  <1> DEFINE v == devs[d]
  <1> DEFINE f == [v.flow EXCEPT !.of = x]
  <1> DEFINE w == [v EXCEPT !.flow = f]
  <1>5. v \in DevType /\ FlowOK(v.flow) /\ v.flow.prov = "github" /\ v.flow \in FlowType
    BY <1>1 DEF Pending, IInv, DevsOK, DevOK, DevType
  <1>6. devs' = [devs EXCEPT ![d] = w]
    BY <1>1
  <1>7. /\ f \in FlowType /\ f.app = v.flow.app /\ f.for = v.flow.for /\ f.label = v.flow.label
        /\ f.prov = v.flow.prov /\ f.scopes = v.flow.scopes /\ f.of = x
    BY <1>5 DEF FlowType
  <1>8. Consent(v.flow, x)
    BY <1>1
  <1> HIDE DEF v, f
  <1>9. w \in DevType /\ w.flow = f
    BY <1>5, <1>7 DEF DevType
  <1> HIDE DEF w
  <1>10. FlowOK(f) /\ Approved(f, consents') /\ x # None
    BY <1>5, <1>7, <1>8 DEF FlowOK, Approved, Approval, Consent
  <1>11. DevOK(w, consents')
    BY <1>5, <1>7, <1>9, <1>10 DEF DevOK
  <1>12. DevsOK'
    <2>1. devs' \in Seq(DevType \cup {None}) /\ Len(devs') = Len(devs)
          /\ \A e \in 1..Len(devs) : devs'[e] = w \/ devs'[e] = devs[e]
      BY <1>6, <1>9 DEF IInv, DevsOK
    <2> QED
      BY <1>2, <1>11, <2>1, DevLasts DEF IInv, DevsOK
  <1> QED
    BY <1>2, <1>3, <1>4, <1>12, OthersKept DEF IInv

LEMMA PollDeviceFlowStep == IInv /\ PollDeviceFlow => IInv'
  <1> SUFFICES ASSUME IInv, PollDeviceFlow PROVE IInv'
    OBVIOUS
  <1>1. PICK d \in DOMAIN devs, st \in {"completed", "error"} :
             Pending(d) /\ (st = "completed" => devs[d].flow.of # None) /\ devs' = [devs EXCEPT ![d].status = st]
    BY DEF PollDeviceFlow
  <1>2. Still /\ UNCHANGED <<pending, req, bounds>> /\ Quiet
    BY DEF PollDeviceFlow, Still, table, history
  <1>3. Grows /\ RowsOK'
    BY <1>2, StillGrows DEF IInv
  <1>4. ReqsOK'
    BY <1>2, <1>3, ReqsKept DEF IInv
  <1> DEFINE v == devs[d]
  <1> DEFINE w == [v EXCEPT !.status = st]
  <1>5. v \in DevType /\ DevOK(v, consents) /\ v # None
    BY <1>1 DEF Pending, IInv, DevsOK, DevType
  <1>6. w \in DevType /\ w.flow = v.flow /\ w.status = st
    BY <1>5 DEF DevType
  <1>7. DevOK(w, consents) /\ devs' = [devs EXCEPT ![d] = w]
    BY <1>1, <1>5, <1>6 DEF DevOK
  <1> HIDE DEF w
  <1>8. DevsOK'
    <2>1. devs' \in Seq(DevType \cup {None}) /\ Len(devs') = Len(devs)
          /\ \A e \in 1..Len(devs) : devs'[e] = w \/ devs'[e] = devs[e]
      BY <1>6, <1>7 DEF IInv, DevsOK
    <2> QED
      BY <1>2, <1>7, <2>1 DEF IInv, DevsOK, Still
  <1> QED
    BY <1>2, <1>3, <1>4, <1>8, OthersKept DEF IInv, Still

LEMMA DevicePollStep == IInv /\ DevicePoll => IInv'
  <1> SUFFICES ASSUME IInv, DevicePoll PROVE IInv'
    OBVIOUS
  <1>1. PICK r \in Reqs, d \in DOMAIN devs :
             /\ devs[d] # None
             /\ \/ /\ devs[d].status = "completed"
                   /\ Wait(r, [pc |-> "exchange", flow |-> devs[d].flow, dev |-> d])
                   /\ UNCHANGED devs
                \/ devs' = [devs EXCEPT ![d] = None] /\ UNCHANGED req
    BY DEF DevicePoll
  <1>2. Still /\ UNCHANGED <<pending, bounds>> /\ Quiet
    BY DEF DevicePoll, Still, table, history
  <1>3. Grows /\ RowsOK'
    BY <1>2, StillGrows DEF IInv
  <1>4. d \in 1..Len(devs) /\ d \in Nat /\ DevOK(devs[d], consents)
    BY DEF IInv, DevsOK
  <1>5. CASE devs' = [devs EXCEPT ![d] = None] /\ UNCHANGED req
    <2>1. devs' = Popped(d)
      BY <1>4, <1>5 DEF Popped
    <2>2. ReqsOK' /\ DevsOK'
      BY <1>2, <1>3, <1>5, <2>1, ReqsKept, PoppedOK DEF IInv, Still
    <2> QED
      BY <1>2, <1>3, <2>2, OthersKept DEF IInv, Still
  <1>6. CASE /\ devs[d].status = "completed" /\ UNCHANGED devs
             /\ Wait(r, [pc |-> "exchange", flow |-> devs[d].flow, dev |-> d])
    <2> DEFINE f == devs[d].flow
    <2>1. FlowOK(f) /\ Approved(f, consents) /\ f \in FlowType
      BY <1>1, <1>4, <1>6 DEF DevOK, FlowOK
    <2> DEFINE q == [pc |-> "exchange", flow |-> f, dev |-> d]
    <2>2. req' = [req EXCEPT ![r] = q]
      BY <1>6 DEF Wait
    <2> HIDE DEF f
    <2>3. q \in Slots /\ q.pc = "exchange" /\ q.flow = f
      BY <1>4, <2>1 DEF Slots
    <2> HIDE DEF q
    <2>4. SlotOK(q, consents', unnamed', rows', nextId')
      BY <1>2, <2>1, <2>3 DEF SlotOK, Still
    <2>5. ReqsOK'
      BY <1>3, <2>2, <2>4, ReqsStep DEF IInv
    <2> QED
      BY <1>2, <1>3, <1>6, <2>5, OthersKept DEF IInv, Still
  <1> QED
    BY <1>1, <1>5, <1>6

LEMMA RestartStep == IInv /\ Restart => IInv'
  <1> SUFFICES ASSUME IInv, Restart PROVE IInv'
    OBVIOUS
  <1>1. /\ pending' = <<>> /\ devs' = [d \in DOMAIN devs |-> None] /\ req' = [r \in Reqs |-> Idle]
        /\ Still /\ Fault /\ Quiet
    BY DEF Restart, Still, table, history
  <1>2. RowsOK'
    BY <1>1, StillGrows DEF IInv
  <1>3. PendingOK'
    BY <1>1 DEF PendingOK
  <1>4. DevsOK'
    <2>1. devs' \in Seq(DevType \cup {None}) /\ Len(devs') = Len(devs) /\ \A e \in 1..Len(devs) : devs'[e] = None
      BY <1>1 DEF IInv, DevsOK
    <2> QED
      BY <2>1 DEF DevsOK, DevOK
  <1>5. ReqsOK'
    BY <1>1, IdleOK DEF ReqsOK, Slots
  <1> QED
    BY <1>1, <1>2, <1>3, <1>4, <1>5, OthersKept DEF IInv, Still

-----------------------------------------------------------------------------
(* The theorems *)

LEMMA StutterOK == IInv /\ UNCHANGED vars => IInv'
  <1> SUFFICES ASSUME IInv, UNCHANGED vars PROVE IInv'
    OBVIOUS
  <1>1. Still /\ UNCHANGED <<pending, devs, req, bounds, answer>>
    BY DEF Still, vars, flows, table, bounds, history
  <1>2. Grows /\ RowsOK'
    BY <1>1, StillGrows DEF IInv
  <1>3. ReqsOK'
    BY <1>1, <1>2, ReqsKept DEF IInv
  <1>4. AnswersConsented'
    BY <1>1 DEF IInv, AnswersConsented, Still, StandsFor
  <1> QED
    BY <1>1, <1>2, <1>3, <1>4, OthersKept DEF IInv, Still

LEMMA Inductive == Spec => []IInv
  <1>1. IInv /\ [Next]_vars => IInv'
    BY AskTokenStep, RefreshStep, RevokeStep, AskDeleteStep, DeleteStep, OauthGrantStep, BuildUrlStep, GiveUpStep,
       CallbackStep, ExchangeStep, GrantStep, DevicePageStep, CreateDeviceFlowStep, DeviceApproveStep, PollDeviceFlowStep, DevicePollStep,
       RestartStep, StutterOK DEF Next
  <1> QED
    BY <1>1, InitOK, PTL DEF Spec

\* Types, the key of the table of tokens, and which provider goes which way.
THEOREM OAuthTypeCorrect == Spec => []TypeOK
  <1>1. IInv => TypeOK
    <2> SUFFICES ASSUME IInv PROVE TypeOK
      OBVIOUS
    <2>1. \A i \in DOMAIN pending : pending[i] \in FlowType /\ pending[i].prov = "google"
      BY DEF IInv, PendingOK
    <2>2. \A d \in DOMAIN devs : devs[d] # None =>
             /\ devs[d].flow \in FlowType /\ devs[d].flow.prov = "github"
             /\ devs[d].status \in {"pending", "completed", "error"}
             /\ devs[d].status = "completed" => devs[d].flow.of # None
      BY DEF IInv, DevsOK, DevOK, DevType
    <2>3. /\ rows \subseteq RowType /\ nextId \in 1..(MaxRows + 1)
          /\ \A t, u \in rows : t.id = u.id => t = u
          /\ \A t \in rows : t.id < nextId
      BY DEF IInv, RowsOK
    <2>4. \A r \in Reqs : req[r].pc \in {"idle", "creds", "link", "refresh", "delete", "exchange", "grant"}
      BY DEF IInv, ReqsOK, Slots, Idle
    <2> QED
      BY <2>1, <2>2, <2>3, <2>4 DEF TypeOK, IInv, GrantsOK, CountsOK
  <1> QED
    BY <1>1, Inductive, PTL

\* However the redirects, the device pages, the polls and a restart overlap, an
\* app holds a grant only for scopes that somebody approved in a flow that
\* named this app, as the account of the grant, or, if the identity call
\* failed, in a flow opened for that account.
THEOREM OnlyConsentedGranted == Spec => []GrantsConsented
  <1>1. IInv => GrantsConsented
    BY DEF IInv, GrantsOK, GrantOK, GrantsConsented, Stands, StandsFor
  <1> QED
    BY <1>1, Inductive, PTL

\* An app that names an account is handed a token of that account, unless it
\* was stored before the account had a name, for scopes approved there in a
\* flow that named this app; also after the await of a refresh.
THEOREM OnlyConsentedAnswered == Spec => []AnswersConsented
  <1>1. IInv => AnswersConsented
    BY DEF IInv
  <1> QED
    BY <1>1, Inductive, PTL
=============================================================================
