------------------------ MODULE WebhookSubscription ------------------------
(***************************************************************************)
(* The webhook subscriptions of one seller in one environment: the         *)
(* vendor's list, what the store rows say of it, and the four parties that *)
(* change them: the seller's requests (connect, rotate, disconnect), the   *)
(* reconcile tick, the receiver that clears a secret it no longer trusts,  *)
(* and the vendor, which deactivates what keeps failing.  Each call to the *)
(* vendor and each statement is a step.  No step is repeated by its caller *)
(* when it fails: what went wrong is left for a later tick.                *)
(***************************************************************************)
EXTENDS Naturals, FiniteSets

CONSTANTS
  Stores,        \* stores of the seller; each is connected once at most
  Ticks,         \* reconcile ticks that may overlap
  Requests,      \* API requests in flight at a time
  None,          \* null
  Leftovers,     \* the vendor's list at the start: hooks of other deployments,
                 \* of retired addresses and of rows that are gone
  Cap,           \* how many subscriptions the vendor allows
  Fickle,        \* bound: the stores whose seller rotates or disconnects
  MaxRotations,  \* bound: rotations that sellers ask for
  MaxFaults      \* bound: failed or lost calls, crashes, deactivations

VARIABLES
  remote,     \* the vendor's list
  row,        \* the store rows
  tick,       \* what each tick remembers
  req,        \* what each request remembers
  failing,    \* the receiver's record of failed authentications of a store
  healing,    \* stores whose secret the receiver is about to clear
  rotations, faults

vars == <<remote, row, tick, req, failing, healing, rotations, faults>>

(***************************************************************************)
(* base is the address a hook points at: this deployment's, one that the   *)
(* operator listed as retired, or another deployment's.                    *)
(***************************************************************************)
Hook == [id : Nat, base : {"ours", "retired", "foreign"}, store : Stores \cup {None},
         secret : Nat, live : BOOLEAN]

Row == [state : {"none", "active", "deleted"},
        hook : Nat \cup {None}, secret : Nat \cup {None}]

\* A subscription the vendor made or changed and the row does not know yet.
Change == [store : Stores, hook : Nat, secret : Nat]

\* Of a hook that points elsewhere the store does not matter.
ASSUME LeftoversAssumption ==
  /\ None \notin Stores /\ None \notin Nat /\ None \notin Change
  /\ IsFiniteSet(Stores) /\ IsFiniteSet(Ticks) /\ IsFiniteSet(Requests)
  /\ IsFiniteSet(Leftovers) /\ Leftovers \subseteq Hook
  /\ \A g, h \in Leftovers : g.id = h.id => g = h
  /\ \A h \in Leftovers : h.base = "ours" \/ h.store = None
  /\ Cap \in Nat /\ MaxRotations \in Nat /\ MaxFaults \in Nat

Tick == [pc : {"idle", "listed", "act", "write"}, snap : [Stores -> Row],
         prune : SUBSET Nat, register : SUBSET Stores, update : SUBSET (Stores \X Nat),
         change : Change \cup {None}]

Request == [pc : {"idle", "post", "put", "write", "unregister", "drop"},
            store : Stores \cup {None}, hook : Nat \cup {None}, change : Change \cup {None}]

NoRow == [state |-> "none", hook |-> None, secret |-> None]

\* At the start a store with a subscription is connected and knows it.
ConnectedRow(s) ==
  LET own == {h \in Leftovers : h.store = s}
  IN IF own = {} THEN NoRow
     ELSE [state  |-> "active", hook |-> (CHOOSE h \in own : TRUE).id,
           secret |-> (CHOOSE h \in own : TRUE).secret]

IdleTick == [pc |-> "idle", snap |-> [s \in Stores |-> NoRow],
             prune |-> {}, register |-> {}, update |-> {}, change |-> None]

IdleRequest == [pc |-> "idle", store |-> None, hook |-> None, change |-> None]

(* Types of all the variables; the vendor gives every hook its own id.     *)
TypeOK ==
  /\ remote \in SUBSET Hook /\ IsFiniteSet(remote)
  /\ \A g, h \in remote : g.id = h.id => g = h
  /\ row \in [Stores -> Row]
  /\ tick \in [Ticks -> Tick]
  /\ req \in [Requests -> Request]
  /\ failing \in [Stores -> {"none", "recent", "sustained"}]
  /\ healing \in SUBSET Stores
  /\ rotations \in Nat /\ faults \in Nat

Init ==
  /\ remote = Leftovers
  /\ row = [s \in Stores |-> ConnectedRow(s)]
  /\ tick = [t \in Ticks |-> IdleTick]
  /\ req = [q \in Requests |-> IdleRequest]
  /\ failing = [s \in Stores |-> "none"]
  /\ healing = {}
  /\ rotations = 0 /\ faults = 0

Active(s) == row[s].state = "active"

Faulty == faults < MaxFaults /\ faults' = faults + 1

-----------------------------------------------------------------------------
(* Faulty forms of some definitions, for the properties to tell apart.     *)
ChangeWithoutId(s, id) == [store |-> s, hook |-> None, secret |-> 0]
EveryBase(h) == h.base \in {"ours", "retired", "foreign"}
OwnBaseOnly(h) == h.base = "ours"
UnlessMoved(seen, h) == seen.hook # h.id
-----------------------------------------------------------------------------
(***************************************************************************)
(* Calls to the vendor.  A call is answered; or refused without effect; or *)
(* carried out and its answer lost, which the caller takes for a refusal.  *)
(***************************************************************************)
\* A new id or a new secret: a number that nobody holds.
Pending == {tick[t].change : t \in Ticks} \cup {req[q].change : q \in Requests}

HeldByTick(t) ==
  tick[t].prune \cup {u[2] : u \in tick[t].update}
  \cup (UNION {{tick[t].snap[s].hook, tick[t].snap[s].secret} : s \in Stores})

Held ==
  (UNION {{h.id, h.secret} : h \in remote})
  \cup (UNION {{row[s].hook, row[s].secret} : s \in Stores})
  \cup (UNION {HeldByTick(t) : t \in Ticks})
  \cup {req[q].hook : q \in Requests}
  \cup (UNION {{c.hook, c.secret} : c \in Pending \ {None}})

Fresh == CHOOSE n \in 1 .. Cardinality(Held) + 1 : n \notin Held

HookFor(s) == [id |-> Fresh, base |-> "ours", store |-> s, secret |-> Fresh, live |-> TRUE]

\* registerStoreWebhook: a new subscription with a new secret.
Post(s) ==
  /\ Cardinality(remote) < Cap
  /\ remote' = remote \cup {HookFor(s)}

PostRefused ==
  /\ \/ Cardinality(remote) >= Cap /\ UNCHANGED faults
     \/ Faulty
  /\ UNCHANGED remote

\* rotateStoreWebhookSecret: the same subscription with a new secret.
Put(s, id) ==
  /\ \E h \in remote : h.id = id
  /\ remote' = {IF h.id = id THEN [h EXCEPT !.base = "ours", !.store = s, !.secret = Fresh]
                             ELSE h : h \in remote}

PutRefused(id) ==
  /\ \/ (\A h \in remote : h.id # id) /\ UNCHANGED faults
     \/ Faulty
  /\ UNCHANGED remote

\* unregisterStoreWebhook; a hook that is gone is an error like any other,
\* and every caller goes on after an error.
Delete(id) ==
  /\ \/ remote' = {h \in remote : h.id # id} /\ UNCHANGED faults
     \/ Faulty /\ UNCHANGED remote

ChangeTo(s, id) == [store |-> s, hook |-> id, secret |-> Fresh]

\* store.update after the call: an error when the row is gone meanwhile, or
\* when the statement fails, leaves the row as it is.
Store(c) ==
  /\ \/ /\ Active(c.store)
        /\ row' = [row EXCEPT ![c.store] = [@ EXCEPT !.hook = c.hook, !.secret = c.secret]]
        /\ UNCHANGED faults
     \/ ~Active(c.store) /\ UNCHANGED <<row, faults>>
     \/ Faulty /\ UNCHANGED row

(***************************************************************************)
(* The reconcile tick.  It reads the stores, then the vendor's list, and   *)
(* acts on the plan it makes of both: prune, register, update.             *)
(***************************************************************************)
ListStores(t) ==
  /\ tick[t].pc = "idle"
  /\ \E s \in Stores : Active(s)
  /\ tick' = [tick EXCEPT ![t] = [@ EXCEPT !.pc = "listed", !.snap = row]]
  /\ UNCHANGED <<remote, row, req, failing, healing, rotations, faults>>

Listed(t) == {s \in Stores : tick[t].snap[s].state = "active"}

LiveFor(s) == {h \in remote : h.base = "ours" /\ h.store = s /\ h.live}

\* The hooks that may be a store's primary one: the tracked one if it is live,
\* else the first live one of the vendor's list, in whatever order that is.
Candidates(t, s) ==
  LET tracked == {h \in LiveFor(s) : h.id = tick[t].snap[s].hook}
  IN IF tracked # {} THEN tracked ELSE LiveFor(s)

\* Bases whose hooks the planner may touch.
Prunable(h) == h.base \in {"ours", "retired"}

\* What the row says of the claimed hook cannot authenticate its deliveries.
Outdated(seen, h) == seen.secret = None \/ seen.hook # h.id

PlanReconcile(t, claimed) ==
  [tick[t] EXCEPT
     !.pc = "act", !.snap = IdleTick.snap,
     !.prune = {h.id : h \in {g \in remote : Prunable(g) /\ g \notin claimed}},
     !.register = {s \in Listed(t) : LiveFor(s) = {}},
     !.update = {<<h.store, h.id>> : h \in {g \in claimed :
                   Outdated(tick[t].snap[g.store], g)}}]

ReadRemote(t) ==
  /\ tick[t].pc = "listed"
  /\ \E claimed \in SUBSET UNION {Candidates(t, s) : s \in Listed(t)} :
       /\ \A s \in Listed(t) : Candidates(t, s) # {} =>
            \E h \in claimed : h.store = s /\ \A g \in claimed : g.store = s => g = h
       /\ tick' = [tick EXCEPT ![t] = PlanReconcile(t, claimed)]
  /\ UNCHANGED <<remote, row, req, failing, healing, rotations, faults>>

ReadRemoteFails(t) ==
  /\ tick[t].pc = "listed"
  /\ Faulty
  /\ tick' = [tick EXCEPT ![t] = IdleTick]
  /\ UNCHANGED <<remote, row, req, failing, healing, rotations>>

Prune(t, id) ==
  /\ tick[t].pc = "act" /\ id \in tick[t].prune
  /\ Delete(id)
  /\ tick' = [tick EXCEPT ![t].prune = @ \ {id}]
  /\ UNCHANGED <<row, req, failing, healing, rotations>>

\* Slots are freed before new ones are taken.
MayRegister(t) == tick[t].prune = {}

Register(t, s) ==
  /\ tick[t].pc = "act" /\ MayRegister(t) /\ s \in tick[t].register
  /\ LET rest == [tick[t] EXCEPT !.register = @ \ {s}]
     IN \/ /\ Post(s) /\ UNCHANGED faults
           /\ tick' = [tick EXCEPT ![t] =
                [rest EXCEPT !.pc = "write", !.change = ChangeTo(s, Fresh)]]
        \/ /\ PostRefused \/ (Post(s) /\ Faulty)
           /\ tick' = [tick EXCEPT ![t] = rest]
  /\ UNCHANGED <<row, req, failing, healing, rotations>>

Update(t, s, id) ==
  /\ tick[t].pc = "act" /\ tick[t].prune = {} /\ tick[t].register = {}
  /\ <<s, id>> \in tick[t].update
  /\ LET rest == [tick[t] EXCEPT !.update = @ \ {<<s, id>>}]
     IN \/ /\ Put(s, id) /\ UNCHANGED faults
           /\ tick' = [tick EXCEPT ![t] =
                [rest EXCEPT !.pc = "write", !.change = ChangeTo(s, id)]]
        \/ /\ PutRefused(id) \/ (Put(s, id) /\ Faulty)
           /\ tick' = [tick EXCEPT ![t] = rest]
  /\ UNCHANGED <<row, req, failing, healing, rotations>>

StoreChange(t) ==
  /\ tick[t].pc = "write"
  /\ Store(tick[t].change)
  /\ tick' = [tick EXCEPT ![t] = [@ EXCEPT !.pc = "act", !.change = None]]
  /\ UNCHANGED <<remote, req, failing, healing, rotations>>

TickEnds(t) ==
  /\ tick[t].pc = "act"
  /\ tick[t].prune = {} /\ tick[t].register = {} /\ tick[t].update = {}
  /\ tick' = [tick EXCEPT ![t] = IdleTick]
  /\ UNCHANGED <<remote, row, req, failing, healing, rotations, faults>>

TickStep(t) ==
  \/ ListStores(t) \/ ReadRemote(t) \/ ReadRemoteFails(t) \/ StoreChange(t) \/ TickEnds(t)
  \/ \E id \in tick[t].prune : Prune(t, id)
  \/ \E s \in tick[t].register : Register(t, s)
  \/ \E u \in tick[t].update : Update(t, u[1], u[2])

(***************************************************************************)
(* Requests of the seller.                                                 *)
(***************************************************************************)
Connect(q, s) ==
  /\ req[q].pc = "idle" /\ row[s].state = "none"
  /\ row' = [row EXCEPT ![s].state = "active"]
  /\ req' = [req EXCEPT ![q] = [@ EXCEPT !.pc = "post", !.store = s]]
  /\ UNCHANGED <<remote, tick, failing, healing, rotations, faults>>

RotateWebhookSecret(q, s) ==
  /\ req[q].pc = "idle" /\ Active(s) /\ s \in Fickle /\ rotations < MaxRotations
  /\ rotations' = rotations + 1
  /\ req' = [req EXCEPT ![q] = [@ EXCEPT
       !.pc = IF row[s].hook = None THEN "post" ELSE "put",
       !.store = s, !.hook = row[s].hook]]
  /\ UNCHANGED <<remote, row, tick, failing, healing, faults>>

Disconnect(q, s) ==
  /\ req[q].pc = "idle" /\ Active(s) /\ s \in Fickle
  /\ req' = [req EXCEPT ![q] = [@ EXCEPT
       !.pc = IF row[s].hook = None THEN "drop" ELSE "unregister",
       !.store = s, !.hook = row[s].hook]]
  /\ UNCHANGED <<remote, row, tick, failing, healing, rotations, faults>>

\* The vendor's answer to a connect or to a rotation; an error ends the
\* request, of which a connect reports success all the same.
CallVendor(q) ==
  /\ LET s == req[q].store
         id == IF req[q].pc = "post" THEN Fresh ELSE req[q].hook
         done == \/ req[q].pc = "post" /\ Post(s)
                 \/ req[q].pc = "put" /\ Put(s, id)
         refused == \/ req[q].pc = "post" /\ PostRefused
                    \/ req[q].pc = "put" /\ PutRefused(id)
     IN \/ /\ done /\ UNCHANGED faults
           /\ req' = [req EXCEPT ![q] =
                [IdleRequest EXCEPT !.pc = "write", !.change = ChangeTo(s, id)]]
        \/ /\ refused \/ (done /\ Faulty)
           /\ req' = [req EXCEPT ![q] = IdleRequest]
  /\ UNCHANGED <<row, tick, failing, healing, rotations>>

AnswerRequest(q) ==
  /\ req[q].pc = "write"
  /\ Store(req[q].change)
  /\ req' = [req EXCEPT ![q] = IdleRequest]
  /\ UNCHANGED <<remote, tick, failing, healing, rotations>>

Unregister(q) ==
  /\ req[q].pc = "unregister"
  /\ Delete(req[q].hook)
  /\ req' = [req EXCEPT ![q].pc = "drop"]
  /\ UNCHANGED <<row, tick, failing, healing, rotations>>

DropRow(q) ==
  /\ req[q].pc = "drop"
  /\ \/ /\ row' = [row EXCEPT ![req[q].store] = [NoRow EXCEPT !.state = "deleted"]]
        /\ UNCHANGED faults
     \/ Faulty /\ UNCHANGED row
  /\ req' = [req EXCEPT ![q] = IdleRequest]
  /\ UNCHANGED <<remote, tick, failing, healing, rotations>>

RequestStep(q) == CallVendor(q) \/ AnswerRequest(q) \/ Unregister(q) \/ DropRow(q)

(***************************************************************************)
(* The receiver.  A delivery is authenticated against the row.  Failures   *)
(* are remembered per store until one delivery succeeds; once they have    *)
(* lasted, the next failure forgets them and has the secret cleared, by a  *)
(* statement of its own.                                                   *)
(***************************************************************************)
Trusted(h) == row[h.store].secret = h.secret

Deliverable(h, s) ==
  h.base = "ours" /\ h.store = s /\ h.live /\ Active(s) /\ row[s].secret # None

DeliverySucceeds(s) ==
  /\ failing[s] # "none"
  /\ \E h \in remote : Deliverable(h, s) /\ Trusted(h)
  /\ failing' = [failing EXCEPT ![s] = "none"]
  /\ UNCHANGED <<remote, row, tick, req, healing, rotations, faults>>

DeliveryFails(s) ==
  /\ \E h \in remote : Deliverable(h, s) /\ ~Trusted(h)
  /\ \/ /\ failing[s] = "none"
        /\ failing' = [failing EXCEPT ![s] = "recent"]
        /\ UNCHANGED healing
     \/ /\ failing[s] = "sustained"
        /\ failing' = [failing EXCEPT ![s] = "none"]
        /\ healing' = healing \cup {s}
  /\ UNCHANGED <<remote, row, tick, req, rotations, faults>>

\* Five failures over thirty minutes: longer than any call and the statement
\* after it.
InFlight(s) == \E c \in Pending \ {None} : c.store = s

FailuresLast(s) ==
  /\ failing[s] = "recent"
  /\ ~InFlight(s)
  /\ failing' = [failing EXCEPT ![s] = "sustained"]
  /\ UNCHANGED <<remote, row, tick, req, healing, rotations, faults>>

ClearSecret(s) ==
  /\ s \in healing
  /\ healing' = healing \ {s}
  /\ \/ Active(s) /\ row' = [row EXCEPT ![s].secret = None] /\ UNCHANGED faults
     \/ ~Active(s) /\ UNCHANGED <<row, faults>>
     \/ Faulty /\ UNCHANGED row
  /\ UNCHANGED <<remote, tick, req, failing, rotations>>

(***************************************************************************)
(* Faults.                                                                 *)
(***************************************************************************)
\* The vendor deactivates a hook whose deliveries keep failing.
Deactivate ==
  /\ \E h \in remote :
       /\ h.live /\ h.base = "ours"
       /\ h.store \in Stores => ~(Active(h.store) /\ Trusted(h))
       /\ remote' = (remote \ {h}) \cup {[h EXCEPT !.live = FALSE]}
  /\ Faulty
  /\ UNCHANGED <<row, tick, req, failing, healing, rotations>>

WorkerCrash(t) ==
  /\ tick[t].pc # "idle"
  /\ Faulty
  /\ tick' = [tick EXCEPT ![t] = IdleTick]
  /\ UNCHANGED <<remote, row, req, failing, healing, rotations>>

\* The API process dies, and the receiver's memory with it.
ApiCrash ==
  /\ Faulty
  /\ req' = [q \in Requests |-> IdleRequest]
  /\ failing' = [s \in Stores |-> "none"]
  /\ healing' = {}
  /\ UNCHANGED <<remote, row, tick, rotations>>

Next ==
  \/ \E t \in Ticks : TickStep(t) \/ WorkerCrash(t)
  \/ \E q \in Requests, s \in Stores :
       Connect(q, s) \/ RotateWebhookSecret(q, s) \/ Disconnect(q, s)
  \/ \E q \in Requests : RequestStep(q)
  \/ \E s \in Stores :
       DeliverySucceeds(s) \/ DeliveryFails(s) \/ FailuresLast(s) \/ ClearSecret(s)
  \/ Deactivate \/ ApiCrash

Spec == Init /\ [][Next]_vars

\* The tick is an interval timer, a request runs to its end, the vendor keeps
\* delivering and the receiver answers.
FairSpec ==
  /\ Spec
  /\ \A t \in Ticks : WF_vars(TickStep(t))
  /\ \A q \in Requests : WF_vars(RequestStep(q))
  /\ \A s \in Stores :
       WF_vars(DeliveryFails(s)) /\ WF_vars(FailuresLast(s)) /\ WF_vars(ClearSecret(s))

-----------------------------------------------------------------------------
\* The only hook of the store, live, and the row has its id and its secret.
Healthy(s) ==
  \E h \in remote :
    /\ h.base = "ours" /\ h.store = s /\ h.live
    /\ row[s].hook = h.id /\ row[s].secret = h.secret
    /\ \A g \in remote : g.store = s => g = h

(* What connect, rotation, disconnect and the reconcile tick do to the     *)
(* vendor's list never touches the subscription of another deployment that *)
(* shares the seller, however stale the plan of a tick has become.         *)
ForeignHooksStay ==
  [][\A h \in remote : h.base = "foreign" => h \in remote']_vars

(* Whatever answer was lost, whatever statement failed, whichever process  *)
(* died and however a rotation crossed a tick: in the end every connected  *)
(* store has exactly one subscription, live, signing with the secret its   *)
(* row holds.                                                              *)
Heals == <>[](\A s \in Stores : Active(s) => Healthy(s))

(* As long as the seller has a connected store, the subscriptions that no  *)
(* row knows (of a disconnected store, of a lost answer, of a retired      *)
(* address) are given back: only hooks of connected stores and of other    *)
(* deployments remain.                                                     *)
OrphansReclaimed ==
  <>[](\/ \A s \in Stores : ~Active(s)
       \/ \A h \in remote :
            h.base = "foreign" \/ (h.store \in Stores /\ Active(h.store)))
=============================================================================
