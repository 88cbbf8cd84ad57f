--------------------- MODULE WebhookSubscriptionProofs ---------------------
(***************************************************************************)
(* Proofs about the webhook subscriptions, for every number of stores,     *)
(* ticks, requests and faults, and every vendor list at the start.         *)
(***************************************************************************)
EXTENDS WebhookSubscription, FiniteSetTheorems, FunctionTheorems, TLAPS

-----------------------------------------------------------------------------
(* The invariant: whoever remembers an id of the vendor's list together    *)
(* with a store (a row, a request, a plan, a change on its way to a row)   *)
(* remembers a hook of this deployment for that store, or one that is gone *)
(* from the list; and no plan prunes another deployment's.                 *)
Owns(s, id) == \A h \in remote : h.id = id => h.base = "ours" /\ h.store = s

MayPrune(id) == \A h \in remote : h.id = id => h.base # "foreign"

TickGood(v) ==
  /\ v \in Tick
  /\ IsFiniteSet(v.prune) /\ IsFiniteSet(v.update)
  /\ v.pc = "write" => v.change # None
  /\ \A id \in v.prune : MayPrune(id)
  /\ \A u \in v.update : Owns(u[1], u[2])
  /\ v.change # None => Owns(v.change.store, v.change.hook)

RequestGood(v) ==
  /\ v \in Request
  /\ v.pc \in {"post", "put", "unregister", "drop"} => v.store # None
  /\ v.pc \in {"put", "unregister"} => v.hook # None /\ Owns(v.store, v.hook)
  /\ v.pc = "write" => v.change # None
  /\ v.change # None => Owns(v.change.store, v.change.hook)

RowGood(s) == row[s].hook # None => Owns(s, row[s].hook)

HookInv ==
  /\ \A t \in Ticks : TickGood(tick[t])
  /\ \A q \in Requests : RequestGood(req[q])
  /\ \A s \in Stores : RowGood(s)

-----------------------------------------------------------------------------
(* A number that nobody holds exists, because what is held is finite.      *)
LEMMA ImageIsFinite ==
  ASSUME NEW S, IsFiniteSet(S), NEW f
  PROVE  IsFiniteSet({f[x] : x \in S})
<1> DEFINE T == {f[x] : x \in S}
           g == [x \in S |-> f[x]]
<1>1. g \in Surjection(S, T)
  <2>1. g \in [S -> T]
    OBVIOUS
  <2>2. \A y \in T : \E x \in S : g[x] = y
    OBVIOUS
  <2> HIDE DEF g, T
  <2> QED
    BY <2>1, <2>2, Fun_IsSurj
<1> HIDE DEF g, T
<1> QED
  BY <1>1, FS_Surjection DEF T

LEMMA PairIsFinite == \A a, b : IsFiniteSet({a, b})
<1> TAKE a, b
<1>1. IsFiniteSet({a} \cup {b})
  BY FS_Singleton, FS_AddElement
<1>2. {a} \cup {b} = {a, b}
  OBVIOUS
<1> QED
  BY <1>1, <1>2

\* Pairs of things, one for every member of a finite set.
LEMMA PairsAreFinite ==
  ASSUME NEW S, IsFiniteSet(S), NEW f, NEW g
  PROVE  IsFiniteSet(UNION {{f[x], g[x]} : x \in S})
<1> DEFINE pair == [x \in S |-> {f[x], g[x]}]
           all == {pair[x] : x \in S}
<1>1. IsFiniteSet(all)
  BY ImageIsFinite
<1>2. ASSUME NEW T \in all PROVE IsFiniteSet(T)
  <2>1. PICK x \in S : T = {f[x], g[x]}
    OBVIOUS
  <2> QED
    BY <2>1, PairIsFinite
<1>3. UNION {{f[x], g[x]} : x \in S} = UNION all
  OBVIOUS
<1> HIDE DEF all
<1> QED
  BY <1>1, <1>2, <1>3, FS_UNION

LEMMA HeldIsFinite ==
  ASSUME TypeOK, HookInv
  PROVE  IsFiniteSet(Held)
<1> USE LeftoversAssumption
<1> DEFINE hooks == UNION {{h.id, h.secret} : h \in remote}
           rows == UNION {{row[s].hook, row[s].secret} : s \in Stores}
           plans == UNION {HeldByTick(t) : t \in Ticks}
           asked == {req[q].hook : q \in Requests}
           changes == UNION {{c.hook, c.secret} : c \in Pending \ {None}}
<1>1. IsFiniteSet(hooks)
  <2> DEFINE id == [h \in remote |-> h.id]
             secret == [h \in remote |-> h.secret]
  <2>1. hooks = UNION {{id[h], secret[h]} : h \in remote}
    OBVIOUS
  <2>2. IsFiniteSet(remote)
    BY DEF TypeOK
  <2> HIDE DEF id, secret, hooks
  <2> QED
    BY <2>1, <2>2, PairsAreFinite
<1>2. IsFiniteSet(rows)
  <2> DEFINE hook == [s \in Stores |-> row[s].hook]
             secret == [s \in Stores |-> row[s].secret]
  <2>1. rows = UNION {{hook[s], secret[s]} : s \in Stores}
    OBVIOUS
  <2> HIDE DEF hook, secret, rows
  <2> QED
    BY <2>1, PairsAreFinite
<1>3. IsFiniteSet(plans)
  <2>1. ASSUME NEW t \in Ticks PROVE IsFiniteSet(HeldByTick(t))
    <3> DEFINE snap == tick[t].snap
               hook == [s \in Stores |-> snap[s].hook]
               secret == [s \in Stores |-> snap[s].secret]
               second == [u \in tick[t].update |-> u[2]]
    <3>1. IsFiniteSet(tick[t].prune) /\ IsFiniteSet(tick[t].update)
      BY DEF HookInv, TickGood
    <3>2. IsFiniteSet({second[u] : u \in tick[t].update})
      <4> HIDE DEF second
      <4> QED
        BY <3>1, ImageIsFinite
    <3>3. IsFiniteSet(UNION {{hook[s], secret[s]} : s \in Stores})
      <4> HIDE DEF hook, secret
      <4> QED
        BY PairsAreFinite
    <3> DEFINE numbers == {second[u] : u \in tick[t].update}
               seen == UNION {{hook[s], secret[s]} : s \in Stores}
               both == tick[t].prune \cup numbers
    <3>4. HeldByTick(t) = both \cup seen
      BY DEF HeldByTick
    <3> HIDE DEF numbers, seen
    <3>5. IsFiniteSet(numbers) /\ IsFiniteSet(seen)
      BY <3>2, <3>3 DEF numbers, seen
    <3>6. IsFiniteSet(both)
      BY <3>1, <3>5, FS_Union
    <3> HIDE DEF both
    <3>7. IsFiniteSet(both \cup seen)
      BY <3>5, <3>6, FS_Union
    <3> QED
      BY <3>4, <3>7
  <2> DEFINE held == [t \in Ticks |-> HeldByTick(t)]
             all == {held[t] : t \in Ticks}
  <2>2. IsFiniteSet(all)
    <3> HIDE DEF held
    <3> QED
      BY ImageIsFinite
  <2>3. ASSUME NEW T \in all PROVE IsFiniteSet(T)
    <3>1. PICK t \in Ticks : T = HeldByTick(t)
      OBVIOUS
    <3> QED
      BY <2>1, <3>1
  <2>4. plans = UNION all
    OBVIOUS
  <2> HIDE DEF all, plans
  <2> QED
    BY <2>2, <2>3, <2>4, FS_UNION
<1>4. IsFiniteSet(asked)
  <2> DEFINE hook == [q \in Requests |-> req[q].hook]
  <2>1. asked = {hook[q] : q \in Requests}
    OBVIOUS
  <2> HIDE DEF hook, asked
  <2> QED
    BY <2>1, ImageIsFinite
<1>5. IsFiniteSet(changes)
  <2> DEFINE ofTick == [t \in Ticks |-> tick[t].change]
             ofRequest == [q \in Requests |-> req[q].change]
             made == Pending \ {None}
             hook == [c \in made |-> c.hook]
             secret == [c \in made |-> c.secret]
  <2>1. Pending = {ofTick[t] : t \in Ticks} \cup {ofRequest[q] : q \in Requests}
    BY DEF Pending
  <2>2. IsFiniteSet({ofTick[t] : t \in Ticks}) /\ IsFiniteSet({ofRequest[q] : q \in Requests})
    <3> HIDE DEF ofTick, ofRequest
    <3> QED
      BY ImageIsFinite
  <2>3. IsFiniteSet(Pending)
    <3> HIDE DEF ofTick, ofRequest
    <3> QED
      BY <2>1, <2>2, FS_Union
  <2>4. IsFiniteSet(made)
    BY <2>3, FS_RemoveElement
  <2>5. changes = UNION {{hook[c], secret[c]} : c \in made}
    OBVIOUS
  <2> HIDE DEF made, hook, secret, changes
  <2> QED
    BY <2>4, <2>5, PairsAreFinite
<1>6. Held = (((hooks \cup rows) \cup plans) \cup asked) \cup changes
  <2>1. ASSUME NEW x
        PROVE  x \in Held <=> \/ x \in hooks \/ x \in rows \/ x \in plans
                              \/ x \in asked \/ x \in changes
    BY DEF Held
  <2> HIDE DEF hooks, rows, plans, asked, changes
  <2> QED
    BY <2>1
<1> HIDE DEF hooks, rows, plans, asked, changes
<1>7. IsFiniteSet(hooks \cup rows)
  BY <1>1, <1>2, FS_Union
<1>8. IsFiniteSet((hooks \cup rows) \cup plans)
  BY <1>3, <1>7, FS_Union
<1>9. IsFiniteSet(((hooks \cup rows) \cup plans) \cup asked)
  BY <1>4, <1>8, FS_Union
<1> QED
  BY <1>5, <1>6, <1>9, FS_Union

LEMMA FreshIsNew ==
  ASSUME TypeOK, HookInv
  PROVE  Fresh \in Nat /\ Fresh \notin Held
<1> DEFINE k == Cardinality(Held)
           numbers == 1 .. k + 1
<1>1. IsFiniteSet(Held) /\ k \in Nat
  BY HeldIsFinite, FS_CardinalityType
<1>2. IsFiniteSet(numbers) /\ Cardinality(numbers) = k + 1
  <2>1. 1 \in Int /\ k + 1 \in Int
    BY <1>1
  <2>2. IsFiniteSet(1 .. k + 1)
        /\ Cardinality(1 .. k + 1) = IF 1 > k + 1 THEN 0 ELSE (k + 1) - 1 + 1
    BY <2>1, FS_Interval
  <2> HIDE DEF k
  <2> QED
    BY <1>1, <2>2
<1>3. \E n \in numbers : n \notin Held
  <2>1. CASE numbers \subseteq Held
    <3>1. Cardinality(numbers) <= k
      BY <1>1, <2>1, FS_Subset
    <3> HIDE DEF k, numbers
    <3> QED
      BY <1>1, <1>2, <3>1
  <2>2. CASE ~(numbers \subseteq Held)
    BY <2>2
  <2> QED
    BY <2>1, <2>2
<1>4. Fresh \in numbers /\ Fresh \notin Held
  BY <1>3 DEF Fresh
<1>5. \A n \in numbers : n \in Nat
  BY <1>1
<1> QED
  BY <1>4, <1>5

LEMMA FreshIsNobodys ==
  ASSUME TypeOK, HookInv, NEW n, n = Fresh
  PROVE  /\ n \in Nat /\ n \notin Held
         /\ \A h \in remote : h.id # n
<1>1. n \in Nat /\ n \notin Held
  BY FreshIsNew
<1>2. ASSUME NEW h \in remote PROVE h.id \in Held
  BY DEF Held
<1> QED
  BY <1>1, <1>2

-----------------------------------------------------------------------------
(* What any call, of whoever, does to the vendor's list.                   *)
RemoteStep ==
  /\ remote' \in SUBSET Hook /\ IsFiniteSet(remote')
  /\ \A g, h \in remote' : g.id = h.id => g = h
  /\ \A g \in remote' :
       \/ g.id \notin Held
       \/ \E h \in remote : h.id = g.id /\ h.base = g.base /\ h.store = g.store
  /\ \A h \in remote : h.base = "foreign" => h \in remote'

LEMMA RestingList ==
  ASSUME TypeOK, remote' = remote
  PROVE  RemoteStep
BY DEF TypeOK, RemoteStep

LEMMA PostedList ==
  ASSUME TypeOK, HookInv, NEW s \in Stores, Post(s), NEW n, n = Fresh
  PROVE  RemoteStep /\ Owns(s, n)'
<1> DEFINE new == [id |-> n, base |-> "ours", store |-> s, secret |-> n, live |-> TRUE]
<1>1. remote' = remote \cup {new}
  BY DEF Post, HookFor
<1>2. n \in Nat /\ n \notin Held /\ \A h \in remote : h.id # n
  BY FreshIsNobodys
<1>3. new \in Hook /\ new.id = n /\ new.base = "ours" /\ new.store = s
  BY <1>2 DEF Hook
<1>4. IsFiniteSet(remote')
  BY <1>1, FS_AddElement DEF TypeOK
<1> HIDE DEF new
<1>5. remote' \in SUBSET Hook /\ \A g, h \in remote' : g.id = h.id => g = h
  BY <1>1, <1>2, <1>3 DEF TypeOK
<1>6. RemoteStep
  BY <1>1, <1>2, <1>3, <1>4, <1>5 DEF RemoteStep
<1>7. Owns(s, n)'
  BY <1>1, <1>2, <1>3 DEF Owns
<1> QED
  BY <1>6, <1>7

LEMMA PutList ==
  ASSUME TypeOK, HookInv, NEW s \in Stores, NEW id \in Nat, Owns(s, id), Put(s, id)
  PROVE  RemoteStep /\ Owns(s, id)'
<1> DEFINE now == [h \in remote |->
             IF h.id = id THEN [h EXCEPT !.base = "ours", !.store = s, !.secret = Fresh] ELSE h]
<1>1. remote' = {now[h] : h \in remote}
  BY DEF Put
<1>2. Fresh \in Nat
  BY FreshIsNew
<1>3. ASSUME NEW h \in remote
      PROVE  /\ now[h] \in Hook /\ now[h].id = h.id
             /\ now[h].base = h.base /\ now[h].store = h.store
             /\ h.base = "foreign" => now[h] = h
  <2>0. h \in Hook
    BY DEF TypeOK
  <2>1. CASE h.id = id
    <3>1. h.base = "ours" /\ h.store = s
      BY <2>1 DEF Owns
    <3>2. PICK n \in Nat : n = Fresh
      BY <1>2
    <3>3. PICK g \in {[h EXCEPT !.base = "ours", !.store = s, !.secret = n]} : now[h] = g
      BY <2>1, <3>2
    <3>4. g \in Hook /\ g.id = h.id /\ g.base = "ours" /\ g.store = s
      BY <2>0, <3>2 DEF Hook
    <3> QED
      BY <3>1, <3>3, <3>4
  <2>2. CASE h.id # id
    BY <2>0, <2>2
  <2> QED
    BY <2>1, <2>2
<1> HIDE DEF now
<1>4. IsFiniteSet(remote')
  <2>1. IsFiniteSet(remote)
    BY DEF TypeOK
  <2> QED
    BY <1>1, <2>1, ImageIsFinite
<1>5. remote' \in SUBSET Hook /\ \A g, h \in remote' : g.id = h.id => g = h
  BY <1>1, <1>3 DEF TypeOK
<1>6. ASSUME NEW h \in remote, h.base = "foreign" PROVE h \in remote'
  BY <1>1, <1>3, <1>6
<1>7. ASSUME NEW g \in remote'
      PROVE  \E h \in remote : h.id = g.id /\ h.base = g.base /\ h.store = g.store
  BY <1>1, <1>3
<1>8. RemoteStep
  BY <1>4, <1>5, <1>6, <1>7 DEF RemoteStep
<1>9. Owns(s, id)'
  BY <1>7 DEF Owns
<1> QED
  BY <1>8, <1>9

LEMMA DeletedList ==
  ASSUME TypeOK, NEW id, MayPrune(id), Delete(id)
  PROVE  RemoteStep
<1>1. CASE remote' = remote
  BY <1>1, RestingList
<1>2. CASE remote' = {h \in remote : h.id # id}
  <2>1. remote' \in SUBSET remote
    BY <1>2
  <2>2. IsFiniteSet(remote')
    BY <2>1, FS_Subset DEF TypeOK
  <2>3. ASSUME NEW h \in remote, h.base = "foreign" PROVE h \in remote'
    BY <1>2, <2>3 DEF MayPrune
  <2> QED
    BY <2>1, <2>2, <2>3 DEF RemoteStep, TypeOK
<1> QED
  BY <1>1, <1>2 DEF Delete

LEMMA DeactivatedList ==
  ASSUME TypeOK, Deactivate
  PROVE  RemoteStep
<1>1. PICK h \in remote :
        h.base = "ours" /\ remote' = (remote \ {h}) \cup {[h EXCEPT !.live = FALSE]}
  BY DEF Deactivate
<1>2. PICK g \in {[h EXCEPT !.live = FALSE]} : g = [h EXCEPT !.live = FALSE]
  OBVIOUS
<1>3. g \in Hook /\ g.id = h.id /\ g.base = h.base /\ g.store = h.store
  <2>1. h \in Hook
    BY DEF TypeOK
  <2> QED
    BY <1>2, <2>1 DEF Hook
<1>4. IsFiniteSet(remote')
  BY <1>1, FS_RemoveElement, FS_AddElement DEF TypeOK
<1>5. remote' = (remote \ {h}) \cup {g}
  BY <1>1, <1>2
<1>6. \A x, y \in remote' : x.id = y.id => x = y
  BY <1>3, <1>5 DEF TypeOK
<1>7. \A x \in remote : x.base = "foreign" => x \in remote'
  BY <1>1, <1>5
<1>8. ASSUME NEW x \in remote'
      PROVE  \E y \in remote : y.id = x.id /\ y.base = x.base /\ y.store = x.store
  BY <1>3, <1>5
<1>9. remote' \in SUBSET Hook
  BY <1>3, <1>5 DEF TypeOK
<1> QED
  BY <1>4, <1>6, <1>7, <1>8, <1>9 DEF RemoteStep

-----------------------------------------------------------------------------
(* Whoever remembered something good still does after such a step.         *)
LEMMA OwnsKept ==
  ASSUME RemoteStep, NEW s, NEW id \in Held, Owns(s, id)
  PROVE  Owns(s, id)'
BY DEF RemoteStep, Owns

LEMMA MayPruneKept ==
  ASSUME RemoteStep, NEW id \in Held, MayPrune(id)
  PROVE  MayPrune(id)'
BY DEF RemoteStep, MayPrune

LEMMA TickKept ==
  ASSUME TypeOK, RemoteStep, NEW t \in Ticks, NEW v, v = tick[t], TickGood(v)
  PROVE  TickGood(v)'
<1>1. ASSUME NEW id \in v.prune PROVE MayPrune(id)'
  <2>1. id \in Held
    BY DEF Held, HeldByTick
  <2> QED
    BY <2>1, MayPruneKept DEF TickGood
<1>2. ASSUME NEW u \in v.update PROVE Owns(u[1], u[2])'
  <2>1. u[2] \in HeldByTick(t)
    BY DEF HeldByTick
  <2>2. u[2] \in Held
    BY <2>1 DEF Held
  <2> QED
    BY <2>2, OwnsKept DEF TickGood
<1>3. ASSUME v.change # None PROVE Owns(v.change.store, v.change.hook)'
  <2>1. v.change \in Pending \ {None}
    BY <1>3 DEF Pending
  <2>2. v.change.hook \in Held
    BY <2>1 DEF Held
  <2> QED
    BY <1>3, <2>2, OwnsKept DEF TickGood
<1> QED
  BY <1>1, <1>2, <1>3 DEF TickGood

LEMMA RequestKept ==
  ASSUME TypeOK, RemoteStep, NEW q \in Requests, NEW v, v = req[q], RequestGood(v)
  PROVE  RequestGood(v)'
<1>1. ASSUME v.pc \in {"put", "unregister"} PROVE Owns(v.store, v.hook)'
  <2>1. v.hook \in Held
    BY DEF Held
  <2> QED
    BY <1>1, <2>1, OwnsKept DEF RequestGood
<1>2. ASSUME v.change # None PROVE Owns(v.change.store, v.change.hook)'
  <2>1. v.change \in Pending \ {None}
    BY <1>2 DEF Pending
  <2>2. v.change.hook \in Held
    BY <2>1 DEF Held
  <2> QED
    BY <1>2, <2>2, OwnsKept DEF RequestGood
<1> QED
  BY <1>1, <1>2 DEF RequestGood

LEMMA HookKept ==
  ASSUME RemoteStep, NEW s \in Stores, row[s].hook # None, RowGood(s)
  PROVE  \E id : id = row[s].hook /\ Owns(s, id)'
<1>1. PICK id \in Held : id = row[s].hook
  BY DEF Held
<1>2. Owns(s, id)
  BY <1>1 DEF RowGood
<1> QED
  BY <1>1, <1>2, OwnsKept

-----------------------------------------------------------------------------
(* A step changes at most one tick, one request (or all, when the process  *)
(* dies) and one row; each of them is good afterwards.                     *)
TicksStep ==
  \/ tick' = tick
  \/ \E t \in Ticks : \E v : tick' = [tick EXCEPT ![t] = v] /\ TickGood(v)'

RequestsStep ==
  \/ req' = req
  \/ \E q \in Requests : \E v : req' = [req EXCEPT ![q] = v] /\ RequestGood(v)'
  \/ req' = [q \in Requests |-> IdleRequest]

RowsStep ==
  /\ row' \in [Stores -> Row]
  /\ \A s \in Stores :
       \/ row'[s].hook = None \/ row'[s].hook = row[s].hook
       \/ \E id : id = row'[s].hook /\ Owns(s, id)'

OtherTypes ==
  /\ failing' \in [Stores -> {"none", "recent", "sustained"}]
  /\ healing' \in SUBSET Stores /\ rotations' \in Nat /\ faults' \in Nat

LEMMA RestIsGood ==
  /\ TickGood(IdleTick) /\ RequestGood(IdleRequest)
  /\ TickGood(IdleTick)' /\ RequestGood(IdleRequest)'
  /\ NoRow \in Row
<1>1. NoRow \in Row
  BY DEF NoRow, Row
<1>2. IdleTick \in Tick
  BY <1>1 DEF IdleTick, Tick
<1>3. IdleRequest \in Request
  BY DEF IdleRequest, Request
<1>4. IdleTick.prune = {} /\ IdleTick.update = {} /\ IdleTick.change = None
      /\ IdleTick.pc = "idle" /\ IdleRequest.pc = "idle" /\ IdleRequest.change = None
  BY DEF IdleTick, IdleRequest
<1>5. IsFiniteSet({})
  BY FS_EmptySet
<1> QED
  BY <1>1, <1>2, <1>3, <1>4, <1>5 DEF TickGood, RequestGood

LEMMA StepIsGood ==
  ASSUME TypeOK, HookInv, RemoteStep, TicksStep, RequestsStep, RowsStep, OtherTypes
  PROVE  TypeOK' /\ HookInv'
<1>1. ASSUME NEW t \in Ticks PROVE TickGood(tick[t])'
  <2>1. TickGood(tick[t])
    BY DEF HookInv
  <2>2. PICK v \in {tick[t]} : v = tick[t]
    OBVIOUS
  <2>3. TickGood(v)'
    BY <2>1, <2>2, TickKept
  <2>4. CASE tick'[t] = tick[t]
    BY <2>2, <2>3, <2>4
  <2>5. CASE tick'[t] # tick[t]
    <3>1. PICK u \in Ticks : \E w : tick' = [tick EXCEPT ![u] = w] /\ TickGood(w)'
      BY <2>5 DEF TicksStep
    <3>2. PICK w : tick' = [tick EXCEPT ![u] = w] /\ TickGood(w)'
      BY <3>1
    <3>3. tick'[t] = w
      BY <2>5, <3>2 DEF TypeOK
    <3> QED
      BY <3>2, <3>3
  <2> QED
    BY <2>4, <2>5
<1>2. ASSUME NEW q \in Requests PROVE RequestGood(req[q])'
  <2>1. RequestGood(req[q])
    BY DEF HookInv
  <2>2. PICK v \in {req[q]} : v = req[q]
    OBVIOUS
  <2>3. RequestGood(v)'
    BY <2>1, <2>2, RequestKept
  <2>4. CASE req'[q] = req[q]
    BY <2>2, <2>3, <2>4
  <2>5. CASE req' = [p \in Requests |-> IdleRequest]
    BY <2>5, RestIsGood
  <2>6. CASE req'[q] # req[q] /\ req' # [p \in Requests |-> IdleRequest]
    <3>1. PICK p \in Requests : \E w : req' = [req EXCEPT ![p] = w] /\ RequestGood(w)'
      BY <2>6 DEF RequestsStep
    <3>2. PICK w : req' = [req EXCEPT ![p] = w] /\ RequestGood(w)'
      BY <3>1
    <3>3. req'[q] = w
      BY <2>6, <3>2 DEF TypeOK
    <3> QED
      BY <3>2, <3>3
  <2> QED
    BY <2>4, <2>5, <2>6
<1>3. ASSUME NEW s \in Stores PROVE RowGood(s)'
  <2> SUFFICES ASSUME row'[s].hook # None PROVE Owns(s, row[s].hook)'
    BY DEF RowGood
  <2>1. CASE row'[s].hook = row[s].hook
    <3>1. RowGood(s)
      BY DEF HookInv
    <3>2. PICK id : id = row[s].hook /\ Owns(s, id)'
      BY <2>1, <3>1, HookKept
    <3> QED
      BY <2>1, <3>2
  <2>2. CASE row'[s].hook # row[s].hook
    <3>1. PICK id : id = row'[s].hook /\ Owns(s, id)'
      BY <2>2 DEF RowsStep
    <3> QED
      BY <3>1
  <2> QED
    BY <2>1, <2>2
<1>4. tick' \in [Ticks -> Tick]
  <2>1. ASSUME NEW t \in Ticks PROVE tick'[t] \in Tick
    BY <1>1 DEF TickGood
  <2>2. \E S : tick' \in [Ticks -> S]
    <3>1. CASE tick' = tick
      BY <3>1 DEF TypeOK
    <3>2. ASSUME NEW t \in Ticks, NEW v, tick' = [tick EXCEPT ![t] = v]
          PROVE  tick' \in [Ticks -> Tick \cup {v}]
      BY <3>2 DEF TypeOK
    <3> QED
      BY <3>1, <3>2 DEF TicksStep
  <2> QED
    BY <2>1, <2>2
<1>5. req' \in [Requests -> Request]
  <2>1. ASSUME NEW q \in Requests PROVE req'[q] \in Request
    BY <1>2 DEF RequestGood
  <2>2. \E S : req' \in [Requests -> S]
    <3>1. CASE req' = req
      BY <3>1 DEF TypeOK
    <3>2. ASSUME NEW q \in Requests, NEW v, req' = [req EXCEPT ![q] = v]
          PROVE  req' \in [Requests -> Request \cup {v}]
      BY <3>2 DEF TypeOK
    <3>3. CASE req' = [q \in Requests |-> IdleRequest]
      BY <3>3, RestIsGood DEF RequestGood
    <3> QED
      BY <3>1, <3>2, <3>3 DEF RequestsStep
  <2> QED
    BY <2>1, <2>2
<1>6. TypeOK'
  BY <1>4, <1>5 DEF TypeOK, RemoteStep, RowsStep, OtherTypes
<1> QED
  BY <1>1, <1>2, <1>3, <1>6 DEF HookInv

-----------------------------------------------------------------------------
(* The statement that brings a change to its row.                          *)
LEMMA StoredRow ==
  ASSUME TypeOK, RemoteStep, NEW c \in Change, Store(c), Owns(c.store, c.hook)'
  PROVE  RowsStep /\ faults' \in Nat
<1>1. c.store \in Stores /\ c.hook \in Nat /\ c.secret \in Nat
  BY DEF Change
<1>2. faults' \in Nat
  BY DEF Store, Faulty, TypeOK
<1>3. CASE row' = row
  BY <1>3, <1>2 DEF RowsStep, TypeOK
<1>4. CASE row' = [row EXCEPT ![c.store] = [@ EXCEPT !.hook = c.hook, !.secret = c.secret]]
  <2>1. PICK hook \in Nat, secret \in Nat : hook = c.hook /\ secret = c.secret
    BY <1>1
  <2>2. PICK r \in {[row[c.store] EXCEPT !.hook = hook, !.secret = secret]} :
          row' = [row EXCEPT ![c.store] = r]
    BY <1>4, <2>1
  <2>3. row[c.store] \in Row
    BY <1>1 DEF TypeOK
  <2>4. r \in Row /\ r.hook = hook
    BY <2>3 DEF Row
  <2>5. row' \in [Stores -> Row]
    BY <2>2, <2>4 DEF TypeOK
  <2>6. ASSUME NEW s \in Stores
        PROVE  row'[s].hook = row[s].hook \/ \E id : id = row'[s].hook /\ Owns(s, id)'
    <3>1. CASE s = c.store
      <4>1. row'[s].hook = c.hook
        BY <1>1, <2>1, <2>2, <2>4, <3>1 DEF TypeOK
      <4>2. PICK id \in {c.hook} : id = c.hook /\ Owns(s, id)'
        BY <3>1
      <4> QED
        BY <4>1, <4>2
    <3>2. CASE s # c.store
      BY <2>2, <3>2 DEF TypeOK
    <3> QED
      BY <3>1, <3>2
  <2> QED
    BY <1>2, <2>5, <2>6 DEF RowsStep
<1> QED
  BY <1>3, <1>4 DEF Store

\* What a good tick is made of.
LEMMA TickFields ==
  ASSUME NEW v, TickGood(v)
  PROVE  /\ v \in Tick /\ v.pc \in {"idle", "listed", "act", "write"}
         /\ v.snap \in [Stores -> Row] /\ v.prune \in SUBSET Nat
         /\ v.register \in SUBSET Stores /\ v.update \in SUBSET (Stores \X Nat)
         /\ v.change \in Change \cup {None}
         /\ IsFiniteSet(v.prune) /\ IsFiniteSet(v.update)
BY DEF TickGood, Tick

LEMMA RequestFields ==
  ASSUME NEW v, RequestGood(v)
  PROVE  /\ v \in Request
         /\ v.pc \in {"idle", "post", "put", "write", "unregister", "drop"}
         /\ v.store \in Stores \cup {None} /\ v.hook \in Nat \cup {None}
         /\ v.change \in Change \cup {None}
BY DEF RequestGood, Request

\* A tick that has less to do, in another place, remembers nothing new.
LEMMA TickShrinks ==
  ASSUME NEW v, TickGood(v)', NEW w \in Tick,
         w.prune \in SUBSET v.prune, w.update \in SUBSET v.update,
         w.pc # "write", w.change \in {v.change, None}
  PROVE  TickGood(w)'
<1>1. IsFiniteSet(v.prune) /\ IsFiniteSet(v.update)
  BY DEF TickGood
<1>2. IsFiniteSet(w.prune) /\ IsFiniteSet(w.update)
  BY <1>1, FS_Subset
<1>3. w.change # None => Owns(w.change.store, w.change.hook)'
  BY DEF TickGood
<1> QED
  BY <1>2, <1>3 DEF TickGood

\* A tick that has made a change at the vendor and is about to store it.
LEMMA TickChanges ==
  ASSUME NEW v, TickGood(v)', NEW w \in Tick, w.prune = v.prune,
         w.update \in SUBSET v.update, NEW s \in Stores, NEW id \in Nat, NEW secret \in Nat,
         w.change = [store |-> s, hook |-> id, secret |-> secret], Owns(s, id)'
  PROVE  TickGood(w)'
<1>1. IsFiniteSet(v.prune) /\ IsFiniteSet(v.update)
  BY DEF TickGood
<1>2. IsFiniteSet(w.prune) /\ IsFiniteSet(w.update)
  BY <1>1, FS_Subset
<1>3. w.change # None
  <2>1. w.change.store = s
    OBVIOUS
  <2>2. w.change \in Change
    BY DEF Change
  <2> QED
    BY <2>2, LeftoversAssumption
<1>4. Owns(w.change.store, w.change.hook)'
  BY DEF Owns
<1> QED
  BY <1>2, <1>3, <1>4 DEF TickGood

-----------------------------------------------------------------------------
(* The steps of a tick.                                                    *)
LEMMA FaultsType == ASSUME TypeOK, Faulty \/ faults' = faults PROVE faults' \in Nat
BY DEF TypeOK, Faulty

\* Reading, giving up and ending leave list and rows alone.
LEMMA TickRests ==
  ASSUME TypeOK, HookInv, NEW t \in Ticks,
         ListStores(t) \/ ReadRemoteFails(t) \/ TickEnds(t) \/ WorkerCrash(t)
  PROVE  RemoteStep /\ TicksStep /\ RequestsStep /\ RowsStep /\ OtherTypes
<1>1. remote' = remote /\ req' = req /\ row' = row /\ failing' = failing
      /\ healing' = healing /\ rotations' = rotations /\ (Faulty \/ faults' = faults)
  BY DEF ListStores, ReadRemoteFails, TickEnds, WorkerCrash
<1>2. RemoteStep /\ RequestsStep /\ RowsStep /\ OtherTypes
  BY <1>1, RestingList, FaultsType DEF TypeOK, RequestsStep, RowsStep, OtherTypes
<1>3. TicksStep
  <2>1. CASE ListStores(t)
    <3>1. PICK v \in {tick[t]} : v = tick[t]
      OBVIOUS
    <3>2. TickGood(v) /\ row \in [Stores -> Row]
      BY <3>1 DEF HookInv, TypeOK
    <3>3. PICK snap \in [Stores -> Row] : snap = row
      BY <3>2
    <3>4. PICK w \in {[v EXCEPT !.pc = "listed", !.snap = snap]} :
            tick' = [tick EXCEPT ![t] = w]
      BY <2>1, <3>1, <3>3 DEF ListStores
    <3>5. v \in Tick
      BY <3>2, TickFields
    <3>6. w \in Tick /\ w.pc = "listed" /\ w.prune = v.prune /\ w.update = v.update
          /\ w.change = v.change
      BY <3>4, <3>5 DEF Tick
    <3>7. TickGood(v)'
      BY <1>2, <3>1, <3>2, TickKept
    <3>8. TickGood(w)'
      BY <3>6, <3>7, TickShrinks
    <3> QED
      BY <3>4, <3>8 DEF TicksStep
  <2>2. CASE ReadRemoteFails(t) \/ TickEnds(t) \/ WorkerCrash(t)
    BY <2>2, RestIsGood DEF ReadRemoteFails, TickEnds, WorkerCrash, TicksStep
  <2> QED
    BY <2>1, <2>2
<1> QED
  BY <1>2, <1>3

\* The plan: what it prunes is not another deployment's, what it updates is
\* the store's own.
LEMMA TickPlans ==
  ASSUME TypeOK, HookInv, NEW t \in Ticks, ReadRemote(t)
  PROVE  RemoteStep /\ TicksStep /\ RequestsStep /\ RowsStep /\ OtherTypes
<1>1. remote' = remote /\ req' = req /\ row' = row /\ failing' = failing
      /\ healing' = healing /\ rotations' = rotations /\ faults' = faults
  BY DEF ReadRemote
<1>2. RemoteStep /\ RequestsStep /\ RowsStep /\ OtherTypes
  BY <1>1, RestingList DEF TypeOK, RequestsStep, RowsStep, OtherTypes
<1>3. PICK claimed \in SUBSET UNION {Candidates(t, s) : s \in Listed(t)} :
        tick' = [tick EXCEPT ![t] = PlanReconcile(t, claimed)]
  BY DEF ReadRemote
<1>4. ASSUME NEW h \in claimed
      PROVE  h \in remote /\ h.base = "ours" /\ h.store \in Stores
  <2>1. PICK s \in Listed(t) : h \in Candidates(t, s)
    BY <1>3
  <2>2. h \in LiveFor(s) /\ s \in Stores
    BY <2>1 DEF Candidates, Listed
  <2> QED
    BY <2>2 DEF LiveFor
<1> DEFINE doomed == {g \in remote : Prunable(g) /\ g \notin claimed}
           moved == {g \in claimed : Outdated(tick[t].snap[g.store], g)}
           idOf == [h \in doomed |-> h.id]
           pairOf == [h \in moved |-> <<h.store, h.id>>]
           register == {s \in Listed(t) : LiveFor(s) = {}}
           prune == {idOf[h] : h \in doomed}
           update == {pairOf[h] : h \in moved}
<1>5. PICK plan \in {PlanReconcile(t, claimed)} : plan = PlanReconcile(t, claimed)
  OBVIOUS
<1>6. IsFiniteSet(prune) /\ prune \in SUBSET Nat
  <2>1. doomed \in SUBSET remote
    OBVIOUS
  <2>2. IsFiniteSet(doomed)
    BY <2>1, FS_Subset DEF TypeOK
  <2>3. \A h \in doomed : idOf[h] \in Nat
    BY DEF TypeOK, Hook
  <2> HIDE DEF doomed, idOf
  <2> QED
    BY <2>2, <2>3, ImageIsFinite
<1>7. IsFiniteSet(update) /\ update \in SUBSET (Stores \X Nat)
  <2>1. moved \in SUBSET remote
    BY <1>4
  <2>2. IsFiniteSet(moved)
    BY <2>1, FS_Subset DEF TypeOK
  <2>3. \A h \in moved : pairOf[h] \in Stores \X Nat
    BY <1>4, <2>1 DEF TypeOK, Hook
  <2> HIDE DEF moved, pairOf
  <2> QED
    BY <2>2, <2>3, ImageIsFinite
<1>8. ASSUME NEW id \in prune PROVE MayPrune(id)
  <2>1. PICK h \in doomed : id = h.id
    OBVIOUS
  <2>2. h \in remote /\ h.base # "foreign"
    BY <2>1 DEF Prunable
  <2> QED
    BY <2>1, <2>2 DEF MayPrune, TypeOK
<1>9. ASSUME NEW u \in update PROVE Owns(u[1], u[2])
  <2>1. PICK h \in moved : u = <<h.store, h.id>>
    OBVIOUS
  <2>2. h \in remote /\ h.base = "ours"
    BY <1>4, <2>1
  <2> QED
    BY <2>1, <2>2 DEF Owns, TypeOK
<1>10. plan \in Tick /\ plan.prune = prune /\ plan.update = update /\ plan.pc = "act"
       /\ plan.change = tick[t].change
  <2>1. PICK p \in {prune}, u \in {update}, r \in {register} :
          p = prune /\ u = update /\ r = register
    OBVIOUS
  <2>2. p \in SUBSET Nat /\ u \in SUBSET (Stores \X Nat) /\ r \in SUBSET Stores
    BY <1>6, <1>7, <2>1 DEF Listed
  <2>3. PICK snap \in [Stores -> Row] : snap = IdleTick.snap
    BY RestIsGood, TickFields
  <2>4. plan = [tick[t] EXCEPT !.pc = "act", !.snap = snap, !.prune = p,
                               !.register = r, !.update = u]
    <3>1. {h.id : h \in {g \in remote : Prunable(g) /\ g \notin claimed}} = p
      BY <2>1
    <3>2. {<<h.store, h.id>> : h \in {g \in claimed :
             Outdated(tick[t].snap[g.store], g)}} = u
      BY <2>1
    <3>3. {s \in Listed(t) : LiveFor(s) = {}} = r
      BY <2>1
    <3> HIDE DEF prune, update, register, doomed, moved, idOf, pairOf
    <3> QED
      BY <1>5, <2>3, <3>1, <3>2, <3>3 DEF PlanReconcile
  <2>5. tick[t] \in Tick
    BY DEF TypeOK
  <2> HIDE DEF prune, update, register
  <2> QED
    BY <2>1, <2>2, <2>4, <2>5 DEF Tick
<1> HIDE DEF prune, update
<1>11. TickGood(plan)
  <2>1. TickGood(tick[t])
    BY DEF HookInv
  <2>2. plan.change # None => Owns(plan.change.store, plan.change.hook)
    BY <1>10, <2>1 DEF TickGood
  <2> QED
    BY <1>6, <1>7, <1>8, <1>9, <1>10, <2>2 DEF TickGood
<1>12. TickGood(plan)'
  BY <1>1, <1>11 DEF TickGood, Owns, MayPrune
<1> QED
  BY <1>2, <1>3, <1>5, <1>12 DEF TicksStep

LEMMA TickPrunes ==
  ASSUME TypeOK, HookInv, NEW t \in Ticks, NEW id \in tick[t].prune, Prune(t, id)
  PROVE  RemoteStep /\ TicksStep /\ RequestsStep /\ RowsStep /\ OtherTypes
<1>1. PICK v \in {tick[t]} : v = tick[t]
  OBVIOUS
<1>2. TickGood(v) /\ MayPrune(id) /\ Delete(id)
  BY <1>1 DEF HookInv, TickGood, Prune
<1>3. RemoteStep
  BY <1>2, DeletedList
<1>4. PICK w \in {[v EXCEPT !.prune = @ \ {id}]} : tick' = [tick EXCEPT ![t] = w]
  BY <1>1 DEF Prune
<1>5. w \in Tick /\ w.prune \in SUBSET v.prune /\ w.update = v.update /\ w.pc = v.pc
      /\ w.change = v.change
  <2>1. v \in Tick
    BY <1>2, TickFields
  <2> QED
    BY <1>4, <2>1 DEF Tick
<1>6. TickGood(v)'
  BY <1>1, <1>2, <1>3, TickKept
<1>7. TickGood(w)'
  <2>1. w.pc = "act"
    BY <1>1, <1>5 DEF Prune
  <2> QED
    BY <1>5, <1>6, <2>1, TickShrinks
<1>8. req' = req /\ row' = row /\ failing' = failing /\ healing' = healing
      /\ rotations' = rotations /\ (Faulty \/ faults' = faults)
  BY <1>2 DEF Prune, Delete
<1>9. RequestsStep /\ RowsStep /\ OtherTypes
  BY <1>8, FaultsType DEF TypeOK, RequestsStep, RowsStep, OtherTypes
<1> QED
  BY <1>3, <1>4, <1>7, <1>9 DEF TicksStep

LEMMA TickRegisters ==
  ASSUME TypeOK, HookInv, NEW t \in Ticks, NEW s \in tick[t].register, Register(t, s)
  PROVE  RemoteStep /\ TicksStep /\ RequestsStep /\ RowsStep /\ OtherTypes
<1>1. PICK v \in {tick[t]}, n \in {Fresh} : v = tick[t] /\ n = Fresh
  OBVIOUS
<1>2. TickGood(v) /\ s \in Stores /\ n \in Nat /\ v.pc = "act"
  BY <1>1, FreshIsNew, TickFields DEF HookInv, Register
<1>3. PICK rest \in {[v EXCEPT !.register = @ \ {s}]} : rest = [v EXCEPT !.register = @ \ {s}]
  OBVIOUS
<1>4. v \in Tick
  BY <1>2, TickFields
<1>5. rest \in Tick /\ rest.prune = v.prune /\ rest.update = v.update /\ rest.pc = v.pc
      /\ rest.change = v.change
  BY <1>3, <1>4 DEF Tick
<1>6. PICK c \in {ChangeTo(s, n)} : c = [store |-> s, hook |-> n, secret |-> n]
  BY <1>1 DEF ChangeTo
<1>7. PICK w \in {[rest EXCEPT !.pc = "write", !.change = c]} :
        w = [rest EXCEPT !.pc = "write", !.change = c]
  OBVIOUS
<1>8. w \in Tick /\ w.prune = v.prune /\ w.update = v.update /\ w.change = c
  <2>1. c \in Change
    BY <1>2, <1>6 DEF Change
  <2> QED
    BY <1>5, <1>7, <2>1 DEF Tick
<1>9. \/ remote' = remote /\ tick' = [tick EXCEPT ![t] = rest]
      \/ Post(s) /\ tick' = [tick EXCEPT ![t] = rest]
      \/ Post(s) /\ tick' = [tick EXCEPT ![t] = w]
  BY <1>1, <1>3, <1>6, <1>7 DEF Register, PostRefused
<1>10. RemoteStep /\ (Post(s) => Owns(s, n)')
  BY <1>1, <1>2, <1>9, RestingList, PostedList
<1>11. TickGood(v)'
  BY <1>1, <1>2, <1>10, TickKept
<1>12. TickGood(rest)'
  BY <1>2, <1>5, <1>11, TickShrinks
<1>13. Post(s) => TickGood(w)'
  BY <1>2, <1>6, <1>8, <1>10, <1>11, TickChanges
<1>14. TicksStep
  BY <1>9, <1>12, <1>13 DEF TicksStep
<1>15. req' = req /\ row' = row /\ failing' = failing /\ healing' = healing
       /\ rotations' = rotations /\ (Faulty \/ faults' = faults)
  BY DEF Register, PostRefused
<1>16. RequestsStep /\ RowsStep /\ OtherTypes
  BY <1>15, FaultsType DEF TypeOK, RequestsStep, RowsStep, OtherTypes
<1> QED
  BY <1>10, <1>14, <1>16

LEMMA TickUpdates ==
  ASSUME TypeOK, HookInv, NEW t \in Ticks, NEW u \in tick[t].update, Update(t, u[1], u[2])
  PROVE  RemoteStep /\ TicksStep /\ RequestsStep /\ RowsStep /\ OtherTypes
<1>1. PICK v \in {tick[t]}, n \in {Fresh} : v = tick[t] /\ n = Fresh
  OBVIOUS
<1>2. TickGood(v) /\ n \in Nat /\ v.pc = "act"
  BY <1>1, FreshIsNew DEF HookInv, Update
<1>3. PICK s \in Stores, id \in Nat : u = <<s, id>>
  BY <1>1, <1>2, TickFields
<1>4. Owns(s, id) /\ Update(t, s, id)
  BY <1>1, <1>2, <1>3 DEF TickGood
<1>5. PICK rest \in {[v EXCEPT !.update = @ \ {u}]} : rest = [v EXCEPT !.update = @ \ {u}]
  OBVIOUS
<1>6. v \in Tick
  BY <1>2, TickFields
<1>7. rest \in Tick /\ rest.prune = v.prune /\ rest.update \in SUBSET v.update
      /\ rest.pc = v.pc /\ rest.change = v.change
  BY <1>5, <1>6 DEF Tick
<1>8. PICK c \in {ChangeTo(s, id)} : c = [store |-> s, hook |-> id, secret |-> n]
  BY <1>1 DEF ChangeTo
<1>9. PICK w \in {[rest EXCEPT !.pc = "write", !.change = c]} :
        w = [rest EXCEPT !.pc = "write", !.change = c]
  OBVIOUS
<1>10. w \in Tick /\ w.prune = v.prune /\ w.update \in SUBSET v.update /\ w.change = c
  <2>1. c \in Change
    BY <1>2, <1>8 DEF Change
  <2> QED
    BY <1>7, <1>9, <2>1 DEF Tick
<1>11. \/ remote' = remote /\ tick' = [tick EXCEPT ![t] = rest]
       \/ Put(s, id) /\ tick' = [tick EXCEPT ![t] = rest]
       \/ Put(s, id) /\ tick' = [tick EXCEPT ![t] = w]
  BY <1>1, <1>3, <1>4, <1>5, <1>8, <1>9 DEF Update, PutRefused
<1>12. RemoteStep /\ (Put(s, id) => Owns(s, id)')
  BY <1>4, <1>11, RestingList, PutList
<1>13. TickGood(v)'
  BY <1>1, <1>2, <1>12, TickKept
<1>14. TickGood(rest)'
  BY <1>2, <1>7, <1>13, TickShrinks
<1>15. Put(s, id) => TickGood(w)'
  BY <1>2, <1>8, <1>10, <1>12, <1>13, TickChanges
<1>16. TicksStep
  BY <1>11, <1>14, <1>15 DEF TicksStep
<1>17. req' = req /\ row' = row /\ failing' = failing /\ healing' = healing
       /\ rotations' = rotations /\ (Faulty \/ faults' = faults)
  BY DEF Update, PutRefused
<1>18. RequestsStep /\ RowsStep /\ OtherTypes
  BY <1>17, FaultsType DEF TypeOK, RequestsStep, RowsStep, OtherTypes
<1> QED
  BY <1>12, <1>16, <1>18

LEMMA TickStores ==
  ASSUME TypeOK, HookInv, NEW t \in Ticks, StoreChange(t)
  PROVE  RemoteStep /\ TicksStep /\ RequestsStep /\ RowsStep /\ OtherTypes
<1>1. PICK v \in {tick[t]} : v = tick[t]
  OBVIOUS
<1>2. TickGood(v) /\ v.pc = "write" /\ v \in Tick
  BY <1>1, TickFields DEF HookInv, StoreChange
<1>3. remote' = remote /\ req' = req /\ failing' = failing /\ healing' = healing
      /\ rotations' = rotations
  BY DEF StoreChange
<1>4. RemoteStep
  BY <1>3, RestingList
<1>5. TickGood(v)'
  BY <1>1, <1>2, <1>4, TickKept
<1>6. v.change \in Change /\ Store(v.change) /\ Owns(v.change.store, v.change.hook)'
  BY <1>1, <1>2, <1>5, TickFields DEF TickGood, StoreChange
<1>7. RowsStep /\ faults' \in Nat
  <2>1. PICK c \in Change : c = v.change
    BY <1>6
  <2> QED
    BY <1>4, <1>6, <2>1, StoredRow
<1>8. PICK w \in {[v EXCEPT !.pc = "act", !.change = None]} : tick' = [tick EXCEPT ![t] = w]
  BY <1>1 DEF StoreChange
<1>9. w \in Tick /\ w.prune = v.prune /\ w.update = v.update /\ w.pc = "act" /\ w.change = None
  BY <1>2, <1>8 DEF Tick
<1>10. TickGood(w)'
  BY <1>5, <1>9, TickShrinks
<1> QED
  BY <1>3, <1>4, <1>7, <1>8, <1>10 DEF TypeOK, TicksStep, RequestsStep, OtherTypes

LEMMA TickKeepsInv ==
  ASSUME TypeOK, HookInv, NEW t \in Ticks, TickStep(t) \/ WorkerCrash(t)
  PROVE  RemoteStep /\ TicksStep /\ RequestsStep /\ RowsStep /\ OtherTypes
<1>1. CASE ListStores(t) \/ ReadRemoteFails(t) \/ TickEnds(t) \/ WorkerCrash(t)
  BY <1>1, TickRests
<1>2. CASE ReadRemote(t)
  BY <1>2, TickPlans
<1>3. CASE StoreChange(t)
  BY <1>3, TickStores
<1>4. ASSUME NEW id \in tick[t].prune, Prune(t, id)
      PROVE  RemoteStep /\ TicksStep /\ RequestsStep /\ RowsStep /\ OtherTypes
  BY <1>4, TickPrunes
<1>5. ASSUME NEW s \in tick[t].register, Register(t, s)
      PROVE  RemoteStep /\ TicksStep /\ RequestsStep /\ RowsStep /\ OtherTypes
  BY <1>5, TickRegisters
<1>6. ASSUME NEW u \in tick[t].update, Update(t, u[1], u[2])
      PROVE  RemoteStep /\ TicksStep /\ RequestsStep /\ RowsStep /\ OtherTypes
  BY <1>6, TickUpdates
<1> QED
  BY <1>1, <1>2, <1>3, <1>4, <1>5, <1>6 DEF TickStep

-----------------------------------------------------------------------------
(* The steps of a request.                                                 *)
LEMMA RequestStarts ==
  ASSUME TypeOK, HookInv, NEW q \in Requests, NEW s \in Stores,
         Connect(q, s) \/ RotateWebhookSecret(q, s) \/ Disconnect(q, s)
  PROVE  RemoteStep /\ TicksStep /\ RequestsStep /\ RowsStep /\ OtherTypes
<1>1. /\ remote' = remote /\ tick' = tick /\ failing' = failing /\ healing' = healing
      /\ rotations' \in Nat /\ faults' = faults
  BY DEF Connect, RotateWebhookSecret, Disconnect, TypeOK
<1>2. RemoteStep /\ TicksStep /\ OtherTypes
  BY <1>1, RestingList DEF TypeOK, TicksStep, OtherTypes
<1>3. PICK v \in {req[q]}, hook \in {row[s].hook} : v = req[q] /\ hook = row[s].hook
  OBVIOUS
<1>4. RequestGood(v) /\ v \in Request /\ v.pc = "idle" /\ hook \in Nat \cup {None}
  <2>1. row[s] \in Row
    BY DEF TypeOK
  <2> QED
    BY <1>3, <2>1, RequestFields DEF HookInv, Row, Connect, RotateWebhookSecret, Disconnect
<1>5. ASSUME NEW pc \in {"post", "put", "unregister", "drop"}, NEW w \in Request,
             w.pc = pc, w.store = s, w.change = v.change,
             pc \in {"put", "unregister"} => w.hook = hook /\ hook # None
      PROVE  RequestGood(w)'
  <2>1. s # None
    BY LeftoversAssumption
  <2>2. RequestGood(v)'
    BY <1>2, <1>3, <1>4, RequestKept
  <2>3. ASSUME pc \in {"put", "unregister"} PROVE w.hook # None /\ Owns(w.store, w.hook)'
    <3>1. RowGood(s) /\ w.hook = row[s].hook /\ w.hook # None
      BY <1>3, <1>5, <2>3 DEF HookInv
    <3>2. PICK id : id = row[s].hook /\ Owns(s, id)'
      BY <1>2, <3>1, HookKept
    <3> QED
      BY <1>5, <3>1, <3>2
  <2> QED
    BY <1>5, <2>1, <2>2, <2>3 DEF RequestGood
<1>6. RequestsStep
  <2>1. CASE Connect(q, s)
    <3>1. PICK w \in {[v EXCEPT !.pc = "post", !.store = s]} : req' = [req EXCEPT ![q] = w]
      BY <1>3, <2>1 DEF Connect
    <3>2. w \in Request /\ w.pc = "post" /\ w.store = s /\ w.change = v.change
      BY <1>4, <3>1 DEF Request
    <3>3. RequestGood(w)'
      BY <1>5, <3>2
    <3> QED
      BY <3>1, <3>3 DEF RequestsStep
  <2>2. CASE RotateWebhookSecret(q, s)
    <3>1. PICK pc \in {"post", "put"} : pc = IF hook = None THEN "post" ELSE "put"
      OBVIOUS
    <3>2. PICK w \in {[v EXCEPT !.pc = pc, !.store = s, !.hook = hook]} :
            req' = [req EXCEPT ![q] = w]
      BY <1>3, <2>2, <3>1 DEF RotateWebhookSecret
    <3>3. w \in Request /\ w.pc = pc /\ w.store = s /\ w.change = v.change /\ w.hook = hook
      BY <1>4, <3>2 DEF Request
    <3>4. RequestGood(w)'
      BY <1>5, <3>1, <3>3
    <3> QED
      BY <3>2, <3>4 DEF RequestsStep
  <2>3. CASE Disconnect(q, s)
    <3>1. PICK pc \in {"drop", "unregister"} : pc = IF hook = None THEN "drop" ELSE "unregister"
      OBVIOUS
    <3>2. PICK w \in {[v EXCEPT !.pc = pc, !.store = s, !.hook = hook]} :
            req' = [req EXCEPT ![q] = w]
      BY <1>3, <2>3, <3>1 DEF Disconnect
    <3>3. w \in Request /\ w.pc = pc /\ w.store = s /\ w.change = v.change /\ w.hook = hook
      BY <1>4, <3>2 DEF Request
    <3>4. RequestGood(w)'
      BY <1>5, <3>1, <3>3
    <3> QED
      BY <3>2, <3>4 DEF RequestsStep
  <2> QED
    BY <2>1, <2>2, <2>3
<1>7. RowsStep
  <2>1. CASE row' = row
    BY <2>1 DEF RowsStep, TypeOK
  <2>2. CASE row' = [row EXCEPT ![s].state = "active"]
    <3>1. PICK r \in {[row[s] EXCEPT !.state = "active"]} : row' = [row EXCEPT ![s] = r]
      BY <2>2
    <3>2. row[s] \in Row
      BY DEF TypeOK
    <3>3. r \in Row /\ r.hook = row[s].hook
      BY <3>1, <3>2 DEF Row
    <3> QED
      BY <3>1, <3>3 DEF RowsStep, TypeOK
  <2> QED
    BY <2>1, <2>2 DEF Connect, RotateWebhookSecret, Disconnect
<1> QED
  BY <1>2, <1>6, <1>7

LEMMA RequestCalls ==
  ASSUME TypeOK, HookInv, NEW q \in Requests, CallVendor(q)
  PROVE  RemoteStep /\ TicksStep /\ RequestsStep /\ RowsStep /\ OtherTypes
<1>1. PICK v \in {req[q]}, n \in {Fresh} : v = req[q] /\ n = Fresh
  OBVIOUS
<1>2. RequestGood(v) /\ v \in Request /\ n \in Nat
  BY <1>1, FreshIsNew, RequestFields DEF HookInv
<1>3. v.pc \in {"post", "put"}
  BY <1>1 DEF CallVendor
<1>4. PICK s \in Stores, id \in Nat :
        s = v.store /\ id = IF v.pc = "post" THEN n ELSE v.hook
  BY <1>2, <1>3, RequestFields DEF RequestGood
<1> DEFINE done == \/ v.pc = "post" /\ Post(s)
                   \/ v.pc = "put" /\ Put(s, id)
<1>5. PICK c \in {ChangeTo(s, id)} : c = [store |-> s, hook |-> id, secret |-> n]
  BY <1>1 DEF ChangeTo
<1>6. PICK w \in {[IdleRequest EXCEPT !.pc = "write", !.change = c]} :
        w = [IdleRequest EXCEPT !.pc = "write", !.change = c]
  OBVIOUS
<1>7. \/ remote' = remote /\ req' = [req EXCEPT ![q] = IdleRequest]
      \/ done /\ req' = [req EXCEPT ![q] = IdleRequest]
      \/ done /\ req' = [req EXCEPT ![q] = w]
  BY <1>1, <1>4, <1>5, <1>6 DEF CallVendor, PostRefused, PutRefused
<1>8. RemoteStep /\ (done => Owns(s, id)')
  <2>1. CASE done
    <3>1. CASE v.pc = "post" /\ Post(s)
      BY <1>1, <1>4, <3>1, PostedList
    <3>2. CASE v.pc = "put" /\ Put(s, id)
      <4>1. Owns(s, id)
        BY <1>2, <1>4, <3>2 DEF RequestGood
      <4> QED
        BY <3>2, <4>1, PutList
    <3> QED
      BY <2>1, <3>1, <3>2
  <2>2. CASE ~done
    BY <1>7, <2>2, RestingList
  <2> QED
    BY <2>1, <2>2
<1>9. ASSUME Owns(s, id)' PROVE RequestGood(w)'
  <2>1. c \in Change /\ c.store = s /\ c.hook = id /\ c # None
    <3>1. c \in Change
      BY <1>2, <1>5 DEF Change
    <3> QED
      BY <1>5, <3>1, LeftoversAssumption
  <2>2. w \in Request /\ w.pc = "write" /\ w.change = c
    <3>1. IdleRequest \in Request
      BY RestIsGood, RequestFields
    <3> QED
      BY <1>6, <2>1, <3>1 DEF Request
  <2>3. Owns(c.store, c.hook)'
    BY <1>9, <2>1
  <2> QED
    BY <2>1, <2>2, <2>3 DEF RequestGood
<1>10. RequestsStep
  BY <1>7, <1>8, <1>9, RestIsGood DEF RequestsStep
<1>11. tick' = tick /\ row' = row /\ failing' = failing /\ healing' = healing
       /\ rotations' = rotations /\ (Faulty \/ faults' = faults)
  BY DEF CallVendor, PostRefused, PutRefused
<1>12. TicksStep /\ RowsStep /\ OtherTypes
  BY <1>11, FaultsType DEF TypeOK, TicksStep, RowsStep, OtherTypes
<1> QED
  BY <1>8, <1>10, <1>12

LEMMA RequestEnds ==
  ASSUME TypeOK, HookInv, NEW q \in Requests, AnswerRequest(q) \/ Unregister(q) \/ DropRow(q)
  PROVE  RemoteStep /\ TicksStep /\ RequestsStep /\ RowsStep /\ OtherTypes
<1>1. PICK v \in {req[q]} : v = req[q]
  OBVIOUS
<1>2. RequestGood(v) /\ v \in Request
  BY <1>1, RequestFields DEF HookInv
<1>3. CASE AnswerRequest(q)
  <2>1. remote' = remote /\ tick' = tick /\ failing' = failing /\ healing' = healing
        /\ rotations' = rotations /\ req' = [req EXCEPT ![q] = IdleRequest]
    BY <1>3 DEF AnswerRequest
  <2>2. RemoteStep
    BY <2>1, RestingList
  <2>3. RequestGood(v)'
    BY <1>1, <1>2, <2>2, RequestKept
  <2>4. v.change \in Change /\ Store(v.change) /\ Owns(v.change.store, v.change.hook)'
    BY <1>1, <1>2, <1>3, <2>3, RequestFields DEF RequestGood, AnswerRequest
  <2>5. RowsStep /\ faults' \in Nat
    <3>1. PICK c \in Change : c = v.change
      BY <2>4
    <3> QED
      BY <2>2, <2>4, <3>1, StoredRow
  <2> QED
    BY <2>1, <2>2, <2>5, RestIsGood DEF TypeOK, TicksStep, RequestsStep, OtherTypes
<1>4. CASE Unregister(q)
  <2>1. v.pc = "unregister" /\ Delete(v.hook)
    BY <1>1, <1>4 DEF Unregister
  <2>2. MayPrune(v.hook)
    BY <1>2, <2>1 DEF RequestGood, Owns, MayPrune
  <2>3. RemoteStep
    BY <2>1, <2>2, DeletedList
  <2>4. RequestGood(v)'
    BY <1>1, <1>2, <2>3, RequestKept
  <2>5. PICK w \in {[v EXCEPT !.pc = "drop"]} : req' = [req EXCEPT ![q] = w]
    BY <1>1, <1>4 DEF Unregister
  <2>6. w \in Request /\ w.pc = "drop" /\ w.store = v.store /\ w.change = v.change
    BY <1>2, <2>5 DEF Request
  <2>7. RequestGood(w)'
    BY <2>1, <2>4, <2>6 DEF RequestGood
  <2>8. tick' = tick /\ row' = row /\ failing' = failing /\ healing' = healing
        /\ rotations' = rotations /\ (Faulty \/ faults' = faults)
    BY <1>4 DEF Unregister, Delete
  <2>9. TicksStep /\ RowsStep /\ OtherTypes
    BY <2>8, FaultsType DEF TypeOK, TicksStep, RowsStep, OtherTypes
  <2> QED
    BY <2>3, <2>5, <2>7, <2>9 DEF RequestsStep
<1>5. CASE DropRow(q)
  <2>1. remote' = remote /\ tick' = tick /\ failing' = failing /\ healing' = healing
        /\ rotations' = rotations /\ req' = [req EXCEPT ![q] = IdleRequest]
        /\ (Faulty \/ faults' = faults)
    BY <1>5 DEF DropRow
  <2>2. RemoteStep /\ TicksStep /\ RequestsStep /\ OtherTypes
    BY <2>1, RestingList, FaultsType, RestIsGood
       DEF TypeOK, TicksStep, RequestsStep, OtherTypes
  <2>3. RowsStep
    <3>1. PICK r \in {[NoRow EXCEPT !.state = "deleted"]}, s \in {v.store} :
            r = [NoRow EXCEPT !.state = "deleted"] /\ s = v.store
      OBVIOUS
    <3>2. r \in Row /\ r.hook = None
      BY <3>1 DEF NoRow, Row
    <3>3. row' = row \/ row' = [row EXCEPT ![s] = r]
      BY <1>1, <1>5, <3>1 DEF DropRow
    <3> QED
      BY <3>2, <3>3 DEF RowsStep, TypeOK
  <2> QED
    BY <2>2, <2>3
<1> QED
  BY <1>3, <1>4, <1>5

-----------------------------------------------------------------------------
(* The receiver, the faults, and the whole.                                *)
LEMMA ReceiverKeepsInv ==
  ASSUME TypeOK, HookInv, NEW s \in Stores,
         DeliverySucceeds(s) \/ DeliveryFails(s) \/ FailuresLast(s) \/ ClearSecret(s)
  PROVE  RemoteStep /\ TicksStep /\ RequestsStep /\ RowsStep /\ OtherTypes
<1>1. remote' = remote /\ tick' = tick /\ req' = req /\ rotations' = rotations
      /\ (Faulty \/ faults' = faults)
  BY DEF DeliverySucceeds, DeliveryFails, FailuresLast, ClearSecret
<1>2. failing' \in [Stores -> {"none", "recent", "sustained"}] /\ healing' \in SUBSET Stores
  BY DEF DeliverySucceeds, DeliveryFails, FailuresLast, ClearSecret, TypeOK
<1>3. RemoteStep /\ TicksStep /\ RequestsStep /\ OtherTypes
  BY <1>1, <1>2, RestingList, FaultsType DEF TypeOK, TicksStep, RequestsStep, OtherTypes
<1>4. RowsStep
  <2>1. PICK r \in {[row[s] EXCEPT !.secret = None]} : r = [row[s] EXCEPT !.secret = None]
    OBVIOUS
  <2>2. row[s] \in Row
    BY DEF TypeOK
  <2>3. r \in Row /\ r.hook = row[s].hook
    BY <2>1, <2>2 DEF Row
  <2>4. row' = row \/ row' = [row EXCEPT ![s] = r]
    BY <2>1 DEF DeliverySucceeds, DeliveryFails, FailuresLast, ClearSecret
  <2> QED
    BY <2>3, <2>4 DEF RowsStep, TypeOK
<1> QED
  BY <1>3, <1>4

LEMMA FaultKeepsInv ==
  ASSUME TypeOK, HookInv, Deactivate \/ ApiCrash
  PROVE  RemoteStep /\ TicksStep /\ RequestsStep /\ RowsStep /\ OtherTypes
<1>1. RemoteStep
  BY DeactivatedList, RestingList DEF ApiCrash
<1>2. row' = row /\ tick' = tick /\ rotations' = rotations /\ Faulty
  BY DEF Deactivate, ApiCrash
<1>3. req' = req \/ req' = [q \in Requests |-> IdleRequest]
  BY DEF Deactivate, ApiCrash
<1>4. failing' \in [Stores -> {"none", "recent", "sustained"}] /\ healing' \in SUBSET Stores
  BY DEF Deactivate, ApiCrash, TypeOK
<1> QED
  BY <1>1, <1>2, <1>3, <1>4, FaultsType
     DEF TypeOK, TicksStep, RequestsStep, RowsStep, OtherTypes

LEMMA StepsAreGood ==
  TypeOK /\ HookInv /\ [Next]_vars => TypeOK' /\ HookInv' /\ RemoteStep
<1> SUFFICES ASSUME TypeOK, HookInv, [Next]_vars PROVE TypeOK' /\ HookInv' /\ RemoteStep
  OBVIOUS
<1>1. RemoteStep /\ TicksStep /\ RequestsStep /\ RowsStep /\ OtherTypes
  <2>1. CASE UNCHANGED vars
    BY <2>1, RestingList DEF vars, TypeOK, TicksStep, RequestsStep, RowsStep, OtherTypes
  <2>2. CASE \E t \in Ticks : TickStep(t) \/ WorkerCrash(t)
    BY <2>2, TickKeepsInv
  <2>3. CASE \E q \in Requests, s \in Stores :
               Connect(q, s) \/ RotateWebhookSecret(q, s) \/ Disconnect(q, s)
    BY <2>3, RequestStarts
  <2>4. CASE \E q \in Requests : RequestStep(q)
    BY <2>4, RequestCalls, RequestEnds DEF RequestStep
  <2>5. CASE \E s \in Stores :
               DeliverySucceeds(s) \/ DeliveryFails(s) \/ FailuresLast(s) \/ ClearSecret(s)
    BY <2>5, ReceiverKeepsInv
  <2>6. CASE Deactivate \/ ApiCrash
    BY <2>6, FaultKeepsInv
  <2> QED
    BY <2>1, <2>2, <2>3, <2>4, <2>5, <2>6 DEF Next
<1> QED
  BY <1>1, StepIsGood

LEMMA InitIsGood == Init => TypeOK /\ HookInv
<1> SUFFICES ASSUME Init PROVE TypeOK /\ HookInv
  OBVIOUS
<1>1. remote = Leftovers /\ remote \in SUBSET Hook /\ IsFiniteSet(remote)
      /\ \A g, h \in remote : g.id = h.id => g = h
  BY LeftoversAssumption DEF Init
<1>2. ASSUME NEW s \in Stores PROVE ConnectedRow(s) \in Row /\ RowGood(s)
  <2> DEFINE own == {h \in Leftovers : h.store = s}
             first == CHOOSE h \in own : TRUE
  <2>1. CASE own = {}
    <3>1. ConnectedRow(s) = NoRow
      BY <2>1 DEF ConnectedRow
    <3>2. row[s].hook = None
      BY <3>1 DEF Init, NoRow
    <3> QED
      BY <3>1, <3>2, RestIsGood DEF RowGood
  <2>2. CASE own # {}
    <3>1. first \in own
      BY <2>2
    <3>2. first \in Leftovers /\ first.store = s /\ first \in Hook
      BY <3>1, LeftoversAssumption
    <3>3. ConnectedRow(s) = [state |-> "active", hook |-> first.id, secret |-> first.secret]
      BY <2>2 DEF ConnectedRow
    <3> HIDE DEF first, own
    <3>4. first.base = "ours"
      BY <3>2, LeftoversAssumption
    <3>5. row[s].hook = first.id
      BY <3>3 DEF Init
    <3>6. ConnectedRow(s) \in Row
      BY <3>2, <3>3 DEF Hook, Row
    <3> QED
      BY <1>1, <3>2, <3>4, <3>5, <3>6 DEF RowGood, Owns
  <2> QED
    BY <2>1, <2>2
<1>3. \A t \in Ticks : TickGood(tick[t])
  BY RestIsGood DEF Init
<1>4. \A q \in Requests : RequestGood(req[q])
  BY RestIsGood DEF Init
<1>5. /\ row \in [Stores -> Row] /\ tick \in [Ticks -> Tick]
      /\ req \in [Requests -> Request]
  BY <1>2, RestIsGood DEF Init, TickGood, RequestGood
<1> QED
  BY <1>1, <1>2, <1>3, <1>4, <1>5 DEF Init, TypeOK, HookInv

(* The variables keep their types, and the vendor's list its distinct ids, *)
(* whatever calls are answered, refused, or carried out with their answer  *)
(* lost; and whoever remembers an id with a store remembers rightly.       *)
THEOREM HookInvariant == Spec => [](TypeOK /\ HookInv)
BY InitIsGood, StepsAreGood, PTL DEF Spec

THEOREM TypeCorrect == Spec => []TypeOK
BY HookInvariant, PTL

(* A row never knows another store's subscription, nor another             *)
(* deployment's: what it tells a later rotation or disconnect to change or *)
(* to delete is its own or gone, however calls and ticks have crossed.     *)
THEOREM RowsKnowTheirOwn == Spec => [](\A s \in Stores : RowGood(s))
<1>1. HookInv => \A s \in Stores : RowGood(s)
  BY DEF HookInv
<1> QED
  BY <1>1, HookInvariant, PTL

(* No step deletes or changes the subscription of another deployment.      *)
THEOREM ForeignStay == Spec => ForeignHooksStay
<1>1. TypeOK /\ HookInv /\ [Next]_vars
        => [\A h \in remote : h.base = "foreign" => h \in remote']_vars
  BY StepsAreGood DEF RemoteStep
<1> QED
  BY <1>1, HookInvariant, PTL DEF Spec, ForeignHooksStay

(* A subscription stays with its store for as long as it exists: no        *)
(* rotation or update, planned from however old a read, points it at       *)
(* another store's address.                                                *)
HooksKeepTheirStore ==
  [][\A h \in remote, g \in remote' :
       g.id = h.id => g.base = h.base /\ g.store = h.store]_vars

THEOREM StoresStay == Spec => HooksKeepTheirStore
<1>1. TypeOK /\ HookInv /\ [Next]_vars
        => [\A h \in remote, g \in remote' :
              g.id = h.id => g.base = h.base /\ g.store = h.store]_vars
  <2> SUFFICES ASSUME TypeOK, HookInv, [Next]_vars, NEW h \in remote, NEW g \in remote',
                      g.id = h.id
               PROVE  g.base = h.base /\ g.store = h.store
    OBVIOUS
  <2>1. g.id \in Held
    BY DEF Held
  <2>2. PICK f \in remote : f.id = g.id /\ f.base = g.base /\ f.store = g.store
    BY <2>1, StepsAreGood DEF RemoteStep
  <2>3. f = h
    BY <2>2 DEF TypeOK
  <2> QED
    BY <2>2, <2>3
<1> QED
  BY <1>1, HookInvariant, PTL DEF Spec, HooksKeepTheirStore

=============================================================================
