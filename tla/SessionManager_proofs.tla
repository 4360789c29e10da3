------------------------ MODULE SessionManager_proofs ------------------------
(***************************************************************************)
(* Theorems about the sessions and the pool, for every set of containers   *)
(* and sessions, every pool size and every combination of faults.          *)
(***************************************************************************)
EXTENDS SessionManager, FiniteSetTheorems, TLAPS

(***************************************************************************)
(* The library's Range as a set of the queue's elements: what a head, a    *)
(* tail, an append and a concatenation do to it and to injectivity.        *)
(***************************************************************************)
LEMMA TailFacts ==
  ASSUME NEW S, NEW q \in Seq(S), q # <<>>
  PROVE  /\ Head(q) \in S
         /\ Tail(q) \in Seq(S)
         /\ Range(q) = {Head(q)} \cup Range(Tail(q))
         /\ IsInjective(q) => IsInjective(Tail(q))
         /\ IsInjective(q) => Head(q) \notin Range(Tail(q))
<1>1. /\ Len(q) \in Nat \ {0}
      /\ DOMAIN q = 1..Len(q)
      /\ \A i \in DOMAIN q : q[i] \in S
      /\ Head(q) = q[1]
      /\ Tail(q) \in Seq(S)
      /\ DOMAIN Tail(q) = 1..(Len(q) - 1)
      /\ \A i \in DOMAIN Tail(q) : Tail(q)[i] = q[i + 1]
  OBVIOUS
<1>2. /\ 1 \in DOMAIN q
      /\ \A i \in DOMAIN Tail(q) : i + 1 \in DOMAIN q /\ i + 1 # 1
      /\ \A i \in DOMAIN q \ {1} : i - 1 \in DOMAIN Tail(q)
                                /\ Tail(q)[i - 1] = q[i]
  BY <1>1
<1>3. Range(q) = {Head(q)} \cup Range(Tail(q))
  <2>1. Range(q) \subseteq {Head(q)} \cup Range(Tail(q))
    BY <1>1, <1>2 DEF Range
  <2>2. Head(q) \in Range(q)
    BY <1>1, <1>2 DEF Range
  <2>3. Range(Tail(q)) \subseteq Range(q)
    BY <1>1, <1>2 DEF Range
  <2> QED
    BY <2>1, <2>2, <2>3
<1>4. ASSUME IsInjective(q) PROVE IsInjective(Tail(q))
  BY <1>1, <1>2, <1>4 DEF IsInjective
<1>5. ASSUME IsInjective(q) PROVE Head(q) \notin Range(Tail(q))
  BY <1>1, <1>2, <1>5 DEF IsInjective, Range
<1> QED
  BY <1>1, <1>2, <1>3, <1>4, <1>5

LEMMA ConcatFacts ==
  ASSUME NEW S, NEW p \in Seq(S), NEW q \in Seq(S)
  PROVE  /\ p \o q \in Seq(S)
         /\ Range(p \o q) = Range(p) \cup Range(q)
         /\ IsInjective(p) /\ IsInjective(q) /\ Range(p) \cap Range(q) = {}
              => IsInjective(p \o q)
<1> DEFINE r == p \o q
<1>1. /\ Len(p) \in Nat /\ Len(q) \in Nat
      /\ DOMAIN p = 1..Len(p) /\ DOMAIN q = 1..Len(q)
      /\ r \in Seq(S)
      /\ DOMAIN r = 1..(Len(p) + Len(q))
      /\ \A i \in 1..(Len(p) + Len(q)) :
           r[i] = IF i <= Len(p) THEN p[i] ELSE q[i - Len(p)]
  OBVIOUS
<1>2. /\ \A i \in DOMAIN p : i \in DOMAIN r /\ r[i] = p[i]
      /\ \A i \in DOMAIN q : Len(p) + i \in DOMAIN r /\ r[Len(p) + i] = q[i]
      /\ \A i \in DOMAIN r \ DOMAIN p :
           i - Len(p) \in DOMAIN q /\ r[i] = q[i - Len(p)]
  BY <1>1
<1> HIDE DEF r
<1>3. Range(r) = Range(p) \cup Range(q)
  <2>1. Range(r) \subseteq Range(p) \cup Range(q)
    BY <1>2 DEF Range
  <2>2. Range(p) \subseteq Range(r)
    BY <1>2 DEF Range
  <2>3. Range(q) \subseteq Range(r)
    BY <1>2 DEF Range
  <2> QED
    BY <2>1, <2>2, <2>3
<1>4. ASSUME IsInjective(p), IsInjective(q), Range(p) \cap Range(q) = {},
             NEW i \in DOMAIN r, NEW j \in DOMAIN r, r[i] = r[j]
      PROVE  i = j
  <2>1. CASE i \in DOMAIN p /\ j \in DOMAIN p
    BY <1>2, <1>4, <2>1 DEF IsInjective
  <2>2. CASE i \notin DOMAIN p /\ j \notin DOMAIN p
    <3>1. i - Len(p) = j - Len(p)
      BY <1>1, <1>2, <1>4, <2>2 DEF IsInjective
    <3> QED
      BY <1>1, <3>1
  <2>3. \A n \in DOMAIN r : IF n \in DOMAIN p THEN r[n] \in Range(p)
                                              ELSE r[n] \in Range(q)
    BY <1>2 DEF Range
  <2>4. i \in DOMAIN p <=> j \in DOMAIN p
    BY <1>4, <2>3
  <2> QED
    BY <2>1, <2>2, <2>3, <2>4
<1> QED
  BY <1>1, <1>3, <1>4 DEF IsInjective, r

LEMMA AppendFacts ==
  ASSUME NEW S, NEW q \in Seq(S), NEW e \in S
  PROVE  /\ Append(q, e) \in Seq(S)
         /\ Range(Append(q, e)) = Range(q) \cup {e}
         /\ IsInjective(q) /\ e \notin Range(q) => IsInjective(Append(q, e))
<1> DEFINE r == Append(q, e)
<1>1. /\ Len(q) \in Nat
      /\ DOMAIN q = 1..Len(q)
      /\ r \in Seq(S)
      /\ DOMAIN r = 1..(Len(q) + 1)
      /\ r[Len(q) + 1] = e
      /\ \A i \in DOMAIN q : i \in DOMAIN r /\ r[i] = q[i]
  OBVIOUS
<1>2. \A i \in DOMAIN r : i \in DOMAIN q \/ i = Len(q) + 1
  BY <1>1
<1>3. Range(r) = Range(q) \cup {e}
  BY <1>1, <1>2 DEF Range
<1>4. ASSUME IsInjective(q), e \notin Range(q) PROVE IsInjective(r)
  BY <1>1, <1>2, <1>4 DEF Range, IsInjective
<1> QED
  BY <1>1, <1>3, <1>4

\* The ids that k calls of create() return are fresh and all different.
LEMMA CreationFacts ==
  ASSUME NEW k \in Nat, NEW new \in Creations(k)
  PROVE  /\ new \in Seq(Containers)
         /\ Range(new) \subseteq Fresh
         /\ IsInjective(new)
<1>1. new \in [1..k -> Fresh] /\ IsInjective(new)
  BY DEF Creations
<1>2. Range(new) \subseteq Fresh
  BY <1>1 DEF Range
<1>3. new \in [1..k -> Containers]
  BY <1>1 DEF Fresh
<1> QED
  BY <1>1, <1>2, <1>3 DEF Range

\* destroy() on a set of sandboxes: nothing else changes, and a VM is gone.
LEMMA DestroyFacts ==
  ASSUME TypeOK, NEW doomed, doomed \subseteq Containers, Destroy(doomed)
  PROVE  /\ box' \in [Containers -> BoxStates]
         /\ left' \subseteq Containers
         /\ \A c \in Containers : box'[c] = box[c] \/ box'[c] = "gone"
         /\ \A c \in Containers \ doomed : box'[c] = box[c]
         /\ ~Recyclable => \A c \in doomed : box'[c] = "gone"
<1>1. PICK failed \in SUBSET IF Recyclable /\ "destroy" \in Faults
                             THEN doomed \cap Exists ELSE {} :
        /\ box' = [c \in Containers |-> IF c \in doomed \ failed THEN "gone"
                                                                 ELSE box[c]]
        /\ left' = (left \ doomed) \cup failed
  BY DEF Destroy
<1>2. failed \subseteq doomed /\ (~Recyclable => failed = {})
  BY <1>1
<1> QED
  BY <1>1, <1>2 DEF TypeOK, PoolTypeOK, BoxStates

LEMMA BoxesWithFacts ==
  ASSUME TypeOK, NEW new
  PROVE  BoxesWith(new) \in [Containers -> BoxStates]
  BY DEF TypeOK, PoolTypeOK, BoxStates, BoxesWith

LEMMA EmptyFacts ==
  <<>> \in Seq(Containers) /\ Range(<<>>) = {} /\ IsInjective(<<>>)
<1>1. <<>> \in Seq(Containers) /\ DOMAIN <<>> = {}
  BY SMT
<1> QED
  BY <1>1 DEF Range, IsInjective

LEMMA TypeInit == Init => TypeOK
  BY EmptyFacts DEF Init, PoolInit, TypeOK, PoolTypeOK, BoxStates, NoSessions

LEMMA TypeStep == TypeOK /\ [Next]_vars => TypeOK'
<1> SUFFICES ASSUME TypeOK, [Next]_vars PROVE TypeOK'
  OBVIOUS
<1> USE DEF TypeOK, PoolTypeOK
<1>1. CASE StartServer
  <2>0. PICK k \in 0..MinSize : \E new \in Creations(k) :
          /\ IF k = MinSize
             THEN /\ up' = TRUE
                  /\ available' = new
                  /\ box' = BoxesWith(Range(new))
                  /\ left' = left
             ELSE /\ UNCHANGED <<up, available>>
                  /\ box' = [c \in Containers |->
                               Abandoned(IF c \in Range(new) THEN "running"
                                                             ELSE box[c])]
                  /\ left' = left \cup Range(new)
    BY <1>1 DEF StartServer, Start
  <2>1. PICK new \in Creations(k) :
          /\ \/ up' = TRUE /\ available' = new
             \/ UNCHANGED <<up, available>>
          /\ \/ box' = BoxesWith(Range(new)) /\ left' = left
             \/ /\ box' = [c \in Containers |->
                             Abandoned(IF c \in Range(new) THEN "running"
                                                           ELSE box[c])]
                /\ left' = left \cup Range(new)
          /\ UNCHANGED <<active, residue, sessions, turn, issued, seen>>
    BY <1>1, <2>0 DEF StartServer, Start
  <2>2. new \in Seq(Containers) /\ Range(new) \subseteq Containers
    BY CreationFacts, <2>1, PoolAssumption DEF Fresh
  <2>3. box' \in [Containers -> BoxStates]
    BY <2>1, BoxesWithFacts DEF Abandoned, BoxStates
  <2> QED
    BY <2>1, <2>2, <2>3
<1>2. CASE ReplenishRound
  <2>1. PICK k \in 1..MinSize : ReplenishBy(k)
    BY <1>2 DEF ReplenishRound, Replenish
  <2>2. PICK new \in Creations(k) : /\ available' = available \o new
                                    /\ box' = BoxesWith(Range(new))
    BY <2>1 DEF ReplenishBy
  <2>3. available' \in Seq(Containers)
    BY CreationFacts, ConcatFacts, <2>2, PoolAssumption
  <2> QED
    BY <1>2, <2>1, <2>2, <2>3, BoxesWithFacts DEF ReplenishRound, ReplenishBy
<1>3. ASSUME NEW s \in Sessions, NEW c \in Containers, CreateFromPool(s, c)
      PROVE  TypeOK'
  <2>1. available' \in Seq(Containers) /\ box' \in [Containers -> BoxStates]
    <3>1. CASE ClaimPooled(c)
      BY <3>1, TailFacts DEF ClaimPooled
    <3>2. CASE ClaimOnDemand(c)
      BY <3>2, BoxesWithFacts DEF ClaimOnDemand
    <3> QED
      BY <1>3, <3>1, <3>2 DEF CreateFromPool, Claim
  <2> QED
    BY <1>3, <2>1 DEF CreateFromPool, Claim, Enter
<1>4. ASSUME NEW s \in Sessions, NEW c \in Containers, Reconnect(s, c)
      PROVE  TypeOK'
  BY <1>4 DEF Reconnect, Adopt, Enter
<1>5. ASSUME NEW s \in Sessions, Delete(s)
      PROVE  TypeOK'
  <2> DEFINE c == sessions[s]
  <2>1. /\ c \in Containers
        /\ active' = [active EXCEPT ![c] = NoSession]
        /\ Recycle(c) \/ Discard(c)
        /\ UNCHANGED up
        /\ sessions' = [sessions EXCEPT ![s] = NoContainer]
        /\ UNCHANGED <<turn, issued, seen>>
    BY <1>5 DEF Delete, Release
  <2> HIDE DEF c
  <2>2. CASE Recycle(c)
    <3>1. available' \in Seq(Containers)
      BY <2>1, <2>2, AppendFacts DEF Recycle
    <3>2. residue' \in [Containers -> SUBSET (Sessions \X Zones)]
      BY <2>1, <2>2 DEF Recycle, Wiped
    <3> QED
      BY <2>1, <2>2, <3>1, <3>2 DEF Recycle
  <2>3. CASE Discard(c)
    BY <2>1, <2>3, DestroyFacts DEF Discard
  <2> QED
    BY <2>1, <2>2, <2>3
<1>6. ASSUME NEW s \in Sessions,
             \/ BeginTurn(s) \/ EndTurn(s)
             \/ \E zone \in Zones : ToolCall(s, zone) \/ ProcessWrites(s, zone)
      PROVE  TypeOK'
  BY <1>6 DEF BeginTurn, EndTurn, ToolCall, ProcessWrites,
         BackgroundWrite, Write, poolVars
<1>7. CASE SandboxDies
  BY <1>7 DEF SandboxDies, Die, BoxStates
<1>8. CASE StopServer
  <2>1. Tracked \subseteq Containers
    BY DEF Tracked, Active, Pooled, Range
  <2> QED
    BY <1>8, <2>1, DestroyFacts, EmptyFacts DEF StopServer, Forget, Shutdown, NoSessions
<1>9. CASE ServerCrash
  <2>1. box' \in [Containers -> BoxStates]
    BY <1>9 DEF ServerCrash, Forget, Crash, Abandoned, BoxStates
  <2> QED
    BY <1>9, <2>1, EmptyFacts DEF ServerCrash, Forget, Crash, NoSessions, Exists
<1>10. CASE UNCHANGED vars
  BY <1>10 DEF vars, poolVars
<1> QED
  BY <1>1, <1>2, <1>3, <1>4, <1>5, <1>6, <1>7, <1>8, <1>9, <1>10 DEF Next

(***************************************************************************)
(* Every variable of the pool and of the session table keeps its type, in  *)
(* particular _active and the queue hold nothing but ids of containers.    *)
(***************************************************************************)
THEOREM TypeCorrect == Spec => []TypeOK
  BY TypeInit, TypeStep, PTL DEF Spec

-----------------------------------------------------------------------------
LEMMA BookkeepingInit == Init => Bookkeeping
  BY EmptyFacts, PoolAssumption, SessionAssumption
     DEF Init, PoolInit, NoSessions, Bookkeeping, BindingAgrees, QueueOfIdle,
         UnbornUntouched, OneLife, DownIsEmpty, SingleUse, Pooled, Active, Fresh

(***************************************************************************)
(* The only step that could break the books is Reconnect, which takes a    *)
(* container without taking it out of the queue.  SafeDeployment excludes  *)
(* it: either no client reconnects, or SingleUse makes its guard false.    *)
(***************************************************************************)
LEMMA NoReconnect ==
  ASSUME SafeDeployment, SingleUse, NEW s \in Sessions, NEW c \in Containers
  PROVE  ~Reconnect(s, c)
  BY DEF SafeDeployment, SingleUse, Reconnect, Adopt

\* The books after a step that binds no session and frees none.
LEMMA SameBindings ==
  ASSUME BindingAgrees, OneLife, UNCHANGED <<sessions, active, issued>>
  PROVE  BindingAgrees' /\ OneLife' /\ Active' = Active
  BY DEF BindingAgrees, OneLife, Active

\* The books of a server that has forgotten everything.
LEMMA EmptyBooks ==
  ASSUME TypeOK, Bookkeeping, ~up',
         sessions' = NoSessions,
         active' = [c \in Containers |-> NoSession],
         available' = <<>>,
         UNCHANGED <<issued, seen>>,
         \A c \in Containers : box'[c] = "unborn" => box[c] = "unborn",
         ~Recyclable => \A c \in seen : box'[c] # "running"
  PROVE  Bookkeeping'
<1>1. BindingAgrees'
  BY SessionAssumption, PoolAssumption DEF BindingAgrees, NoSessions
<1>2. QueueOfIdle' /\ DownIsEmpty'
  BY EmptyFacts DEF QueueOfIdle, DownIsEmpty, Pooled, Active
<1>3. UnbornUntouched'
  BY EmptyFacts DEF Bookkeeping, UnbornUntouched, Fresh, Pooled
<1>4. OneLife'
  BY DEF OneLife, NoSessions
<1>5. SingleUse'
  BY EmptyFacts DEF SingleUse, Pooled, IsRunning, TypeOK
<1> QED
  BY <1>1, <1>2, <1>3, <1>4, <1>5 DEF Bookkeeping

LEMMA BookkeepingStep ==
  SafeDeployment /\ TypeOK /\ Bookkeeping /\ [Next]_vars => Bookkeeping'
<1> SUFFICES ASSUME SafeDeployment, TypeOK, Bookkeeping, [Next]_vars
             PROVE  Bookkeeping'
  OBVIOUS
<1>t. /\ available \in Seq(Containers)
      /\ active \in [Containers -> Sessions \cup {NoSession}]
      /\ box \in [Containers -> BoxStates]
      /\ sessions \in [Sessions -> Containers \cup {NoContainer}]
      /\ seen \subseteq Containers
      /\ MinSize \in Nat
      /\ NoSession \notin Sessions
      /\ NoContainer \notin Containers
  BY PoolAssumption, SessionAssumption DEF TypeOK, PoolTypeOK
<1>b. /\ BindingAgrees
      /\ QueueOfIdle
      /\ UnbornUntouched
      /\ OneLife
      /\ DownIsEmpty
      /\ SingleUse
  BY DEF Bookkeeping
<1>1. CASE StartServer
  <2>0. PICK k \in 0..MinSize : \E new \in Creations(k) :
          /\ ~up
          /\ IF k = MinSize
             THEN /\ up' = TRUE
                  /\ available' = new
                  /\ box' = BoxesWith(Range(new))
             ELSE /\ UNCHANGED <<up, available>>
                  /\ box' = [c \in Containers |->
                               Abandoned(IF c \in Range(new) THEN "running"
                                                             ELSE box[c])]
          /\ UNCHANGED <<active, residue, sessions, issued, seen>>
    BY <1>1 DEF StartServer, Start
  <2>1. PICK new \in Creations(k) :
          /\ ~up
          /\ IF k = MinSize
             THEN /\ up' = TRUE
                  /\ available' = new
                  /\ box' = BoxesWith(Range(new))
             ELSE /\ UNCHANGED <<up, available>>
                  /\ box' = [c \in Containers |->
                               Abandoned(IF c \in Range(new) THEN "running"
                                                             ELSE box[c])]
          /\ UNCHANGED <<active, residue, sessions, issued, seen>>
    BY <2>0
  <2>2. new \in Seq(Containers) /\ Range(new) \subseteq Fresh /\ IsInjective(new)
    BY CreationFacts, <1>t
  <2>3. available = <<>> /\ Active = {}
    BY <1>b, <2>1 DEF DownIsEmpty
  <2>4. BindingAgrees' /\ OneLife' /\ Active' = {}
    BY <1>b, <2>1, <2>3, SameBindings
  <2>5. /\ IsInjective(available')
        /\ Pooled' \subseteq Range(new)
    BY <2>1, <2>2, <2>3, EmptyFacts DEF Pooled
  <2>6. \A c \in Containers :
          /\ c \in Range(new) => box'[c] # "unborn" /\ c \notin seen
          /\ box'[c] = "unborn" => box[c] = "unborn"
          /\ ~Recyclable /\ box'[c] = "running" => c \in Range(new) \/ box[c] = "running"
    BY <1>t, <1>b, <2>1, <2>2 DEF BoxesWith, Abandoned, UnbornUntouched, Fresh
  <2>7. DownIsEmpty'
    BY <2>1, <2>3, <2>4 DEF DownIsEmpty
  <2>8. QueueOfIdle'
    BY <2>4, <2>5 DEF QueueOfIdle
  <2>9. UnbornUntouched'
    BY <1>b, <2>1, <2>5, <2>6 DEF UnbornUntouched, Fresh
  <2>10. SingleUse'
    BY <1>b, <1>t, <2>1, <2>5, <2>6 DEF SingleUse, IsRunning
  <2> QED
    BY <2>4, <2>7, <2>8, <2>9, <2>10 DEF Bookkeeping
<1>2. CASE ReplenishRound
  <2>1. PICK k \in 1..MinSize : ReplenishBy(k)
    BY <1>2 DEF ReplenishRound, Replenish
  <2>2. PICK new \in Creations(k) : /\ available' = available \o new
                                    /\ box' = BoxesWith(Range(new))
    BY <2>1 DEF ReplenishBy
  <2>3. up /\ UNCHANGED <<up, active, sessions, issued, seen>>
    BY <1>2, <2>1 DEF ReplenishRound, ReplenishBy
  <2>4. new \in Seq(Containers) /\ Range(new) \subseteq Fresh /\ IsInjective(new)
    BY CreationFacts, <1>t
  <2>5. BindingAgrees' /\ OneLife' /\ Active' = Active
    BY <1>b, <2>3, SameBindings
  <2>6. Range(new) \cap (Pooled \cup Active \cup seen) = {}
    BY <1>b, <2>4 DEF UnbornUntouched, Active
  <2>7. IsInjective(available') /\ Pooled' = Pooled \cup Range(new)
    BY <1>t, <1>b, <2>2, <2>4, <2>6, ConcatFacts DEF Pooled, QueueOfIdle
  <2>8. QueueOfIdle'
    BY <1>b, <2>5, <2>6, <2>7 DEF QueueOfIdle
  <2>9. UnbornUntouched' /\ SingleUse'
    BY <1>t, <1>b, <2>2, <2>3, <2>6, <2>7
       DEF UnbornUntouched, SingleUse, Fresh, BoxesWith, IsRunning, Active
  <2> QED
    BY <2>3, <2>5, <2>8, <2>9 DEF Bookkeeping, DownIsEmpty
<1>3. ASSUME NEW s \in Sessions, NEW c \in Containers, CreateFromPool(s, c)
      PROVE  Bookkeeping'
  <2>1. /\ up /\ up' = up
        /\ s \notin issued
        /\ active' = [active EXCEPT ![c] = s]
        /\ sessions' = [sessions EXCEPT ![s] = c]
        /\ issued' = issued \cup {s}
        /\ seen' = seen \cup {c}
        /\ ClaimPooled(c) \/ ClaimOnDemand(c)
    BY <1>3 DEF CreateFromPool, Claim, Enter
  <2>2. sessions[s] = NoContainer
    BY <1>b, <2>1 DEF OneLife
  <2>3. /\ active[c] = NoSession
        /\ IsInjective(available')
        /\ Pooled' \subseteq Pooled
        /\ c \notin Pooled'
        /\ box'[c] # "unborn"
        /\ \A d \in Containers : d # c => box'[d] = box[d]
    <3>1. CASE ClaimPooled(c)
      BY <1>t, <1>b, <3>1, TailFacts
         DEF ClaimPooled, Pooled, Active, QueueOfIdle, UnbornUntouched, Fresh
    <3>2. CASE ClaimOnDemand(c)
      BY <1>t, <1>b, <3>2
         DEF ClaimOnDemand, Pooled, UnbornUntouched, Fresh, BoxesWith, QueueOfIdle
    <3> QED
      BY <2>1, <3>1, <3>2
  <2>4. BindingAgrees'
    BY <1>t, <1>b, <2>1, <2>2, <2>3 DEF BindingAgrees
  <2>5. QueueOfIdle'
    BY <1>t, <1>b, <2>1, <2>3 DEF QueueOfIdle, Active
  <2>6. UnbornUntouched'
    BY <1>t, <1>b, <2>1, <2>3 DEF UnbornUntouched, Fresh
  <2>7. OneLife' /\ DownIsEmpty'
    BY <1>t, <1>b, <2>1 DEF OneLife, DownIsEmpty
  <2>8. SingleUse'
    BY <1>t, <1>b, <2>1, <2>3 DEF SingleUse, IsRunning
  <2> QED
    BY <2>4, <2>5, <2>6, <2>7, <2>8 DEF Bookkeeping
<1>4. ASSUME NEW s \in Sessions, NEW c \in Containers, Reconnect(s, c)
      PROVE  Bookkeeping'
  BY <1>4, <1>b, NoReconnect
<1>5. ASSUME NEW s \in Sessions, Delete(s)
      PROVE  Bookkeeping'
  <2>1. PICK c \in Containers : c = sessions[s]
    BY <1>t, <1>5 DEF Delete
  <2>2. /\ up /\ up' = up
        /\ active' = [active EXCEPT ![c] = NoSession]
        /\ Recycle(c) \/ Discard(c)
        /\ sessions' = [sessions EXCEPT ![s] = NoContainer]
        /\ UNCHANGED <<issued, seen>>
    BY <1>5, <2>1 DEF Delete, Release
  <2>3. active[c] = s /\ c \notin Pooled
    BY <1>t, <1>b, <2>1 DEF BindingAgrees, QueueOfIdle, Active
  <2>4. /\ IsInjective(available')
        /\ Pooled' \subseteq Pooled \cup {c}
        /\ ~Recyclable => Pooled' = Pooled /\ box'[c] = "gone"
        /\ box'[c] # "unborn"
        /\ \A d \in Containers : d # c => box'[d] = box[d]
    <3>1. CASE Recycle(c)
      BY <1>t, <1>b, <2>3, <3>1, AppendFacts
         DEF Recycle, Pooled, QueueOfIdle, IsRunning
    <3>2. CASE Discard(c)
      <4>1. Destroy({c}) /\ available' = available
        BY <3>2 DEF Discard
      <4>2. /\ box'[c] = box[c] \/ box'[c] = "gone"
            /\ \A d \in Containers \ {c} : box'[d] = box[d]
            /\ ~Recyclable => box'[c] = "gone"
        BY <2>1, <4>1, DestroyFacts
      <4> QED
        BY <1>t, <1>b, <2>3, <4>1, <4>2
           DEF Pooled, QueueOfIdle, UnbornUntouched, Fresh
    <3> QED
      BY <2>2, <3>1, <3>2
  <2>5. BindingAgrees'
    BY <1>t, <1>b, <2>1, <2>2 DEF BindingAgrees
  <2>6. QueueOfIdle'
    BY <1>t, <1>b, <2>2, <2>4 DEF QueueOfIdle, Active
  <2>7. UnbornUntouched'
    BY <1>t, <1>b, <2>2, <2>4 DEF UnbornUntouched, Fresh
  <2>8. OneLife' /\ DownIsEmpty'
    BY <1>t, <1>b, <2>2 DEF OneLife, DownIsEmpty
  <2>9. SingleUse'
    BY <1>t, <1>b, <2>2, <2>4 DEF SingleUse, IsRunning
  <2> QED
    BY <2>5, <2>6, <2>7, <2>8, <2>9 DEF Bookkeeping
<1>6. ASSUME NEW s \in Sessions,
             \/ BeginTurn(s) \/ EndTurn(s)
             \/ \E zone \in Zones : ToolCall(s, zone) \/ ProcessWrites(s, zone)
      PROVE  Bookkeeping'
  BY <1>6 DEF BeginTurn, EndTurn, ToolCall, ProcessWrites,
         BackgroundWrite, Write, poolVars, Bookkeeping,
              BindingAgrees, QueueOfIdle, UnbornUntouched, OneLife, DownIsEmpty,
              SingleUse, Pooled, Active, Fresh, IsRunning
<1>7. CASE SandboxDies
  <2>1. PICK c \in Containers : Die(c)
    BY <1>7 DEF SandboxDies
  <2>2. /\ UNCHANGED <<up, available, active, sessions, issued, seen>>
        /\ IsRunning(c)
        /\ box' = [box EXCEPT ![c] = "dead"]
    BY <1>7, <2>1 DEF SandboxDies, Die
  <2>3. \A d \in Containers : /\ box'[d] = "unborn" => box[d] = "unborn"
                              /\ box'[d] = "running" => box[d] = "running"
    BY <1>t, <2>2
  <2>4. Pooled' = Pooled /\ Active' = Active
    BY <2>2 DEF Pooled, Active
  <2>5. UnbornUntouched' /\ SingleUse'
    BY <1>b, <1>t, <2>2, <2>3, <2>4
       DEF UnbornUntouched, SingleUse, Fresh, IsRunning
  <2> QED
    BY <1>b, <2>2, <2>4, <2>5, SameBindings
       DEF Bookkeeping, QueueOfIdle, DownIsEmpty
<1>8. CASE StopServer
  <2>1. Tracked \subseteq Containers
    BY <1>t DEF Tracked, Active, Pooled, Range
  <2>2. /\ ~up'
        /\ sessions' = NoSessions
        /\ active' = [c \in Containers |-> NoSession]
        /\ available' = <<>>
        /\ UNCHANGED <<issued, seen>>
        /\ Destroy(Tracked)
    BY <1>8 DEF StopServer, Forget, Shutdown
  <2>3. \A c \in Containers : box'[c] = "unborn" => box[c] = "unborn"
    BY <2>1, <2>2, DestroyFacts
  <2>4. ASSUME ~Recyclable, NEW c \in seen PROVE box'[c] # "running"
    <3>1. CASE c \in Tracked
      BY <2>1, <2>2, <2>4, <3>1, DestroyFacts
    <3>2. CASE c \notin Tracked
      BY <1>b, <1>t, <2>1, <2>2, <2>4, <3>2, DestroyFacts
         DEF SingleUse, IsRunning, Tracked, Active
    <3> QED
      BY <3>1, <3>2
  <2> QED
    BY <2>2, <2>3, <2>4, EmptyBooks
<1>9. CASE ServerCrash
  <2>1. /\ ~up'
        /\ sessions' = NoSessions
        /\ active' = [c \in Containers |-> NoSession]
        /\ available' = <<>>
        /\ UNCHANGED <<issued, seen>>
        /\ box' = [c \in Containers |-> Abandoned(box[c])]
    BY <1>9 DEF ServerCrash, Forget, Crash
  <2>2. \A c \in Containers : /\ box'[c] = "unborn" => box[c] = "unborn"
                              /\ ~Recyclable => box'[c] # "running"
    BY <2>1 DEF Abandoned
  <2> QED
    BY <1>t, <2>1, <2>2, EmptyBooks
<1>10. CASE UNCHANGED vars
  BY <1>10 DEF vars, poolVars, Bookkeeping, BindingAgrees, QueueOfIdle,
               UnbornUntouched, OneLife, DownIsEmpty, SingleUse, Pooled, Active,
               Fresh, IsRunning
<1> QED
  BY <1>1, <1>2, <1>3, <1>4, <1>5, <1>6, <1>7, <1>8, <1>9, <1>10 DEF Next

(***************************************************************************)
(* Bookkeeping is inductive together with the types.                       *)
(***************************************************************************)
THEOREM BooksKept ==
  ASSUME SafeDeployment
  PROVE  Spec => [](TypeOK /\ Bookkeeping)
<1>1. Init => TypeOK /\ Bookkeeping
  BY TypeInit, BookkeepingInit
<1>2. TypeOK /\ Bookkeeping /\ [Next]_vars => TypeOK' /\ Bookkeeping'
  BY TypeStep, BookkeepingStep
<1> QED
  BY <1>1, <1>2, PTL DEF Spec

(***************************************************************************)
(* No container ever serves two live sessions, if the backend does not     *)
(* recycle sandboxes or no client sends a container_id.  The run           *)
(* reconnect_binds_twice shows that the hypothesis is needed.              *)
(***************************************************************************)
THEOREM Exclusive ==
  ASSUME SafeDeployment
  PROVE  Spec => []ExclusiveBinding
<1>1. TypeOK /\ Bookkeeping => ExclusiveBinding
  BY PoolAssumption
     DEF TypeOK, Bookkeeping, BindingAgrees, ExclusiveBinding
<1> QED
  BY <1>1, BooksKept, PTL

-----------------------------------------------------------------------------
LEMMA LeaseInit == Init => Lease!Init
  BY DEF Init, Lease!Init, NoSessions

LEMMA LeaseStep ==
  SafeDeployment /\ TypeOK /\ Bookkeeping /\ [Next]_vars
    => [Lease!Next]_Lease!leaseVars
<1> SUFFICES ASSUME SafeDeployment, TypeOK, Bookkeeping, [Next]_vars
             PROVE  [Lease!Next]_Lease!leaseVars
  OBVIOUS
<1> USE DEF Lease!Next, Lease!leaseVars
<1>1. ASSUME NEW s \in Sessions, NEW c \in Containers, CreateFromPool(s, c)
      PROVE  Lease!Grant(s, c)
  <2>1. active[c] = NoSession /\ (~Recyclable => c \notin seen)
    <3>1. CASE ClaimPooled(c)
      BY <3>1, TailFacts
         DEF ClaimPooled, TypeOK, PoolTypeOK, Bookkeeping, QueueOfIdle,
             SingleUse, Pooled, Active
    <3>2. CASE ClaimOnDemand(c)
      BY <3>2 DEF ClaimOnDemand, Bookkeeping, UnbornUntouched
    <3> QED
      BY <1>1, <3>1, <3>2 DEF CreateFromPool, Claim
  <2>2. Lease!Free(c)
    BY <2>1, PoolAssumption DEF Lease!Free, Bookkeeping, BindingAgrees
  <2> QED
    BY <1>1, <2>1, <2>2 DEF CreateFromPool, Enter, Lease!Grant
<1>2. ASSUME NEW s \in Sessions, NEW c \in Containers, Reconnect(s, c)
      PROVE  FALSE
  BY <1>2, NoReconnect DEF Bookkeeping
<1>3. ASSUME NEW s \in Sessions, Delete(s) PROVE Lease!Return(s)
  BY <1>3 DEF Delete, Lease!Return
<1>4. CASE StopServer \/ ServerCrash
  BY <1>4 DEF StopServer, ServerCrash, Forget, NoSessions, Lease!RevokeAll
<1>5. CASE \/ StartServer \/ ReplenishRound \/ SandboxDies
           \/ \E s \in Sessions : BeginTurn(s) \/ EndTurn(s)
           \/ \E s \in Sessions, zone \in Zones :
                ToolCall(s, zone) \/ ProcessWrites(s, zone)
           \/ UNCHANGED vars
  BY <1>5 DEF StartServer, ReplenishRound, SandboxDies, BeginTurn, EndTurn,
              ToolCall, ProcessWrites, vars
<1> QED
  BY <1>1, <1>2, <1>3, <1>4, <1>5 DEF Next

(***************************************************************************)
(* Sessions implement exclusive leases, and leases of single use on a      *)
(* backend that does not recycle: every endpoint, start, shutdown and      *)
(* crash of the server is a step of SandboxLease or changes no lease.      *)
(***************************************************************************)
THEOREM Leases ==
  ASSUME SafeDeployment
  PROVE  Spec => ImplementsLease
<1>1. TypeOK /\ Bookkeeping /\ [Next]_vars => [Lease!Next]_Lease!leaseVars
  BY LeaseStep
<1> QED
  BY <1>1, LeaseInit, BooksKept, PTL DEF Spec, ImplementsLease, Lease!Spec

-----------------------------------------------------------------------------
LEMMA DownStep == TypeOK /\ DownIsEmpty /\ [Next]_vars => DownIsEmpty'
<1> SUFFICES ASSUME TypeOK, DownIsEmpty, [Next]_vars PROVE DownIsEmpty'
  OBVIOUS
<1>1. CASE StopServer \/ ServerCrash
  BY <1>1 DEF StopServer, Forget, Shutdown, ServerCrash, Crash, Forget, DownIsEmpty, Active
<1>2. CASE StartServer \/ SandboxDies \/ UNCHANGED vars
  BY <1>2 DEF StartServer, Start, SandboxDies, Die, vars, poolVars, DownIsEmpty,
              Active
<1>3. CASE up /\ up' = up
  BY <1>3 DEF DownIsEmpty
<1>4. CASE \/ ReplenishRound
           \/ \E s \in Sessions, c \in Containers : CreateFromPool(s, c)
           \/ \E s \in Sessions, c \in Containers : Reconnect(s, c)
           \/ \E s \in Sessions : Delete(s)
  BY <1>3, <1>4 DEF ReplenishRound, Replenish, ReplenishBy, CreateFromPool, Claim,
                    Reconnect, Adopt, Delete, Release
<1>5. CASE \/ \E s \in Sessions : BeginTurn(s) \/ EndTurn(s)
           \/ \E s \in Sessions, zone \in Zones :
                ToolCall(s, zone) \/ ProcessWrites(s, zone)
  BY <1>5 DEF BeginTurn, EndTurn, ToolCall, ProcessWrites,
         BackgroundWrite, Write, poolVars, DownIsEmpty, Active
<1> QED
  BY <1>1, <1>2, <1>4, <1>5 DEF Next

\* Followed for one sandbox c, which exists after the step.
LEMMA OrphansStep ==
  TypeOK /\ DownIsEmpty /\ NoOrphans /\ [Next]_vars => NoOrphans'
<1> DEFINE Present(status) == status \in {"running", "dead", "lost"}
<1> SUFFICES ASSUME TypeOK, DownIsEmpty, NoOrphans, [Next]_vars,
                    NEW c \in Containers, Present(box'[c])
             PROVE  active'[c] # NoSession \/ c \in Range(available') \/ c \in left'
  BY DEF NoOrphans, Exists, Tracked, Active, Pooled
<1>t. /\ available \in Seq(Containers)
      /\ active \in [Containers -> Sessions \cup {NoSession}]
      /\ box \in [Containers -> BoxStates]
      /\ sessions \in [Sessions -> Containers \cup {NoContainer}]
      /\ MinSize \in Nat
      /\ NoSession \notin Sessions
  BY PoolAssumption DEF TypeOK, PoolTypeOK
<1>b. Present(box[c]) =>
        active[c] # NoSession \/ c \in Range(available) \/ c \in left
  BY DEF NoOrphans, Exists, Tracked, Active, Pooled
<1>1. CASE StartServer
  <2>1. PICK k \in 0..MinSize : \E new \in Creations(k) :
          /\ ~up
          /\ IF k = MinSize
             THEN /\ available' = new
                  /\ box' = BoxesWith(Range(new))
                  /\ left' = left
             ELSE /\ available' = available
                  /\ box' = [d \in Containers |->
                               Abandoned(IF d \in Range(new) THEN "running"
                                                             ELSE box[d])]
                  /\ left' = left \cup Range(new)
          /\ active' = active
    BY <1>1 DEF StartServer, Start
  <2>2. available = <<>> /\ active[c] = NoSession
    BY <2>1 DEF DownIsEmpty, Active
  <2>3. Present(box[c]) => c \in left
    BY <1>b, <2>2, EmptyFacts
  <2> QED
    BY <2>1, <2>3 DEF BoxesWith, Abandoned
<1>2. CASE ReplenishRound
  <2>1. PICK k \in 1..MinSize : ReplenishBy(k)
    BY <1>2 DEF ReplenishRound, Replenish
  <2>2. PICK new \in Creations(k) : /\ available' = available \o new
                                    /\ box' = BoxesWith(Range(new))
                                    /\ UNCHANGED <<active, left>>
    BY <2>1 DEF ReplenishBy
  <2>3. Range(available') = Range(available) \cup Range(new)
    BY CreationFacts, ConcatFacts, <1>t, <2>2
  <2> QED
    BY <1>b, <2>2, <2>3 DEF BoxesWith
<1>3. ASSUME NEW s \in Sessions, NEW d \in Containers, CreateFromPool(s, d)
      PROVE  active'[c] # NoSession \/ c \in Range(available') \/ c \in left'
  <2>1. active' = [active EXCEPT ![d] = s] /\ left' = left
    BY <1>3 DEF CreateFromPool, Claim
  <2>2. CASE c = d
    BY <1>t, <2>1, <2>2
  <2>3. CASE c # d /\ ClaimPooled(d)
    <3>1. available # <<>> /\ d = Head(available) /\ available' = Tail(available)
      BY <2>3 DEF ClaimPooled
    <3>2. c \in Range(available) => c \in Range(available')
      BY <1>t, <2>3, <3>1, TailFacts
    <3> QED
      BY <1>t, <1>b, <2>1, <2>3, <3>2 DEF ClaimPooled
  <2>4. CASE c # d /\ ClaimOnDemand(d)
    BY <1>t, <1>b, <2>1, <2>4 DEF ClaimOnDemand, BoxesWith
  <2> QED
    BY <1>3, <2>2, <2>3, <2>4 DEF CreateFromPool, Claim
<1>4. ASSUME NEW s \in Sessions, NEW d \in Containers, Reconnect(s, d)
      PROVE  active'[c] # NoSession \/ c \in Range(available') \/ c \in left'
  BY <1>4, <1>t, <1>b DEF Reconnect, Adopt
<1>5. ASSUME NEW s \in Sessions, Delete(s)
      PROVE  active'[c] # NoSession \/ c \in Range(available') \/ c \in left'
  <2>1. PICK d \in Containers : d = sessions[s]
    BY <1>t, <1>5 DEF Delete
  <2>2. active' = [active EXCEPT ![d] = NoSession] /\ (Recycle(d) \/ Discard(d))
    BY <1>5, <2>1 DEF Delete, Release
  <2>3. CASE Recycle(d)
    <3>1. Range(available') = Range(available) \cup {d}
      BY <1>t, <2>3, AppendFacts DEF Recycle
    <3> QED
      BY <1>t, <1>b, <2>2, <2>3, <3>1 DEF Recycle
  <2>4. CASE Discard(d)
    <3>1. PICK failed \in SUBSET {d} :
            /\ box' = [e \in Containers |-> IF e \in {d} \ failed THEN "gone"
                                                                  ELSE box[e]]
            /\ left' = (left \ {d}) \cup failed
      BY <2>4 DEF Discard, Destroy
    <3>2. available' = available
      BY <2>4 DEF Discard
    <3> QED
      BY <1>t, <1>b, <2>2, <3>1, <3>2
  <2> QED
    BY <2>2, <2>3, <2>4
<1>6. CASE \/ \E s \in Sessions : BeginTurn(s) \/ EndTurn(s)
           \/ \E s \in Sessions, zone \in Zones :
                ToolCall(s, zone) \/ ProcessWrites(s, zone)
  BY <1>6, <1>b DEF BeginTurn, EndTurn, ToolCall, ProcessWrites,
         BackgroundWrite, Write, poolVars
<1>7. CASE SandboxDies
  BY <1>7, <1>t, <1>b DEF SandboxDies, Die, IsRunning
<1>8. CASE StopServer
  <2>1. PICK failed \in SUBSET Tracked :
          /\ box' = [d \in Containers |-> IF d \in Tracked \ failed THEN "gone"
                                                                    ELSE box[d]]
          /\ left' = (left \ Tracked) \cup failed
    BY <1>8 DEF StopServer, Forget, Shutdown, Destroy
  <2> QED
    BY <1>b, <2>1 DEF Tracked, Active, Pooled
<1>9. CASE ServerCrash
  <2>1. /\ left' = left \cup (Tracked \cap Exists)
        /\ box' = [d \in Containers |-> Abandoned(box[d])]
    BY <1>9 DEF ServerCrash, Forget, Crash
  <2> QED
    BY <1>t, <1>b, <2>1 DEF Abandoned, Tracked, Active, Pooled, Exists
<1>10. CASE UNCHANGED vars
  BY <1>10, <1>b DEF vars, poolVars
<1> QED
  BY <1>1, <1>2, <1>3, <1>4, <1>5, <1>6, <1>7, <1>8, <1>9, <1>10 DEF Next

(***************************************************************************)
(* No sandbox is forgotten, whatever clients do, reconnects included: all  *)
(* that exist are idle, in use, or given up where the code gives them up   *)
(* (a failed destroy, a failed start, a crash).                            *)
(***************************************************************************)
THEOREM NothingForgotten == Spec => []NoOrphans
<1>1. Init => TypeOK /\ DownIsEmpty /\ NoOrphans
  BY TypeInit DEF Init, PoolInit, DownIsEmpty, NoOrphans, Exists, Active
<1>2. TypeOK /\ DownIsEmpty /\ NoOrphans /\ [Next]_vars
        => TypeOK' /\ DownIsEmpty' /\ NoOrphans'
  BY TypeStep, DownStep, OrphansStep
<1> QED
  BY <1>1, <1>2, PTL DEF Spec

-----------------------------------------------------------------------------
(***************************************************************************)
(* A turn belongs to an issued session; its session, if it still lives, is *)
(* bound to the turn's container, and always does live on a backend that   *)
(* recycles.  Clients have seen every container of a session or a turn.    *)
(***************************************************************************)
TurnKeeps ==
  \A s \in Sessions :
    /\ {sessions[s], turn[s]} \subseteq seen \cup {NoContainer}
    /\ turn[s] # NoContainer =>
         /\ s \in issued
         /\ sessions[s] \in {turn[s], NoContainer}
         /\ Recyclable => sessions[s] = turn[s]

\* The sandbox a session is created with serves nobody, and no VM serves twice.
LEMMA GrantFacts ==
  ASSUME TypeOK, Bookkeeping,
         NEW s \in Sessions, NEW c \in Containers, CreateFromPool(s, c)
  PROVE  /\ active[c] = NoSession
         /\ ~Recyclable => c \notin seen
         /\ c \in Pooled \cup Fresh
         /\ Pooled' \subseteq Pooled
         /\ Fresh' \subseteq Fresh
         /\ c \notin Pooled' \cup Fresh'
<1>t. available \in Seq(Containers)
  BY DEF TypeOK, PoolTypeOK
<1>b. QueueOfIdle /\ UnbornUntouched /\ SingleUse
  BY DEF Bookkeeping
<1>1. CASE ClaimPooled(c)
  BY <1>t, <1>b, <1>1, TailFacts
     DEF ClaimPooled, QueueOfIdle, UnbornUntouched, SingleUse, Pooled, Active,
         Fresh
<1>2. CASE ClaimOnDemand(c)
  BY <1>b, <1>2, EmptyFacts
     DEF ClaimOnDemand, UnbornUntouched, Pooled, Fresh, BoxesWith
<1> QED
  BY <1>1, <1>2 DEF CreateFromPool, Claim

LEMMA BoundFacts ==
  ASSUME TypeOK, Bookkeeping
  PROVE  /\ ExclusiveBinding
         /\ \A s \in Sessions : sessions[s] # NoContainer =>
              /\ s \in issued
              /\ active[sessions[s]] = s
              /\ sessions[s] \notin Pooled
<1>t. /\ active \in [Containers -> Sessions \cup {NoSession}]
      /\ sessions \in [Sessions -> Containers \cup {NoContainer}]
      /\ NoSession \notin Sessions
  BY PoolAssumption DEF TypeOK, PoolTypeOK
<1>b. BindingAgrees /\ OneLife /\ QueueOfIdle
  BY DEF Bookkeeping
<1>1. ASSUME NEW s \in Sessions, sessions[s] # NoContainer
      PROVE  /\ s \in issued
             /\ active[sessions[s]] = s
             /\ sessions[s] \notin Pooled
  BY <1>t, <1>b, <1>1 DEF BindingAgrees, OneLife, QueueOfIdle, Active
<1> QED
  BY <1>t, <1>1 DEF ExclusiveBinding

LEMMA TurnStep ==
  ASSUME SafeUse, TypeOK, Bookkeeping, TurnKeeps, TurnsApart, [Next]_vars
  PROVE  TurnKeeps' /\ TurnsApart'
<1>t. /\ sessions \in [Sessions -> Containers \cup {NoContainer}]
      /\ turn \in [Sessions -> Containers \cup {NoContainer}]
      /\ active \in [Containers -> Sessions \cup {NoSession}]
      /\ NoSession \notin Sessions
      /\ NoContainer \notin Containers
  BY PoolAssumption, SessionAssumption DEF TypeOK, PoolTypeOK
<1>1. ASSUME NEW s \in Sessions, NEW c \in Containers, CreateFromPool(s, c)
      PROVE  TurnKeeps' /\ TurnsApart'
  <2>1. /\ s \notin issued
        /\ sessions' = [sessions EXCEPT ![s] = c]
        /\ issued' = issued \cup {s}
        /\ seen' = seen \cup {c}
        /\ turn' = turn
    BY <1>1 DEF CreateFromPool, Enter
  <2>2. turn[s] = NoContainer
    BY <2>1 DEF TurnKeeps
  <2>3. ASSUME NEW t \in Sessions, turn[t] = c PROVE FALSE
    <3>1. turn[t] # NoContainer
      BY <1>t, <2>3
    <3>2. CASE Recyclable
      <4>1. sessions[t] = c
        BY <2>3, <3>1, <3>2 DEF TurnKeeps
      <4> QED
        BY <1>t, <1>1, <4>1, GrantFacts, BoundFacts
    <3>3. CASE ~Recyclable
      BY <1>1, <2>3, <3>1, <3>3, GrantFacts DEF TurnKeeps
    <3> QED
      BY <3>2, <3>3
  <2>4. TurnKeeps'
    BY <1>t, <2>1, <2>2 DEF TurnKeeps
  <2>5. TurnsApart'
    BY <1>t, <2>1, <2>3 DEF TurnsApart
  <2> QED
    BY <2>4, <2>5
<1>2. ASSUME NEW s \in Sessions, NEW c \in Containers, Reconnect(s, c)
      PROVE  FALSE
  BY <1>2, NoReconnect DEF Bookkeeping, SafeUse, SafeDeployment
<1>3. ASSUME NEW s \in Sessions, Delete(s) PROVE TurnKeeps' /\ TurnsApart'
  <2>1. /\ turn[s] # NoContainer => ~Recyclable
        /\ sessions' = [sessions EXCEPT ![s] = NoContainer]
        /\ UNCHANGED <<turn, issued, seen>>
    BY <1>3 DEF Delete, SafeUse
  <2> QED
    BY <1>t, <2>1 DEF TurnKeeps, TurnsApart
<1>4. ASSUME NEW s \in Sessions, BeginTurn(s) PROVE TurnKeeps' /\ TurnsApart'
  <2>1. /\ sessions[s] # NoContainer
        /\ turn' = [turn EXCEPT ![s] = sessions[s]]
        /\ UNCHANGED <<sessions, issued, seen>>
    BY <1>4 DEF BeginTurn
  <2>2. s \in issued
    BY <2>1, BoundFacts
  <2>3. TurnKeeps'
    BY <1>t, <2>1, <2>2 DEF TurnKeeps
  <2>4. \A t \in Sessions : t # s => sessions[s] \notin {sessions[t], turn[t]}
    BY <2>1, BoundFacts DEF ExclusiveBinding, TurnsApart
  <2>5. TurnsApart'
    BY <1>t, <2>1, <2>4 DEF TurnsApart
  <2> QED
    BY <2>3, <2>5
<1>5. ASSUME NEW s \in Sessions, EndTurn(s) PROVE TurnKeeps' /\ TurnsApart'
  BY <1>t, <1>5 DEF EndTurn, TurnKeeps, TurnsApart
<1>6. CASE StopServer \/ ServerCrash
  BY <1>6 DEF StopServer, ServerCrash, Forget, NoSessions, TurnKeeps, TurnsApart
<1>7. CASE \/ StartServer \/ ReplenishRound \/ SandboxDies
           \/ \E s \in Sessions, zone \in Zones :
                ToolCall(s, zone) \/ ProcessWrites(s, zone)
           \/ UNCHANGED vars
  <2>1. UNCHANGED <<sessions, turn, issued, seen>>
    BY <1>7 DEF StartServer, ReplenishRound, SandboxDies, ToolCall,
                ProcessWrites, vars
  <2> QED
    BY <2>1 DEF TurnKeeps, TurnsApart
<1> QED
  BY <1>1, <1>2, <1>3, <1>4, <1>5, <1>6, <1>7 DEF Next

(***************************************************************************)
(* A turn or an upload never works in the sandbox of another session, nor  *)
(* of its turns, on a backend that does not recycle, whatever clients do,  *)
(* and on one that does if clients neither reconnect nor delete a session  *)
(* under its turn.  turn_outlives_session shows the second is needed.      *)
(***************************************************************************)
THEOREM TurnsKeptApart ==
  ASSUME SafeUse
  PROVE  Spec => [](TurnKeeps /\ TurnsApart)
<1>1. Init => TurnKeeps /\ TurnsApart
  BY DEF Init, NoSessions, TurnKeeps, TurnsApart
<1>2. TypeOK /\ Bookkeeping /\ TurnKeeps /\ TurnsApart /\ [Next]_vars
        => TurnKeeps' /\ TurnsApart'
  BY TurnStep
<1>3. Spec => [](TypeOK /\ Bookkeeping)
  BY BooksKept DEF SafeUse, SafeDeployment
<1> QED
  BY <1>1, <1>2, <1>3, PTL DEF Spec

-----------------------------------------------------------------------------
(***************************************************************************)
(* What must not pass from session to session: the files the reset         *)
(* matches, and on a backend that does not recycle everything.  It is      *)
(* found only where its own session or turn still is, never in an idle     *)
(* sandbox, unless a process that its session left behind in a recycled    *)
(* container wrote it.                                                     *)
(***************************************************************************)
Confined(r) == ~Recyclable \/ r[2] = "globbed"

Excused(c, r) == Recyclable /\ <<r[1], "process">> \in residue[c]

CleanKept ==
  \A c \in Containers : \A r \in residue[c] : Confined(r) /\ ~Excused(c, r) =>
    /\ c \notin Pooled \cup Fresh
    /\ \A s \in Sessions : c \in {sessions[s], turn[s]} => r[1] = s

\* Steps that leave the queue or lose sandboxes do not disturb CleanKept.
LEMMA CleanIdle ==
  ASSUME CleanKept, Pooled' \cup Fresh' \subseteq Pooled \cup Fresh,
         UNCHANGED <<sessions, turn, residue>>
  PROVE  CleanKept'
  BY DEF CleanKept, Confined, Excused

LEMMA CleanStep ==
  ASSUME SafeUse, Recyclable => "reset" \notin Faults,
         TypeOK, Bookkeeping, TurnKeeps, TurnsApart, CleanKept, [Next]_vars
  PROVE  CleanKept'
<1>t. /\ sessions \in [Sessions -> Containers \cup {NoContainer}]
      /\ turn \in [Sessions -> Containers \cup {NoContainer}]
      /\ available \in Seq(Containers)
      /\ residue \in [Containers -> SUBSET (Sessions \X Zones)]
      /\ box \in [Containers -> BoxStates]
      /\ MinSize \in Nat
      /\ NoContainer \notin Containers
  BY PoolAssumption, SessionAssumption DEF TypeOK, PoolTypeOK
<1>1. CASE StartServer
  <2>1. PICK k \in 0..MinSize : \E new \in Creations(k) :
          /\ available' = new \/ available' = available
          /\ \/ box' = BoxesWith(Range(new))
             \/ box' = [c \in Containers |->
                          Abandoned(IF c \in Range(new) THEN "running"
                                                        ELSE box[c])]
    BY <1>1 DEF StartServer, Start
  <2>2. PICK new \in Creations(k) :
          /\ available' = new \/ available' = available
          /\ \/ box' = BoxesWith(Range(new))
             \/ box' = [c \in Containers |->
                          Abandoned(IF c \in Range(new) THEN "running"
                                                        ELSE box[c])]
    BY <2>1
  <2>3. Range(new) \subseteq Fresh
    BY <1>t, CreationFacts
  <2>4. Pooled' \subseteq Pooled \cup Fresh
    BY <2>2, <2>3 DEF Pooled
  <2>5. Fresh' \subseteq Fresh
    BY <2>2 DEF Fresh, BoxesWith, Abandoned
  <2>6. UNCHANGED <<sessions, turn, residue>>
    BY <1>1 DEF StartServer, Start
  <2> QED
    BY <2>4, <2>5, <2>6, CleanIdle
<1>2. CASE ReplenishRound
  <2>1. PICK k \in 1..MinSize : ReplenishBy(k)
    BY <1>2 DEF ReplenishRound, Replenish
  <2>2. PICK new \in Creations(k) : /\ available' = available \o new
                                    /\ box' = BoxesWith(Range(new))
    BY <2>1 DEF ReplenishBy
  <2>3. /\ Range(new) \subseteq Fresh
        /\ Range(available') = Range(available) \cup Range(new)
    BY <1>t, <2>2, CreationFacts, ConcatFacts
  <2>4. Fresh' \subseteq Fresh /\ Pooled' \subseteq Pooled \cup Fresh
    BY <2>2, <2>3 DEF Fresh, BoxesWith, Pooled
  <2>5. UNCHANGED <<sessions, turn, residue>>
    BY <1>2, <2>1 DEF ReplenishRound, ReplenishBy
  <2> QED
    BY <2>4, <2>5, CleanIdle
<1>3. ASSUME NEW s \in Sessions, NEW c \in Containers, CreateFromPool(s, c)
      PROVE  CleanKept'
  <2>1. /\ sessions' = [sessions EXCEPT ![s] = c]
        /\ UNCHANGED <<turn, residue>>
    BY <1>3 DEF CreateFromPool, Claim, Enter
  <2>2. /\ \A r \in residue[c] : Confined(r) => Excused(c, r)
        /\ Pooled' \cup Fresh' \subseteq Pooled \cup Fresh
    BY <1>3, GrantFacts DEF CleanKept
  <2> QED
    BY <1>t, <2>1, <2>2 DEF CleanKept, Confined, Excused
<1>4. ASSUME NEW s \in Sessions, NEW c \in Containers, Reconnect(s, c)
      PROVE  FALSE
  BY <1>4, NoReconnect DEF Bookkeeping, SafeUse, SafeDeployment
<1>5. ASSUME NEW s \in Sessions, Delete(s) PROVE CleanKept'
  <2>1. PICK c \in Containers : c = sessions[s]
    BY <1>t, <1>5 DEF Delete
  <2>2. /\ Recycle(c) \/ Discard(c)
        /\ sessions' = [sessions EXCEPT ![s] = NoContainer]
        /\ turn' = turn
    BY <1>5, <2>1 DEF Delete, Release
  <2>3. CASE Recycle(c)
    <3>1. /\ Recyclable
          /\ residue' = [residue EXCEPT ![c] = Wiped(c)]
          /\ available' = Append(available, c)
          /\ box' = box
      BY <2>3 DEF Recycle
    <3>2. Pooled' = Pooled \cup {c} /\ Fresh' = Fresh
      BY <1>t, <3>1, AppendFacts DEF Pooled, Fresh
    <3>3. ASSUME NEW r \in residue'[c] PROVE ~Confined(r)
      BY <1>t, <3>1, <3>3 DEF Wiped, Confined
    <3>4. \A d \in Containers \ {c} : residue'[d] = residue[d]
      BY <1>t, <3>1
    <3> QED
      BY <1>t, <2>2, <3>2, <3>3, <3>4 DEF CleanKept, Confined, Excused
  <2>4. CASE Discard(c)
    <3>1. Destroy({c}) /\ UNCHANGED <<available, residue>>
      BY <2>4 DEF Discard
    <3>2. Fresh' \subseteq Fresh /\ Pooled' = Pooled
      BY <3>1, DestroyFacts DEF Fresh, Pooled
    <3> QED
      BY <1>t, <2>2, <3>1, <3>2 DEF CleanKept, Confined, Excused
  <2> QED
    BY <2>2, <2>3, <2>4
<1>6. ASSUME NEW s \in Sessions, BeginTurn(s) \/ EndTurn(s) PROVE CleanKept'
  <2>1. /\ turn' = [turn EXCEPT ![s] = sessions[s]]
           \/ turn' = [turn EXCEPT ![s] = NoContainer]
        /\ UNCHANGED <<available, box, residue, sessions>>
    BY <1>6 DEF BeginTurn, EndTurn, poolVars
  <2> QED
    BY <1>t, <2>1 DEF CleanKept, Confined, Excused, Pooled, Fresh
<1>7. ASSUME NEW s \in Sessions, NEW zone \in Zones, ToolCall(s, zone)
      PROVE  CleanKept'
  <2>1. PICK c \in Containers : c = turn[s]
    BY <1>t, <1>7 DEF ToolCall
  <2>2. /\ IsRunning(c)
        /\ residue' = [residue EXCEPT ![c] = @ \cup {<<s, zone>>}]
        /\ UNCHANGED <<available, box, sessions, turn>>
    BY <1>7, <2>1 DEF ToolCall, Write
  <2>3. c \notin Fresh
    BY <2>2 DEF IsRunning, Fresh
  <2>4. c \notin Pooled
    <3>1. CASE Recyclable
      BY <1>t, <2>1, <3>1, BoundFacts DEF TurnKeeps
    <3>2. CASE ~Recyclable
      BY <1>t, <2>1, <3>2 DEF TurnKeeps, Bookkeeping, SingleUse
    <3> QED
      BY <3>1, <3>2
  <2>5. \A t \in Sessions : c \in {sessions[t], turn[t]} => t = s
    BY <1>t, <2>1 DEF TurnsApart
  <2>6. \A d \in Containers :
          /\ residue[d] \subseteq residue'[d]
          /\ \A r \in residue'[d] : r \in residue[d] \/ (d = c /\ r = <<s, zone>>)
    BY <1>t, <2>2
  <2>7. Pooled' = Pooled /\ Fresh' = Fresh
    BY <2>2 DEF Pooled, Fresh
  <2> QED
    BY <2>2, <2>3, <2>4, <2>5, <2>6, <2>7 DEF CleanKept, Confined, Excused
<1>8. CASE SandboxDies
  <2>1. UNCHANGED <<available, residue, sessions, turn>> /\ Fresh' \subseteq Fresh
    BY <1>t, <1>8 DEF SandboxDies, Die, Fresh
  <2> QED
    BY <2>1, CleanIdle DEF Pooled
<1>9. CASE StopServer \/ ServerCrash
  <2>1. Tracked \subseteq Containers
    BY <1>t DEF Tracked, Active, Pooled, Range
  <2>2. Fresh' \subseteq Fresh
    <3>1. CASE StopServer
      BY <2>1, <3>1, DestroyFacts DEF StopServer, Shutdown, Fresh
    <3>2. CASE ServerCrash
      BY <3>2 DEF ServerCrash, Crash, Abandoned, Fresh
    <3> QED
      BY <1>9, <3>1, <3>2
  <2>3. /\ sessions' = NoSessions /\ turn' = NoSessions
        /\ available' = <<>> /\ residue' = residue
    BY <1>9 DEF StopServer, Shutdown, ServerCrash, Crash, Forget
  <2> QED
    BY <1>t, <2>2, <2>3, EmptyFacts DEF CleanKept, Confined, Excused, NoSessions, Pooled
<1>10. ASSUME NEW s \in Sessions, NEW zone \in Zones, ProcessWrites(s, zone)
       PROVE  CleanKept'
  <2>1. PICK c \in Containers :
          /\ <<s, "process">> \in residue[c]
          /\ residue' = [residue EXCEPT ![c] = @ \cup {<<s, zone>>}]
          /\ UNCHANGED <<available, box, sessions, turn>>
    BY <1>10 DEF ProcessWrites, BackgroundWrite, Write
  <2>2. \A d \in Containers :
          /\ residue[d] \subseteq residue'[d]
          /\ \A r \in residue'[d] : r \in residue[d] \/ (d = c /\ r = <<s, zone>>)
    BY <1>t, <2>1
  <2>3. Pooled' = Pooled /\ Fresh' = Fresh
    BY <2>1 DEF Pooled, Fresh
  <2>4. CASE Recyclable
    <3>1. <<<<s, zone>>[1], "process">> \in residue'[c]
      BY <2>1, <2>2
    <3> QED
      BY <2>1, <2>2, <2>3, <2>4, <3>1 DEF CleanKept, Confined, Excused
  <2>5. CASE ~Recyclable
    <3>1. /\ c \notin Pooled \cup Fresh
          /\ \A t \in Sessions : c \in {sessions[t], turn[t]} => s = t
      BY <2>1, <2>5 DEF CleanKept, Confined, Excused
    <3> QED
      BY <2>1, <2>2, <2>3, <2>5, <3>1 DEF CleanKept, Confined, Excused
  <2> QED
    BY <2>4, <2>5
<1>11. CASE UNCHANGED vars
  BY <1>11, CleanIdle DEF vars, poolVars, Pooled, Fresh
<1> QED
  BY <1>1, <1>2, <1>3, <1>4, <1>5, <1>6, <1>7, <1>8, <1>9, <1>11, <1>10 DEF Next

LEMMA CleanAlways ==
  ASSUME SafeUse, Recyclable => "reset" \notin Faults
  PROVE  Spec => [](TypeOK /\ CleanKept)
<1>1. Init => CleanKept
  BY DEF Init, PoolInit, CleanKept
<1>2. TypeOK /\ Bookkeeping /\ TurnKeeps /\ TurnsApart /\ CleanKept /\ [Next]_vars
        => CleanKept'
  BY CleanStep
<1>3. Spec => [](TypeOK /\ Bookkeeping)
  BY BooksKept DEF SafeUse, SafeDeployment
<1>4. Spec => [](TurnKeeps /\ TurnsApart)
  BY TurnsKeptApart
<1> QED
  BY <1>1, <1>2, <1>3, <1>4, PTL DEF Spec

(***************************************************************************)
(* What a session finds of another among the files that the reset matches  *)
(* was written by a background process of that other session, if resets    *)
(* succeed and, on a backend that recycles, clients neither reconnect nor  *)
(* delete a session under its turn.  Files that the reset does not match   *)
(* it does find; NothingLeaks is about a backend that destroys instead.    *)
(***************************************************************************)
THEOREM Isolated ==
  ASSUME SafeUse, Recyclable => "reset" \notin Faults
  PROVE  Spec => []ResetIsolates
<1>1. TypeOK /\ CleanKept => ResetIsolates
  <2> SUFFICES ASSUME TypeOK, CleanKept,
                      NEW s \in Sessions, sessions[s] # NoContainer,
                      NEW r \in residue[sessions[s]], r[2] = "globbed"
               PROVE  r[1] = s \/ <<r[1], "process">> \in residue[sessions[s]]
    BY DEF ResetIsolates
  <2>1. sessions[s] \in Containers
    BY DEF TypeOK
  <2> QED
    BY <2>1 DEF CleanKept, Confined, Excused
<1> QED
  BY <1>1, CleanAlways, PTL

(***************************************************************************)
(* On a backend that does not recycle, nothing at all of a session reaches *)
(* another: under reconnects, crashes, and turns that outlive a session.   *)
(***************************************************************************)
THEOREM NothingLeaks ==
  ASSUME ~Recyclable
  PROVE  Spec => []NoStateLeaks
<1>1. TypeOK /\ CleanKept => NoStateLeaks
  <2> SUFFICES ASSUME TypeOK, CleanKept,
                      NEW s \in Sessions, sessions[s] # NoContainer,
                      NEW r \in residue[sessions[s]]
               PROVE  r[1] = s
    BY DEF NoStateLeaks
  <2>1. sessions[s] \in Containers
    BY DEF TypeOK
  <2> QED
    BY <2>1 DEF CleanKept, Confined, Excused
<1>2. SafeUse /\ (Recyclable => "reset" \notin Faults)
  BY DEF SafeUse
<1> QED
  BY <1>1, <1>2, CleanAlways, PTL

-----------------------------------------------------------------------------
(***************************************************************************)
(* The sum of queue length and bound containers that the code tests        *)
(* against max_size, kept within it.                                       *)
(***************************************************************************)
TotalWithin == IsFiniteSet(Active) /\ Total <= MaxSize

LEMMA RangeFacts ==
  ASSUME NEW S, NEW q \in Seq(S)
  PROVE  IsFiniteSet(Range(q)) /\ Cardinality(Range(q)) <= Len(q)
<1>1. Len(q) \in Nat /\ DOMAIN q = 1..Len(q) /\ q \in [1..Len(q) -> S]
  OBVIOUS
<1>2. q \in Surjection(1..Len(q), Range(q))
  BY <1>1 DEF Surjection, Range
<1>3. IsFiniteSet(1..Len(q)) /\ Cardinality(1..Len(q)) = Len(q)
  BY <1>1, FS_Interval
<1> QED
  BY <1>2, <1>3, FS_Surjection

LEMMA TotalStep ==
  ASSUME SafeDeployment, MinSize <= MaxSize,
         TypeOK, Bookkeeping, TotalWithin, [Next]_vars
  PROVE  TotalWithin'
<1>t. /\ available \in Seq(Containers)
      /\ Len(available) \in Nat
      /\ active \in [Containers -> Sessions \cup {NoSession}]
      /\ sessions \in [Sessions -> Containers \cup {NoContainer}]
      /\ MinSize \in Nat /\ MaxSize \in Nat
      /\ NoSession \notin Sessions
      /\ NoContainer \notin Containers
  BY PoolAssumption, SessionAssumption DEF TypeOK, PoolTypeOK
<1>c. IsFiniteSet(Active) /\ Cardinality(Active) \in Nat
  BY FS_CardinalityType DEF TotalWithin
<1>d. Len(available) + Cardinality(Active) <= MaxSize
  BY DEF TotalWithin, Total
<1>1. CASE UNCHANGED <<available, active>>
  BY <1>1 DEF TotalWithin, Total, Active
<1>2. CASE StartServer
  <2>1. PICK k \in 0..MinSize : \E new \in Creations(k) :
          /\ ~up
          /\ \/ k = MinSize /\ available' = new
             \/ available' = available
          /\ active' = active
    BY <1>2 DEF StartServer, Start
  <2>2. PICK new \in Creations(k) :
          /\ ~up
          /\ \/ k = MinSize /\ available' = new
             \/ available' = available
          /\ active' = active
    BY <2>1
  <2>3. CASE available' = available
    BY <1>1, <2>2, <2>3
  <2>4. CASE k = MinSize /\ available' = new
    <3>1. new \in Seq(Containers) /\ new \in [1..MinSize -> Fresh]
      BY <1>t, <2>4, CreationFacts DEF Creations
    <3>2. Len(available') = MinSize
      BY <1>t, <2>4, <3>1
    <3>3. Active' = {} /\ IsFiniteSet(Active') /\ Cardinality(Active') = 0
      BY <2>2, FS_EmptySet DEF Bookkeeping, DownIsEmpty, Active
    <3> QED
      BY <1>t, <3>2, <3>3 DEF TotalWithin, Total
  <2> QED
    BY <2>2, <2>3, <2>4
<1>3. CASE ReplenishRound
  <2>1. PICK k \in 1..MinSize : ReplenishBy(k)
    BY <1>3 DEF ReplenishRound, Replenish
  <2>2. PICK new \in Creations(k) : available' = available \o new
    BY <2>1 DEF ReplenishBy
  <2>3. k \in 1..Wanted /\ active' = active
    BY <2>1 DEF ReplenishBy
  <2>4. Wanted \in Int /\ Wanted <= MaxSize - (Len(available) + Cardinality(Active))
    BY <1>t, <1>c DEF Wanted, Total
  <2>5. new \in Seq(Containers) /\ new \in [1..k -> Fresh]
    BY <1>t, <2>2, CreationFacts DEF Creations
  <2>6. Len(available') = Len(available) + k
    <3>1. k \in Nat /\ Len(new) = k
      BY <1>t, <2>5
    <3>2. Len(available \o new) = Len(available) + Len(new)
      BY <1>t, <2>5
    <3> QED
      BY <2>2, <3>1, <3>2
  <2>7. Active' = Active
    BY <2>3 DEF Active
  <2> QED
    BY <1>t, <1>c, <2>3, <2>4, <2>6, <2>7 DEF TotalWithin, Total
<1>4. ASSUME NEW s \in Sessions, NEW c \in Containers, CreateFromPool(s, c)
      PROVE  TotalWithin'
  <2>1. active' = [active EXCEPT ![c] = s]
    BY <1>4 DEF CreateFromPool, Claim
  <2>2. Active' = Active \cup {c} /\ c \notin Active
    BY <1>t, <1>4, <2>1, GrantFacts DEF Active
  <2>3. IsFiniteSet(Active') /\ Cardinality(Active') = Cardinality(Active) + 1
    BY <1>c, <2>2, FS_AddElement
  <2>4. CASE ClaimPooled(c)
    <3>1. available # <<>> /\ available' = Tail(available)
      BY <2>4 DEF ClaimPooled
    <3>2. Len(available') = Len(available) - 1
      BY <1>t, <3>1
    <3> QED
      BY <1>t, <1>c, <1>d, <2>3, <3>2 DEF TotalWithin, Total
  <2>5. CASE ClaimOnDemand(c)
    <3>1. /\ Len(available) + Cardinality(Active) < MaxSize
          /\ available' = available
      BY <2>5 DEF ClaimOnDemand, Total
    <3> QED
      BY <1>t, <1>c, <2>3, <3>1 DEF TotalWithin, Total
  <2> QED
    BY <1>4, <2>4, <2>5 DEF CreateFromPool, Claim
<1>5. ASSUME NEW s \in Sessions, NEW c \in Containers, Reconnect(s, c)
      PROVE  FALSE
  BY <1>5, NoReconnect DEF Bookkeeping
<1>6. ASSUME NEW s \in Sessions, Delete(s) PROVE TotalWithin'
  <2>1. PICK c \in Containers : c = sessions[s]
    BY <1>t, <1>6 DEF Delete
  <2>2. /\ active' = [active EXCEPT ![c] = NoSession]
        /\ Recycle(c) \/ Discard(c)
        /\ sessions[s] # NoContainer
    BY <1>6, <2>1 DEF Delete, Release
  <2>3. active[c] = s
    BY <2>1, <2>2, BoundFacts
  <2>4. Active' = Active \ {c} /\ c \in Active
    BY <1>t, <2>2, <2>3 DEF Active
  <2>5. IsFiniteSet(Active') /\ Cardinality(Active') = Cardinality(Active) - 1
    BY <1>c, <2>4, FS_RemoveElement
  <2>6. Len(available') \in {Len(available), Len(available) + 1}
    BY <1>t, <2>2 DEF Recycle, Discard
  <2> QED
    BY <1>t, <1>c, <1>d, <2>5, <2>6 DEF TotalWithin, Total
<1>7. CASE StopServer \/ ServerCrash
  <2>1. active' = [c \in Containers |-> NoSession] /\ available' = <<>>
    BY <1>7 DEF StopServer, Shutdown, ServerCrash, Crash
  <2>2. Active' = {} /\ Len(available') = 0
    BY <2>1 DEF Active
  <2> QED
    BY <1>t, <2>2, FS_EmptySet DEF TotalWithin, Total
<1>8. CASE \/ SandboxDies
           \/ \E s \in Sessions : BeginTurn(s) \/ EndTurn(s)
           \/ \E s \in Sessions, zone \in Zones :
                ToolCall(s, zone) \/ ProcessWrites(s, zone)
           \/ UNCHANGED vars
  BY <1>1, <1>8 DEF SandboxDies, Die, BeginTurn, EndTurn, ToolCall,
         ProcessWrites, BackgroundWrite, Write, vars, poolVars
<1> QED
  BY <1>2, <1>3, <1>4, <1>5, <1>6, <1>7, <1>8 DEF Next

(***************************************************************************)
(* The sandboxes the server answers for never outnumber POOL_MAX_SIZE, if  *)
(* POOL_MIN_SIZE does not, and no client reconnects to a backend that      *)
(* recycles: after a crash, adopted survivors come on top of a new pool.   *)
(***************************************************************************)
THEOREM Bounded ==
  ASSUME SafeDeployment, MinSize <= MaxSize
  PROVE  Spec => []WithinMaxSize
<1>1. Init => TotalWithin
  <2> SUFFICES ASSUME Init PROVE TotalWithin
    OBVIOUS
  <2>1. Active = {} /\ Len(available) = 0 /\ MaxSize \in Nat
    BY PoolAssumption DEF Init, PoolInit, Active
  <2> QED
    BY <2>1, FS_EmptySet DEF TotalWithin, Total
<1>2. TypeOK /\ Bookkeeping /\ TotalWithin /\ [Next]_vars => TotalWithin'
  BY TotalStep
<1>3. TypeOK /\ TotalWithin => WithinMaxSize
  <2> SUFFICES ASSUME TypeOK, TotalWithin PROVE WithinMaxSize
    OBVIOUS
  <2>1. /\ IsFiniteSet(Active) /\ Cardinality(Active) \in Nat
        /\ Len(available) + Cardinality(Active) <= MaxSize
    BY FS_CardinalityType DEF TotalWithin, Total
  <2>2. /\ available \in Seq(Containers)
        /\ Len(available) \in Nat
        /\ MaxSize \in Nat
    BY PoolAssumption DEF TypeOK, PoolTypeOK
  <2>3. /\ IsFiniteSet(Pooled) /\ Cardinality(Pooled) <= Len(available)
        /\ Cardinality(Pooled) \in Nat
    BY <2>2, RangeFacts, FS_CardinalityType DEF Pooled
  <2>4. /\ IsFiniteSet(Tracked)
        /\ Cardinality(Tracked)
             = Cardinality(Active) + Cardinality(Pooled)
                 - Cardinality(Active \cap Pooled)
    BY <2>1, <2>3, FS_Union DEF Tracked
  <2>5. Cardinality(Active \cap Pooled) \in Nat
    BY <2>1, FS_Subset, FS_CardinalityType
  <2>6. /\ IsFiniteSet(Tracked \cap Exists)
        /\ Cardinality(Tracked \cap Exists) <= Cardinality(Tracked)
        /\ Cardinality(Tracked \cap Exists) \in Nat
        /\ Cardinality(Tracked) \in Nat
    BY <2>4, FS_Subset, FS_CardinalityType
  <2> QED
    BY <2>1, <2>2, <2>3, <2>4, <2>5, <2>6 DEF WithinMaxSize
<1> QED
  BY <1>1, <1>2, <1>3, BooksKept, PTL DEF Spec
=============================================================================
