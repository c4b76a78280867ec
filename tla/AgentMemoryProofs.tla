-------------------------- MODULE AgentMemoryProofs --------------------------
(***************************************************************************)
(* What module AgentMemory keeps, for any number of callers, memories and  *)
(* grants and whatever the bodies of requests say.                         *)
(*                                                                         *)
(* PrivateContent relates what is shown, which the scope of the row        *)
(* decides, to the scope the content was written for.  WantedScope says    *)
(* that the two are the same until a key is taken over; it is what the     *)
(* steps preserve.  Which steps may change a row, and how, is stated once, *)
(* in RowSteps, and every invariant is derived from that.                  *)
(***************************************************************************)
EXTENDS AgentMemory, FiniteSetTheorems, WellFoundedInduction, TLAPS

WantedScope == \A m \in Rows : memories[m].adopted \/ memories[m].wanted = memories[m].scope

Inv == TypeOK /\ KeysUnique /\ WantedScope

\* There is an order in which each row comes after its parent: that of the inserts.
Orders(rank) ==
    \A m \in Rows : memories[m].parent # None =>
        /\ memories[m].parent \in Rows
        /\ rank[memories[m].parent] < rank[m]

Ordered == \E rank \in [MemoryId -> Nat] : Orders(rank)
-----------------------------------------------------------------------------
\* No live memory of the workgroup has the key.
Free(wg, key) ==
    key # None => \A m \in Live : memories[m].workgroup = wg => memories[m].key # key

\* Row m is new, and its key was free.
Appears(m) ==
    /\ m \notin Rows
    /\ \E c \in Claims, body \in MemoryBodies, parent \in Rows \cup {None} :
        /\ Free(WgOf(c), body.key)
        /\ memories' = [memories EXCEPT ![m] =
            [agent |-> body.agent, workgroup |-> WgOf(c), type |-> body.type,
             scope |-> body.scope, key |-> body.key, importance |-> body.importance,
             parent |-> parent, expires |-> body.expires, deleted |-> FALSE,
             wanted |-> body.scope, adopted |-> FALSE]]

\* The live row m keeps what identifies it.
Changes(m) ==
    /\ m \in Live
    /\ \E importance \in Importance, wanted \in Scope, adopted \in BOOLEAN :
        /\ adopted \/ (wanted = memories[m].scope /\ adopted = memories[m].adopted)
        /\ memories' = [memories EXCEPT ![m].importance = importance, ![m].wanted = wanted,
                                        ![m].adopted = adopted]

\* Live rows are deleted.
Goes == \E gone \in SUBSET Live :
    memories' = [m \in MemoryId |-> IF m \in gone THEN Removed(m) ELSE memories[m]]

RowSteps ==
    \/ UNCHANGED memories
    \/ \E m \in MemoryId : Appears(m) \/ Changes(m)
    \/ Goes

LEMMA Updating ==
    ASSUME TypeOK, NEW c \in Claims, NEW m \in MemoryId, NEW importance \in Importance,
           UpdateMemory(c, m, importance)
    PROVE  Changes(m)
<1>1. m \in Live /\ memories[m] \in Memory
  BY DEF UpdateMemory, Live, Rows, TypeOK
<1>2. memories[m].scope \in Scope /\ memories[m].adopted \in BOOLEAN
  BY <1>1 DEF Memory
<1>3. memories' = [memories EXCEPT ![m].importance = importance,
                                   ![m].wanted = memories[m].scope,
                                   ![m].adopted = memories[m].adopted]
  BY <1>1 DEF UpdateMemory, Revised, TypeOK, Memory
<1> QED
  BY <1>1, <1>2, <1>3 DEF Changes

LEMMA Upserting ==
    ASSUME TypeOK, NEW c \in Claims, NEW body \in MemoryBodies, NEW parent \in Rows \cup {None},
           Upsert(c, body, parent)
    PROVE  \E m \in MemoryId : Changes(m)
<1>1. PICK m \in Keyed(WgOf(c), body.key) :
            memories' = [memories EXCEPT ![m].importance = body.importance,
                                         ![m].wanted = body.scope,
                                         ![m].adopted = TRUE]
  BY DEF Upsert
<1>2. m \in Live /\ m \in MemoryId
  BY DEF Keyed, Live, Rows
<1>3. body.importance \in Importance /\ body.scope \in Scope
  BY MemoryAssumption DEF Importance
<1> QED
  BY <1>1, <1>2, <1>3 DEF Changes

\* The lookup and, for blank keys, the index see to it.
LEMMA InsertedKeyFree ==
    ASSUME NEW c, NEW body, NEW parent, Insert(c, body, parent)
    PROVE  Free(WgOf(c), body.key)
<1>1. CASE body.key = None
  BY <1>1 DEF Free
<1>2. CASE body.key = Blank
  BY <1>2 DEF Free, Insert, IndexAdmits
<1>3. CASE body.key \notin {None, Blank}
  BY <1>3 DEF Free, Insert, Keyed
<1> QED
  BY <1>1, <1>2, <1>3

\* Every step does one of these to the rows, and keeps the other variables in order.
LEMMA Steps ==
    ASSUME TypeOK, [Next]_vars
    PROVE  /\ RowSteps
           /\ grants' \in [GrantId -> GrantBodies \cup {None}]
           /\ now' \in 1 .. MaxTime
           /\ ratings' \in 0 .. MaxRatings
<1> USE MemoryAssumption DEF TypeOK
<1> DEFINE Goal == /\ RowSteps
                   /\ grants' \in [GrantId -> GrantBodies \cup {None}]
                   /\ now' \in 1 .. MaxTime
                   /\ ratings' \in 0 .. MaxRatings
<1>1. ASSUME NEW c \in Claims, NEW body \in MemoryBodies, NEW parent \in Rows \cup {None},
             CreateMemory(c, body, parent)
      PROVE  Goal
  <2>1. CASE Upsert(c, body, parent)
    BY <1>1, <2>1, Upserting DEF CreateMemory, RowSteps
  <2>2. CASE Insert(c, body, parent)
    <3>1. Free(WgOf(c), body.key)
      BY <2>2, InsertedKeyFree
    <3>2. \E m \in MemoryId : Appears(m)
      BY <2>2, <3>1 DEF Insert, Appears
    <3> QED
      BY <1>1, <3>2 DEF CreateMemory, RowSteps
  <2> QED
    BY <1>1, <2>1, <2>2 DEF CreateMemory
<1>2. ASSUME NEW c \in Claims, NEW m \in MemoryId, NEW importance \in Importance,
             UpdateMemory(c, m, importance)
      PROVE  Goal
  BY <1>2, Updating DEF UpdateMemory, RowSteps
<1>3. ASSUME NEW c \in Claims, NEW m \in MemoryId, DeleteMemory(c, m)
      PROVE  Goal
  <2>1. memories' = [n \in MemoryId |-> IF n \in {m} THEN Removed(n) ELSE memories[n]]
    BY <1>3 DEF DeleteMemory
  <2>2. {m} \in SUBSET Live
    BY <1>3 DEF DeleteMemory
  <2> QED
    BY <1>3, <2>1, <2>2 DEF DeleteMemory, RowSteps, Goes
<1>4. ASSUME NEW c \in Claims, NEW g \in GrantId, RevokeGrant(c, g)
      PROVE  Goal
  BY <1>4 DEF RevokeGrant, RowSteps
<1>5. ASSUME NEW c \in Claims, NEW g \in GrantId, NEW body \in GrantBodies,
             CreateGrant(c, g, body)
      PROVE  Goal
  BY <1>5 DEF CreateGrant, InsertGrant, RowSteps
<1>6. ASSUME NEW m \in MemoryId, NEW reward \in {-100, 100}, Feedback(m, reward)
      PROVE  Goal
  BY <1>6 DEF Feedback, RowSteps
<1>7. CASE Cleanup
  <2>1. Expired \in SUBSET Live
    BY DEF Expired
  <2> QED
    BY <1>7, <2>1 DEF Cleanup, RowSteps, Goes
<1>8. ASSUME NEW unused \in SUBSET MemoryId, Decay(unused)
      PROVE  Goal
  BY <1>8 DEF Decay, RowSteps
<1>9. CASE Tick
  BY <1>9 DEF Tick, RowSteps
<1>10. CASE UNCHANGED vars
  BY <1>10 DEF vars, RowSteps
<1> QED
  BY <1>1, <1>2, <1>3, <1>4, <1>5, <1>6, <1>7, <1>8, <1>9, <1>10 DEF Next
-----------------------------------------------------------------------------
\* A utility stays between 0.1 and 0.9, whatever the reward.
LEMMA UtilityBounds ==
    \A u, reward \in Int : Learned(u, reward) \in 10 .. 90
BY DEF Learned, Clamp

\* Nor does decay take it out of them.
LEMMA UtilityDecayBounds ==
    \A u \in Int : Decayed(u) \in 10 .. 90
BY DEF Decayed, Clamp

LEMMA UtilityStep ==
    ASSUME TypeOK, [Next]_vars
    PROVE  utility' \in [MemoryId -> 10 .. 90]
<1>1. ASSUME NEW m \in MemoryId, NEW reward \in {-100, 100}, Feedback(m, reward)
      PROVE  utility' \in [MemoryId -> 10 .. 90]
  <2>1. utility[m] \in Int /\ reward \in Int
    <3>1. utility \in [MemoryId -> 10 .. 90]
      BY Zenon DEF TypeOK
    <3> QED
      BY <3>1
  <2>2. Learned(utility[m], reward) \in 10 .. 90
    BY <2>1, UtilityBounds
  <2> QED
    BY <1>1, <2>2 DEF Feedback, TypeOK
<1>2. ASSUME NEW unused \in SUBSET MemoryId, Decay(unused)
      PROVE  utility' \in [MemoryId -> 10 .. 90]
  <2>1. \A m \in MemoryId : utility[m] \in Int
    <3>1. utility \in [MemoryId -> 10 .. 90]
      BY Zenon DEF TypeOK
    <3> QED
      BY <3>1
  <2>2. \A m \in MemoryId : Decayed(utility[m]) \in 10 .. 90
    BY <2>1, UtilityDecayBounds
  <2> QED
    BY <1>2, <2>2 DEF Decay, TypeOK
<1>3. CASE UNCHANGED utility
  BY <1>3 DEF TypeOK
<1> QED
  BY <1>1, <1>2, <1>3 DEF Next, CreateMemory, UpdateMemory, DeleteMemory, RevokeGrant,
     CreateGrant, Cleanup, Tick, vars
-----------------------------------------------------------------------------
\* The shape of rows, and of them as identified, after each kind of step.
LEMMA Appearing ==
    ASSUME TypeOK, NEW m \in MemoryId, Appears(m)
    PROVE  /\ memories' \in [MemoryId -> Memory \cup {None}]
           /\ \A n \in MemoryId \ {m} : memories'[n] = memories[n]
           /\ memories'[m] \in Memory
           /\ ~memories'[m].adopted /\ memories'[m].wanted = memories'[m].scope
           /\ ~memories'[m].deleted
           /\ memories'[m].parent \in Rows \cup {None}
           /\ Free(memories'[m].workgroup, memories'[m].key)
<1>1. PICK c \in Claims, body \in MemoryBodies, parent \in Rows \cup {None} :
        /\ Free(WgOf(c), body.key)
        /\ memories' = [memories EXCEPT ![m] =
            [agent |-> body.agent, workgroup |-> WgOf(c), type |-> body.type,
             scope |-> body.scope, key |-> body.key, importance |-> body.importance,
             parent |-> parent, expires |-> body.expires, deleted |-> FALSE,
             wanted |-> body.scope, adopted |-> FALSE]]
  BY DEF Appears
<1>2. parent \in MemoryId \cup {None}
  BY DEF Rows
<1>3. body.scope \in Scope /\ body.expires \in 0 .. MaxTime
  BY MemoryAssumption
<1>4. [agent |-> body.agent, workgroup |-> WgOf(c), type |-> body.type,
       scope |-> body.scope, key |-> body.key, importance |-> body.importance,
       parent |-> parent, expires |-> body.expires, deleted |-> FALSE,
       wanted |-> body.scope, adopted |-> FALSE] \in Memory
  BY <1>2, <1>3 DEF Memory, Importance
<1> QED
  BY <1>1, <1>4 DEF TypeOK

LEMMA Changing ==
    ASSUME TypeOK, NEW m \in MemoryId, Changes(m)
    PROVE  /\ memories' \in [MemoryId -> Memory \cup {None}]
           /\ \A n \in MemoryId \ {m} : memories'[n] = memories[n]
           /\ memories[m] \in Memory /\ memories'[m] \in Memory
           /\ \/ memories'[m].adopted
              \/ /\ memories'[m].wanted = memories'[m].scope
                 /\ ~memories[m].adopted
           /\ memories'[m].deleted = memories[m].deleted
           /\ memories'[m].key = memories[m].key
           /\ memories'[m].workgroup = memories[m].workgroup
           /\ memories'[m].parent = memories[m].parent
<1>1. PICK importance \in Importance, wanted \in Scope, adopted \in BOOLEAN :
        /\ adopted \/ (wanted = memories[m].scope /\ adopted = memories[m].adopted)
        /\ memories' = [memories EXCEPT ![m].importance = importance, ![m].wanted = wanted,
                                        ![m].adopted = adopted]
  BY DEF Changes
<1>2. memories[m] \in Memory
  BY DEF Changes, Live, Rows, TypeOK
<1>3. memories'[m] = [memories[m] EXCEPT !.importance = importance, !.wanted = wanted,
                                         !.adopted = adopted]
  BY <1>1, <1>2 DEF TypeOK
<1>4. memories'[m] \in Memory
  BY <1>2, <1>3 DEF Memory
<1>5. \A n \in MemoryId \ {m} : memories'[n] = memories[n]
  BY <1>1 DEF TypeOK
<1>6. /\ memories'[m].adopted = adopted /\ memories'[m].wanted = wanted
      /\ memories'[m].scope = memories[m].scope
      /\ memories'[m].deleted = memories[m].deleted
      /\ memories'[m].key = memories[m].key
      /\ memories'[m].workgroup = memories[m].workgroup
      /\ memories'[m].parent = memories[m].parent
  BY <1>2, <1>3 DEF Memory
<1>7. memories' \in [MemoryId -> Memory \cup {None}]
  BY <1>1, <1>4, <1>5 DEF TypeOK
<1> QED
  BY <1>1, <1>2, <1>4, <1>5, <1>6, <1>7

LEMMA Going ==
    ASSUME TypeOK, NEW gone \in SUBSET Live,
           memories' = [m \in MemoryId |-> IF m \in gone THEN Removed(m) ELSE memories[m]]
    PROVE  /\ memories' \in [MemoryId -> Memory \cup {None}]
           /\ \A m \in MemoryId \ gone : memories'[m] = memories[m]
           /\ \A m \in gone :
                /\ memories[m] \in Memory /\ memories'[m] \in Memory
                /\ memories'[m].deleted
                /\ memories'[m].adopted = memories[m].adopted
                /\ memories'[m].wanted = memories[m].wanted
                /\ memories'[m].scope = memories[m].scope
                /\ memories'[m].parent = memories[m].parent
<1>1. \A m \in gone : m \in MemoryId /\ memories[m] \in Memory
  BY DEF Live, Rows, TypeOK
<1>2. \A m \in gone :
        /\ Removed(m) \in Memory
        /\ Removed(m).deleted
        /\ Removed(m).adopted = memories[m].adopted
        /\ Removed(m).wanted = memories[m].wanted
        /\ Removed(m).scope = memories[m].scope
        /\ Removed(m).parent = memories[m].parent
  BY <1>1 DEF Removed, Memory
<1> QED
  BY <1>1, <1>2 DEF TypeOK

\* What all kinds of steps have in common.
LEMMA RowsStep ==
    ASSUME Inv, RowSteps
    PROVE  /\ memories' \in [MemoryId -> Memory \cup {None}]
           /\ KeysUnique'
           /\ WantedScope'
           /\ \A m \in Rows : memories[m].deleted => memories'[m] = memories[m]
<1> USE MemoryAssumption DEF Inv
<1>1. ASSUME NEW m \in MemoryId, Appears(m)
      PROVE  /\ KeysUnique' /\ WantedScope'
             /\ \A n \in Rows : memories'[n] = memories[n]
  <2>1. Rows' = Rows \cup {m} /\ Live' = Live \cup {m} /\ m \notin Rows
    <3>1. m \notin Rows /\ memories'[m] # None /\ ~memories'[m].deleted
      BY <1>1, Appearing DEF Appears
    <3>2. \A n \in MemoryId \ {m} : memories'[n] = memories[n]
      BY <1>1, Appearing
    <3>3. Rows' = Rows \cup {m}
      BY <3>1, <3>2 DEF Rows
    <3>4. \A n \in MemoryId : n \in Live' <=> n \in Live \cup {m}
      BY <3>1, <3>2, <3>3 DEF Live
    <3> QED
      BY <3>1, <3>3, <3>4 DEF Live, Rows
  <2>2. \A n \in Live : n # m /\ memories'[n] = memories[n]
    BY <1>1, <2>1, Appearing DEF Live, Rows
  <2>3. \A n \in Live : memories[n].key # None /\ memories[n].workgroup = memories'[m].workgroup
                          => memories[n].key # memories'[m].key
    BY <1>1, Appearing DEF Free
  <2>4. KeysUnique'
    BY <2>1, <2>2, <2>3 DEF KeysUnique
  <2>5. WantedScope'
    BY <1>1, <2>1, Appearing DEF WantedScope, Rows
  <2> QED
    BY <1>1, <2>1, <2>4, <2>5, Appearing DEF Rows
<1>2. ASSUME NEW m \in MemoryId, Changes(m)
      PROVE  /\ KeysUnique' /\ WantedScope'
             /\ \A n \in Rows : memories[n].deleted => memories'[n] = memories[n]
  <2>1. m \in Live /\ m \in Rows /\ ~memories[m].deleted
    BY <1>2 DEF Changes, Live
  <2>2. Rows' = Rows
    BY <1>2, <2>1, Changing DEF Rows
  <2>3. Live' = Live
    BY <1>2, <2>1, <2>2, Changing DEF Live, Rows
  <2>4. \A n \in Live : /\ memories'[n].key = memories[n].key
                        /\ memories'[n].workgroup = memories[n].workgroup
    BY <1>2, Changing DEF Live, Rows
  <2>5. KeysUnique'
    BY <2>3, <2>4 DEF KeysUnique
  <2>6. WantedScope'
    BY <1>2, <2>2, Changing DEF WantedScope, Rows
  <2> QED
    BY <1>2, <2>1, <2>5, <2>6, Changing DEF Rows
<1>3. ASSUME NEW gone \in SUBSET Live,
             memories' = [m \in MemoryId |-> IF m \in gone THEN Removed(m) ELSE memories[m]]
      PROVE  /\ KeysUnique' /\ WantedScope'
             /\ \A n \in Rows : memories[n].deleted => memories'[n] = memories[n]
  <2>1. Rows' = Rows /\ Live' = Live \ gone
    <3>1. \A n \in MemoryId \ gone : memories'[n] = memories[n]
      BY <1>3, Going
    <3>2. \A n \in gone : memories'[n] # None /\ memories'[n].deleted
      BY <1>3, Going
    <3>3. gone \subseteq Live /\ gone \subseteq Rows
      BY DEF Live
    <3>4. Rows' = Rows
      BY <3>1, <3>2, <3>3 DEF Rows
    <3>5. \A n \in Rows : n \in Live' <=> n \in Live \ gone
      BY <3>1, <3>2, <3>4 DEF Live, Rows
    <3> QED
      BY <3>4, <3>5 DEF Live
  <2>2. \A n \in Rows \ gone : memories'[n] = memories[n]
    BY <1>3, Going DEF Rows
  <2>3. KeysUnique'
    BY <2>1, <2>2 DEF KeysUnique, Live
  <2>4. WantedScope'
    <3>1. \A n \in gone : /\ memories'[n].adopted = memories[n].adopted
                          /\ memories'[n].wanted = memories[n].wanted
                          /\ memories'[n].scope = memories[n].scope
      BY <1>3, Going
    <3> QED
      BY <2>1, <2>2, <3>1 DEF WantedScope
  <2> QED
    BY <2>2, <2>3, <2>4 DEF Live
<1>4. CASE UNCHANGED memories
  BY <1>4 DEF KeysUnique, WantedScope, Live, Rows, TypeOK
<1>5. memories' \in [MemoryId -> Memory \cup {None}]
  BY Appearing, Changing, Going DEF RowSteps, Goes, TypeOK
<1> QED
  BY <1>1, <1>2, <1>3, <1>4, <1>5 DEF RowSteps, Goes
-----------------------------------------------------------------------------
\* A row is inserted with a parent that is there and never gets another.
LEMMA OrderStep ==
    ASSUME TypeOK, Ordered, RowSteps
    PROVE  Ordered'
<1> USE MemoryAssumption
<1>1. PICK rank \in [MemoryId -> Nat] : Orders(rank)
  BY DEF Ordered
<1>2. ASSUME NEW m \in MemoryId, Appears(m)
      PROVE  Ordered'
  <2>1. m \notin Rows /\ Rows' = Rows \cup {m}
        /\ memories'[m].parent \in Rows \cup {None}
        /\ \A n \in Rows : n # m /\ memories'[n] = memories[n]
    <3>1. m \notin Rows /\ memories'[m] # None
      BY <1>2, Appearing DEF Appears
    <3>2. \A n \in MemoryId \ {m} : memories'[n] = memories[n]
      BY <1>2, Appearing
    <3>3. memories'[m].parent \in Rows \cup {None}
      BY <1>2, Appearing
    <3> QED
      BY <3>1, <3>2, <3>3 DEF Rows
  <2>2. PICK above \in Nat :
            memories'[m].parent # None => above = rank[memories'[m].parent] + 1
    <3>1. CASE memories'[m].parent = None
      <4>1. 0 \in Nat
        OBVIOUS
      <4> QED
        BY <3>1, <4>1
    <3>2. CASE memories'[m].parent # None
      <4>1. memories'[m].parent \in MemoryId
        BY <2>1, <3>2 DEF Rows
      <4>2. rank[memories'[m].parent] + 1 \in Nat
        BY <4>1
      <4> QED
        BY <4>2
    <3> QED
      BY <3>1, <3>2
  <2>3. PICK longer \in [MemoryId -> Nat] :
            longer[m] = above /\ \A n \in Rows : longer[n] = rank[n]
    <3> DEFINE longer == [rank EXCEPT ![m] = above]
    <3>1. longer \in [MemoryId -> Nat]
      OBVIOUS
    <3>2. longer[m] = above /\ \A n \in Rows : longer[n] = rank[n]
      BY <2>1 DEF Rows
    <3> HIDE DEF longer
    <3> QED
      BY <3>1, <3>2
  <2>4. memories'[m].parent # None =>
            memories'[m].parent \in Rows /\ longer[memories'[m].parent] < longer[m]
    BY <2>1, <2>2, <2>3 DEF Rows
  <2>5. \A n \in Rows : memories'[n].parent # None =>
            memories'[n].parent \in Rows /\ longer[memories'[n].parent] < longer[n]
    BY <1>1, <2>1, <2>3 DEF Orders
  <2>6. \A n \in Rows' : memories'[n].parent # None =>
            memories'[n].parent \in Rows' /\ longer[memories'[n].parent] < longer[n]
    BY <2>1, <2>4, <2>5
  <2> QED
    BY <2>6 DEF Ordered, Orders
<1>3. ASSUME Rows' = Rows, \A m \in Rows : memories'[m].parent = memories[m].parent
      PROVE  Ordered'
  BY <1>1, <1>3 DEF Ordered, Orders
<1>4. ASSUME NEW m \in MemoryId, Changes(m)
      PROVE  Ordered'
  <2>1. /\ \A n \in MemoryId \ {m} : memories'[n] = memories[n]
        /\ memories'[m] # None /\ memories'[m].parent = memories[m].parent
    BY <1>4, Changing
  <2>2. m \in Rows
    BY <1>4 DEF Changes, Live
  <2> QED
    BY <1>3, <2>1, <2>2 DEF Rows
<1>5. ASSUME NEW gone \in SUBSET Live,
             memories' = [m \in MemoryId |-> IF m \in gone THEN Removed(m) ELSE memories[m]]
      PROVE  Ordered'
  <2>1. \A m \in MemoryId \ gone : memories'[m] = memories[m]
    BY <1>5, Going
  <2>2. \A m \in gone : /\ m \in Rows /\ memories'[m] # None
                        /\ memories'[m].parent = memories[m].parent
    BY <1>5, Going DEF Live
  <2> QED
    BY <1>3, <2>1, <2>2 DEF Rows
<1>6. CASE UNCHANGED memories
  BY <1>3, <1>6 DEF Rows
<1> QED
  BY <1>2, <1>4, <1>5, <1>6 DEF RowSteps, Goes
-----------------------------------------------------------------------------
\* Where a set of numbers begins.
LEMMA Least ==
    ASSUME NEW S \in SUBSET Nat, S # {}
    PROVE  \E m \in S : \A k \in S : m <= k
<1> DEFINE R == {p \in Nat \X Nat : p[1] < p[2]}
<1>1. IsWellFoundedOn(R, Nat)
  <2>1. R = OpToRel(<, Nat)
    BY DEF OpToRel
  <2> QED
    BY <2>1, NatLessThanWellFounded
<1>2. PICK m \in S : \A k \in S : ~(<<k, m>> \in R)
  <2> HIDE DEF R
  <2> QED
    BY <1>1, WFMin
<1>3. ASSUME NEW k \in S, k < m
      PROVE  FALSE
  <2>1. k \in Nat /\ m \in Nat
    OBVIOUS
  <2>2. <<k, m>> \in R
    BY <1>3, <2>1
  <2> HIDE DEF R
  <2> QED
    BY <1>2, <2>2
<1> HIDE DEF R
<1>4. \A k \in S : m <= k
  BY <1>3
<1> QED
  BY <1>4

Parent(p) == IF p \notin Rows THEN None ELSE memories[p].parent

\* The definition of a walk defines one, of every length: that of the next length
\* goes on where the last one ends.
LEMMA WalksExist ==
    ASSUME NEW p, NEW depth \in Nat
    PROVE  \E up : up = [n \in 0 .. depth |-> IF n = 0 THEN p ELSE Parent(up[n - 1])]
<1> DEFINE Walk(up, d) == up = [n \in 0 .. d |-> IF n = 0 THEN p ELSE Parent(up[n - 1])]
           Short == {d \in Nat : ~ \E up : Walk(up, d)}
<1>1. ASSUME Short # {}
      PROVE  FALSE
  <2>1. PICK m \in Short : \A k \in Short : m <= k
    BY <1>1, Least
  <2>2. m \in Nat /\ ~ \E up : Walk(up, m)
    OBVIOUS
  <2>3. CASE m = 0
    <3> DEFINE up == [n \in 0 .. 0 |-> p]
    <3>1. Walk(up, 0)
      OBVIOUS
    <3> QED
      BY <2>2, <2>3, <3>1
  <2>4. CASE m # 0
    <3>1. m - 1 \in Nat /\ m - 1 \notin Short
      BY <2>1, <2>2, <2>4
    <3>2. PICK up : Walk(up, m - 1)
      BY <3>1
    <3> DEFINE further == [n \in 0 .. m |-> IF n = 0 THEN p ELSE Parent(up[n - 1])]
    <3>3. \A n \in 0 .. m - 1 : further[n] = up[n]
      BY <2>2, <2>4, <3>2
    <3>4. \A n \in 0 .. m : n # 0 => n - 1 \in 0 .. m - 1
      BY <2>2
    <3>5. \A n \in 0 .. m : (IF n = 0 THEN p ELSE Parent(up[n - 1]))
                            = (IF n = 0 THEN p ELSE Parent(further[n - 1]))
      BY <3>3, <3>4
    <3>6. Walk(further, m)
      BY <3>5
    <3> QED
      BY <2>2, <3>6
  <2> QED
    BY <2>3, <2>4
<1>2. depth \notin Short
  BY <1>1
<1> QED
  BY <1>2

\* Hence check_causal_cycle takes these steps.
LEMMA WalkSteps ==
    ASSUME NEW p
    PROVE  LET Depth == Cardinality(MemoryId) + 1
               up == Ancestors(p)
           IN  /\ Depth \in Nat
               /\ DOMAIN up = 0 .. Depth
               /\ up[0] = p
               /\ \A n \in 1 .. Depth : up[n] = Parent(up[n - 1])
<1> DEFINE Depth == Cardinality(MemoryId) + 1
           up == Ancestors(p)
<1>1. Depth \in Nat
  BY FiniteMemories, FS_CardinalityType
<1>2. \E walk : walk = [n \in 0 .. Depth |-> IF n = 0 THEN p ELSE Parent(walk[n - 1])]
  BY <1>1, WalksExist
<1>3. up = [n \in 0 .. Depth |-> IF n = 0 THEN p ELSE Parent(up[n - 1])]
  BY <1>2 DEF Ancestors, Parent
<1> HIDE DEF Depth, up
<1>4. DOMAIN up = 0 .. Depth /\ up[0] = p /\ \A n \in 1 .. Depth : up[n] = Parent(up[n - 1])
  BY <1>1, <1>3
<1> QED
  BY <1>1, <1>4 DEF Depth, up

\* Up the walk rows come ever earlier in the order, so it does not meet itself.
LEMMA OrderedIsAcyclic ==
    ASSUME Ordered
    PROVE  CausesAcyclic
<1> SUFFICES ASSUME NEW m \in Rows PROVE ~CausalCycle(m)
  BY DEF CausesAcyclic
<1>1. PICK rank \in [MemoryId -> Nat] : Orders(rank)
  BY DEF Ordered
<1> DEFINE up == Ancestors(m)
<1>2. PICK depth \in Nat :
        /\ DOMAIN up = 0 .. depth
        /\ up[0] = m
        /\ \A n \in 1 .. depth : up[n] = Parent(up[n - 1])
  BY WalkSteps
<1> HIDE DEF up
<1>3. ASSUME NEW n \in 1 .. depth, up[n] # None
      PROVE  up[n] \in Rows /\ up[n - 1] \in Rows /\ rank[up[n]] < rank[up[n - 1]]
  <2>1. up[n] = Parent(up[n - 1])
    BY <1>2
  <2>2. up[n - 1] \in Rows /\ up[n] = memories[up[n - 1]].parent
    BY <1>3, <2>1 DEF Parent
  <2> QED
    BY <1>1, <1>3, <2>2 DEF Orders
<1>4. ASSUME NEW n \in 0 .. depth, up[n] # None
      PROVE  up[n] \in Rows /\ rank[up[n]] \in Nat
  <2>1. CASE n = 0
    BY <1>1, <1>2, <2>1 DEF Rows
  <2>2. CASE n # 0
    <3>1. n \in 1 .. depth
      BY <2>2
    <3> QED
      BY <1>1, <1>3, <1>4, <3>1 DEF Rows
  <2> QED
    BY <2>1, <2>2
<1>5. ASSUME NEW i \in 0 .. depth, up[i] # None
      PROVE  \A j \in 0 .. depth : i < j /\ up[j] # None => rank[up[j]] < rank[up[i]]
  <2> DEFINE Wrong == {j \in 0 .. depth : i < j /\ up[j] # None /\ ~(rank[up[j]] < rank[up[i]])}
  <2>1. ASSUME Wrong # {}
        PROVE  FALSE
    <3>1. Wrong \in SUBSET Nat
      OBVIOUS
    <3>2. PICK j \in Wrong : \A k \in Wrong : j <= k
      BY <2>1, <3>1, Least
    <3>3. /\ j \in 1 .. depth /\ j - 1 \in 0 .. depth
          /\ up[j] # None /\ ~(rank[up[j]] < rank[up[i]])
          /\ i = j - 1 \/ i < j - 1
      OBVIOUS
    <3>4. up[j - 1] \in Rows /\ rank[up[j]] < rank[up[j - 1]]
      BY <1>3, <3>3
    <3>5. i < j - 1
      BY <3>3, <3>4
    <3>6. j - 1 \notin Wrong /\ up[j - 1] # None
      BY <3>2, <3>3, <3>4, MemoryAssumption DEF Rows
    <3>7. rank[up[j - 1]] < rank[up[i]]
      BY <3>3, <3>5, <3>6
    <3>8. rank[up[i]] \in Nat /\ rank[up[j]] \in Nat /\ rank[up[j - 1]] \in Nat
      BY <1>4, <1>5, <3>3, <3>6
    <3> QED
      BY <3>3, <3>4, <3>7, <3>8
  <2> QED
    BY <2>1
<1>6. SUFFICES ASSUME CausalCycle(m) PROVE FALSE
  OBVIOUS
<1>7. PICK i \in 0 .. depth, j \in 0 .. depth : i < j /\ up[i] = up[j] /\ up[i] # None
  BY <1>2, <1>6 DEF CausalCycle, up
<1>8. rank[up[j]] < rank[up[i]]
  BY <1>5, <1>7
<1>9. rank[up[i]] \in Nat
  BY <1>4, <1>7
<1> QED
  BY <1>7, <1>8, <1>9
-----------------------------------------------------------------------------
LEMMA Initially == Init => Inv
<1> SUFFICES ASSUME Init PROVE Inv
  OBVIOUS
<1>1. TypeOK
  BY MemoryAssumption DEF Init, TypeOK
<1>2. Rows = {}
  BY DEF Init, Rows
<1> QED
  BY <1>1, <1>2 DEF Inv, KeysUnique, WantedScope, Live

LEMMA Invariance == Spec => []Inv
<1>1. Inv /\ [Next]_vars => Inv'
  BY Steps, RowsStep, UtilityStep DEF Inv, TypeOK
<1> QED
  BY Initially, <1>1, PTL DEF Spec

\* Rows, utilities and grants keep their types; a utility its bounds.
THEOREM TypeCorrect == Spec => []TypeOK
<1>1. Inv => TypeOK
  BY DEF Inv
<1> QED
  BY Invariance, <1>1, PTL

\* create_memory keeps keys unique among the live memories of a workgroup: all but
\* the blank ones by its lookup, without a refusal of the unique index.
THEOREM KeysStayUnique == Spec => []KeysUnique
<1>1. Inv => KeysUnique
  BY DEF Inv
<1> QED
  BY Invariance, <1>1, PTL

\* No memory is among its own ancestors, for any number of memories: only an insert
\* sets a parent, and only ids that have been drawn can be named (create_memory).
THEOREM CausesStayAcyclic == Spec => []CausesAcyclic
<1>1. Init => Ordered
  <2> SUFFICES ASSUME Init PROVE Ordered
    OBVIOUS
  <2>1. Rows = {}
    BY DEF Init, Rows
  <2>2. [m \in MemoryId |-> 0] \in [MemoryId -> Nat]
    OBVIOUS
  <2> QED
    BY <2>1, <2>2 DEF Ordered, Orders
<1>2. Inv /\ Ordered /\ [Next]_vars => Ordered'
  BY Steps, OrderStep DEF Inv
<1>3. Ordered => CausesAcyclic
  BY OrderedIsAcyclic
<1> QED
  BY Invariance, <1>1, <1>2, <1>3, PTL DEF Spec

\* Neither can_access_memory nor search_memories shows private content to another
\* agent, unless it was written under a key that was taken.
THEOREM PrivateStaysPrivate == Spec => []PrivateContent
<1>1. Inv => PrivateContent
  <2> SUFFICES ASSUME Inv, NEW c \in Claims, NEW m \in Readable(c) \cup Found(c, None),
                      memories[m].wanted = "private", ~memories[m].adopted
               PROVE  WgOf(c) = memories[m].workgroup /\ AgentOf(c) = memories[m].agent
    BY DEF PrivateContent
  <2>1. m \in Rows /\ memories[m].scope = "private"
    BY DEF Inv, WantedScope, Readable, Found, Live
  <2>2. CASE m \in Readable(c)
    BY <2>1, <2>2 DEF Readable, CanAccess, Admits
  <2>3. CASE m \in Found(c, None)
    BY <2>1, <2>3 DEF Found, Admits
  <2> QED
    BY <2>2, <2>3
<1> QED
  BY Invariance, <1>1, PTL

\* What can_access_memory shows, search_memories finds: in every state, whatever
\* the grants.
THEOREM SearchCoversAccess == Spec => []ReadableIsFound
<1>1. ReadableIsFound
  <2> SUFFICES ASSUME NEW c \in Claims, NEW m \in Readable(c), ~Hidden(m)
               PROVE  m \in Found(c, None)
    BY DEF ReadableIsFound
  <2>1. CASE memories[m].workgroup = WgOf(c)
    BY <2>1 DEF Readable, CanAccess, Found, Matches
  <2>2. CASE memories[m].workgroup # WgOf(c)
    <3>1. PICK g \in Accessible(c) : Admits(g, m)
      BY <2>2 DEF Readable, CanAccess
    <3>2. Matches(m, GrantedType(g, None))
      BY <3>1 DEF Admits, Matches, GrantedType
    <3> QED
      BY <3>1, <3>2 DEF Found, Readable
  <2> QED
    BY <2>1, <2>2
<1> QED
  BY <1>1, PTL

\* Nothing writes to a deleted row (soft_delete_memory), nor to its utility.
THEOREM DeletedStays == Spec => DeletedIsFinal
<1>1. Inv /\ [Next]_vars =>
        [\A m \in Rows : memories[m].deleted =>
            memories'[m] = memories[m] /\ utility'[m] = utility[m]]_vars
  <2> SUFFICES ASSUME Inv, Next, NEW m \in Rows, memories[m].deleted
               PROVE  memories'[m] = memories[m] /\ utility'[m] = utility[m]
    BY DEF vars
  <2>1. memories'[m] = memories[m]
    BY Steps, RowsStep DEF Inv
  <2>2. m \in MemoryId /\ m \notin Live
    BY DEF Rows, Live
  <2>3. utility'[m] = utility[m]
    BY <2>2 DEF Inv, TypeOK, Next, CreateMemory, UpdateMemory, DeleteMemory, RevokeGrant,
       CreateGrant, Feedback, Cleanup, Decay, Tick
  <2> QED
    BY <2>1, <2>3
<1> QED
  BY Invariance, <1>1, PTL DEF Spec, DeletedIsFinal

\* MemoryCleanupTask deletes only what searches do not show any more.
THEOREM CleanupIsLate == Spec => CleanupTakesTheHidden
<1>1. Inv /\ [Next]_vars =>
        [Cleanup => \A m \in Live : memories'[m].deleted => Hidden(m)]_vars
  <2> SUFFICES ASSUME Inv, Cleanup, NEW m \in Live, memories'[m].deleted
               PROVE  Hidden(m)
    OBVIOUS
  <2>1. m \in MemoryId /\ ~memories[m].deleted /\ memories[m] \in Memory
    BY DEF Live, Rows, Inv, TypeOK
  <2>2. m \in Expired
    BY <2>1 DEF Cleanup, Inv, TypeOK
  <2>3. memories[m].expires \in Int /\ now \in Int
    BY <2>1 DEF Memory, Inv, TypeOK
  <2> QED
    BY <2>2, <2>3 DEF Expired, Hidden
<1> QED
  BY Invariance, <1>1, PTL DEF Spec, CleanupTakesTheHidden
=============================================================================
