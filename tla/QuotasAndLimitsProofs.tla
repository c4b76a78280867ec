------------------------ MODULE QuotasAndLimitsProofs ------------------------
(***************************************************************************)
(* Proofs about what is counted so that there is not too much of it.       *)
(*                                                                         *)
(* The workgroups' quota, for every finite set of sessions, every set of   *)
(* workgroups and namespaces, and all quotas.  The counter of a workgroup  *)
(* is compared with the entries charged to it together with its live       *)
(* sessions (Owed), because only entries are discharged and a session may  *)
(* live without one.  Facts about what has not happened yet carry the      *)
(* induction (Untouched): a session that was never opened has no entry and *)
(* no workgroup; and no session and no entry names a workgroup that was    *)
(* never created, so that it may start counting at zero.                   *)
(*                                                                         *)
(* The sliding windows, for any of them, every limit and every length.     *)
(* What is recent has a row that is recent, or none, because a row is      *)
(* written after what it records (RowsFollow).                             *)
(*                                                                         *)
(* The lockout, for every threshold and lifetime and any number of logins  *)
(* under way.  Failures are counted, but for the late ones of a lock       *)
(* before; and what fails while a lock lasts was let through before it     *)
(* (LockoutInv).                                                           *)
(***************************************************************************)
EXTENDS WorkgroupQuota, Limits, Lockout, FiniteSetTheorems, TLAPS

Untouched ==
    \A s \in SessionId :
        /\ sessionWorkgroups[s] # NoWg =>
              phase[s] # "COLD" /\ workgroups[sessionWorkgroups[s]] # "NONE"
        /\ sessionWg[s] # DefaultWg =>
              phase[s] # "COLD" /\ workgroups[sessionWg[s]] # "NONE"

Inv == TypeOK /\ Untouched /\ EntriesMatchSessions /\ CounterCoversEntries
-----------------------------------------------------------------------------
LEMMA Counting ==
    ASSUME NEW S \in SUBSET SessionId
    PROVE  IsFiniteSet(S) /\ Cardinality(S) \in Nat
BY QuotaAssumption, FS_Subset, FS_CardinalityType

LEMMA CountingSubsets ==
    ASSUME NEW T \in SUBSET SessionId, NEW S \in SUBSET T
    PROVE  Cardinality(S) <= Cardinality(T)
BY Counting, FS_Subset

LEMMA CountingOneMore ==
    ASSUME NEW S \in SUBSET SessionId, NEW s \in SessionId, s \notin S
    PROVE  Cardinality(S \cup {s}) = Cardinality(S) + 1
BY Counting, FS_AddElement

LEMMA CountingOneLess ==
    ASSUME NEW S \in SUBSET SessionId, NEW s \in S
    PROVE  Cardinality(S \ {s}) = Cardinality(S) - 1
BY Counting, FS_RemoveElement

LEMMA CountingAtMostOneMore ==
    ASSUME NEW T \in SUBSET SessionId, NEW s \in SessionId,
           NEW S \in SUBSET (T \cup {s})
    PROVE  Cardinality(S) <= Cardinality(T) + 1
<1>1. Cardinality(T \cup {s}) <= Cardinality(T) + 1
  <2>1. CASE s \in T
    <3>1. T \cup {s} = T
      BY <2>1
    <3> QED
      BY <3>1, Counting
  <2>2. CASE s \notin T
    BY <2>2, CountingOneMore, Counting
  <2> QED
    BY <2>1, <2>2
<1>2. T \cup {s} \in SUBSET SessionId /\ S \in SUBSET SessionId
  OBVIOUS
<1>3. Cardinality(S) <= Cardinality(T \cup {s})
  BY <1>2, CountingSubsets
<1>4. Cardinality(S) \in Nat /\ Cardinality(T) \in Nat /\ Cardinality(T \cup {s}) \in Nat
  BY <1>2, Counting
<1> QED
  BY <1>1, <1>3, <1>4

LEMMA OwedSessions ==
    ASSUME NEW w \in Workgroup
    PROVE  /\ Charged(w) \in SUBSET Owed(w)
           /\ StillCounted(w) \in SUBSET Owed(w)
           /\ Owed(w) \in SUBSET SessionId
BY DEF Charged, StillCounted, Owed, Running, Alive

LEMMA Initially == Init => Inv
<1> SUFFICES ASSUME Init PROVE Inv
  OBVIOUS
<1>1. TypeOK
  BY QuotaAssumption DEF Init, TypeOK, Engine!Init, Engine!Phase, Unlimited
<1>2. Untouched /\ EntriesMatchSessions
  BY DEF Init, Untouched, EntriesMatchSessions, Alive
<1>3. CounterCoversEntries
  BY DEF Init, CounterCoversEntries, Existing
<1> QED
  BY <1>1, <1>2, <1>3 DEF Inv
-----------------------------------------------------------------------------
LEMMA TypeStep ==
    ASSUME TypeOK, [Next]_vars
    PROVE  TypeOK'
<1> USE QuotaAssumption
<1>a. ASSUME NEW w \in Workgroup, Charge(w)
      PROVE  /\ activeSessions' \in [Workgroup -> Nat]
             /\ UNCHANGED <<admin, history>>
  BY <1>a DEF Charge, TypeOK, history
<1>b. ASSUME NEW s \in SessionId, Engine!Open(s) \/ Engine!Close(s) \/ Engine!Resume(s)
      PROVE  phase' \in [SessionId -> Engine!Phase]
  BY <1>b DEF Engine!Open, Engine!Close, Engine!Resume, Engine!Phase, TypeOK, history
<1>c. ASSUME NEW gone \in SUBSET Workgroup, Forget(gone)
      PROVE  /\ workgroups' \in [Workgroup -> {"NONE", "LIVE", "GONE"}]
             /\ maxSessions' \in [Workgroup -> 0 .. MaxQuota]
             /\ activeSessions' \in [Workgroup -> Nat]
             /\ viewed' \in SUBSET Workgroup
  BY <1>c DEF Forget, TypeOK, history, Unlimited
<1>1. ASSUME NEW s \in SessionId, CreateUncharged(s)
      PROVE  TypeOK'
  BY <1>1, <1>b DEF CreateUncharged, TypeOK, admin, history
<1>2. ASSUME NEW s \in SessionId, NEW w \in Workgroup, CreateCharged(s, w)
      PROVE  TypeOK'
  BY <1>2, <1>a, <1>b DEF CreateCharged, TypeOK, admin, history
<1>3. ASSUME NEW w \in Workgroup, CreateFailsEarly(w)
      PROVE  TypeOK'
  BY <1>3, <1>a DEF CreateFailsEarly, TypeOK, admin, history, sessions
<1>4. ASSUME NEW s \in SessionId, NEW w \in Workgroup, CreateFailsLate(s, w)
      PROVE  TypeOK'
  BY <1>4, <1>a, <1>b DEF CreateFailsLate, TypeOK, admin, history
<1>5. ASSUME NEW s \in SessionId, Delete(s)
      PROVE  TypeOK'
  <2>1. /\ sessionWorkgroups' \in [SessionId -> Workgroup \cup {NoWg}]
        /\ activeSessions' \in [Workgroup -> Nat]
    BY <1>5 DEF Delete, Discharge, TypeOK, history
  <2> QED
    BY <1>5, <1>b, <2>1 DEF Delete, TypeOK, admin, history
<1>6. ASSUME NEW s \in SessionId, DeleteFromDashboard(s)
      PROVE  TypeOK'
  BY <1>6, <1>b DEF DeleteFromDashboard, TypeOK, admin, history
<1>7. CASE EngineSweeps
  <2>1. ASSUME NEW cool \in SUBSET SessionId, NEW discard \in SUBSET SessionId,
               Engine!Sweep(cool, discard)
        PROVE  phase' \in [SessionId -> Engine!Phase]
    BY <2>1 DEF Engine!Sweep, Engine!Phase, TypeOK
  <2> QED
    BY <1>7, <1>b, <2>1 DEF EngineSweeps, TypeOK, admin, history
<1>8. ASSUME NEW n \in Namespace, CreateNamespace(n) \/ DeleteNamespace(n)
      PROVE  TypeOK'
  <2>1. CASE CreateNamespace(n)
    BY <2>1 DEF CreateNamespace, TypeOK, history, sessions
  <2>2. CASE DeleteNamespace(n)
    <3>1. Forget({w \in Existing : NamespaceOf[w] = n})
      BY <2>2 DEF DeleteNamespace
    <3>2. {w \in Existing : NamespaceOf[w] = n} \in SUBSET Workgroup
      BY DEF Existing
    <3> QED
      BY <2>2, <3>1, <3>2, <1>c DEF DeleteNamespace, TypeOK, history, sessions
  <2> QED
    BY <1>8, <2>1, <2>2
<1>9. ASSUME NEW w \in Workgroup, NEW max \in 0 .. MaxQuota,
             CreateWorkgroup(w, max) \/ SetQuota(w, max)
      PROVE  TypeOK'
  BY <1>9 DEF CreateWorkgroup, SetQuota, TypeOK, history, sessions
<1>10. ASSUME NEW w \in Workgroup, DeleteWorkgroup(w)
       PROVE  TypeOK'
  BY <1>10, <1>c DEF DeleteWorkgroup, TypeOK, history, sessions
<1>11. ASSUME NEW w \in Workgroup, Reconcile(w)
       PROVE  TypeOK'
  BY <1>11, OwedSessions, Counting DEF Reconcile, ReconcileTo, Running, Alive, TypeOK, history, sessions, admin
<1>12. ASSUME NEW seen \in SUBSET Workgroup, View(seen)
       PROVE  TypeOK'
  <2>1. \A w \in Workgroup : CountByName(w) \in Nat
    <3>1. {s \in Alive : sessionWg[s] = DefaultWg} \in SUBSET SessionId
      BY DEF Alive
    <3> QED
      BY <3>1, Counting DEF CountByName
  <2> QED
    BY <1>12, <2>1 DEF View, TypeOK, history, sessions, admin
<1>13. CASE Restart
  BY <1>13, <1>c DEF Restart, TypeOK, history, Existing
<1>14. CASE UNCHANGED vars
  BY <1>14 DEF vars, TypeOK, history
<1> QED
  BY <1>1, <1>2, <1>3, <1>4, <1>5, <1>6, <1>7, <1>8, <1>9, <1>10, <1>11, <1>12, <1>13,
     <1>14 DEF Next
-----------------------------------------------------------------------------
\* Who is opened was cold, and no workgroup that exists was never created.
LEMMA EntriesStep ==
    ASSUME TypeOK, Untouched, EntriesMatchSessions, [Next]_vars
    PROVE  Untouched' /\ EntriesMatchSessions'
<1> USE QuotaAssumption
<1> DEFINE Placed == Untouched /\ EntriesMatchSessions
<1>1. ASSUME NEW s \in SessionId, CreateUncharged(s)
      PROVE  Placed'
  BY <1>1 DEF CreateUncharged, Engine!Open, TypeOK, admin, Untouched, EntriesMatchSessions, Alive
<1>2. ASSUME NEW s \in SessionId, NEW w \in Workgroup, CreateCharged(s, w)
      PROVE  Placed'
  BY <1>2 DEF CreateCharged, Charge, Existing, Engine!Open, TypeOK, admin, Untouched,
              EntriesMatchSessions, Alive
<1>3. ASSUME NEW s \in SessionId, NEW w \in Workgroup, CreateFailsLate(s, w)
      PROVE  Placed'
  BY <1>3 DEF CreateFailsLate, Charge, Existing, Engine!Open, TypeOK, admin, Untouched,
              EntriesMatchSessions, Alive
<1>4. ASSUME NEW s \in SessionId, Delete(s)
      PROVE  Placed'
  BY <1>4 DEF Delete, Discharge, Engine!Close, TypeOK, admin, Untouched,
              EntriesMatchSessions, Alive
<1>5. ASSUME NEW s \in SessionId, DeleteFromDashboard(s)
      PROVE  Placed'
  BY <1>5 DEF DeleteFromDashboard, Engine!Close, TypeOK, admin, Untouched,
              EntriesMatchSessions, Alive
<1>6. CASE EngineSweeps
  <2>1. ASSUME NEW s \in SessionId, Engine!Resume(s)
        PROVE  \A r \in SessionId : /\ phase[r] # "COLD" => phase'[r] # "COLD"
                                    /\ r \in Alive' => r \in Alive
    BY <2>1 DEF Engine!Resume, TypeOK, Alive
  <2>2. ASSUME NEW cool \in SUBSET SessionId, NEW discard \in SUBSET SessionId,
               Engine!Sweep(cool, discard)
        PROVE  \A r \in SessionId : /\ phase[r] # "COLD" => phase'[r] # "COLD"
                                    /\ r \in Alive' => r \in Alive
    BY <2>2 DEF Engine!Sweep, TypeOK, Alive
  <2>3. \A r \in SessionId : /\ phase[r] # "COLD" => phase'[r] # "COLD"
                             /\ r \in Alive' => r \in Alive
    BY <1>6, <2>1, <2>2 DEF EngineSweeps
  <2> QED
    BY <1>6, <2>3 DEF EngineSweeps, admin, Untouched, EntriesMatchSessions, Alive
<1>7. ASSUME UNCHANGED sessions,
             \A w \in Workgroup : workgroups[w] # "NONE" => workgroups'[w] # "NONE"
      PROVE  Placed'
  BY <1>7 DEF sessions, TypeOK, Untouched, EntriesMatchSessions, Alive
<1>8. ASSUME NEW n \in Namespace, CreateNamespace(n) \/ DeleteNamespace(n)
      PROVE  Placed'
  <2>1. UNCHANGED sessions
    BY <1>8 DEF CreateNamespace, DeleteNamespace
  <2>2. \A w \in Workgroup : workgroups[w] # "NONE" => workgroups'[w] # "NONE"
    BY <1>8 DEF CreateNamespace, DeleteNamespace, Forget, TypeOK
  <2> QED
    BY <1>7, <2>1, <2>2
<1>9. ASSUME NEW w \in Workgroup,
             \/ CreateFailsEarly(w)
             \/ DeleteWorkgroup(w)
             \/ Reconcile(w)
             \/ \E max \in 0 .. MaxQuota : CreateWorkgroup(w, max) \/ SetQuota(w, max)
      PROVE  Placed'
  <2>1. UNCHANGED sessions
    BY <1>9 DEF CreateFailsEarly, DeleteWorkgroup, Reconcile, CreateWorkgroup, SetQuota
  <2>2. \A v \in Workgroup : workgroups[v] # "NONE" => workgroups'[v] # "NONE"
    BY <1>9 DEF CreateFailsEarly, Charge, DeleteWorkgroup, Forget, Reconcile,
                CreateWorkgroup, SetQuota, TypeOK, admin
  <2> QED
    BY <1>7, <2>1, <2>2
<1>10. ASSUME NEW seen \in SUBSET Workgroup, View(seen)
       PROVE  Placed'
  BY <1>7, <1>10 DEF View, admin
<1>11. CASE Restart
  BY <1>11 DEF Restart, Untouched, EntriesMatchSessions, Alive
<1>12. CASE UNCHANGED vars
  BY <1>12 DEF vars, Untouched, EntriesMatchSessions, Alive
<1> QED
  BY <1>1, <1>2, <1>3, <1>4, <1>5, <1>6, <1>8, <1>9, <1>10, <1>11, <1>12 DEF Next
-----------------------------------------------------------------------------
\* The sweeps give no session to a workgroup.
LEMMA NoneRises ==
    ASSUME TypeOK, EngineSweeps, NEW w \in Workgroup
    PROVE  Running(w)' \subseteq Running(w)
<1>1. ASSUME NEW s \in SessionId, Engine!Resume(s)
      PROVE  Alive' \subseteq Alive
  BY <1>1 DEF Engine!Resume, TypeOK, Alive
<1>2. ASSUME NEW cool \in SUBSET SessionId, NEW discard \in SUBSET SessionId,
             Engine!Sweep(cool, discard)
      PROVE  Alive' \subseteq Alive
  BY <1>2 DEF Engine!Sweep, TypeOK, Alive
<1> QED
  BY <1>1, <1>2 DEF EngineSweeps, Running

\* What holds of one workgroup, given that it is covered now.
Covered(w) == w \in Existing \ viewed => activeSessions[w] >= Cardinality(Owed(w))

LEMMA CounterStep ==
    ASSUME Inv, [Next]_vars
    PROVE  CounterCoversEntries'
<1> USE QuotaAssumption DEF Inv
<1> SUFFICES ASSUME NEW w \in Workgroup
             PROVE  Covered(w)'
  BY DEF Covered, CounterCoversEntries, Existing
<1>a. /\ Covered(w)
      /\ Owed(w) \in SUBSET SessionId
      /\ Cardinality(Owed(w)) \in Nat
      /\ activeSessions[w] \in Nat
  BY OwedSessions, Counting DEF Covered, CounterCoversEntries, TypeOK
<1>d. activeSessions'[w] \in Nat
  BY TypeStep DEF TypeOK
\* The steps that owe this workgroup no more than before.
<1>b. ASSUME Owed(w)' \subseteq Owed(w),
             w \in (Existing \ viewed)' => w \in Existing \ viewed,
             w \in (Existing \ viewed)' => activeSessions'[w] >= activeSessions[w]
      PROVE  Covered(w)'
  <2>1. Cardinality(Owed(w)') <= Cardinality(Owed(w)) /\ Cardinality(Owed(w)') \in Nat
    BY <1>a, <1>b, CountingSubsets, Counting
  <2> QED
    BY <1>a, <1>b, <1>d, <2>1 DEF Covered
\* The steps that charge it: for one session, or for none.
<1>c. ASSUME NEW v \in Workgroup, NEW s \in SessionId, Charge(v),
             Owed(w)' \subseteq (IF v = w THEN Owed(w) \cup {s} ELSE Owed(w))
      PROVE  Covered(w)'
  <2>1. (Existing \ viewed)' = Existing \ viewed
    BY <1>c DEF Charge, Existing, admin, history
  <2>2. CASE v = w
    <3>1. activeSessions'[w] = activeSessions[w] + 1
      BY <1>c, <2>2 DEF Charge, TypeOK
    <3>2. Owed(w)' \subseteq Owed(w) \cup {s}
      BY <1>c, <2>2
    <3>3. Cardinality(Owed(w)') <= Cardinality(Owed(w)) + 1
      BY <1>a, <3>2, CountingAtMostOneMore
    <3>4. Owed(w)' \subseteq SessionId
      BY <1>a, <3>2
    <3>5. Cardinality(Owed(w)') \in Nat
      BY <3>4, Counting
    <3> QED
      BY <1>a, <2>1, <3>1, <3>3, <3>5 DEF Covered
  <2>3. CASE v # w
    BY <1>a, <1>b, <1>c, <2>1, <2>3 DEF Charge, TypeOK
  <2> QED
    BY <2>2, <2>3
<1>e. ASSUME NEW gone \in SUBSET Workgroup, Forget(gone)
      PROVE  /\ w \in (Existing \ viewed)' => w \in Existing \ viewed
             /\ w \in (Existing \ viewed)' => activeSessions'[w] = activeSessions[w]
  BY <1>e DEF Forget, Existing, TypeOK
<1>f. ASSUME UNCHANGED sessions, UNCHANGED uncounted
      PROVE  Owed(w)' = Owed(w)
  BY <1>f DEF sessions, Owed, Charged, StillCounted, Running, Alive
<1>1. ASSUME NEW s \in SessionId, CreateUncharged(s)
      PROVE  Covered(w)'
  <2>1. Running(w)' = Running(w)
    BY <1>1 DEF CreateUncharged, Engine!Open, Untouched, TypeOK, Running, Alive
  <2>2. Owed(w)' = Owed(w)
    BY <1>1, <2>1 DEF CreateUncharged, history, Owed, Charged, StillCounted
  <2> QED
    BY <1>1, <1>a, <1>b, <2>2 DEF CreateUncharged, Existing, admin, history
<1>2. ASSUME NEW s \in SessionId, NEW v \in Workgroup,
             CreateCharged(s, v) \/ CreateFailsLate(s, v)
      PROVE  Covered(w)'
  <2>1. Charge(v)
    BY <1>2 DEF CreateCharged, CreateFailsLate
  <2>2. Running(w)' \subseteq (IF v = w THEN Running(w) \cup {s} ELSE Running(w))
    BY <1>2 DEF CreateCharged, CreateFailsLate, Engine!Open, TypeOK, Running, Alive
  <2>3. Charged(w)' \subseteq (IF v = w THEN Charged(w) \cup {s} ELSE Charged(w))
    BY <1>2 DEF CreateCharged, CreateFailsLate, TypeOK, Charged
  <2>4. uncounted' = uncounted
    BY <2>1 DEF Charge, history
  <2>5. Owed(w)' \subseteq (IF v = w THEN Owed(w) \cup {s} ELSE Owed(w))
    BY <2>2, <2>3, <2>4 DEF Owed, StillCounted
  <2> QED
    BY <1>c, <2>1, <2>5
<1>3. ASSUME NEW v \in Workgroup, CreateFailsEarly(v)
      PROVE  Covered(w)'
  <2>1. Owed(w)' = Owed(w) /\ Charge(v)
    BY <1>3, <1>f DEF CreateFailsEarly, Charge, history
  <2>2. activeSessions'[w] >= activeSessions[w]
    BY <2>1, <1>a DEF Charge, TypeOK
  <2> QED
    BY <2>1, <2>2, <1>b DEF Charge, Existing, admin, history
<1>4. ASSUME NEW s \in SessionId, Delete(s)
      PROVE  Covered(w)'
  <2>1. (Existing \ viewed)' = Existing \ viewed
    BY <1>4 DEF Delete, Existing, admin, history
  <2>2. StillCounted(w)' \subseteq StillCounted(w) \ {s}
    BY <1>4 DEF Delete, Engine!Close, TypeOK, history, StillCounted, Running, Alive
  <2>3. CASE s \in Charged(w)
    <3>1. sessionWorkgroups[s] = w /\ w # NoWg /\ s \in Owed(w)
      BY <2>3 DEF Charged, Owed
    <3>2. Charged(w)' \subseteq Charged(w) \ {s}
      BY <1>4, <3>1 DEF Delete, Discharge, Charged, TypeOK
    <3>3. Owed(w)' \subseteq Owed(w) \ {s}
      BY <2>2, <3>2 DEF Owed
    <3>4. Cardinality(Owed(w) \ {s}) = Cardinality(Owed(w)) - 1
      BY <3>1, <1>a, CountingOneLess
    <3>5. Cardinality(Owed(w)') <= Cardinality(Owed(w) \ {s})
      BY <3>3, <1>a, CountingSubsets
    <3>6. Cardinality(Owed(w)') \in Nat
      BY <3>3, <1>a, Counting
    <3>7. w \in Existing => activeSessions'[w] = IF activeSessions[w] > 0
                                                THEN activeSessions[w] - 1
                                                ELSE activeSessions[w]
      BY <1>4, <3>1 DEF Delete, Discharge, TypeOK
    <3> QED
      BY <1>a, <2>1, <3>4, <3>5, <3>6, <3>7 DEF Covered
  <2>4. CASE s \notin Charged(w)
    <3>1. sessionWorkgroups[s] # w
      BY <2>4 DEF Charged
    <3>2. Charged(w)' \subseteq Charged(w)
      BY <1>4, <3>1 DEF Delete, Discharge, Charged, TypeOK
    <3>3. activeSessions'[w] = activeSessions[w]
      BY <1>4, <3>1 DEF Delete, Discharge, TypeOK
    <3>4. Owed(w)' \subseteq Owed(w)
      BY <2>2, <3>2 DEF Owed
    <3> QED
      BY <1>a, <1>b, <2>1, <3>3, <3>4
  <2> QED
    BY <2>3, <2>4
<1>5. ASSUME NEW s \in SessionId, DeleteFromDashboard(s)
      PROVE  Covered(w)'
  <2>1. Running(w)' \subseteq Running(w)
    BY <1>5 DEF DeleteFromDashboard, Engine!Close, TypeOK, Running, Alive
  <2>2. Owed(w)' \subseteq Owed(w)
    BY <1>5, <2>1 DEF DeleteFromDashboard, history, Owed, Charged, StillCounted
  <2> QED
    BY <1>5, <1>a, <1>b, <2>2 DEF DeleteFromDashboard, Existing, admin, history
<1>6. CASE EngineSweeps
  <2>1. Running(w)' \subseteq Running(w)
    BY <1>6, NoneRises
  <2>2. Owed(w)' \subseteq Owed(w)
    BY <1>6, <2>1 DEF EngineSweeps, history, Owed, Charged, StillCounted
  <2> QED
    BY <1>6, <1>a, <1>b, <2>2 DEF EngineSweeps, Existing, admin, history
<1>7. ASSUME NEW n \in Namespace, CreateNamespace(n) \/ DeleteNamespace(n)
      PROVE  Covered(w)'
  <2>1. CASE CreateNamespace(n)
    BY <2>1, <1>a, <1>b, <1>f DEF CreateNamespace, Existing, history
  <2>2. CASE DeleteNamespace(n)
    <3>1. {v \in Existing : NamespaceOf[v] = n} \in SUBSET Workgroup
      BY DEF Existing
    <3> QED
      BY <2>2, <3>1, <1>a, <1>b, <1>f, <1>d, <1>e DEF DeleteNamespace
  <2> QED
    BY <1>7, <2>1, <2>2
<1>8. ASSUME NEW v \in Workgroup, NEW max \in 0 .. MaxQuota, CreateWorkgroup(v, max)
      PROVE  Covered(w)'
  <2>1. CASE v = w
    <3>1. Charged(w) = {} /\ Running(w) = {}
      BY <1>8, <2>1 DEF CreateWorkgroup, Untouched, Charged, Running, Alive
    <3>2. Owed(w)' = {}
      BY <1>8, <1>f, <3>1 DEF CreateWorkgroup, history, Owed, StillCounted
    <3>3. Cardinality(Owed(w)') = 0
      BY <3>2, FS_EmptySet
    <3> QED
      BY <1>d, <3>3 DEF Covered
  <2>2. CASE v # w
    BY <1>8, <2>2, <1>a, <1>b, <1>f DEF CreateWorkgroup, Existing, TypeOK, history
  <2> QED
    BY <2>1, <2>2
<1>9. ASSUME NEW v \in Workgroup, NEW max \in 0 .. MaxQuota, SetQuota(v, max)
      PROVE  Covered(w)'
  BY <1>9, <1>a, <1>b, <1>f DEF SetQuota, Existing, history
<1>10. ASSUME NEW v \in Workgroup, DeleteWorkgroup(v)
       PROVE  Covered(w)'
  BY <1>10, <1>a, <1>b, <1>f, <1>d, <1>e DEF DeleteWorkgroup
<1>11. ASSUME NEW v \in Workgroup, Reconcile(v)
       PROVE  Covered(w)'
  <2>1. /\ Charged(w)' = Charged(w) /\ Running(w)' = Running(w)
        /\ uncounted' = uncounted \cup (Running(v) \ Charged(v))
    BY <1>11 DEF Reconcile, sessions, Charged, Running, Alive
  <2>2. CASE v = w
    <3>1. activeSessions'[w] = Cardinality(Charged(w))
      BY <1>11, <2>2 DEF Reconcile, ReconcileTo, TypeOK
    <3>2. Owed(w)' = Charged(w)
      BY <2>1, <2>2 DEF Owed, StillCounted
    <3>3. Cardinality(Charged(w)) \in Nat
      BY Counting DEF Charged
    <3> QED
      BY <3>1, <3>2, <3>3 DEF Covered
  <2>3. CASE v # w
    <3>1. Owed(w)' \subseteq Owed(w)
      BY <2>1 DEF Owed, StillCounted
    <3> QED
      BY <1>11, <2>3, <3>1, <1>a, <1>b DEF Reconcile, Existing, TypeOK, admin
  <2> QED
    BY <2>2, <2>3
<1>12. ASSUME NEW seen \in SUBSET Workgroup, View(seen)
       PROVE  Covered(w)'
  <2>1. w \in (Existing \ viewed)' => w \in (Existing \ viewed) /\ w \notin seen
    BY <1>12 DEF View, Existing, admin
  <2>2. w \notin seen => activeSessions'[w] = activeSessions[w]
    BY <1>12 DEF View
  <2> QED
    BY <1>12, <1>a, <1>b, <1>f, <1>d, <2>1, <2>2 DEF View
<1>13. CASE Restart
  BY <1>13 DEF Restart, Forget, Existing, Covered, TypeOK
<1>14. CASE UNCHANGED vars
  BY <1>14, <1>a, <1>b, <1>f DEF vars, sessions, Existing
<1> QED
  BY <1>1, <1>2, <1>3, <1>4, <1>5, <1>6, <1>7, <1>8, <1>9, <1>10, <1>11, <1>12, <1>13,
     <1>14 DEF Next
-----------------------------------------------------------------------------
\* Only POST /session with a workgroup gives that workgroup another live session.
LEMMA AdmissionStep ==
    ASSUME Inv, [Next]_vars, NEW w \in Existing \ viewed,
           Cardinality(StillCounted(w)') > Cardinality(StillCounted(w))
    PROVE  maxSessions[w] = Unlimited \/ Cardinality(StillCounted(w)') <= maxSessions[w]
<1> USE QuotaAssumption DEF Inv
<1>a. /\ w \in Workgroup
      /\ StillCounted(w) \in SUBSET SessionId
      /\ Owed(w) \in SUBSET SessionId
      /\ StillCounted(w) \in SUBSET Owed(w)
      /\ Cardinality(StillCounted(w)) \in Nat
      /\ Cardinality(Owed(w)) \in Nat
  BY OwedSessions, Counting DEF Existing
<1>b. ASSUME StillCounted(w)' \subseteq StillCounted(w)
      PROVE  FALSE
  <2>1. Cardinality(StillCounted(w)') <= Cardinality(StillCounted(w))
    BY <1>a, <1>b, CountingSubsets
  <2>2. Cardinality(StillCounted(w)') \in Nat
    BY <1>a, <1>b, Counting
  <2> QED
    BY <1>a, <2>1, <2>2
<1>c. ASSUME Running(w)' \subseteq Running(w), uncounted \subseteq uncounted'
      PROVE  FALSE
  BY <1>b, <1>c DEF StillCounted
<1>1. ASSUME NEW s \in SessionId, CreateUncharged(s)
      PROVE  FALSE
  <2>1. Running(w)' = Running(w)
    BY <1>1, <1>a DEF CreateUncharged, Engine!Open, Untouched, TypeOK, Running, Alive
  <2> QED
    BY <1>1, <1>c, <2>1 DEF CreateUncharged, history
<1>2. ASSUME NEW s \in SessionId, NEW v \in Workgroup,
             CreateCharged(s, v) \/ CreateFailsLate(s, v)
      PROVE  maxSessions[w] = Unlimited \/ Cardinality(StillCounted(w)') <= maxSessions[w]
  <2>1. Charge(v) /\ uncounted' = uncounted
    BY <1>2 DEF CreateCharged, CreateFailsLate, Charge, history
  <2>2. Running(w)' \subseteq (IF v = w THEN Running(w) \cup {s} ELSE Running(w))
    BY <1>2, <1>a DEF CreateCharged, CreateFailsLate, Engine!Open, TypeOK, Running, Alive
  <2>3. v = w
    <3> SUFFICES ASSUME v # w PROVE FALSE
      OBVIOUS
    <3> QED
      BY <1>c, <2>1, <2>2
  <2>4. StillCounted(w)' \subseteq StillCounted(w) \cup {s}
    BY <2>1, <2>2, <2>3 DEF StillCounted
  <2>5. Cardinality(StillCounted(w)') <= Cardinality(StillCounted(w)) + 1
    BY <1>a, <2>4, CountingAtMostOneMore
  <2>6. Cardinality(StillCounted(w)') \in Nat
    <3>1. StillCounted(w)' \in SUBSET SessionId
      BY <1>a, <2>4
    <3> QED
      BY <3>1, Counting
  <2>7. Cardinality(StillCounted(w)) <= Cardinality(Owed(w))
    BY <1>a, CountingSubsets
  <2>8. activeSessions[w] >= Cardinality(Owed(w)) /\ activeSessions[w] \in Nat
    BY <1>a DEF CounterCoversEntries, TypeOK
  <2>9. SlotAvailable(w) /\ maxSessions[w] \in Nat
    BY <1>a, <2>1, <2>3 DEF Charge, TypeOK
  <2> QED
    BY <1>a, <2>5, <2>6, <2>7, <2>8, <2>9 DEF SlotAvailable
<1>3. ASSUME NEW s \in SessionId, Delete(s) \/ DeleteFromDashboard(s)
      PROVE  FALSE
  <2>1. Running(w)' \subseteq Running(w)
    BY <1>3 DEF Delete, DeleteFromDashboard, Engine!Close, TypeOK, Running, Alive
  <2> QED
    BY <1>3, <1>c, <2>1 DEF Delete, DeleteFromDashboard, history
<1>4. ASSUME EngineSweeps
      PROVE  FALSE
  BY <1>4, <1>a, <1>c, NoneRises DEF EngineSweeps, history
<1>5. ASSUME UNCHANGED sessions, uncounted \subseteq uncounted'
      PROVE  FALSE
  BY <1>5, <1>c DEF sessions, Running, Alive
<1>6. ASSUME Restart
      PROVE  FALSE
  <2>1. w # DefaultWg
    BY <1>a
  <2>2. Running(w)' = {}
    BY <1>6, <2>1 DEF Restart, Running, Alive
  <2> QED
    BY <1>b, <2>2 DEF StillCounted
<1>7. ASSUME UNCHANGED vars
      PROVE  FALSE
  BY <1>5, <1>7 DEF vars, sessions
<1>8. ASSUME NEW n \in Namespace, CreateNamespace(n) \/ DeleteNamespace(n)
      PROVE  FALSE
  BY <1>5, <1>8 DEF CreateNamespace, DeleteNamespace, history
<1>9. ASSUME NEW v \in Workgroup,
             \/ CreateFailsEarly(v) \/ DeleteWorkgroup(v) \/ Reconcile(v)
             \/ \E max \in 0 .. MaxQuota : CreateWorkgroup(v, max) \/ SetQuota(v, max)
      PROVE  FALSE
  BY <1>5, <1>9 DEF CreateFailsEarly, Charge, DeleteWorkgroup, Reconcile, CreateWorkgroup,
                    SetQuota, history
<1>10. ASSUME NEW seen \in SUBSET Workgroup, View(seen)
       PROVE  FALSE
  BY <1>5, <1>10 DEF View
<1> QED
  BY <1>1, <1>2, <1>3, <1>4, <1>6, <1>7, <1>8, <1>9, <1>10 DEF Next
-----------------------------------------------------------------------------
LEMMA Invariance == Spec => []Inv
<1>1. Inv /\ [Next]_vars => Inv'
  BY TypeStep, EntriesStep, CounterStep DEF Inv
<1> QED
  BY Initially, <1>1, PTL DEF Spec

\* Counters, quotas and entries keep their types: no counter goes below zero
\* (DELETE /session/{id} in app.py).
THEOREM TypeCorrect == Spec => []TypeOK
<1>1. Inv => TypeOK
  BY DEF Inv
<1> QED
  BY Invariance, <1>1, PTL

\* An entry of _session_workgroups names the workgroup of its session while that
\* lives (POST /session, and every way in which sessions end).
THEOREM EntriesMatch == Spec => []EntriesMatchSessions
<1>1. Inv => EntriesMatchSessions
  BY DEF Inv
<1> QED
  BY Invariance, <1>1, PTL

\* The counter that no page has overwritten covers the entries and the live
\* sessions, but for those without an entry at a reconciliation, through failed
\* creations, deletions, reconciliation and restarts.
THEOREM CounterCovers == Spec => []CounterCoversEntries
<1>1. Inv => CounterCoversEntries
  BY DEF Inv
<1> QED
  BY Invariance, <1>1, PTL

\* POST /session keeps the live sessions of a workgroup within its quota, but for
\* those a reconciliation left out because a failed POST /session had left them
\* live without an entry, and while no page has overwritten the counter.
THEOREM QuotaHolds == Spec => NoOverAdmission
<1>1. Inv /\ [Next]_vars =>
        [\A w \in Existing \ viewed :
            Cardinality(StillCounted(w)') > Cardinality(StillCounted(w)) =>
                maxSessions[w] = Unlimited \/ Cardinality(StillCounted(w)') <= maxSessions[w]]_vars
  BY AdmissionStep
<1> QED
  BY Invariance, <1>1, PTL DEF Spec, NoOverAdmission
-----------------------------------------------------------------------------
\* A row is written after what it records was admitted, and neither lies ahead.
RowsFollow ==
    \A l \in Limiter : \A s \in Entries(l) :
        /\ admitted[l][s].time <= now
        /\ Written(admitted[l][s]) => admitted[l][s].time <= admitted[l][s].row

LimitsInv == LimitsTypeOK /\ RowsFollow /\ WindowsHold

LEMMA CountingSlots ==
    ASSUME NEW S \in SUBSET Slot
    PROVE  /\ IsFiniteSet(S)
           /\ Cardinality(S) \in Nat
           /\ \A T \in SUBSET S : Cardinality(T) <= Cardinality(S)
BY LimitsAssumption, FS_Subset, FS_CardinalityType

LEMMA CountingUnion ==
    ASSUME NEW S \in SUBSET Slot, NEW T \in SUBSET Slot
    PROVE  Cardinality(S \cup T) <= Cardinality(S) + Cardinality(T)
<1>1. IsFiniteSet(S) /\ IsFiniteSet(T) /\ S \cap T \in SUBSET Slot
  BY CountingSlots
<1>2. Cardinality(S \cup T) = Cardinality(S) + Cardinality(T) - Cardinality(S \cap T)
  BY <1>1, FS_Union
<1>3. Cardinality(S) \in Nat /\ Cardinality(T) \in Nat /\ Cardinality(S \cap T) \in Nat
  BY <1>1, CountingSlots
<1> QED
  BY <1>2, <1>3

LEMMA EntriesAre ==
    ASSUME LimitsTypeOK, NEW l \in Limiter, NEW s \in Slot
    PROVE  /\ s \in Entries(l) <=> admitted[l][s] \in Entry
           /\ s \notin Entries(l) <=> admitted[l][s] = None
BY LimitsAssumption DEF LimitsTypeOK, Entries

\* What a window should count it counts, or it has no row.
LEMMA Counted ==
    ASSUME LimitsTypeOK, RowsFollow, NEW l \in Limiter
    PROVE  Recent(l) \subseteq
               Recorded(l) \cup {s \in Recent(l) : ~Written(admitted[l][s])}
<1> SUFFICES ASSUME NEW s \in Recent(l), Written(admitted[l][s])
             PROVE  s \in Recorded(l)
  OBVIOUS
<1>1. s \in Entries(l) /\ Within(l, admitted[l][s].time)
  BY DEF Recent
<1>2. admitted[l][s] \in Entry /\ admitted[l][s].time <= admitted[l][s].row
  BY <1>1, EntriesAre DEF RowsFollow, Entries
<1>3. /\ admitted[l][s].time \in Int /\ admitted[l][s].row \in Int /\ now \in Int /\ Window \in Int
  BY <1>2, LimitsAssumption DEF Entry, LimitsTypeOK, Pending, Lost
<1>4. Within(l, admitted[l][s].row)
  BY <1>1, <1>2, <1>3 DEF Within
<1> QED
  BY <1>1, <1>4 DEF Recorded

\* Each window: how a step leaves its entries.
LEMMA LimitsStep ==
    ASSUME LimitsInv, [LimitsNext]_limitsVars
    PROVE  LimitsInv'
<1> USE LimitsAssumption
<1>1. LimitsTypeOK /\ RowsFollow /\ WindowsHold /\ now \in Nat /\ MaxTime \in Nat /\ Window \in Nat
  BY DEF LimitsInv, LimitsTypeOK
<1>2. ASSUME NEW l \in Limiter, Recent(l)' \subseteq Recent(l), unseen' = unseen
      PROVE  Cardinality(Recent(l)') <= Limit + unseen'[l]
  <2>1. Recent(l) \in SUBSET Slot
    BY DEF Recent, Entries
  <2>2. /\ Cardinality(Recent(l)') <= Cardinality(Recent(l))
        /\ Cardinality(Recent(l)') \in Nat /\ Cardinality(Recent(l)) \in Nat
    BY <1>2, <2>1, CountingSlots
  <2>3. Cardinality(Recent(l)) <= Limit + unseen[l] /\ unseen[l] \in Nat
    BY <1>1 DEF WindowsHold, LimitsTypeOK
  <2> QED
    BY <1>2, <2>2, <2>3
<1>3. ASSUME NEW l \in Limiter, NEW slot \in Slot, Admit(l, slot)
      PROVE  LimitsInv'
  <2> DEFINE new == [time |-> now, row |-> IF l \in InMemory THEN now ELSE Pending]
             dark == {s \in Recent(l) : ~Written(admitted[l][s])}
  <2>1. /\ slot \notin Remembered(l) /\ UnderLimit(l) /\ now' = now
        /\ unseen' = [unseen EXCEPT ![l] = Cardinality(dark)]
        /\ admitted' = [admitted EXCEPT ![l] = [s \in Slot |->
               IF s = slot THEN new ELSE IF s \in Remembered(l) THEN admitted[l][s] ELSE None]]
    BY <1>3 DEF Admit
  <2>2. new \in Entry /\ new.time = now /\ (Written(new) => new.row = now)
    BY <1>1 DEF Entry, LimitsTypeOK, Pending, Written
  <2>3. /\ dark \in SUBSET Slot /\ Recent(l) \in SUBSET Slot /\ Recorded(l) \in SUBSET Slot
    BY DEF Recent, Recorded, Entries
  <2> HIDE DEF new, dark
  <2>4. /\ admitted' \in [Limiter -> [Slot -> Entry \cup {None}]]
        /\ \A k \in Limiter \ {l} : admitted'[k] = admitted[k]
        /\ admitted'[l][slot] = new
        /\ \A s \in Slot \ {slot} :
               admitted'[l][s] = admitted[l][s] \/ admitted'[l][s] = None
    BY <1>1, <2>1, <2>2 DEF LimitsTypeOK
  <2>5. LimitsTypeOK'
    BY <1>1, <2>1, <2>3, <2>4, CountingSlots DEF LimitsTypeOK
  <2>6. RowsFollow'
    BY <1>1, <2>1, <2>2, <2>4 DEF RowsFollow, Entries
  <2>7. ASSUME NEW k \in Limiter
        PROVE  Cardinality(Recent(k)') <= Limit + unseen'[k]
    <3>1. CASE k # l
      <4>1. Recent(k)' = Recent(k) /\ unseen'[k] = unseen[k]
        BY <1>1, <2>1, <2>4, <3>1 DEF Recent, Entries, Within, LimitsTypeOK
      <4> QED
        BY <1>1, <4>1 DEF WindowsHold
    <3>2. CASE k = l
      <4>1. Recent(l)' \subseteq Recorded(l) \cup dark \cup {slot}
        <5>1. Recent(l)' \subseteq Recent(l) \cup {slot}
          BY <2>1, <2>4 DEF Recent, Entries, Within
        <5> QED
          BY <1>1, <5>1, Counted DEF dark
      <4>2. /\ Recorded(l) \cup dark \in SUBSET Slot /\ {slot} \in SUBSET Slot
            /\ Recorded(l) \cup dark \cup {slot} \in SUBSET Slot
            /\ Recent(l)' \in SUBSET Slot
        BY <2>3, <4>1
      <4>3. Cardinality(Recorded(l) \cup dark) <= Cardinality(Recorded(l)) + Cardinality(dark)
        BY <2>3, CountingUnion
      <4>4. Cardinality(Recorded(l) \cup dark \cup {slot}) <= Cardinality(Recorded(l) \cup dark) + 1
        <5>1. Cardinality({slot}) = 1
          BY FS_Singleton
        <5> QED
          BY <4>2, <5>1, CountingUnion
      <4>5. Cardinality(Recent(l)') <= Cardinality(Recorded(l) \cup dark \cup {slot})
        BY <4>1, <4>2, CountingSlots
      <4>6. /\ Cardinality(Recorded(l)) \in Nat /\ Cardinality(dark) \in Nat
            /\ Cardinality(Recorded(l) \cup dark) \in Nat
            /\ Cardinality(Recorded(l) \cup dark \cup {slot}) \in Nat
            /\ Cardinality(Recent(l)') \in Nat
        BY <2>3, <4>2, CountingSlots
      <4>7. Cardinality(Recorded(l)) < Limit /\ unseen'[l] = Cardinality(dark) /\ Limit \in Nat
        BY <1>1, <2>1 DEF UnderLimit, LimitsTypeOK
      <4>8. Cardinality(Recent(l)') <= Limit + Cardinality(dark)
        BY <4>3, <4>4, <4>5, <4>6, <4>7
      <4> QED
        BY <3>2, <4>7, <4>8
    <3> QED
      BY <3>1, <3>2
  <2> QED
    BY <2>5, <2>6, <2>7 DEF LimitsInv, WindowsHold
<1>4. ASSUME NEW l \in Limiter, NEW slot \in Slot, Log(l, slot)
      PROVE  LimitsInv'
  <2>1. PICK row \in {now, Lost} : admitted' = [admitted EXCEPT ![l][slot].row = row]
    BY <1>4 DEF Log
  <2>2. slot \in Entries(l) /\ unseen' = unseen /\ now' = now
    BY <1>4 DEF Log
  <2>3. admitted[l][slot] \in Entry
    BY <1>1, <2>2, EntriesAre
  <2> DEFINE new == [admitted[l][slot] EXCEPT !.row = row]
  <2>4. /\ new \in Entry /\ new.time = admitted[l][slot].time /\ new.row = row
        /\ Written(new) => new.row = now
    BY <1>1, <2>3 DEF Entry, LimitsTypeOK, Lost, Written
  <2>5. admitted' = [admitted EXCEPT ![l] = [admitted[l] EXCEPT ![slot] = new]]
    BY <2>1
  <2> HIDE DEF new
  <2>6. /\ admitted' \in [Limiter -> [Slot -> Entry \cup {None}]]
        /\ admitted'[l][slot] = new
        /\ \A k \in Limiter, s \in Slot :
               k # l \/ s # slot => admitted'[k][s] = admitted[k][s]
    BY <1>1, <2>4, <2>5 DEF LimitsTypeOK
  <2>7. LimitsTypeOK'
    BY <1>1, <2>2, <2>6 DEF LimitsTypeOK
  <2>8. RowsFollow'
    BY <1>1, <2>2, <2>4, <2>6 DEF RowsFollow, Entries
  <2>9. ASSUME NEW k \in Limiter
        PROVE  Recent(k)' \subseteq Recent(k)
    BY <1>1, <2>2, <2>4, <2>6 DEF Recent, Entries, Within
  <2> QED
    BY <1>2, <2>2, <2>7, <2>8, <2>9 DEF LimitsInv, WindowsHold
<1>5. CASE ProcessEnds
  <2>1. /\ unseen' = unseen /\ now' = now
        /\ admitted' = [l \in Limiter |-> [s \in Slot |->
               IF l \in InMemory THEN None
               ELSE IF s \in Entries(l) /\ admitted[l][s].row = Pending
                    THEN [admitted[l][s] EXCEPT !.row = Lost]
               ELSE admitted[l][s]]]
    BY <1>5 DEF ProcessEnds
  <2>2. ASSUME NEW l \in Limiter, NEW s \in Entries(l)
        PROVE  LET lost == [admitted[l][s] EXCEPT !.row = Lost]
               IN  /\ lost \in Entry /\ lost.time = admitted[l][s].time /\ ~Written(lost)
    <3>1. admitted[l][s] \in Entry
      BY <1>1, <2>2, EntriesAre DEF Entries
    <3> QED
      BY <3>1 DEF Entry, Lost, Written
  <2>3. admitted' \in [Limiter -> [Slot -> Entry \cup {None}]]
    BY <1>1, <2>1, <2>2 DEF LimitsTypeOK
  <2>4. ASSUME NEW l \in Limiter, NEW s \in Slot, admitted'[l][s] # None
        PROVE  /\ s \in Entries(l)
               /\ admitted'[l][s].time = admitted[l][s].time
               /\ Written(admitted'[l][s]) => admitted'[l][s] = admitted[l][s]
    BY <2>1, <2>2, <2>4 DEF Entries
  <2>5. LimitsTypeOK'
    BY <1>1, <2>1, <2>3 DEF LimitsTypeOK
  <2>6. RowsFollow'
    <3> SUFFICES ASSUME NEW l \in Limiter, NEW s \in Slot, admitted'[l][s] # None
                 PROVE  /\ admitted'[l][s].time <= now
                        /\ Written(admitted'[l][s]) => admitted'[l][s].time <= admitted'[l][s].row
      BY <2>1 DEF RowsFollow, Entries, Written
    <3>1. /\ s \in Entries(l)
          /\ admitted'[l][s].time = admitted[l][s].time
          /\ Written(admitted'[l][s]) => admitted'[l][s] = admitted[l][s]
      BY <2>4
    <3>2. /\ admitted[l][s].time <= now
          /\ Written(admitted[l][s]) => admitted[l][s].time <= admitted[l][s].row
      BY <1>1, <3>1 DEF RowsFollow
    <3> QED
      BY <3>1, <3>2
  <2>7. ASSUME NEW l \in Limiter
        PROVE  Recent(l)' \subseteq Recent(l)
    BY <2>1, <2>4 DEF Recent, Entries, Within
  <2> QED
    BY <1>2, <2>1, <2>5, <2>6, <2>7 DEF LimitsInv, WindowsHold
<1>6. CASE Tick
  <2>1. now < MaxTime /\ now' = now + 1 /\ admitted' = admitted /\ unseen' = unseen
    BY <1>6 DEF Tick
  <2>2. LimitsTypeOK'
    BY <1>1, <2>1 DEF LimitsTypeOK
  <2>3. ASSUME NEW l \in Limiter, NEW s \in Entries(l)
        PROVE  admitted[l][s].time \in Int /\ s \in Slot
    BY <1>1, EntriesAre DEF Entries, Entry
  <2>4. RowsFollow'
    BY <1>1, <2>1, <2>3 DEF RowsFollow, Entries
  <2>5. ASSUME NEW l \in Limiter
        PROVE  Recent(l)' \subseteq Recent(l)
    BY <1>1, <2>1, <2>3 DEF Recent, Entries, Within
  <2> QED
    BY <1>2, <2>1, <2>2, <2>4, <2>5 DEF LimitsInv, WindowsHold
<1>7. CASE UNCHANGED limitsVars
  BY <1>1, <1>7 DEF limitsVars, LimitsInv, LimitsTypeOK, RowsFollow, WindowsHold, Recent, Entries, Within
<1> QED
  BY <1>3, <1>4, <1>5, <1>6, <1>7 DEF LimitsNext

\* No window lets in more than its limit, but for what had no row in the access log
\* when the last was counted (count_recent_actions, write_access_log).
THEOREM LimitsHold == LimitsSpec => []WindowsHold
<1>1. LimitsInit => LimitsInv
  <2> SUFFICES ASSUME LimitsInit PROVE LimitsInv
    OBVIOUS
  <2>1. LimitsTypeOK
    BY LimitsAssumption DEF LimitsInit, LimitsTypeOK
  <2>2. \A l \in Limiter : Entries(l) = {}
    BY DEF LimitsInit, Entries
  <2>3. RowsFollow
    BY <2>2 DEF RowsFollow
  <2>4. \A l \in Limiter : Recent(l) = {}
    BY <2>2 DEF Recent
  <2>5. ASSUME NEW l \in Limiter
        PROVE  Cardinality(Recent(l)) <= Limit + unseen[l]
    <3>1. Limit \in Nat /\ unseen[l] \in Nat
      BY <2>1, LimitsAssumption DEF LimitsTypeOK
    <3>2. Cardinality(Recent(l)) = 0
      BY <2>4, FS_EmptySet
    <3> QED
      BY <3>1, <3>2
  <2> QED
    BY <2>1, <2>3, <2>5 DEF LimitsInv, WindowsHold
<1>2. LimitsInv /\ [LimitsNext]_limitsVars => LimitsInv'
  BY LimitsStep
<1>3. LimitsInv => WindowsHold
  BY DEF LimitsInv
<1> QED
  BY <1>1, <1>2, <1>3, PTL DEF LimitsSpec
-----------------------------------------------------------------------------
\* Failures after a time, counted in a sequence that may be that of the next state.
Since(f, t) == {i \in DOMAIN f : f[i] > t}

LEMMA CountingFailures ==
    ASSUME NEW f \in Seq(Nat), NEW t \in Int
    PROVE  IsFiniteSet(Since(f, t)) /\ Cardinality(Since(f, t)) \in Nat
<1>1. Since(f, t) \subseteq 1 .. Len(f) /\ Len(f) \in Nat
  BY DEF Since
<1>2. IsFiniteSet(1 .. Len(f))
  BY <1>1, FS_Interval
<1> QED
  BY <1>1, <1>2, FS_Subset, FS_CardinalityType

LEMMA CountingLater ==
    ASSUME NEW f \in Seq(Nat), NEW s \in Int, NEW t \in Int, s <= t
    PROVE  Cardinality(Since(f, t)) <= Cardinality(Since(f, s))
<1>1. Since(f, t) \subseteq Since(f, s)
  BY DEF Since
<1> QED
  BY <1>1, CountingFailures, FS_Subset

LEMMA CountingAnother ==
    ASSUME NEW f \in Seq(Nat), NEW c \in Nat, NEW t \in Int
    PROVE  Cardinality(Since(Append(f, c), t))
               = Cardinality(Since(f, t)) + (IF c > t THEN 1 ELSE 0)
<1>1. /\ Len(f) \in Nat /\ DOMAIN f = 1 .. Len(f)
      /\ DOMAIN Append(f, c) = 1 .. Len(f) + 1
      /\ \A i \in 1 .. Len(f) : Append(f, c)[i] = f[i]
      /\ Append(f, c)[Len(f) + 1] = c
  OBVIOUS
<1>2. CASE c > t
  <2>1. Since(Append(f, c), t) = Since(f, t) \cup {Len(f) + 1} /\ Len(f) + 1 \notin Since(f, t)
    BY <1>1, <1>2 DEF Since
  <2> QED
    BY <1>2, <2>1, CountingFailures, FS_AddElement
<1>3. CASE ~(c > t)
  <2>1. Since(Append(f, c), t) = Since(f, t)
    BY <1>1, <1>3 DEF Since
  <2> QED
    BY <1>3, <2>1, CountingFailures
<1> QED
  BY <1>2, <1>3

LEMMA CountingNone ==
    ASSUME NEW t
    PROVE  Cardinality(Since(<<>>, t)) = 0
<1>1. Since(<<>>, t) = {}
  BY DEF Since
<1> QED
  BY <1>1, FS_EmptySet

\* record_failure, field by field.
LEMMA Failing ==
    ASSUME LockoutTypeOK, RecordFailure
    PROVE  LET old == IF TtlExpired THEN Fresh ELSE guard
           IN  /\ guard' \in [count : Nat, lockedAt : (0 .. MaxClock) \cup {Never}]
               /\ guard'.count = old.count + 1
               /\ guard'.lockedAt = IF old.count + 1 >= Threshold /\ old.lockedAt = Never
                                    THEN clock ELSE old.lockedAt
<1> DEFINE old == IF TtlExpired THEN Fresh ELSE guard
           g == [old EXCEPT !.count = @ + 1]
<1>1. old \in [count : Nat, lockedAt : (0 .. MaxClock) \cup {Never}] /\ clock \in 0 .. MaxClock
  BY DEF LockoutTypeOK, Fresh
<1>2. guard' = IF g.count >= Threshold /\ g.lockedAt = Never THEN [g EXCEPT !.lockedAt = clock]
               ELSE g
  BY DEF RecordFailure
<1> HIDE DEF old
<1>3. /\ g \in [count : Nat, lockedAt : (0 .. MaxClock) \cup {Never}]
      /\ g.count = old.count + 1 /\ g.lockedAt = old.lockedAt
  BY <1>1
<1> HIDE DEF g
<1>4. /\ guard' \in [count : Nat, lockedAt : (0 .. MaxClock) \cup {Never}]
      /\ guard'.count = old.count + 1
      /\ guard'.lockedAt = IF old.count + 1 >= Threshold /\ old.lockedAt = Never
                           THEN clock ELSE old.lockedAt
  BY <1>1, <1>2, <1>3
<1> QED
  BY <1>4 DEF old

\* The argument: failures are counted, but for those a lock before has let through
\* late; while a lock lasts, what fails after it had been let through before.
LockoutInv ==
    /\ \A i \in DOMAIN failures : failures[i] <= clock
    /\ guard.lockedAt = Never =>
        /\ guard.count < Threshold
        /\ Cardinality(FailedSince(clock - Ttl)) <= guard.count + MaxTrying - 1
    /\ guard.lockedAt # Never =>
        /\ guard.lockedAt <= clock
        /\ guard.count >= Threshold
        /\ guard.count + trying <= Threshold + MaxTrying - 1
        /\ Cardinality(FailedSince(clock - Ttl)) <= guard.count + MaxTrying - 1
        /\ Cardinality(FailedSince(guard.lockedAt)) <= guard.count - Threshold

LEMMA LockoutTypeStep ==
    ASSUME LockoutTypeOK, [LockoutNext]_lockoutVars
    PROVE  LockoutTypeOK'
<1> USE LockoutAssumption DEF LockoutTypeOK, Fresh
<1>1. CASE Attempt
  BY <1>1 DEF Attempt
<1>2. CASE RecordFailure
  <2>1. failures' \in Seq(0 .. MaxClock) /\ clock' = clock /\ trying' \in 0 .. MaxTrying
    BY <1>2 DEF RecordFailure
  <2>2. guard' \in [count : Nat, lockedAt : (0 .. MaxClock) \cup {Never}]
    BY <1>2, Failing
  <2> QED
    BY <2>1, <2>2
<1>3. CASE RecordSuccess
  BY <1>3 DEF RecordSuccess
<1>4. CASE GetFailureCount
  BY <1>4 DEF GetFailureCount
<1>5. CASE NewGuard
  BY <1>5 DEF NewGuard
<1>6. CASE Advance
  BY <1>6 DEF Advance
<1>7. CASE UNCHANGED lockoutVars
  BY <1>7 DEF lockoutVars
<1> QED
  BY <1>1, <1>2, <1>3, <1>4, <1>5, <1>6, <1>7 DEF LockoutNext

\* What LockoutInv says, of any guard, in numbers: recent and late failures.
Kept(g, logins, time, recent, late) ==
    /\ g.lockedAt = Never =>
        /\ g.count < Threshold
        /\ recent <= g.count + MaxTrying - 1
    /\ g.lockedAt # Never =>
        /\ g.lockedAt <= time
        /\ g.count >= Threshold
        /\ g.count + logins <= Threshold + MaxTrying - 1
        /\ recent <= g.count + MaxTrying - 1
        /\ late <= g.count - Threshold

LEMMA LockoutStep ==
    ASSUME LockoutTypeOK, LockoutInv, [LockoutNext]_lockoutVars
    PROVE  LockoutInv'
<1>1. /\ Threshold \in Nat \ {0} /\ Ttl \in Nat \ {0} /\ MaxTrying \in Nat \ {0} /\ MaxClock \in Nat
      /\ Never \notin Nat
  BY LockoutAssumption
<1>2. /\ guard = [count |-> guard.count, lockedAt |-> guard.lockedAt]
      /\ guard.count \in Nat
      /\ guard.lockedAt # Never => guard.lockedAt \in Nat
      /\ trying \in Nat /\ trying <= MaxTrying
      /\ failures \in Seq(Nat)
      /\ clock \in Nat
  BY <1>1 DEF LockoutTypeOK
<1> DEFINE recent == Cardinality(Since(failures, clock - Ttl))
           late == Cardinality(Since(failures, guard.lockedAt))
<1>3. /\ \A i \in DOMAIN failures : failures[i] <= clock
      /\ Kept(guard, trying, clock, recent, late)
  BY DEF LockoutInv, FailedSince, Since, Kept
<1>4. recent \in Nat /\ (guard.lockedAt # Never => late \in Nat)
  BY <1>1, <1>2, CountingFailures
<1>5. ASSUME TtlExpired
      PROVE  recent <= late
  <2>1. guard.lockedAt \in Int /\ clock - Ttl \in Int /\ guard.lockedAt <= clock - Ttl
    BY <1>1, <1>2, <1>5 DEF TtlExpired
  <2> QED
    BY <1>2, <2>1, CountingLater
<1> SUFFICES /\ \A i \in DOMAIN failures' : failures'[i] <= clock'
             /\ Kept(guard', trying', clock', Cardinality(Since(failures', clock' - Ttl)),
                     Cardinality(Since(failures', guard'.lockedAt)))
  BY DEF LockoutInv, FailedSince, Since, Kept
<1>6. ASSUME guard' = Fresh,
             Cardinality(Since(failures', clock' - Ttl)) <= MaxTrying - 1
      PROVE  Kept(guard', trying', clock', Cardinality(Since(failures', clock' - Ttl)),
                  Cardinality(Since(failures', guard'.lockedAt)))
  BY <1>1, <1>6 DEF Kept, Fresh
<1> HIDE DEF recent, late
<1>7. CASE Attempt
  <2>1. failures' = failures /\ clock' = clock /\ trying' = trying + 1 /\ trying < MaxTrying
    BY <1>7 DEF Attempt
  <2>2. CASE guard.count >= Threshold
    <3>1. guard' = Fresh /\ TtlExpired /\ guard.lockedAt # Never
      BY <1>7, <2>2 DEF Attempt, IsLocked, TtlExpired
    <3>2. recent <= MaxTrying - 1
      BY <1>1, <1>2, <1>3, <1>4, <1>5, <3>1 DEF Kept
    <3> QED
      BY <1>3, <1>6, <2>1, <3>1, <3>2 DEF recent
  <2>3. CASE ~(guard.count >= Threshold)
    <3>1. guard' = guard /\ guard.lockedAt = Never
      BY <1>1, <1>2, <1>3, <1>7, <2>3 DEF Attempt, Kept
    <3> QED
      BY <1>3, <2>1, <3>1 DEF Kept, recent
  <2> QED
    BY <2>2, <2>3
<1>8. CASE RecordFailure
  <2> DEFINE old == IF TtlExpired THEN Fresh ELSE guard
             sooner == Cardinality(Since(failures', guard'.lockedAt))
  <2>1. /\ failures' = Append(failures, clock) /\ clock' = clock
        /\ trying > 0 /\ trying' = trying - 1
    BY <1>8 DEF RecordFailure
  <2>2. /\ guard'.count = old.count + 1
        /\ guard'.lockedAt = IF old.count + 1 >= Threshold /\ old.lockedAt = Never
                             THEN clock ELSE old.lockedAt
    BY <1>8, Failing
  <2>3. Cardinality(Since(failures', clock' - Ttl)) = recent + 1
    <3>1. clock - Ttl \in Int /\ clock > clock - Ttl
      BY <1>1, <1>2
    <3>2. Cardinality(Since(Append(failures, clock), clock - Ttl)) = recent + 1
      BY <1>2, <3>1, CountingAnother DEF recent
    <3> QED
      BY <2>1, <3>2
  <2>4. \A i \in DOMAIN failures' : failures'[i] <= clock'
    BY <1>2, <1>3, <2>1
  <2>5. guard'.lockedAt = clock => sooner = 0
    <3>1. Since(failures', clock) = {}
      BY <1>2, <2>1, <2>4 DEF Since
    <3> QED
      BY <3>1, FS_EmptySet
  <2>6. guard.lockedAt # Never /\ guard'.lockedAt = guard.lockedAt =>
            sooner \in Nat /\ sooner <= late + 1
    <3>1. SUFFICES ASSUME guard.lockedAt # Never, guard'.lockedAt = guard.lockedAt
                   PROVE  sooner \in Nat /\ sooner <= late + 1
      OBVIOUS
    <3>2. guard.lockedAt \in Int /\ late \in Nat
      BY <1>2, <1>4, <3>1
    <3>3. /\ Cardinality(Since(Append(failures, clock), guard.lockedAt)) \in Nat
          /\ Cardinality(Since(Append(failures, clock), guard.lockedAt)) <= late + 1
      BY <1>2, <3>2, CountingAnother DEF late
    <3> QED
      BY <2>1, <3>1, <3>3
  <2> HIDE DEF sooner
  <2>7. CASE TtlExpired
    <3>1. old = Fresh /\ old.count = 0 /\ old.lockedAt = Never /\ guard.lockedAt # Never
      BY <2>7 DEF Fresh, TtlExpired
    <3>2. recent <= MaxTrying - 1 - trying
      BY <1>1, <1>2, <1>3, <1>4, <1>5, <2>7, <3>1 DEF Kept
    <3> HIDE DEF old
    <3>3. recent + 1 <= 1 + MaxTrying - 1
      BY <1>1, <1>2, <1>4, <2>1, <3>2
    <3>4. CASE 1 >= Threshold
      <4>1. guard'.count = 1 /\ guard'.lockedAt = clock /\ sooner = 0
        BY <2>2, <2>5, <3>1, <3>4
      <4>2. /\ clock' = clock /\ clock <= clock
            /\ 1 + trying' <= Threshold + MaxTrying - 1
            /\ 0 <= 1 - Threshold
        BY <1>1, <1>2, <2>1, <3>4
      <4>3. clock # Never
        BY <1>1, <1>2
      <4>4. Kept(guard', trying', clock', recent + 1, sooner)
        BY <3>3, <3>4, <4>1, <4>2, <4>3 DEF Kept
      <4> QED
        BY <2>3, <2>4, <4>4 DEF sooner
    <3>5. CASE ~(1 >= Threshold)
      <4>1. guard'.count = 1 /\ guard'.lockedAt = Never
        BY <2>2, <3>1, <3>5
      <4>2. 1 < Threshold
        BY <1>1, <3>5
      <4>3. Kept(guard', trying', clock', recent + 1, sooner)
        BY <3>3, <4>1, <4>2 DEF Kept
      <4> QED
        BY <2>3, <2>4, <4>3 DEF sooner
    <3> QED
      BY <3>4, <3>5
  <2>8. CASE ~TtlExpired
    <3>1. old = guard
      BY <2>8
    <3> HIDE DEF old
    <3>2. CASE guard.lockedAt = Never
      <4>1. guard.count < Threshold /\ recent <= guard.count + MaxTrying - 1
        BY <1>3, <3>2 DEF Kept
      <4>2. recent + 1 <= guard.count + 1 + MaxTrying - 1
        BY <1>1, <1>2, <1>4, <4>1
      <4>3. CASE guard.count + 1 >= Threshold
        <5>1. guard'.count = guard.count + 1 /\ guard'.lockedAt = clock /\ sooner = 0
          BY <2>2, <2>5, <3>1, <3>2, <4>3
        <5>2. /\ clock' = clock /\ clock <= clock
              /\ guard.count + 1 + trying' <= Threshold + MaxTrying - 1
              /\ 0 <= guard.count + 1 - Threshold
          BY <1>1, <1>2, <2>1, <4>1, <4>3
        <5>3. clock # Never
          BY <1>1, <1>2
        <5>4. Kept(guard', trying', clock', recent + 1, sooner)
          BY <1>1, <1>2, <1>4, <2>1, <4>2, <4>3, <5>1, <5>2, <5>3 DEF Kept
        <5> QED
          BY <2>3, <2>4, <5>4 DEF sooner
      <4>4. CASE ~(guard.count + 1 >= Threshold)
        <5>1. guard'.count = guard.count + 1 /\ guard'.lockedAt = Never
          BY <2>2, <3>1, <3>2, <4>4
        <5>2. guard.count + 1 < Threshold
          BY <1>1, <1>2, <4>4
        <5>3. Kept(guard', trying', clock', recent + 1, sooner)
          BY <1>1, <1>2, <1>4, <4>2, <5>1, <5>2 DEF Kept
        <5> QED
          BY <2>3, <2>4, <5>3 DEF sooner
      <4> QED
        BY <4>3, <4>4
    <3>3. CASE guard.lockedAt # Never
      <4>1. /\ guard.lockedAt <= clock
            /\ guard.count >= Threshold
            /\ guard.count + trying <= Threshold + MaxTrying - 1
            /\ recent <= guard.count + MaxTrying - 1
            /\ late <= guard.count - Threshold
        BY <1>3, <3>3 DEF Kept
      <4>2. guard'.count = guard.count + 1 /\ guard'.lockedAt = guard.lockedAt
        BY <2>2, <3>1, <3>3
      <4>3. sooner \in Nat /\ sooner <= late + 1
        BY <2>6, <3>3, <4>2
      <4>4. /\ guard.count + 1 >= Threshold
            /\ guard.count + 1 + (trying - 1) <= Threshold + MaxTrying - 1
            /\ recent + 1 <= guard.count + 1 + MaxTrying - 1
            /\ sooner <= guard.count + 1 - Threshold
        <5>1. guard.count + 1 >= Threshold
          BY <1>1, <1>2, <4>1
        <5>2. guard.count + 1 + (trying - 1) <= Threshold + MaxTrying - 1
          BY <1>1, <1>2, <4>1
        <5>3. recent + 1 <= guard.count + 1 + MaxTrying - 1
          BY <1>1, <1>2, <1>4, <4>1
        <5>4. late \in Nat /\ sooner \in Nat /\ guard.count \in Nat /\ Threshold \in Nat
          BY <1>1, <1>2, <1>4, <3>3, <4>3
        <5>5. late <= guard.count - Threshold /\ sooner <= late + 1
          BY <4>1, <4>3
        <5>6. sooner <= guard.count + 1 - Threshold
          BY <5>4, <5>5
        <5> QED
          BY <5>1, <5>2, <5>3, <5>6
      <4>5. Kept(guard', trying', clock', recent + 1, sooner)
        <5>1. guard'.lockedAt # Never /\ guard'.lockedAt <= clock'
          BY <2>1, <3>3, <4>1, <4>2
        <5> QED
          BY <1>1, <1>2, <1>4, <2>1, <4>2, <4>4, <5>1 DEF Kept
      <4> QED
        BY <2>3, <2>4, <4>5 DEF sooner
    <3> QED
      BY <3>2, <3>3
  <2> QED
    BY <2>7, <2>8
<1>9. CASE RecordSuccess \/ NewGuard
  BY <1>1, <1>6, <1>9, CountingNone DEF RecordSuccess, NewGuard
<1>10. CASE GetFailureCount
  <2>1. guard' = Fresh /\ failures' = failures /\ clock' = clock /\ guard.lockedAt # Never
    BY <1>10 DEF GetFailureCount, TtlExpired
  <2>2. recent <= MaxTrying - 1
    BY <1>1, <1>2, <1>3, <1>4, <1>5, <1>10, <2>1 DEF Kept, GetFailureCount
  <2> QED
    BY <1>3, <1>6, <2>1, <2>2 DEF recent
<1>11. CASE Advance
  <2>1. clock' = clock + 1 /\ guard' = guard /\ trying' = trying /\ failures' = failures
    BY <1>11 DEF Advance
  <2>2. Cardinality(Since(failures, clock + 1 - Ttl)) <= recent
    <3>1. clock - Ttl \in Int /\ clock + 1 - Ttl \in Int /\ clock - Ttl <= clock + 1 - Ttl
      BY <1>1, <1>2
    <3> QED
      BY <1>2, <3>1, CountingLater DEF recent
  <2>3. Cardinality(Since(failures, clock + 1 - Ttl)) \in Nat
    BY <1>1, <1>2, CountingFailures
  <2>4. \A i \in DOMAIN failures : failures[i] <= clock + 1
    <3>1. \A i \in DOMAIN failures : failures[i] \in Nat
      BY <1>2
    <3> QED
      BY <1>2, <1>3, <3>1
  <2>5. Kept(guard, trying, clock + 1, Cardinality(Since(failures, clock + 1 - Ttl)), late)
    <3> DEFINE next == Cardinality(Since(failures, clock + 1 - Ttl))
    <3>1. next \in Nat /\ next <= recent
      BY <2>2, <2>3
    <3> HIDE DEF next
    <3>2. next <= guard.count + MaxTrying - 1
      <4>1. recent <= guard.count + MaxTrying - 1
        BY <1>3 DEF Kept
      <4> QED
        BY <1>1, <1>2, <1>4, <3>1, <4>1
    <3>3. guard.lockedAt # Never => guard.lockedAt <= clock + 1
      BY <1>2, <1>3 DEF Kept
    <3>4. Kept(guard, trying, clock + 1, next, late)
      BY <1>3, <3>2, <3>3 DEF Kept
    <3> QED
      BY <3>4 DEF next
  <2> QED
    BY <1>1, <1>2, <2>1, <2>4, <2>5 DEF late
<1>12. CASE UNCHANGED lockoutVars
  BY <1>3, <1>12 DEF lockoutVars, recent, late
<1> QED
  BY <1>7, <1>8, <1>9, <1>10, <1>11, <1>12 DEF LockoutNext

LEMMA LockoutInvariance == LockoutSpec => [](LockoutTypeOK /\ LockoutInv)
<1>1. LockoutInit => LockoutTypeOK /\ LockoutInv
  <2> SUFFICES ASSUME LockoutInit PROVE LockoutTypeOK /\ LockoutInv
    OBVIOUS
  <2>1. LockoutTypeOK
    BY LockoutAssumption DEF LockoutInit, LockoutTypeOK, Fresh
  <2>2. Cardinality(FailedSince(clock - Ttl)) = 0
    BY CountingNone DEF LockoutInit, FailedSince, Since
  <2> QED
    BY <2>1, <2>2, LockoutAssumption DEF LockoutInit, LockoutInv, Fresh
<1>2. (LockoutTypeOK /\ LockoutInv) /\ [LockoutNext]_lockoutVars => (LockoutTypeOK /\ LockoutInv)'
  BY LockoutTypeStep, LockoutStep
<1> QED
  BY <1>1, <1>2, PTL DEF LockoutSpec

\* However locks, their ends and late failures fall (is_locked, record_failure): in the
\* time a lock lasts, no more logins fail than the threshold and twice those that may
\* be under way beside the one that locks.
THEOREM LockoutHolds == LockoutSpec => []GuessesBounded
<1>1. LockoutTypeOK /\ LockoutInv => GuessesBounded
  <2> SUFFICES ASSUME LockoutTypeOK, LockoutInv PROVE GuessesBounded
    OBVIOUS
  <2> DEFINE recent == Cardinality(FailedSince(clock - Ttl))
  <2>1. /\ Threshold \in Nat /\ MaxTrying \in Nat \ {0} /\ guard.count \in Nat /\ trying \in Nat
        /\ recent \in Nat
    <3>1. failures \in Seq(Nat) /\ clock - Ttl \in Int
      BY LockoutAssumption DEF LockoutTypeOK
    <3>2. recent \in Nat
      BY <3>1, CountingFailures DEF FailedSince, Since
    <3> QED
      BY <3>2, LockoutAssumption DEF LockoutTypeOK
  <2>2. \/ guard.count < Threshold /\ recent <= guard.count + MaxTrying - 1
        \/ /\ guard.count + trying <= Threshold + MaxTrying - 1
           /\ recent <= guard.count + MaxTrying - 1
    BY DEF LockoutInv
  <2> HIDE DEF recent
  <2>3. recent <= Threshold + 2 * (MaxTrying - 1)
    BY <2>1, <2>2
  <2> QED
    BY <2>3 DEF recent, GuessesBounded
<1> QED
  BY LockoutInvariance, <1>1, PTL
=============================================================================
