------------------------ MODULE SessionManagerProofs ------------------------
(***************************************************************************)
(* What SessionManager guarantees for every set of sessions, every pair of *)
(* timeouts and every pattern of lost writes.                              *)
(*                                                                         *)
(* The inductive invariant is                                              *)
(*     TypeOK /\ ConnMatchesStatus /\ DurableAgreement /\ RowNotAhead      *)
(* and it needs no strengthening beyond their conjunction: RowNotAhead     *)
(* needs TypeOK (ages saturate at the same limit), DurableAgreement needs  *)
(* TypeOK (a row's state is one load_from_store can restore).              *)
(***************************************************************************)
EXTENDS SessionManager, TLAPS

\* Ages stay in range when time passes, and keep their order.
LEMMA OlderInRange ==
    ASSUME NEW limit \in Nat, NEW age \in 0 .. limit + 1
    PROVE  Older(age, limit) \in 0 .. limit + 1
BY DEF Older

LEMMA OlderMonotone ==
    ASSUME NEW limit \in Nat, NEW a \in 0 .. limit + 1, NEW b \in 0 .. limit + 1, a >= b
    PROVE  Older(a, limit) >= Older(b, limit)
BY DEF Older

\* What the two writes to the store leave in it.
LEMMA SaveTypeOK ==
    ASSUME TypeOK, NEW s \in SessionId, NEW state \in {"ACTIVE", "SUSPENDED"},
           NEW age \in 0 .. IdleTimeout + 1, SaveSession(s, state, age)
    PROVE  /\ rowState' \in [SessionId -> {"NONE", "ACTIVE", "SUSPENDED"}]
           /\ rowIdle' \in [SessionId -> 0 .. IdleTimeout + 1]
           /\ dirty' \in SUBSET SessionId
BY DEF TypeOK, SaveSession

LEMMA DeleteTypeOK ==
    ASSUME TypeOK, NEW s \in SessionId, DeleteSession(s)
    PROVE  /\ rowState' \in [SessionId -> {"NONE", "ACTIVE", "SUSPENDED"}]
           /\ rowIdle' \in [SessionId -> 0 .. IdleTimeout + 1]
           /\ dirty' \in SUBSET SessionId
BY ConstantsAssumption DEF TypeOK, DeleteSession
-----------------------------------------------------------------------------
\* Every variable keeps its type.
LEMMA InitTypeOK == Init => TypeOK
BY ConstantsAssumption DEF Init, TypeOK, NotStamped

LEMMA ActivateTypeOK ==
    ASSUME TypeOK, NEW s \in SessionId, Activate(s)
    PROVE  TypeOK'
<1>1. 0 \in 0 .. IdleTimeout + 1
  BY ConstantsAssumption
<1>2. SaveSession(s, "ACTIVE", 0)
  BY DEF Activate
<1>3. /\ rowState' \in [SessionId -> {"NONE", "ACTIVE", "SUSPENDED"}]
      /\ rowIdle' \in [SessionId -> 0 .. IdleTimeout + 1]
      /\ dirty' \in SUBSET SessionId
  BY <1>1, <1>2, SaveTypeOK
<1>4. /\ status' \in [SessionId -> {"COLD", "ACTIVE", "SUSPENDED", "DESTROYED"}]
      /\ conn' \in [SessionId -> BOOLEAN]
  BY DEF Activate, TypeOK
<1>5. /\ idle' \in [SessionId -> 0 .. IdleTimeout + 1]
      /\ suspAge' \in [SessionId -> NotStamped .. MaxSuspendAge + 1]
  BY <1>1, ConstantsAssumption DEF Activate, TypeOK, NotStamped
<1>6. workgroup' \in [SessionId -> Workgroup]
  BY DEF Activate, TypeOK
<1> QED
  BY <1>3, <1>4, <1>5, <1>6 DEF TypeOK

LEMMA NextTypeOK == TypeOK /\ [Next]_vars => TypeOK'
<1> SUFFICES ASSUME TypeOK, [Next]_vars PROVE TypeOK'
  OBVIOUS
<1> USE ConstantsAssumption
<1>0. 0 \in 0 .. IdleTimeout + 1
  OBVIOUS
<1>1. ASSUME NEW s \in SessionId, NEW w \in Workgroup, NEW limited \in BOOLEAN,
            CreateSession(s, w, limited)
      PROVE  TypeOK'
  <2>1. SaveSession(s, "ACTIVE", 0)
    BY <1>1 DEF CreateSession
  <2>2. /\ rowState' \in [SessionId -> {"NONE", "ACTIVE", "SUSPENDED"}]
        /\ rowIdle' \in [SessionId -> 0 .. IdleTimeout + 1]
        /\ dirty' \in SUBSET SessionId
    BY <1>0, <2>1, SaveTypeOK
  <2>3. /\ status' \in [SessionId -> {"COLD", "ACTIVE", "SUSPENDED", "DESTROYED"}]
        /\ conn' \in [SessionId -> BOOLEAN]
        /\ workgroup' \in [SessionId -> Workgroup]
    BY <1>1 DEF CreateSession, TypeOK
  <2>4. /\ idle' \in [SessionId -> 0 .. IdleTimeout + 1]
        /\ suspAge' \in [SessionId -> NotStamped .. MaxSuspendAge + 1]
    BY <1>0, <1>1 DEF CreateSession, TypeOK
  <2> QED
    BY <2>2, <2>3, <2>4 DEF TypeOK
<1>2. ASSUME NEW s \in SessionId,
             CreateByResuming(s) \/ ResumeSession(s) \/ ExecuteSuspended(s)
      PROVE  TypeOK'
  <2>1. Activate(s)
    BY <1>2 DEF CreateByResuming, ResumeSession, ExecuteSuspended
  <2> QED
    BY <2>1, ActivateTypeOK
<1>3. ASSUME NEW s \in SessionId, DestroySession(s)
      PROVE  TypeOK'
  <2>1. DeleteSession(s)
    BY <1>3 DEF DestroySession
  <2> QED
    BY <1>3, <2>1, DeleteTypeOK DEF DestroySession, TypeOK, NotStamped
<1>4. ASSUME NEW s \in SessionId, SuspendSession(s)
      PROVE  TypeOK'
  <2>1. SaveSession(s, "SUSPENDED", idle[s]) /\ idle[s] \in 0 .. IdleTimeout + 1
    BY <1>4 DEF SuspendSession, TypeOK
  <2>2. /\ rowState' \in [SessionId -> {"NONE", "ACTIVE", "SUSPENDED"}]
        /\ rowIdle' \in [SessionId -> 0 .. IdleTimeout + 1]
        /\ dirty' \in SUBSET SessionId
    BY <2>1, SaveTypeOK
  <2>3. /\ status' \in [SessionId -> {"COLD", "ACTIVE", "SUSPENDED", "DESTROYED"}]
        /\ conn' \in [SessionId -> BOOLEAN]
        /\ workgroup' \in [SessionId -> Workgroup]
    BY <1>4 DEF SuspendSession, TypeOK
  <2>4. /\ idle' \in [SessionId -> 0 .. IdleTimeout + 1]
        /\ suspAge' \in [SessionId -> NotStamped .. MaxSuspendAge + 1]
    BY <1>4 DEF SuspendSession, TypeOK, NotStamped
  <2> QED
    BY <2>2, <2>3, <2>4 DEF TypeOK
<1>5. ASSUME NEW s \in SessionId, ExecuteActive(s)
      PROVE  TypeOK'
  BY <1>5 DEF ExecuteActive, store, TypeOK
<1>6. CASE WatchdogTurn
  BY <1>6 DEF WatchdogTurn, TypeOK, NotStamped
<1>7. CASE LoadFromStore
  BY <1>7 DEF LoadFromStore, TypeOK, NotStamped
<1>8. CASE Tick
  <2>1. idle' \in [SessionId -> 0 .. IdleTimeout + 1]
    BY <1>8, OlderInRange DEF Tick, TypeOK
  <2>2. rowIdle' \in [SessionId -> 0 .. IdleTimeout + 1]
    BY <1>8, OlderInRange DEF Tick, TypeOK
  <2>3. suspAge' \in [SessionId -> NotStamped .. MaxSuspendAge + 1]
    BY <1>8 DEF Tick, TypeOK, Older, NotStamped
  <2> QED
    BY <1>8, <2>1, <2>2, <2>3 DEF Tick, TypeOK
<1>9. CASE UNCHANGED vars
  BY <1>9 DEF vars, TypeOK
<1> QED
  BY <1>1, <1>2, <1>3, <1>4, <1>5, <1>6, <1>7, <1>8, <1>9 DEF Next

\* The states of the manager and of its table are of their types, whatever the
\* timeouts and however many writes are lost.
THEOREM TypeCorrect == Spec => []TypeOK
<1>1. Init => TypeOK
  BY InitTypeOK
<1>2. TypeOK /\ [Next]_vars => TypeOK'
  BY NextTypeOK
<1> QED
  BY <1>1, <1>2, PTL DEF Spec
-----------------------------------------------------------------------------
\* Connections and statuses go together through every step.
LEMMA NextConnMatchesStatus ==
    TypeOK /\ ConnMatchesStatus /\ [Next]_vars => ConnMatchesStatus'
<1> SUFFICES ASSUME TypeOK, ConnMatchesStatus, [Next]_vars PROVE ConnMatchesStatus'
  OBVIOUS
<1> USE DEF ConnMatchesStatus
<1>1. ASSUME NEW s \in SessionId, NEW w \in Workgroup, NEW limited \in BOOLEAN,
            CreateSession(s, w, limited)
      PROVE  ConnMatchesStatus'
  BY <1>1 DEF CreateSession, TypeOK
<1>2. ASSUME NEW s \in SessionId,
             CreateByResuming(s) \/ ResumeSession(s) \/ ExecuteSuspended(s)
      PROVE  ConnMatchesStatus'
  BY <1>2 DEF CreateByResuming, ResumeSession, ExecuteSuspended, Activate, TypeOK
<1>3. ASSUME NEW s \in SessionId, DestroySession(s)
      PROVE  ConnMatchesStatus'
  BY <1>3 DEF DestroySession, TypeOK
<1>4. ASSUME NEW s \in SessionId, SuspendSession(s)
      PROVE  ConnMatchesStatus'
  BY <1>4 DEF SuspendSession, TypeOK
<1>5. ASSUME NEW s \in SessionId, ExecuteActive(s)
      PROVE  ConnMatchesStatus'
  BY <1>5 DEF ExecuteActive
<1>6. CASE WatchdogTurn
  <2>1. PICK cool \in SUBSET Expired, reap \in SUBSET Stale :
          /\ status' = [s \in SessionId |-> CASE s \in cool -> "SUSPENDED"
                                              [] s \in reap -> "DESTROYED"
                                              [] OTHER -> status[s]]
          /\ conn' = [s \in SessionId |-> s \notin cool \cup reap /\ conn[s]]
    BY <1>6 DEF WatchdogTurn
  <2> SUFFICES ASSUME NEW s \in SessionId
               PROVE  conn'[s] <=> status'[s] = "ACTIVE"
    OBVIOUS
  <2>2. conn'[s] <=> s \notin cool \cup reap /\ conn[s]
    BY <2>1, Zenon
  <2>3. status'[s] = "ACTIVE" <=> s \notin cool \cup reap /\ status[s] = "ACTIVE"
    BY <2>1
  <2> QED
    BY <2>2, <2>3
<1>7. CASE LoadFromStore
  <2> SUFFICES ASSUME NEW s \in SessionId
               PROVE  conn'[s] <=> status'[s] = "ACTIVE"
    OBVIOUS
  <2>1. conn'[s] <=> rowState[s] = "ACTIVE"
    BY <1>7, Zenon DEF LoadFromStore
  <2>2. status'[s] = "ACTIVE" <=> rowState[s] = "ACTIVE"
    BY <1>7 DEF LoadFromStore
  <2> QED
    BY <2>1, <2>2
<1>8. CASE Tick
  BY <1>8 DEF Tick
<1>9. CASE UNCHANGED vars
  BY <1>9 DEF vars
<1> QED
  BY <1>1, <1>2, <1>3, <1>4, <1>5, <1>6, <1>7, <1>8, <1>9 DEF Next

\* A DuckDB connection is open exactly while its session is ACTIVE, through
\* suspends, sweeps, destroys, lost writes and restarts.
THEOREM ConnectionsMatch == Spec => []ConnMatchesStatus
<1>1. Init => ConnMatchesStatus
  BY DEF Init, ConnMatchesStatus
<1>2. TypeOK /\ ConnMatchesStatus /\ [Next]_vars => ConnMatchesStatus'
  BY NextConnMatchesStatus
<1> QED
  BY <1>1, <1>2, TypeCorrect, PTL DEF Spec
-----------------------------------------------------------------------------
\* After a save, and after a delete, the row is right or the session is dirty,
\* and the other sessions are as they were.
LEMMA SaveAgrees ==
    ASSUME TypeOK, NEW s \in SessionId, NEW state, NEW age, SaveSession(s, state, age)
    PROVE  /\ s \notin dirty' => rowState'[s] = state
           /\ \A u \in SessionId \ {s} : /\ u \in dirty' <=> u \in dirty
                                         /\ rowState'[u] = rowState[u]
BY DEF TypeOK, SaveSession

LEMMA DeleteAgrees ==
    ASSUME TypeOK, NEW s \in SessionId, DeleteSession(s)
    PROVE  /\ s \notin dirty' => rowState'[s] = "NONE"
           /\ \A u \in SessionId \ {s} : /\ u \in dirty' <=> u \in dirty
                                         /\ rowState'[u] = rowState[u]
BY DEF TypeOK, DeleteSession

\* One session becomes ACTIVE or SUSPENDED and is saved as such.
LEMMA SavedSessionAgrees ==
    ASSUME TypeOK, DurableAgreement, NEW s \in SessionId,
           NEW state \in {"ACTIVE", "SUSPENDED"}, NEW age, SaveSession(s, state, age),
           status' = [status EXCEPT ![s] = state]
    PROVE  DurableAgreement'
<1>1. status'[s] = state /\ \A u \in SessionId \ {s} : status'[u] = status[u]
  BY DEF TypeOK
<1>2. /\ s \notin dirty' => rowState'[s] = state
      /\ \A u \in SessionId \ {s} : /\ u \in dirty' <=> u \in dirty
                                    /\ rowState'[u] = rowState[u]
  BY SaveAgrees
<1> QED
  BY <1>1, <1>2 DEF DurableAgreement, Live

LEMMA NextDurableAgreement ==
    TypeOK /\ DurableAgreement /\ [Next]_vars => DurableAgreement'
<1> SUFFICES ASSUME TypeOK, DurableAgreement, [Next]_vars PROVE DurableAgreement'
  OBVIOUS
<1>1. ASSUME NEW s \in SessionId, NEW w \in Workgroup, NEW limited \in BOOLEAN,
            CreateSession(s, w, limited)
      PROVE  DurableAgreement'
  BY <1>1, SavedSessionAgrees DEF CreateSession
<1>2. ASSUME NEW s \in SessionId,
             CreateByResuming(s) \/ ResumeSession(s) \/ ExecuteSuspended(s)
      PROVE  DurableAgreement'
  <2>1. Activate(s)
    BY <1>2 DEF CreateByResuming, ResumeSession, ExecuteSuspended
  <2> QED
    BY <2>1, SavedSessionAgrees DEF Activate
<1>3. ASSUME NEW s \in SessionId, DestroySession(s)
      PROVE  DurableAgreement'
  <2>1. status'[s] = "DESTROYED" /\ \A u \in SessionId \ {s} : status'[u] = status[u]
    BY <1>3 DEF DestroySession, TypeOK
  <2>2. /\ s \notin dirty' => rowState'[s] = "NONE"
        /\ \A u \in SessionId \ {s} : /\ u \in dirty' <=> u \in dirty
                                      /\ rowState'[u] = rowState[u]
    BY <1>3, DeleteAgrees DEF DestroySession
  <2> QED
    BY <2>1, <2>2 DEF DurableAgreement, Live
<1>4. ASSUME NEW s \in SessionId, SuspendSession(s)
      PROVE  DurableAgreement'
  BY <1>4, SavedSessionAgrees DEF SuspendSession
<1>5. ASSUME NEW s \in SessionId, ExecuteActive(s)
      PROVE  DurableAgreement'
  BY <1>5 DEF ExecuteActive, store, DurableAgreement, Live
<1>6. CASE WatchdogTurn
  <2>1. PICK cool \in SUBSET Expired, reap \in SUBSET Stale, lost \in SUBSET SessionId :
          /\ status' = [s \in SessionId |-> CASE s \in cool -> "SUSPENDED"
                                              [] s \in reap -> "DESTROYED"
                                              [] OTHER -> status[s]]
          /\ rowState' = [s \in SessionId |-> CASE s \in cool \ lost -> "SUSPENDED"
                                                [] s \in reap \ lost -> "NONE"
                                                [] OTHER -> rowState[s]]
          /\ dirty' = (dirty \ (cool \cup reap)) \cup lost
    BY <1>6, Zenon DEF WatchdogTurn
  <2>2. \A s \in SessionId : ~(s \in cool /\ s \in reap)
    BY DEF Expired, Stale
  <2>3. SUFFICES ASSUME NEW s \in SessionId \ dirty'
                 PROVE  rowState'[s] = IF s \in Live' THEN status'[s] ELSE "NONE"
    BY DEF DurableAgreement
  <2>4. CASE s \in cool
    BY <2>1, <2>3, <2>4 DEF Live
  <2>5. CASE s \in reap
    BY <2>1, <2>2, <2>3, <2>5 DEF Live
  <2>6. CASE s \notin cool \cup reap
    BY <2>1, <2>3, <2>6 DEF Live, DurableAgreement
  <2> QED
    BY <2>4, <2>5, <2>6
<1>7. CASE LoadFromStore
  BY <1>7 DEF LoadFromStore, DurableAgreement, Live, TypeOK
<1>8. CASE Tick
  BY <1>8 DEF Tick, DurableAgreement, Live
<1>9. CASE UNCHANGED vars
  BY <1>9 DEF vars, DurableAgreement, Live
<1> QED
  BY <1>1, <1>2, <1>3, <1>4, <1>5, <1>6, <1>7, <1>8, <1>9 DEF Next

\* A restart brings back each session as it was, except those whose last write to
\* the store was lost.
THEOREM Durable == Spec => []DurableAgreement
<1>1. Init => DurableAgreement
  BY DEF Init, DurableAgreement, Live
<1>2. TypeOK /\ DurableAgreement /\ [Next]_vars => DurableAgreement'
  BY NextDurableAgreement
<1> QED
  BY <1>1, <1>2, TypeCorrect, PTL DEF Spec

\* No step but load_from_store makes a destroyed session anything else, and that
\* one only when the delete was lost.
THEOREM ResurrectionNeedsLostDelete == Spec => OnlyLostDeletesResurrect
<1> DEFINE Stays == \A s \in SessionId :
                      status[s] = "DESTROYED" /\ status'[s] # "DESTROYED" => s \in dirty
<1>1. ASSUME TypeOK, DurableAgreement, [Next]_vars
      PROVE  [Stays]_vars
  <2> SUFFICES ASSUME NEW s \in SessionId, status[s] = "DESTROYED",
                      status'[s] # "DESTROYED"
               PROVE  s \in dirty
    OBVIOUS
  <2>1. ASSUME NEW u \in SessionId,
               \/ \E w \in Workgroup, limited \in BOOLEAN : CreateSession(u, w, limited)
               \/ CreateByResuming(u) \/ ResumeSession(u) \/ ExecuteSuspended(u)
               \/ SuspendSession(u) \/ DestroySession(u) \/ ExecuteActive(u)
        PROVE  FALSE
    <3>1. status[u] # "DESTROYED"
      BY <2>1 DEF CreateSession, CreateByResuming, ResumeSession, ExecuteSuspended,
                  SuspendedIn, SuspendSession, DestroySession, ExecuteActive, Live
    <3>2. \A v \in SessionId \ {u} : status'[v] = status[v]
      BY <1>1, <2>1 DEF TypeOK, CreateSession, CreateByResuming, ResumeSession,
                ExecuteSuspended, Activate, SuspendSession, DestroySession, ExecuteActive
    <3> QED
      BY <3>1, <3>2
  <2>2. CASE WatchdogTurn
    BY <2>2 DEF WatchdogTurn, Expired, Stale
  <2>3. CASE LoadFromStore
    BY <1>1, <2>3 DEF LoadFromStore, DurableAgreement, Live
  <2>4. CASE Tick
    BY <2>4 DEF Tick
  <2>5. CASE UNCHANGED vars
    BY <2>5 DEF vars
  <2> QED
    BY <1>1, <2>1, <2>2, <2>3, <2>4, <2>5 DEF Next
<1> QED
  BY <1>1, TypeCorrect, Durable, PTL DEF Spec, OnlyLostDeletesResurrect
-----------------------------------------------------------------------------
\* Saving a session leaves its row no younger than the session, if the age it
\* saves is not below the session's, or if its age becomes 0.
LEMMA SavedRowNotAhead ==
    ASSUME TypeOK, RowNotAhead, NEW s \in SessionId, NEW state,
           NEW age \in 0 .. IdleTimeout + 1, SaveSession(s, state, age),
           NEW now \in 0 .. IdleTimeout + 1, idle' = [idle EXCEPT ![s] = now],
           now = 0 \/ (s \in Live /\ now = idle[s] /\ age = idle[s]),
           \A u \in SessionId \ {s} : status'[u] = status[u]
    PROVE  RowNotAhead'
<1> SUFFICES ASSUME NEW u \in SessionId, u \in Live', rowState'[u] # "NONE"
             PROVE  rowIdle'[u] >= idle'[u]
  BY DEF RowNotAhead, Live
<1> USE ConstantsAssumption
<1>1. rowIdle' \in [SessionId -> 0 .. IdleTimeout + 1]
  BY DEF SaveSession, TypeOK
<1>2. CASE u # s
  <2>1. u \in Live /\ rowState'[u] = rowState[u] /\ rowIdle'[u] = rowIdle[u]
    BY <1>2 DEF Live, SaveSession, TypeOK
  <2>2. idle'[u] = idle[u]
    BY <1>2 DEF TypeOK
  <2> QED
    BY <2>1, <2>2 DEF RowNotAhead
<1>3. CASE u = s /\ now = 0
  <2>1. idle'[u] = 0
    BY <1>3 DEF TypeOK
  <2>2. rowIdle'[u] \in 0 .. IdleTimeout + 1
    BY <1>1
  <2> QED
    BY <2>1, <2>2
<1>4. CASE u = s /\ now # 0
  <2>1. idle'[u] = idle[u] /\ age = idle[u] /\ u \in Live /\ idle[u] \in 0 .. IdleTimeout + 1
    BY <1>4 DEF TypeOK
  <2>2. \/ rowIdle'[u] = age
        \/ rowState'[u] = rowState[u] /\ rowIdle'[u] = rowIdle[u]
    BY <1>4 DEF SaveSession, TypeOK
  <2> QED
    BY <2>1, <2>2 DEF RowNotAhead
<1> QED
  BY <1>2, <1>3, <1>4

LEMMA NextRowNotAhead == TypeOK /\ RowNotAhead /\ [Next]_vars => RowNotAhead'
<1> SUFFICES ASSUME TypeOK, RowNotAhead, [Next]_vars PROVE RowNotAhead'
  OBVIOUS
<1> USE ConstantsAssumption
<1>0. 0 \in 0 .. IdleTimeout + 1
  OBVIOUS
<1>1. ASSUME NEW s \in SessionId, NEW w \in Workgroup, NEW limited \in BOOLEAN,
            CreateSession(s, w, limited)
      PROVE  RowNotAhead'
  <2>1. \A u \in SessionId \ {s} : status'[u] = status[u]
    BY <1>1 DEF CreateSession, TypeOK
  <2> QED
    BY <1>0, <1>1, <2>1, SavedRowNotAhead DEF CreateSession
<1>2. ASSUME NEW s \in SessionId,
             CreateByResuming(s) \/ ResumeSession(s) \/ ExecuteSuspended(s)
      PROVE  RowNotAhead'
  <2>1. Activate(s)
    BY <1>2 DEF CreateByResuming, ResumeSession, ExecuteSuspended
  <2>2. \A u \in SessionId \ {s} : status'[u] = status[u]
    BY <2>1 DEF Activate, TypeOK
  <2> QED
    BY <1>0, <2>1, <2>2, SavedRowNotAhead DEF Activate
<1>3. ASSUME NEW s \in SessionId, DestroySession(s)
      PROVE  RowNotAhead'
  <2> SUFFICES ASSUME NEW u \in SessionId, u \in Live', rowState'[u] # "NONE"
               PROVE  rowIdle'[u] >= idle'[u]
    BY DEF RowNotAhead, Live
  <2>1. u # s
    BY <1>3 DEF DestroySession, Live, TypeOK
  <2>2. u \in Live /\ idle'[u] = idle[u]
    BY <1>3, <2>1 DEF DestroySession, Live, TypeOK
  <2>3. rowState'[u] = rowState[u] /\ rowIdle'[u] = rowIdle[u]
    BY <1>3, <2>1 DEF DestroySession, DeleteSession, TypeOK
  <2> QED
    BY <2>2, <2>3 DEF RowNotAhead
<1>4. ASSUME NEW s \in SessionId, SuspendSession(s)
      PROVE  RowNotAhead'
  <2>1. idle[s] \in 0 .. IdleTimeout + 1 /\ idle' = [idle EXCEPT ![s] = idle[s]] /\ s \in Live
    BY <1>4 DEF SuspendSession, TypeOK
  <2>2. \A u \in SessionId \ {s} : status'[u] = status[u]
    BY <1>4 DEF SuspendSession, TypeOK
  <2> QED
    BY <1>4, <2>1, <2>2, SavedRowNotAhead DEF SuspendSession
<1>5. ASSUME NEW s \in SessionId, ExecuteActive(s)
      PROVE  RowNotAhead'
  <2> SUFFICES ASSUME NEW u \in SessionId, u \in Live, rowState[u] # "NONE"
               PROVE  rowIdle[u] >= idle'[u]
    BY <1>5 DEF RowNotAhead, Live, ExecuteActive, store
  <2>1. idle'[u] = IF u = s THEN 0 ELSE idle[u]
    BY <1>5 DEF ExecuteActive, TypeOK
  <2>2. rowIdle[u] \in 0 .. IdleTimeout + 1
    BY DEF TypeOK
  <2> QED
    BY <2>1, <2>2 DEF RowNotAhead
<1>6. CASE WatchdogTurn
  <2>1. PICK cool \in SUBSET Expired, reap \in SUBSET Stale, lost \in SUBSET SessionId :
          /\ status' = [s \in SessionId |-> CASE s \in cool -> "SUSPENDED"
                                              [] s \in reap -> "DESTROYED"
                                              [] OTHER -> status[s]]
          /\ idle' = [s \in SessionId |-> IF s \in reap THEN 0 ELSE idle[s]]
          /\ rowState' = [s \in SessionId |-> CASE s \in cool \ lost -> "SUSPENDED"
                                                [] s \in reap \ lost -> "NONE"
                                                [] OTHER -> rowState[s]]
          /\ rowIdle' = [s \in SessionId |-> CASE s \in cool \ lost -> idle[s]
                                               [] s \in reap \ lost -> 0
                                               [] OTHER -> rowIdle[s]]
    BY <1>6, SMTT(30) DEF WatchdogTurn
  <2> SUFFICES ASSUME NEW u \in SessionId, u \in Live', rowState'[u] # "NONE"
               PROVE  rowIdle'[u] >= idle'[u]
    BY DEF RowNotAhead, Live
  <2>2. u \notin reap
    BY <2>1 DEF Live, Expired, Stale
  <2>3. u \in Live /\ idle'[u] = idle[u] /\ idle[u] \in 0 .. IdleTimeout + 1
    BY <2>1, <2>2 DEF Live, Expired, TypeOK
  <2>4. CASE u \in cool \ lost
    BY <2>1, <2>3, <2>4
  <2>5. CASE u \notin cool \ lost
    BY <2>1, <2>2, <2>3, <2>5 DEF RowNotAhead
  <2> QED
    BY <2>4, <2>5
<1>7. CASE LoadFromStore
  <2>1. \A u \in SessionId : rowIdle'[u] = idle'[u] /\ rowIdle'[u] \in 0 .. IdleTimeout + 1
    BY <1>7 DEF LoadFromStore, TypeOK
  <2> QED
    BY <2>1 DEF RowNotAhead, Live
<1>8. CASE Tick
  <2> SUFFICES ASSUME NEW u \in SessionId, u \in Live, rowState[u] # "NONE"
               PROVE  rowIdle'[u] >= idle'[u]
    BY <1>8 DEF RowNotAhead, Live, Tick
  <2>1. /\ rowIdle'[u] = Older(rowIdle[u], IdleTimeout)
        /\ idle'[u] = Older(idle[u], IdleTimeout)
    BY <1>8 DEF Tick
  <2>2. /\ rowIdle[u] \in 0 .. IdleTimeout + 1 /\ idle[u] \in 0 .. IdleTimeout + 1
        /\ rowIdle[u] >= idle[u]
    BY DEF TypeOK, RowNotAhead
  <2> QED
    BY <2>1, <2>2, OlderMonotone
<1>9. CASE UNCHANGED vars
  BY <1>9 DEF vars, RowNotAhead, Live
<1> QED
  BY <1>1, <1>2, <1>3, <1>4, <1>5, <1>6, <1>7, <1>8, <1>9 DEF Next

\* The store never claims a more recent use of a session than it had: a restart
\* does not make an idle session look fresh.
THEOREM RowsNotAhead == Spec => []RowNotAhead
<1>1. Init => RowNotAhead
  BY DEF Init, RowNotAhead, Live
<1>2. TypeOK /\ RowNotAhead /\ [Next]_vars => RowNotAhead'
  BY NextRowNotAhead
<1> QED
  BY <1>1, <1>2, TypeCorrect, PTL DEF Spec
-----------------------------------------------------------------------------
\* With a store that loses no write no session is ever dirty.
LEMMA NothingLost ==
    ASSUME StoreMayFail = FALSE
    PROVE  Spec => [](dirty = {})
<1>1. Init => dirty = {}
  BY DEF Init
<1>2. dirty = {} /\ [Next]_vars => (dirty = {})'
  <2> SUFFICES ASSUME dirty = {}, [Next]_vars PROVE dirty' = {}
    OBVIOUS
  <2>1. ASSUME NEW s \in SessionId, NEW state, NEW age, SaveSession(s, state, age)
        PROVE  dirty' = {}
    BY <2>1 DEF SaveSession
  <2>2. ASSUME NEW s \in SessionId, DeleteSession(s)
        PROVE  dirty' = {}
    BY <2>2 DEF DeleteSession
  <2>3. CASE WatchdogTurn
    BY <2>3 DEF WatchdogTurn, Interrupted
  <2> QED
    BY <2>1, <2>2, <2>3 DEF Next, CreateSession, CreateByResuming, ResumeSession,
       ExecuteSuspended, Activate, SuspendSession, DestroySession, ExecuteActive, store,
       LoadFromStore, Tick, vars
<1> QED
  BY <1>1, <1>2, PTL DEF Spec

\* Restarting is invisible when the store agrees with the memory.
LEMMA RestartStutters ==
    ASSUME TypeOK, DurableAgreement, dirty = {}, LoadFromStore
    PROVE  status' = status
<1>1. \A s \in SessionId : status'[s] = status[s]
  BY DEF LoadFromStore, DurableAgreement, Live, TypeOK
<1>2. /\ status' = [s \in SessionId |-> status'[s]]
      /\ status = [s \in SessionId |-> status[s]]
  BY DEF LoadFromStore, TypeOK
<1> QED
  BY <1>1, <1>2

\* The session engine implements the life cycle of ARCHITECTURE.md: every step
\* opens, resumes, closes or sweeps sessions or changes nothing a client can see,
\* a restart included, provided that the store loses no write.
THEOREM ImplementsLifecycle ==
    ASSUME StoreMayFail = FALSE
    PROVE  Spec => RefinesLifecycle
<1>1. Init => Lifecycle!Init
  BY DEF Init, Lifecycle!Init
<1>2. ASSUME TypeOK, DurableAgreement, dirty = {}, [Next]_vars
      PROVE  [Lifecycle!Next]_status
  <2> USE <1>2
  <2>1. ASSUME NEW s \in SessionId, NEW w \in Workgroup, NEW limited \in BOOLEAN,
            CreateSession(s, w, limited)
        PROVE  Lifecycle!Open(s)
    BY <2>1 DEF CreateSession, Lifecycle!Open
  <2>2. ASSUME NEW s \in SessionId,
               CreateByResuming(s) \/ ResumeSession(s) \/ ExecuteSuspended(s)
        PROVE  Lifecycle!Resume(s)
    BY <2>2 DEF CreateByResuming, SuspendedIn, ResumeSession, ExecuteSuspended, Activate,
       Live, Lifecycle!Resume
  <2>3. ASSUME NEW s \in SessionId, DestroySession(s)
        PROVE  Lifecycle!Close(s)
    BY <2>3 DEF DestroySession, Live, Lifecycle!Close
  <2>4. ASSUME NEW s \in SessionId, SuspendSession(s)
        PROVE  Lifecycle!Sweep({s}, {})
    <3>1. status[s] = "ACTIVE" /\ status' = [status EXCEPT ![s] = "SUSPENDED"]
      BY <2>4 DEF SuspendSession, Live
    <3>2. status' = [u \in SessionId |-> IF u \in {s} THEN "SUSPENDED"
                                         ELSE IF u \in {} THEN "DESTROYED" ELSE status[u]]
      BY <3>1 DEF TypeOK
    <3> QED
      BY <3>1, <3>2 DEF Lifecycle!Sweep
  <2>5. ASSUME NEW s \in SessionId, ExecuteActive(s)
        PROVE  UNCHANGED status
    BY <2>5 DEF ExecuteActive
  <2>6. CASE WatchdogTurn
    <3>1. PICK cool \in SUBSET Expired, reap \in SUBSET Stale :
            status' = [s \in SessionId |-> CASE s \in cool -> "SUSPENDED"
                                             [] s \in reap -> "DESTROYED"
                                             [] OTHER -> status[s]]
      BY <2>6 DEF WatchdogTurn
    <3>2. Lifecycle!Sweep(cool, reap)
      BY <3>1 DEF Expired, Stale, Lifecycle!Sweep
    <3>3. cool \in SUBSET SessionId /\ reap \in SUBSET SessionId
      BY DEF Expired, Stale
    <3> QED
      BY <3>2, <3>3 DEF Lifecycle!Next
  <2>7. CASE LoadFromStore
    BY <2>7, RestartStutters
  <2>8. CASE Tick
    BY <2>8 DEF Tick
  <2>9. CASE UNCHANGED vars
    BY <2>9 DEF vars
  <2> QED
    BY <2>1, <2>2, <2>3, <2>4, <2>5, <2>6, <2>7, <2>8, <2>9 DEF Next, Lifecycle!Next
<1> QED
  BY <1>1, <1>2, TypeCorrect, Durable, NothingLost, PTL
     DEF Spec, RefinesLifecycle, Lifecycle!Spec
=============================================================================
