---------------------------- MODULE MCAgentMemory ----------------------------
(* Two agents of one workgroup, one of them known only by its tenant, and an  *)
(* agent of another workgroup who is an admin.                                *)
EXTENDS AgentMemory, TLC

MCClaims ==
    {[tenant |-> "w1", workgroup |-> None, sub |-> "w1", agent |-> None, admin |-> FALSE],
     [tenant |-> "t", workgroup |-> "w1", sub |-> "t", agent |-> "b", admin |-> FALSE],
     [tenant |-> "w2", workgroup |-> None, sub |-> "w2", agent |-> "b", admin |-> TRUE]}

MCMemoryBodies ==
    {[agent |-> "w1", type |-> "working", scope |-> "private", key |-> "k",
      importance |-> 1, expires |-> 1],
     [agent |-> "b", type |-> "episodic", scope |-> "workgroup", key |-> "k",
      importance |-> 0, expires |-> 1],
     [agent |-> "b", type |-> "working", scope |-> "workgroup", key |-> None,
      importance |-> 1, expires |-> 0],
     [agent |-> "b", type |-> "working", scope |-> "private", key |-> Blank,
      importance |-> 1, expires |-> 0]}

MCGrantBodies ==
    {[grantor |-> "w1", workgroup |-> "w2", agent |-> None, type |-> "working",
      importance |-> 0, permission |-> "read", until |-> 2],
     [grantor |-> "w1", workgroup |-> None, agent |-> "b", type |-> None,
      importance |-> 1, permission |-> "read_write", until |-> 0]}

Symmetry == Permutations(MemoryId) \cup Permutations(GrantId)
=============================================================================
