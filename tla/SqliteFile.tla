----------------------------- MODULE SqliteFile -----------------------------
(***************************************************************************)
(* The SQLite file behind POND_SQLITE_PATH, as its connections share it.   *)
(* MetadataStore, UserStore and MemoryStore each open one; Python's        *)
(* sqlite3 begins a transaction before an INSERT, UPDATE or DELETE, and    *)
(* only commit() ends it: the stores never roll back.  The file is in WAL  *)
(* mode, so there is one writer, and readers keep the snapshot they took.  *)
(* External: this is the library as the stores use it.                     *)
(***************************************************************************)
EXTENDS Naturals

CONSTANT Connection
VARIABLE mode   \* of each connection:
                \* "idle"     no transaction is open
                \* "begun"    one is open, of a write that did not get to the file
                \* "reading"  a SELECT in it has taken a snapshot
                \* "stale"    another connection has committed since
                \* "holding"  one is open after a constraint failed: it has the lock

Mode == {"idle", "begun", "reading", "stale", "holding"}

FileInit == mode = [c \in Connection |-> "idle"]

Locked(c) == \E d \in Connection \ {c} : mode[d] = "holding"

\* A SELECT: only in an open transaction does it leave something behind.
Read(c) ==
    mode' = [mode EXCEPT ![c] = IF @ = "begun" THEN "reading" ELSE @]

\* A transaction, begun now or before, stays open; reads says whether the handler
\* has read before.
LeaveOpen(c, reads) ==
    mode' = [mode EXCEPT ![c] = IF @ = "idle" THEN "begun"
                                ELSE IF @ = "begun" /\ reads THEN "reading" ELSE @]

\* execute() raises "database is locked": after the busy timeout, or at once when
\* the snapshot is stale.
WriteBusy(c, reads) ==
    /\ Locked(c) \/ mode[c] = "stale"
    /\ LeaveOpen(c, reads)

\* execute() raises because a value cannot be bound, such as a string with half of
\* a surrogate pair: after BEGIN and before the statement.
WriteUnbound(c, reads) == LeaveOpen(c, reads)

\* execute() raises IntegrityError and nobody commits or rolls back.
WriteRefused(c) ==
    /\ ~Locked(c) /\ mode[c] # "stale"
    /\ mode' = [mode EXCEPT ![c] = "holding"]

\* execute() and commit().
WriteCommitted(c) ==
    /\ ~Locked(c) /\ mode[c] # "stale"
    /\ mode' = [d \in Connection |-> IF d = c THEN "idle"
                                     ELSE IF mode[d] = "reading" THEN "stale" ELSE mode[d]]
=============================================================================
