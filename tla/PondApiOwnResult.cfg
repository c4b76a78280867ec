\* Two statements of one session.
CONSTANTS
    SessionId = {s1}
    Statement = {q1, q2}
    Worker = {t1, t2}
    Managed = {s1}
    Asked = {"suspend", "resume", "destroy"}
    Loop = loop
    Encodable = {q1, q2}
    Connection = {1, 2, 3, 4, 5}
    None = none
SPECIFICATION Spec
INVARIANTS OwnResult
