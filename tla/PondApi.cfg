\* Two sessions (one of them suspended, resumed and destroyed at any moment), a
\* pool of two threads, two statements, the rows of one of them not encodable.
CONSTANTS
    SessionId = {s1, s2}
    Statement = {q1, q2}
    Worker = {t1, t2}
    Managed = {s1}
    Asked = {"suspend", "destroy"}
    Loop = loop
    Encodable = {q1}
    Connection = {1, 2, 3, 4, 5, 6}
    None = none
SPECIFICATION Spec
INVARIANTS TypeOK SessionIsolation TornOnlyByRaces
PROPERTIES SettledIsFinal ResultsArrive
