\* One call with every choice of limits; a result of one write, of two, and one
\* that does not fit into the pipe.  A call whose result does not fit may wait for
\* ever, and one that is done stops here.
CONSTANTS
    Capacity = 2
    Size = {1, 2, 3}
SPECIFICATION RunnerSpec
INVARIANTS NothingLost
PROPERTIES CallsEnd
CHECK_DEADLOCK FALSE
