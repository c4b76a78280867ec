----------------------- MODULE DatasetsAndRunnerProofs -----------------------
(***************************************************************************)
(* Proofs about two components that stand beside the engine.               *)
(*                                                                         *)
(* Datasets: what a connected session shows of them, for every set of      *)
(* files, contents and sessions and every way in which names normalise.    *)
(* TablesShowUploads compares tables with what was uploaded, whereas a     *)
(* connection reads files.  FilesHold closes the gap: the file of a        *)
(* registered name has the content it was registered with.  That survives  *)
(* uploads and failures of other files because a path begins with the name *)
(* it belongs to, and uploads of the same name are refused.                *)
(*                                                                         *)
(* The subprocess runner: what the parent reports, for every capacity of   *)
(* the pipe and every size of results.  NothingLost compares a verdict     *)
(* with the pipe as it is afterwards.  It holds because the parent looks   *)
(* only when no child is left to write (Quiet): the child was gone, or has *)
(* been killed.                                                            *)
(***************************************************************************)
EXTENDS Datasets, SubprocessRunner, TLAPS

FilesHold ==
    \A n \in Name : registry[n] # None =>
        /\ registry[n].path[1] = n
        /\ files[registry[n].path] = registry[n].content

Inv == TypeOK /\ FilesHold /\ TablesShowUploads

\* A path is that of one name only.
LEMMA PathsOfNames ==
    ASSUME NEW f \in File
    PROVE  /\ PathOf(f) \in Path
           /\ NameOf[f] \in Name
           /\ PathOf(f)[1] = NameOf[f]
BY DEF PathOf, Path, Name

\* What a new connection gets: of each name what was uploaded, if DuckDB takes it.
LEMMA NewTables ==
    ASSUME TypeOK, FilesHold
    PROVE  /\ Registered \in [Name -> Content \cup {None}]
           /\ \A n \in Name :
                Registered[n] = IF registry[n] = None \/ n \in Unusable
                                   \/ registry[n].content \in Broken
                                THEN None ELSE registry[n].content
BY DEF Registered, TypeOK, FilesHold

LEMMA Initially == Init => Inv
BY DEF Init, Inv, TypeOK, FilesHold, TablesShowUploads, Connected

LEMMA TypeStep ==
    ASSUME TypeOK, FilesHold, [Next]_vars
    PROVE  TypeOK'
<1>1. ASSUME NEW f \in File, NEW content \in Content, Upload(f, content)
      PROVE  TypeOK'
  BY <1>1, PathsOfNames DEF Upload, TypeOK, Changes
<1>2. ASSUME NEW f \in File, NEW content \in Content, UploadFails(f, content)
      PROVE  TypeOK'
  BY <1>2, PathsOfNames DEF UploadFails, TypeOK
<1>3. ASSUME NEW n \in Name, Delete(n)
      PROVE  TypeOK'
  BY <1>3 DEF Delete, TypeOK, Changes
<1>4. ASSUME NEW s \in Session, Connect(s)
      PROVE  TypeOK'
  BY <1>4, NewTables DEF Connect, TypeOK
<1>5. ASSUME NEW s \in Session, Disconnect(s)
      PROVE  TypeOK'
  BY <1>5 DEF Disconnect, TypeOK
<1>6. ASSUME NEW s \in Session, NEW n \in Name,
             NEW content \in (Content \ Broken) \cup {None}, Overwrite(s, n, content)
      PROVE  TypeOK'
  BY <1>6 DEF Overwrite, TypeOK, Connected
<1>7. CASE Restart
  BY <1>7 DEF Restart, TypeOK
<1>8. CASE UNCHANGED vars
  BY <1>8 DEF vars, TypeOK
<1> QED
  BY <1>1, <1>2, <1>3, <1>4, <1>5, <1>6, <1>7, <1>8 DEF Next

\* No step touches the file of another registered name.
LEMMA FilesStep ==
    ASSUME TypeOK, FilesHold, [Next]_vars
    PROVE  FilesHold'
<1>1. ASSUME NEW f \in File, NEW content \in Content, Upload(f, content)
      PROVE  FilesHold'
  BY <1>1, PathsOfNames DEF Upload, TypeOK, FilesHold
<1>2. ASSUME NEW f \in File, NEW content \in Content, UploadFails(f, content)
      PROVE  FilesHold'
  BY <1>2, PathsOfNames DEF UploadFails, TypeOK, FilesHold
<1>3. ASSUME NEW n \in Name, Delete(n)
      PROVE  FilesHold'
  BY <1>3 DEF Delete, TypeOK, FilesHold
<1>4. CASE UNCHANGED <<registry, files>>
  BY <1>4 DEF FilesHold
<1>5. CASE Restart
  BY <1>5 DEF Restart, FilesHold
<1> QED
  BY <1>1, <1>2, <1>3, <1>4, <1>5 DEF Next, Connect, Disconnect, Overwrite, vars

LEMMA TablesStep ==
    ASSUME Inv, [Next]_vars
    PROVE  TablesShowUploads'
<1> USE DEF Inv
<1>1. ASSUME NEW f \in File, NEW content \in Content, Upload(f, content)
      PROVE  TablesShowUploads'
  BY <1>1, PathsOfNames DEF Upload, Changes, TypeOK, TablesShowUploads, Connected
<1>2. ASSUME NEW n \in Name, Delete(n)
      PROVE  TablesShowUploads'
  BY <1>2 DEF Delete, Changes, TypeOK, TablesShowUploads, Connected
<1>3. ASSUME NEW s \in Session, Connect(s)
      PROVE  TablesShowUploads'
  BY <1>3, NewTables DEF Connect, TypeOK, TablesShowUploads, Connected
<1>4. ASSUME NEW s \in Session, Disconnect(s)
      PROVE  TablesShowUploads'
  BY <1>4 DEF Disconnect, TypeOK, TablesShowUploads, Connected
<1>5. ASSUME NEW s \in Session, NEW n \in Name,
             NEW content \in (Content \ Broken) \cup {None}, Overwrite(s, n, content)
      PROVE  TablesShowUploads'
  BY <1>5 DEF Overwrite, TypeOK, TablesShowUploads, Connected
<1>6. CASE Restart
  BY <1>6 DEF Restart, TypeOK, TablesShowUploads, Connected
<1>7. CASE UNCHANGED <<registry, tables, changed>>
  BY <1>7 DEF TablesShowUploads, Connected
<1> QED
  BY <1>1, <1>2, <1>3, <1>4, <1>5, <1>6, <1>7 DEF Next, UploadFails, vars

LEMMA Invariance == Spec => []Inv
<1>1. Inv /\ [Next]_vars => Inv'
  BY TypeStep, FilesStep, TablesStep DEF Inv
<1> QED
  BY Initially, <1>1, PTL DEF Spec

\* Every variable of the datasets keeps its type (store/dataset_manager.py).
THEOREM TypeCorrect == Spec => []TypeOK
<1>1. Inv => TypeOK
  BY DEF Inv
<1> QED
  BY Invariance, <1>1, PTL

\* A session shows of a dataset what was uploaded, whatever files were left over
\* (upload, delete_dataset, register_in_session).
THEOREM SessionsShowUploads == Spec => []TablesShowUploads
<1>1. Inv => TablesShowUploads
  BY DEF Inv
<1> QED
  BY Invariance, <1>1, PTL
-----------------------------------------------------------------------------
Quiet ==
    /\ parent.at \in {"reading", "done"} => ~Alive
    /\ parent.at = "idle" => child.at = "none"
    /\ child.at = "none" => parent.at = "idle"

\* What was raised was raised over an empty pipe.
Settled ==
    /\ parent.verdict # "none" => parent.at = "done"
    /\ parent.verdict \in {"cpu", "memory", "killed"} => pipe = 0

RunnerInv == RunnerTypeOK /\ Quiet /\ Settled

LEMMA RunnerInitially == RunnerInit => RunnerInv
BY SubprocessAssumption DEF RunnerInit, NoChild, RunnerInv, RunnerTypeOK, Quiet, Settled, Alive

LEMMA RunnerTypeStep ==
    ASSUME RunnerInv, [RunnerNext]_runnerVars
    PROVE  RunnerTypeOK'
<1> USE SubprocessAssumption DEF RunnerInv, RunnerTypeOK
<1>1. ASSUME Start
      PROVE  RunnerTypeOK'
  BY <1>1 DEF Start, NoChild
<1>2. ASSUME WorkerPuts
      PROVE  RunnerTypeOK'
  <2>1. call.size \in Nat
    BY DEF Calls
  <2>2. CASE Put("ok", call.size)
    BY <1>2, <2>1, <2>2 DEF WorkerPuts, Put
  <2>3. CASE Put("error", 1)
    BY <1>2, <2>3 DEF WorkerPuts, Put
  <2> QED
    BY <1>2, <2>2, <2>3 DEF WorkerPuts
<1>3. ASSUME WorkerVanishes \/ CpuLimit
      PROVE  RunnerTypeOK'
  BY <1>3 DEF WorkerVanishes, CpuLimit, Exit
<1>4. ASSUME Flush
      PROVE  RunnerTypeOK'
  <2>1. CASE child.left > 0
    BY <1>4, <2>1 DEF Flush
  <2>2. CASE ~(child.left > 0)
    BY <1>4, <2>2 DEF Flush, Exit
  <2> QED
    BY <2>1, <2>2
<1>5. ASSUME Join \/ Read \/ Raise
      PROVE  RunnerTypeOK'
  <2>1. CASE Join
    <3>1. Alive \in BOOLEAN
      BY DEF Alive
    <3>2. PICK late \in BOOLEAN :
            parent' = [parent EXCEPT !.at = IF Alive THEN "killing" ELSE "reading",
                                     !.timedOut = late]
      BY <2>1, <3>1, Zenon DEF Join
    <3>3. UNCHANGED <<call, child, pipe>>
      BY <2>1 DEF Join
    <3> QED
      BY <3>2, <3>3
  <2>2. CASE Read
    BY <2>2 DEF Read, Complete
  <2>3. CASE Raise
    BY <2>3 DEF Raise
  <2> QED
    BY <1>5, <2>1, <2>2, <2>3
<1>6. ASSUME Kill
      PROVE  RunnerTypeOK'
  BY <1>6 DEF Kill, Exit
<1>7. ASSUME UNCHANGED runnerVars
      PROVE  RunnerTypeOK'
  BY <1>7 DEF runnerVars
<1> QED
  BY <1>1, <1>2, <1>3, <1>4, <1>5, <1>6, <1>7 DEF RunnerNext

LEMMA QuietStep ==
    ASSUME RunnerInv, [RunnerNext]_runnerVars
    PROVE  Quiet' /\ Settled'
<1> USE DEF RunnerInv, RunnerTypeOK, Quiet, Settled, Alive
<1>1. ASSUME Start
      PROVE  Quiet' /\ Settled'
  BY <1>1 DEF Start, NoChild
<1>2. ASSUME WorkerPuts
      PROVE  Quiet' /\ Settled'
  BY <1>2 DEF WorkerPuts, Put
<1>3. ASSUME WorkerVanishes \/ CpuLimit
      PROVE  Quiet' /\ Settled'
  BY <1>3 DEF WorkerVanishes, CpuLimit, Exit
<1>4. ASSUME Flush
      PROVE  Quiet' /\ Settled'
  BY <1>4 DEF Flush, Exit
<1>5. ASSUME Join
      PROVE  Quiet' /\ Settled'
  BY <1>5 DEF Join
<1>6. ASSUME Kill
      PROVE  Quiet' /\ Settled'
  BY <1>6 DEF Kill, Exit
<1>7. ASSUME Read
      PROVE  Quiet' /\ Settled'
  BY <1>7 DEF Read
<1>8. ASSUME Raise
      PROVE  Quiet' /\ Settled'
  BY <1>8 DEF Raise
<1>9. ASSUME UNCHANGED runnerVars
      PROVE  Quiet' /\ Settled'
  BY <1>9 DEF runnerVars
<1> QED
  BY <1>1, <1>2, <1>3, <1>4, <1>5, <1>6, <1>7, <1>8, <1>9 DEF RunnerNext

LEMMA RunnerInvariance == RunnerSpec => []RunnerInv
<1>1. RunnerInv /\ [RunnerNext]_runnerVars => RunnerInv'
  BY RunnerTypeStep, QuietStep DEF RunnerInv
<1> QED
  BY RunnerInitially, <1>1, PTL DEF RunnerSpec

\* Parent, child and pipe keep their types (run_query_isolated, _worker).
THEOREM RunnerTypeCorrect == RunnerSpec => []RunnerTypeOK
<1>1. RunnerInv => RunnerTypeOK
  BY DEF RunnerInv
<1> QED
  BY RunnerInvariance, <1>1, PTL

\* No error about a killed child hides a result that was put completely.
THEOREM ResultsAreReported == RunnerSpec => []NothingLost
<1>1. RunnerInv => NothingLost
  BY DEF RunnerInv, Settled, NothingLost, Complete
<1> QED
  BY RunnerInvariance, <1>1, PTL
=============================================================================
