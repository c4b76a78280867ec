------------------------------ MODULE Datasets ------------------------------
(***************************************************************************)
(* Uploaded datasets: DatasetManager's registry in memory, its files under *)
(* the data root, and the tables that a session's connection gets copies   *)
(* of when it is made (store/dataset_manager.py, api/dataset_routes.py and *)
(* _create_hardened_connection).                                           *)
(*                                                                         *)
(* The name of a dataset is that of the file, normalised, so several files *)
(* claim one name, and its path is the name with the file's extension.  A  *)
(* connection reads the files that are registered when it is made and      *)
(* cannot read files after that.                                           *)
(***************************************************************************)
EXTENDS FiniteSets

CONSTANTS
    File,           \* names of files to upload
    NameOf,         \* _normalize_name
    ExtOf,          \* the extension, lowercased
    Content, Broken,\* contents; Broken: those DuckDB cannot read
    Unusable,       \* names that are no SQL identifiers, as "2024_sales"
    Session,
    None

ASSUME DatasetsAssumption ==
    /\ DOMAIN NameOf = File /\ DOMAIN ExtOf = File
    /\ Broken \subseteq Content /\ None \notin Content

Name == {NameOf[f] : f \in File}
PathOf(f) == <<NameOf[f], ExtOf[f]>>
Path == {PathOf(f) : f \in File}

VARIABLES
    registry,   \* _datasets: [path, content]; content is what size_bytes,
                \* row_count and columns were taken from
    files,      \* the data root
    tables,     \* of each session, its tables for names; None without a connection
    changed     \* history: names that changed, in the registry or in the session,
                \* since its connection was made

vars == <<registry, files, tables, changed>>

Connected == {s \in Session : tables[s] # None}

TypeOK ==
    /\ registry \in [Name -> [path : Path, content : Content] \cup {None}]
    /\ files \in [Path -> Content \cup {None}]
    /\ tables \in [Session -> [Name -> Content \cup {None}] \cup {None}]
    /\ changed \in [Session -> SUBSET Name]

Init ==
    /\ registry = [n \in Name |-> None]
    /\ files = [p \in Path |-> None]
    /\ tables = [s \in Session |-> None]
    /\ changed = [s \in Session |-> {}]
-----------------------------------------------------------------------------
Changes(names) == changed' = [s \in Session |-> changed[s] \cup names]

\* Faulty...: wrong variants, before what they would replace.
FaultyUpload(f, content) ==     \* the file is written before the name is looked up
    /\ files' = [files EXCEPT ![PathOf(f)] = content]
    /\ IF registry[NameOf[f]] = None
       THEN /\ registry' = [registry EXCEPT ![NameOf[f]] = [path |-> PathOf(f), content |-> content]]
            /\ Changes({NameOf[f]})
       ELSE UNCHANGED <<registry, changed>>
    /\ UNCHANGED tables

\* POST /datasets: 409 when the name is taken, whatever the extension.  Files that
\* cannot be read are registered all the same.
Upload(f, content) ==
    /\ registry[NameOf[f]] = None
    /\ files' = [files EXCEPT ![PathOf(f)] = content]
    /\ registry' = [registry EXCEPT ![NameOf[f]] = [path |-> PathOf(f), content |-> content]]
    /\ Changes({NameOf[f]})
    /\ UNCHANGED tables

\* The write fails halfway, and nothing is registered.  What is there of the file is
\* another content, broken or, as a CSV file may be, one with fewer rows.
UploadFails(f, content) ==
    /\ registry[NameOf[f]] = None
    /\ files' = [files EXCEPT ![PathOf(f)] = content]
    /\ UNCHANGED <<registry, tables, changed>>

\* DELETE /datasets/{name}: tables that sessions have got remain.
Delete(n) ==
    /\ registry[n] # None
    /\ registry' = [registry EXCEPT ![n] = None]
    /\ files' = [files EXCEPT ![registry[n].path] = None]
    /\ Changes({n})
    /\ UNCHANGED tables

\* register_in_session, for a new connection: what fails is left out.
Registered ==
    [n \in Name |->
        IF registry[n] = None \/ n \in Unusable THEN None
        ELSE LET content == files[registry[n].path] IN
             IF content \in Broken THEN None ELSE content]

\* A session is created, or resumed: its connection is new.
Connect(s) ==
    /\ s \notin Connected
    /\ tables' = [tables EXCEPT ![s] = Registered]
    /\ changed' = [changed EXCEPT ![s] = {}]
    /\ UNCHANGED <<registry, files>>

\* It is suspended or destroyed: its tables, own ones included, are gone.
Disconnect(s) ==
    /\ s \in Connected
    /\ tables' = [tables EXCEPT ![s] = None]
    /\ UNCHANGED <<registry, files, changed>>

\* Its SQL drops or replaces its copy.
Overwrite(s, n, content) ==
    /\ s \in Connected
    /\ tables' = [tables EXCEPT ![s][n] = content]
    /\ changed' = [changed EXCEPT ![s] = @ \cup {n}]
    /\ UNCHANGED <<registry, files>>

\* The registry is not stored; the files stay.  Active sessions are connected
\* anew by load_from_store.
Restart ==
    /\ registry' = [n \in Name |-> None]
    /\ tables' = [s \in Session |-> IF s \in Connected THEN [n \in Name |-> None] ELSE None]
    /\ changed' = [s \in Session |-> {}]
    /\ UNCHANGED files

Next ==
    \/ \E f \in File, content \in Content : Upload(f, content) \/ UploadFails(f, content)
    \/ \E n \in Name : Delete(n)
    \/ \E s \in Session :
        \/ Connect(s) \/ Disconnect(s)
        \/ \E n \in Name, content \in (Content \ Broken) \cup {None} : Overwrite(s, n, content)
    \/ Restart

Spec == Init /\ [][Next]_vars
-----------------------------------------------------------------------------
\* A session sees of a dataset what its uploader sent, or nothing if DuckDB cannot
\* take it, unless it or the registry changed since the connection was made:
\* files left by deletes, failures, restarts and refused uploads never show.
TablesShowUploads ==
    \A s \in Connected : \A n \in Name \ changed[s] :
        tables[s][n] = IF \/ registry[n] = None
                          \/ n \in Unusable
                          \/ registry[n].content \in Broken
                       THEN None ELSE registry[n].content
=============================================================================
