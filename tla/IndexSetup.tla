----------------------------- MODULE IndexSetup -----------------------------
(***************************************************************************)
(* The start of the AI service: each worker process connects to MongoDB    *)
(* and runs ensure_collection_indexes of db.py, one action for each call   *)
(* it waits for, before it serves requests.  Workers start at any time and *)
(* share the database.                                                     *)
(*                                                                         *)
(* MongoDB is external: a call may fail with an OperationFailure, or the   *)
(* connection is lost, before or after the call took effect.  The set-up   *)
(* catches the failures of the calls about indexes; of those about the     *)
(* collection it catches only the driver's CollectionInvalid.              *)
(*                                                                         *)
(* An operator X_Y is X with the bug Y; nothing uses it.                   *)
(***************************************************************************)

CONSTANT Worker

VARIABLES
  phase,       \* phase[w]: the call that worker w waits for, or how it is
  skipped,     \* history: indexes that w logged as skipped when it started
  collection,  \* the collection exists
  indexes,     \* the indexes it has, as the code defines them
  taken,       \* indexes whose name or keys another index has
  search,      \* the database and the driver support search indexes
  refuses,     \* calls that the database refuses, as when not authorised
  reachable    \* the database can be reached

database == <<collection, indexes, taken, search, refuses, reachable>>
vars == <<phase, skipped, database>>

Standard == {"file_path_idx", "file_path_chunk_idx"}
Index == Standard \cup {"vector_index"}

\* A worker in phase i \in Standard waits for the create_index of i.
Waiting == {"list_collections", "create_collection", "list_search_indexes",
            "create_search_index"} \cup Standard
\* Calls with an OperationFailure that nobody catches.
Uncaught == {"list_collections", "create_collection"}
Phase == {"stopped", "failed", "serving"} \cup Waiting

TypeOK ==
  /\ phase \in [Worker -> Phase]
  /\ skipped \in [Worker -> SUBSET Index]
  /\ collection \in BOOLEAN
  /\ indexes \in SUBSET Index
  /\ taken \in SUBSET Index
  /\ search \in BOOLEAN
  /\ refuses \in SUBSET Uncaught
  /\ reachable \in BOOLEAN

\* The database may be new, or one that an older version has left.
Init ==
  /\ phase = [w \in Worker |-> "stopped"]
  /\ skipped = [w \in Worker |-> {}]
  /\ collection \in BOOLEAN
  /\ search \in BOOLEAN
  /\ taken \in SUBSET (IF ~collection THEN {} ELSE IF search THEN Index ELSE Standard)
  /\ indexes = {}
  /\ refuses \in SUBSET Uncaught
  /\ reachable \in BOOLEAN

-----------------------------------------------------------------------------
(* Steps of a worker.                                                      *)

Goes(w, to) == phase' = [phase EXCEPT ![w] = to]

Skips(w, i) == skipped' = [skipped EXCEPT ![w] = @ \cup {i}]

\* What a worker does when it has made, or skipped, standard index i.
After(i) == IF i = "file_path_idx" THEN "file_path_chunk_idx" ELSE "list_search_indexes"

\* lifespan: connect_db makes the client, without waiting for the database.
Start(w) ==
  /\ phase[w] \in {"stopped", "failed"}
  /\ Goes(w, "list_collections")
  /\ skipped' = [skipped EXCEPT ![w] = {}]
  /\ UNCHANGED database

\* lifespan after the yield: close_db.
Stop(w) ==
  /\ phase[w] = "serving"
  /\ Goes(w, "stopped")
  /\ UNCHANGED <<skipped, database>>

\* The indexes once the database has done what create_index or
\* create_search_index asks for: an index of another is left as it is.
Made(i) ==
  IF i \in taken \/ (i = "vector_index" /\ ~search) THEN indexes ELSE indexes \cup {i}

\* create_collection of the driver looks whether the collection exists, and
\* raises CollectionInvalid when it does, which is caught.
ListCollections(w) ==
  /\ phase[w] = "list_collections" /\ reachable
  /\ Goes(w, IF phase[w] \in refuses THEN "failed"
             ELSE IF collection THEN "file_path_idx" ELSE "create_collection")
  /\ UNCHANGED <<skipped, database>>

\* Then it has the server create it.  Of a collection that another worker has
\* made meanwhile the server takes no notice or, depending on its version,
\* says NamespaceExists: that is no CollectionInvalid, and nobody catches it,
\* nor a refusal, which may come after the collection was made.
CreateCollection(w) ==
  /\ phase[w] = "create_collection" /\ reachable
  /\ \/ phase[w] \notin refuses /\ collection' = TRUE /\ Goes(w, "file_path_idx")
     \/ collection /\ UNCHANGED collection /\ Goes(w, "failed")
     \/ phase[w] \in refuses /\ collection' \in {collection, TRUE} /\ Goes(w, "failed")
  /\ UNCHANGED <<skipped, indexes, taken, search, refuses, reachable>>

\* _ensure_standard_index: made, or there already; refused as a duplicate,
\* which is taken for success; or failed for another reason, perhaps after it
\* was made, and skipped.
CreateIndex(w, i) ==
  /\ phase[w] = i /\ reachable
  /\ Goes(w, After(i))
  /\ \/ indexes' = Made(i) /\ UNCHANGED skipped
     \/ indexes' \in {indexes, Made(i)} /\ Skips(w, i)
  /\ UNCHANGED <<collection, taken, search, refuses, reachable>>

ListSearchIndexes_AnyError(w) ==
  /\ phase[w] = "list_search_indexes" /\ reachable
  /\ Goes(w, "serving") \/ ("vector_index" \notin indexes /\ Goes(w, "create_search_index"))
  /\ UNCHANGED <<skipped, database>>

\* _has_vector_search_index: an index of that name is found; search indexes
\* are not supported, and skipped; or not found, as any other failure counts.
ListSearchIndexes(w) ==
  /\ phase[w] = "list_search_indexes" /\ reachable
  /\ \/ "vector_index" \in indexes \cup taken /\ Goes(w, "serving") /\ UNCHANGED skipped
     \/ ~search /\ Goes(w, "serving") /\ Skips(w, "vector_index")
     \/ Goes(w, "create_search_index") /\ UNCHANGED skipped
  /\ UNCHANGED database

CreateSearchIndex_DuplicateEscapes(w) ==
  /\ phase[w] = "create_search_index" /\ reachable
  /\ Goes(w, IF "vector_index" \in indexes \cup taken THEN "failed" ELSE "serving")
  /\ \/ search /\ indexes' = Made("vector_index") /\ UNCHANGED skipped
     \/ indexes' \in {indexes, Made("vector_index")} /\ Skips(w, "vector_index")
  /\ UNCHANGED <<collection, taken, search, refuses, reachable>>

\* _ensure_vector_search_index: made; there already, which is a duplicate
\* error taken for success; or failed for another reason and skipped.
CreateSearchIndex(w) ==
  /\ phase[w] = "create_search_index" /\ reachable
  /\ Goes(w, "serving")
  /\ \/ search /\ indexes' = Made("vector_index") /\ UNCHANGED skipped
     \/ indexes' \in {indexes, Made("vector_index")} /\ Skips(w, "vector_index")
  /\ UNCHANGED <<collection, taken, search, refuses, reachable>>

\* The connection is lost, or no server is found within MONGODB_TIMEOUT_MS:
\* that is no OperationFailure, and the start of the worker fails.  What it
\* asked for may have been done.
LoseConnection(w) ==
  /\ phase[w] \in Waiting /\ ~reachable
  /\ Goes(w, "failed")
  /\ collection' \in {collection, collection \/ phase[w] = "create_collection"}
  /\ \/ UNCHANGED indexes
     \/ phase[w] \in Standard /\ indexes' = Made(phase[w])
     \/ phase[w] = "create_search_index" /\ indexes' = Made("vector_index")
  /\ UNCHANGED <<skipped, taken, search, refuses, reachable>>

\* The database, or the network to it, goes away or comes back.
Reach ==
  /\ reachable' = ~reachable
  /\ UNCHANGED <<phase, skipped, collection, indexes, taken, search, refuses>>

\* What the database refuses changes, as by a change of the rights.
Refuse ==
  /\ \E r \in SUBSET Uncaught \ {refuses} : refuses' = r
  /\ UNCHANGED <<phase, skipped, collection, indexes, taken, search, reachable>>

-----------------------------------------------------------------------------
\* The call that worker w waits for is answered, with success or a failure.
Answer(w) ==
  \/ ListCollections(w)
  \/ CreateCollection(w)
  \/ \E i \in Standard : CreateIndex(w, i)
  \/ ListSearchIndexes(w)
  \/ CreateSearchIndex(w)

Next ==
  \/ \E w \in Worker : Start(w) \/ Stop(w) \/ Answer(w) \/ LoseConnection(w)
  \/ Reach
  \/ Refuse

Spec == Init /\ [][Next]_vars

\* An assumption on MongoDB: while it can be reached it answers every call of
\* worker w in the end.  The code sets no time limit for a call it has sent.
MongoAnswers(w) == WF_vars(Answer(w))

-----------------------------------------------------------------------------
(* Properties.                                                             *)

\* A worker that serves has the collection and every index that it has not
\* logged as skipped, whatever other workers did between its look for the
\* vector index and its request to make it.  The index may be another's, with
\* the same name or keys, that an older version has left.
ServingIndexed ==
  \A w \in Worker : phase[w] = "serving" =>
    collection /\ Index \ skipped[w] \subseteq indexes \cup taken

\* If MongoDB answers, a worker that starts once the collection exists comes
\* to serve, unless the database goes away or refuses to list collections; one
\* that has come to the indexes comes to serve unless the database goes away.
\* What failed starts and other workers leave behind does not stop it.
StartsAgain ==
  \A w \in Worker : MongoAnswers(w) =>
    /\ phase[w] = "list_collections" /\ collection ~>
         phase[w] = "serving" \/ ~reachable \/ "list_collections" \in refuses
    /\ phase[w] = "file_path_idx" ~> phase[w] = "serving" \/ ~reachable

\* The inductive invariant: what a worker has passed is there, or skipped.
Passed(w) ==
  IF phase[w] = "file_path_idx" THEN {}
  ELSE IF phase[w] = "file_path_chunk_idx" THEN {"file_path_idx"}
  ELSE IF phase[w] \in {"list_search_indexes", "create_search_index"} THEN Standard
  ELSE IF phase[w] = "serving" THEN Index
  ELSE {}

IndexInv ==
  \A w \in Worker :
    /\ phase[w] \notin {"stopped", "failed", "list_collections", "create_collection"} => collection
    /\ Passed(w) \ skipped[w] \subseteq indexes \cup taken
=============================================================================
