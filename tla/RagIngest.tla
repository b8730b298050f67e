----------------------------- MODULE RagIngest ------------------------------
(***************************************************************************)
(* Storing a file: ingestRagDocument of the web client, the request to the *)
(* AI service, and ingest of rag.py, which has MongoDB insert the chunks.  *)
(* All calls are for the same file, one being the retry of another or that *)
(* of another user; the file is split as in RagChunks, with one outcome    *)
(* for all of them.                                                        *)
(*                                                                         *)
(* MongoDB is external: it inserts the documents of insert_many in their   *)
(* order, and may refuse one; when the driver loses the connection it may  *)
(* go on.  The connection between browser and service may be lost, too.    *)
(*                                                                         *)
(* An operator X_Y is X with the bug Y; nothing uses it.                   *)
(***************************************************************************)
EXTENDS RagChunks

CONSTANT Call

VARIABLES
  client,   \* client[k]: the promise of ingestRagDocument: "none" before the
            \* call, "pending", "resolved" or "rejected"
  server,   \* server[k]: the request at the service: "none", "received",
            \* "inserting", answered "ok" or "error", or "gone" unanswered
  stored    \* stored[k]: number of documents of call k in the collection

ingestVars == <<client, server, stored>>

IngestInit ==
  /\ Init
  /\ client = [k \in Call |-> "none"]
  /\ server = [k \in Call |-> "none"]
  /\ stored = [k \in Call |-> 0]

\* requestJson: the request arrives, or is lost.
IngestRagDocument(k) ==
  /\ returned /\ client[k] = "none"
  /\ client' = [client EXCEPT ![k] = "pending"]
  /\ server' \in {server, [server EXCEPT ![k] = "received"]}
  /\ UNCHANGED <<stored, vars>>

Serve(k, from, to) ==
  /\ server[k] = from
  /\ server' = [server EXCEPT ![k] = to]
  /\ UNCHANGED <<client, stored, vars>>

Ingest_NotAwaited(k) ==
  Serve(k, "received", "ok") \/ (chunks # <<>> /\ Serve(k, "received", "inserting"))

\* ingest up to the await; a text without words has nothing to insert.
Ingest(k) == Serve(k, "received", IF chunks = <<>> THEN "ok" ELSE "inserting")

\* The database inserts the next document, the driver waiting for it or not.
InsertDocument(k) ==
  /\ server[k] \in {"inserting", "error", "gone"}
  /\ stored[k] < Len(chunks)
  /\ stored' = [stored EXCEPT ![k] = @ + 1]
  /\ UNCHANGED <<client, server, vars>>

\* insert_many returns, and IngestResponse is sent; or it raises, which the
\* middleware passes on and the client gets as status 500.
Inserted(k) == stored[k] = Len(chunks) /\ Serve(k, "inserting", "ok")
InsertFails(k) == Serve(k, "inserting", "error")

\* The process ends before it has answered.
Dies(k) == Serve(k, "received", "none") \/ Serve(k, "inserting", "gone")

Settle(k, to) ==
  /\ client[k] = "pending"
  /\ client' = [client EXCEPT ![k] = to]
  /\ UNCHANGED <<server, stored, vars>>

\* requestJson: response.ok or an AiServiceError.
Response(k) ==
  \/ server[k] = "ok" /\ Settle(k, "resolved")
  \/ server[k] = "error" /\ Settle(k, "rejected")

\* The fetcher rejects: there is no connection, or no more.
FetchFails(k) == Settle(k, "rejected")

Request(k) ==
  \/ IngestRagDocument(k) \/ Response(k) \/ FetchFails(k)
  \/ Ingest(k) \/ Inserted(k) \/ InsertFails(k) \/ Dies(k)
  \/ InsertDocument(k)

IngestNext ==
  \/ Next /\ UNCHANGED ingestVars
  \/ \E k \in Call : Request(k)

IngestSpec == IngestInit /\ [][IngestNext]_<<vars, ingestVars>>

-----------------------------------------------------------------------------
(* Properties.                                                             *)

\* A caller who is told that the chunks are stored can rely on every word of
\* the file being in the collection, whatever other calls for the same file,
\* failed or half-way, have put there.
AnsweredStored ==
  \A k \in Call : client[k] = "resolved" =>
    \A w \in 1 .. words : \E i \in 1 .. stored[k] : chunks[i].first <= w /\ w <= chunks[i].last
=============================================================================
