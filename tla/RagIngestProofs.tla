--------------------------- MODULE RagIngestProofs ---------------------------
(***************************************************************************)
(* Who is told that a file is stored can rely on it, for every file and    *)
(* any number of calls.                                                    *)
(***************************************************************************)
EXTENDS RagIngest, RagChunksProofs

ClientPhase == {"none", "pending", "resolved", "rejected"}
ServerPhase == {"none", "received", "inserting", "ok", "error", "gone"}

\* The chunks cover what the loop has passed.
PassedCovered ==
  \A w \in 1 .. first - 1 : \E i \in 1 .. Len(chunks) : chunks[i].first <= w /\ w <= chunks[i].last

\* Nobody calls before the text is split, and only a call whose documents are
\* all in the collection is answered with success.
CallsInv ==
  /\ client \in [Call -> ClientPhase]
  /\ server \in [Call -> ServerPhase]
  /\ stored \in [Call -> Nat]
  /\ \A k \in Call :
       /\ stored[k] <= Len(chunks)
       /\ client[k] # "none" => returned
       /\ client[k] = "none" => server[k] = "none" /\ stored[k] = 0
       /\ server[k] = "ok" => stored[k] = Len(chunks)
       /\ client[k] = "resolved" => server[k] = "ok"

IngestInv == FullInv /\ PassedCovered /\ CallsInv

LEMMA IngestInitInv == IngestInit => IngestInv
<1> SUFFICES ASSUME IngestInit PROVE IngestInv
  OBVIOUS
<1>1. FullInv
  BY InitInv DEF IngestInit
<1>2. PassedCovered
  BY DEF IngestInit, Init, PassedCovered
<1>3. CallsInv
  BY DEF IngestInit, Init, CallsInv, ClientPhase, ServerPhase
<1> QED
  BY <1>1, <1>2, <1>3 DEF IngestInv

\* A round of the loop, or its end, closes the current list as a chunk that
\* has all its words.
LEMMA SplitKeepsCovered ==
  ASSUME FullInv, PassedCovered, Next
  PROVE  PassedCovered'
<1>1. /\ chunks \in Seq(Chunk) /\ first \in Nat /\ next \in Nat /\ first \in 1 .. next
      /\ next \in 1 .. words + 1
  BY DEF FullInv, TypeOK
<1>2. CASE UNCHANGED <<chunks, first>>
  BY <1>2 DEF PassedCovered
<1>3. CASE chunks' = Append(chunks, Current) /\ first' = next /\ first < next
  <2>1. Current \in Chunk /\ Current.first = first /\ Current.last = next - 1
    BY <1>1, <1>3 DEF Current, Chunk
  <2>2. /\ Len(chunks') = Len(chunks) + 1 /\ Len(chunks) \in Nat
        /\ \A i \in 1 .. Len(chunks) : chunks'[i] = chunks[i]
        /\ chunks'[Len(chunks) + 1] = Current
    BY <1>1, <1>3, <2>1
  <2>3. ASSUME NEW w \in 1 .. first' - 1
        PROVE  \E i \in 1 .. Len(chunks') : chunks'[i].first <= w /\ w <= chunks'[i].last
    <3>1. CASE w < first
      <4>1. PICK i \in 1 .. Len(chunks) : chunks[i].first <= w /\ w <= chunks[i].last
        BY <1>1, <3>1 DEF PassedCovered
      <4> QED
        BY <2>2, <4>1
    <3>2. CASE first <= w
      <4>1. Len(chunks) + 1 \in 1 .. Len(chunks')
        BY <2>2
      <4>2. chunks'[Len(chunks) + 1].first <= w /\ w <= chunks'[Len(chunks) + 1].last
        BY <1>1, <1>3, <2>1, <2>2, <3>2
      <4> QED
        BY <4>1, <4>2
    <3> QED
      BY <1>1, <3>1, <3>2
  <2> QED
    BY <2>3 DEF PassedCovered
<1>4. CASE NextWord
  BY <1>1, <1>2, <1>3, <1>4 DEF NextWord, Full
<1>5. CASE Return
  BY <1>1, <1>2, <1>3, <1>5 DEF Return
<1> QED
  BY <1>4, <1>5 DEF Next

\* Once the loop is over nothing of it moves.
LEMMA SplitOnce ==
  ASSUME FullInv, Next
  PROVE  ~returned
<1>1. returned => next = words + 1
  BY DEF FullInv, TypeOK, SplitInv, CoversText
<1>2. words \in Nat
  BY DEF FullInv, TypeOK
<1> QED
  BY <1>1, <1>2 DEF Next, NextWord, Return

LEMMA SplitKeepsCalls ==
  ASSUME FullInv, CallsInv, Next, UNCHANGED ingestVars
  PROVE  CallsInv'
<1>1. ~returned
  BY SplitOnce
<1>2. \A k \in Call : client[k] = "none" /\ server[k] = "none" /\ stored[k] = 0
  BY <1>1 DEF CallsInv
<1>3. FullInv'
  BY NextInv
<1>4. Len(chunks') \in Nat
  BY <1>3 DEF FullInv, TypeOK
<1> QED
  BY <1>2, <1>4 DEF CallsInv, ingestVars

LEMMA RequestKeepsCalls ==
  ASSUME FullInv, CallsInv, NEW k \in Call, Request(k)
  PROVE  CallsInv' /\ UNCHANGED vars
<1>1. Len(chunks) \in Nat /\ (chunks = <<>> => Len(chunks) = 0)
  BY DEF FullInv, TypeOK
<1> USE DEF CallsInv, ClientPhase, ServerPhase, vars
<1>2. CASE IngestRagDocument(k)
  BY <1>2 DEF IngestRagDocument
<1>3. CASE Response(k)
  BY <1>3 DEF Response, Settle
<1>4. CASE FetchFails(k)
  BY <1>4 DEF FetchFails, Settle
<1>5. CASE Ingest(k)
  BY <1>1, <1>5 DEF Ingest, Serve
<1>6. CASE Inserted(k)
  BY <1>6 DEF Inserted, Serve
<1>7. CASE InsertFails(k)
  BY <1>7 DEF InsertFails, Serve
<1>8. CASE Dies(k)
  BY <1>8 DEF Dies, Serve
<1>9. CASE InsertDocument(k)
  BY <1>1, <1>9 DEF InsertDocument
<1> QED
  BY <1>2, <1>3, <1>4, <1>5, <1>6, <1>7, <1>8, <1>9 DEF Request

LEMMA IngestNextInv == IngestInv /\ [IngestNext]_<<vars, ingestVars>> => IngestInv'
<1> SUFFICES ASSUME IngestInv, [IngestNext]_<<vars, ingestVars>> PROVE IngestInv'
  OBVIOUS
<1> USE DEF IngestInv
<1>1. CASE Next /\ UNCHANGED ingestVars
  BY <1>1, NextInv, SplitKeepsCovered, SplitKeepsCalls
<1>2. ASSUME UNCHANGED vars PROVE FullInv' /\ PassedCovered'
  <2>1. FullInv'
    BY <1>2, NextInv
  <2>2. PassedCovered'
    BY <1>2 DEF vars, PassedCovered
  <2> QED
    BY <2>1, <2>2
<1>3. ASSUME NEW k \in Call, Request(k) PROVE IngestInv'
  BY <1>2, <1>3, RequestKeepsCalls
<1>4. CASE UNCHANGED <<vars, ingestVars>>
  BY <1>2, <1>4 DEF CallsInv, vars, ingestVars
<1> QED
  BY <1>1, <1>3, <1>4 DEF IngestNext

\* A caller who is told that the chunks are stored finds every word of the
\* file in the collection (rag.py, ingest; aiService.ts, requestJson).
THEOREM Stored == IngestSpec => []AnsweredStored
<1>1. IngestInv => AnsweredStored
  <2> SUFFICES ASSUME IngestInv, NEW k \in Call, client[k] = "resolved", NEW w \in 1 .. words
               PROVE  \E i \in 1 .. stored[k] : chunks[i].first <= w /\ w <= chunks[i].last
    BY DEF AnsweredStored
  <2>1. stored[k] = Len(chunks) /\ returned
    BY DEF IngestInv, CallsInv
  <2>2. w \in 1 .. first - 1
    BY <2>1 DEF IngestInv, FullInv, TypeOK, SplitInv, CoversText
  <2> QED
    BY <2>1, <2>2 DEF IngestInv, PassedCovered
<1> QED
  BY IngestInitInv, IngestNextInv, <1>1, PTL DEF IngestSpec
=============================================================================
