--------------------------- MODULE RagChunksProofs ---------------------------
(***************************************************************************)
(* _split_into_chunks is right for every text and every chunk size.        *)
(***************************************************************************)
EXTENDS RagChunks, TLAPS

FullInv == TypeOK /\ SplitInv

LEMMA InitInv == Init => FullInv
<1> SUFFICES ASSUME Init PROVE FullInv
  OBVIOUS
<1>1. TypeOK
  <2>1. /\ words \in Nat /\ chunk_size \in Nat
        /\ letters \in [0 .. words -> Nat]
    BY BoundsAssumption DEF Init
  <2>2. returned \in BOOLEAN
    BY Zenon DEF Init
  <2> QED
    BY <2>1, <2>2 DEF Init, TypeOK
<1>2. SplitInv
  BY DEF Init, SplitInv, CoversText, ChunksFit, ChunksFull, Start
<1> QED
  BY <1>1, <1>2 DEF FullInv

\* What the prefix counts say of lengths.
LEMMA LengthFacts ==
  ASSUME TypeOK, SplitInv, next <= words
  PROVE  /\ letters[next] \in Nat /\ letters[next - 1] \in Nat /\ letters[first - 1] \in Nat
         /\ Length(next) = letters[next] - letters[next - 1]
         /\ Length(next) \in Nat \ {0}
<1>1. next \in 1 .. words /\ next \in 0 .. words /\ next - 1 \in 0 .. words /\ first - 1 \in 0 .. words
  BY DEF TypeOK
<1> QED
  BY <1>1 DEF TypeOK, SplitInv, Length

\* The list that is closed when it is full, and at the end, is a chunk that
\* fits and follows the ones before it.
LEMMA CloseList ==
  ASSUME FullInv, ~returned, first < next,
         chunks' = Append(chunks, Current), first' = next,
         UNCHANGED <<words, letters, chunk_size>>,
         next <= words => Full
  PROVE  /\ chunks' \in Seq(Chunk)
         /\ Start(1)' = 1
         /\ \A n \in 1 .. Len(chunks') : Start(n + 1)' = chunks'[n].last + 1
         /\ ChunksFit'
         /\ ChunksFull'
         /\ \A n \in 1 .. Len(chunks') : chunks'[n].last <= words
<1> USE DEF FullInv, TypeOK
<1>1. Current \in Chunk /\ Current.first = first /\ Current.last = next - 1
  BY DEF Current, Chunk
<1>2. /\ chunks' \in Seq(Chunk)
      /\ Len(chunks') = Len(chunks) + 1 /\ Len(chunks) \in Nat
      /\ \A n \in 1 .. Len(chunks) : chunks'[n] = chunks[n]
      /\ chunks'[Len(chunks) + 1] = Current
  BY <1>1
<1>3. Start(1)' = 1
  BY <1>1, <1>2 DEF SplitInv, CoversText, Start
<1>4. ASSUME NEW n \in 1 .. Len(chunks') PROVE Start(n + 1)' = chunks'[n].last + 1
  <2>1. CASE n < Len(chunks)
    BY <1>2, <2>1 DEF SplitInv, CoversText, Start
  <2>2. CASE n = Len(chunks)
    <3>1. n \in 1 .. Len(chunks)
      BY <1>2, <2>2
    <3>2. first = chunks[n].last + 1
      BY <2>2, <3>1, <1>2 DEF SplitInv, CoversText, Start
    <3>3. Start(n + 1)' = Current.first
      BY <1>2, <2>2 DEF Start
    <3> QED
      BY <1>1, <1>2, <3>1, <3>2, <3>3
  <2>3. CASE n = Len(chunks) + 1
    BY <1>1, <1>2, <2>3 DEF Start
  <2> QED
    BY <1>2, <2>1, <2>2, <2>3
<1>5. first = next - 1 \/ Joined(first, next - 1) <= chunk_size
  <2>1. /\ next - 1 \in 0 .. words /\ first - 1 \in 0 .. words
        /\ letters[next - 1] \in Nat /\ letters[first - 1] \in Nat
    OBVIOUS
  <2> QED
    BY <2>1 DEF SplitInv, Joined
<1>6. ChunksFit'
  <2>1. ASSUME NEW n \in 1 .. Len(chunks')
        PROVE  LET c == chunks'[n] IN c.first = c.last \/ Joined(c.first, c.last) <= chunk_size
    <3>1. CASE n <= Len(chunks)
      BY <1>2, <3>1 DEF SplitInv, ChunksFit
    <3>2. CASE n = Len(chunks) + 1
      BY <1>1, <1>2, <1>5, <3>2
    <3> QED
      BY <1>2, <3>1, <3>2
  <2> QED
    BY <2>1 DEF ChunksFit, Joined
<1>7. next <= words => Joined(first, next) + 1 > chunk_size
  <2> HAVE next <= words
  <2>1. /\ letters[next] \in Nat /\ letters[next - 1] \in Nat /\ letters[first - 1] \in Nat
        /\ Length(next) = letters[next] - letters[next - 1]
    BY LengthFacts
  <2>2. current_len = letters[next - 1] - letters[first - 1] + (next - first)
    BY DEF SplitInv
  <2> QED
    BY <2>1, <2>2 DEF Full, Joined
<1>8. ChunksFull'
  <2>1. ASSUME NEW n \in 1 .. Len(chunks')
        PROVE  LET c == chunks'[n] IN
               c.last < words => Joined(c.first, c.last + 1) + 1 > chunk_size
    <3>1. CASE n <= Len(chunks)
      BY <1>2, <3>1 DEF SplitInv, ChunksFull
    <3>2. CASE n = Len(chunks) + 1
      <4>1. chunks'[n].first = first /\ chunks'[n].last = next - 1 /\ chunks'[n].last + 1 = next
        BY <1>1, <1>2, <3>2
      <4> QED
        BY <1>7, <4>1
    <3> QED
      BY <1>2, <3>1, <3>2
  <2> QED
    BY <2>1 DEF ChunksFull, Joined
<1>9. ASSUME NEW n \in 1 .. Len(chunks') PROVE chunks'[n].last <= words
  <2>1. CASE n <= Len(chunks)
    BY <1>2, <2>1 DEF SplitInv
  <2>2. CASE n = Len(chunks) + 1
    BY <1>1, <1>2, <2>2
  <2> QED
    BY <1>2, <2>1, <2>2
<1> QED
  BY <1>2, <1>3, <1>4, <1>6, <1>8, <1>9

\* What holds of the chunks is kept by a step that leaves them alone.
LEMMA SameChunks ==
  ASSUME SplitInv, UNCHANGED <<words, letters, chunk_size, chunks, first>>
  PROVE  /\ Start(1)' = 1
         /\ \A n \in 1 .. Len(chunks') : Start(n + 1)' = chunks'[n].last + 1
         /\ ChunksFit'
         /\ ChunksFull'
<1>1. /\ Start(1)' = 1
      /\ \A n \in 1 .. Len(chunks') : Start(n + 1)' = chunks'[n].last + 1
  BY DEF SplitInv, CoversText, Start
<1>2. ChunksFit'
  BY DEF SplitInv, ChunksFit, Joined
<1>3. ChunksFull'
  BY DEF SplitInv, ChunksFull, Joined
<1> QED
  BY <1>1, <1>2, <1>3

\* A word that starts a list.
LEMMA WordStarts ==
  ASSUME FullInv, NextWord, Full
  PROVE  FullInv'
<1>1. /\ ~returned \/ first = words + 1
      /\ UNCHANGED <<words, letters, chunk_size, returned>>
      /\ next' = next + 1 /\ first' = next /\ chunks' = Append(chunks, Current)
      /\ current_len' = Length(next) + 1
      /\ next <= words /\ first < next
  BY DEF FullInv, SplitInv, CoversText, NextWord, Full
<1>2. ~returned
  BY <1>1 DEF FullInv, TypeOK
<1>3. /\ chunks' \in Seq(Chunk)
      /\ Start(1)' = 1
      /\ \A n \in 1 .. Len(chunks') : Start(n + 1)' = chunks'[n].last + 1
      /\ ChunksFit' /\ ChunksFull'
      /\ \A n \in 1 .. Len(chunks') : chunks'[n].last <= words
  BY <1>1, <1>2, CloseList
<1>4. /\ letters[next] \in Nat /\ letters[next - 1] \in Nat
      /\ Length(next) = letters[next] - letters[next - 1] /\ Length(next) \in Nat
  BY <1>1, LengthFacts DEF FullInv
<1>5. TypeOK'
  BY <1>1, <1>3, <1>4 DEF FullInv, TypeOK
<1>6. /\ letters'[0] = 0
      /\ \A k \in 1 .. words' : Length(k)' > 0
  BY <1>1 DEF FullInv, SplitInv, Length
<1>7. current_len' = letters'[next' - 1] - letters'[first' - 1] + (next' - first')
  BY <1>1, <1>4 DEF FullInv, TypeOK
<1>8. ~(first' + 1 < next') /\ first' < next'
  BY <1>1 DEF FullInv, TypeOK
<1> QED
  BY <1>1, <1>2, <1>3, <1>5, <1>6, <1>7, <1>8 DEF FullInv, SplitInv, CoversText

\* A word that joins the list.
LEMMA WordJoins ==
  ASSUME FullInv, NextWord, ~Full
  PROVE  FullInv'
<1>1. /\ UNCHANGED <<words, letters, chunk_size, returned, chunks, first>>
      /\ next' = next + 1
      /\ current_len' = current_len + Length(next) + 1
      /\ next <= words
  BY DEF NextWord
<1>2. ~returned
  BY <1>1 DEF FullInv, TypeOK, SplitInv, CoversText
<1>3. /\ letters[next] \in Nat /\ letters[next - 1] \in Nat /\ letters[first - 1] \in Nat
      /\ Length(next) = letters[next] - letters[next - 1] /\ Length(next) \in Nat
  BY <1>1, LengthFacts DEF FullInv
<1>4. TypeOK'
  BY <1>1, <1>3 DEF FullInv, TypeOK
<1>5. /\ letters'[0] = 0
      /\ \A k \in 1 .. words' : Length(k)' > 0
  BY <1>1 DEF FullInv, SplitInv, Length
<1>6. CoversText' /\ ChunksFit' /\ ChunksFull'
  <2>1. ~returned'
    BY <1>1, <1>2
  <2>2. /\ Start(1)' = 1
        /\ \A n \in 1 .. Len(chunks') : Start(n + 1)' = chunks'[n].last + 1
        /\ ChunksFit' /\ ChunksFull'
    BY <1>1, SameChunks DEF FullInv
  <2> QED
    BY <2>1, <2>2 DEF CoversText
<1>7. current_len' = letters'[next' - 1] - letters'[first' - 1] + (next' - first')
  <2>1. current_len = letters[next - 1] - letters[first - 1] + (next - first)
    BY <1>2 DEF FullInv, SplitInv
  <2>2. next' - 1 = next /\ next \in Nat /\ first \in Nat
    BY <1>1 DEF FullInv, TypeOK
  <2> QED
    BY <1>1, <1>3, <2>1, <2>2
<1>8. first' + 1 < next' => current_len' <= chunk_size'
  BY <1>1, <1>3 DEF FullInv, TypeOK, Full
<1>9. first' < next'
  BY <1>1 DEF FullInv, TypeOK
<1> QED
  BY <1>1, <1>2, <1>4, <1>5, <1>6, <1>7, <1>8, <1>9 DEF FullInv, SplitInv

LEMMA ReturnInv ==
  ASSUME FullInv, Return
  PROVE  FullInv'
<1>1. /\ next = words + 1 /\ ~returned /\ returned' = TRUE /\ first' = next
      /\ UNCHANGED <<words, letters, chunk_size, next, current_len>>
      /\ chunks' = IF first < next THEN Append(chunks, Current) ELSE chunks
  BY DEF Return
<1>2. /\ chunks' \in Seq(Chunk)
      /\ Start(1)' = 1
      /\ \A n \in 1 .. Len(chunks') : Start(n + 1)' = chunks'[n].last + 1
      /\ ChunksFit' /\ ChunksFull'
      /\ \A n \in 1 .. Len(chunks') : chunks'[n].last <= words
  <2>1. CASE first < next
    <3>1. ~(next <= words)
      BY <1>1 DEF FullInv, TypeOK
    <3> QED
      BY <1>1, <2>1, <3>1, CloseList
  <2>2. CASE first = next
    <3>1. UNCHANGED <<chunks, first>>
      BY <1>1, <2>2
    <3> QED
      BY <1>1, <3>1, SameChunks DEF FullInv, TypeOK, SplitInv
  <2> QED
    BY <2>1, <2>2 DEF FullInv, TypeOK
<1>3. TypeOK'
  <2>1. returned' \in BOOLEAN
    BY <1>1, Zenon
  <2> QED
    BY <1>1, <1>2, <2>1 DEF FullInv, TypeOK
<1>4. /\ letters'[0] = 0
      /\ \A k \in 1 .. words' : Length(k)' > 0
  BY <1>1 DEF FullInv, SplitInv, Length
<1> QED
  BY <1>1, <1>2, <1>3, <1>4 DEF FullInv, SplitInv, CoversText

LEMMA NextInv == FullInv /\ [Next]_vars => FullInv'
<1> SUFFICES ASSUME FullInv, [Next]_vars PROVE FullInv'
  OBVIOUS
<1>1. CASE NextWord
  BY <1>1, WordStarts, WordJoins
<1>2. CASE Return
  BY <1>2, ReturnInv
<1>3. CASE UNCHANGED vars
  BY <1>3 DEF vars, FullInv, TypeOK, SplitInv, CoversText, ChunksFit, ChunksFull,
    Start, Joined, Length
<1> QED
  BY <1>1, <1>2, <1>3 DEF Next

\* The inductive invariant of the loop (rag.py, _split_into_chunks).
THEOREM SplitInvariance == Spec => [](TypeOK /\ SplitInv)
<1>1. FullInv => TypeOK /\ SplitInv
  BY DEF FullInv
<1> QED
  BY InitInv, NextInv, <1>1, PTL DEF Spec

\* No word of a text is lost, doubled or misplaced (rag.py, _split_into_chunks).
THEOREM NothingLost == Spec => []CoversText
<1>1. SplitInv => CoversText
  BY DEF SplitInv
<1> QED
  BY SplitInvariance, <1>1, PTL

\* The loop keeps its variables' types (rag.py, _split_into_chunks).
THEOREM Typing == Spec => []TypeOK
BY SplitInvariance, PTL

\* A chunk of more than one word is at most chunk_size long (rag.py,
\* _split_into_chunks).
THEOREM Fit == Spec => []ChunksFit
<1>1. SplitInv => ChunksFit
  BY DEF SplitInv
<1> QED
  BY SplitInvariance, <1>1, PTL

\* A chunk is no shorter than it needs to be (rag.py, _split_into_chunks).
THEOREM NoneTooShort == Spec => []ChunksFull
<1>1. SplitInv => ChunksFull
  BY DEF SplitInv
<1> QED
  BY SplitInvariance, <1>1, PTL
=============================================================================
