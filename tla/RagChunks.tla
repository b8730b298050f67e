------------------------------ MODULE RagChunks ------------------------------
(***************************************************************************)
(* How the AI service cuts a text into chunks before it stores them:       *)
(* _split_into_chunks of rag.py, one action for each round of its loop.    *)
(*                                                                         *)
(* A text is a number of words and, for each k, the number of letters of   *)
(* its first k words.  A chunk, and the list "current", is a range of      *)
(* words: "current" has the words first .. next - 1.  Sizes below the 64   *)
(* that IngestRequest asks for are checked, too: the function takes any.   *)
(*                                                                         *)
(* An operator X_Y is X with the bug Y; nothing uses it.                   *)
(***************************************************************************)
EXTENDS Integers, Sequences

CONSTANTS
  MaxWord,   \* bound on the words of a text
  MaxLetter, \* bound on its letters
  MaxSize    \* bound on chunk_size

ASSUME BoundsAssumption == MaxWord \in Nat /\ MaxLetter \in Nat /\ MaxSize \in Nat

VARIABLES
  words,       \* number of words of the text
  letters,     \* letters[k]: number of letters of the first k words
  chunk_size,
  next,        \* the word the loop has come to
  first,       \* the first word of "current"
  current_len,
  chunks,
  returned     \* the function has returned

vars == <<words, letters, chunk_size, next, first, current_len, chunks, returned>>

Chunk == {c \in [first : Nat, last : Nat] : c.first <= c.last}

TypeOK ==
  /\ words \in Nat
  /\ letters \in [0 .. words -> Nat]
  /\ chunk_size \in Nat
  /\ next \in 1 .. words + 1
  /\ first \in 1 .. next
  /\ current_len \in Nat
  /\ chunks \in Seq(Chunk)
  /\ returned \in BOOLEAN

\* len(word) of the k-th word.
Length(k) == letters[k] - letters[k - 1]

\* len(" ".join(words)) of the words a .. b.
Joined(a, b) == letters[b] - letters[a - 1] + (b - a)

\* text.split() returns no empty word.
Init ==
  /\ words \in 0 .. MaxWord
  /\ letters \in [0 .. words -> 0 .. MaxLetter]
  /\ letters[0] = 0
  /\ \A k \in 1 .. words : Length(k) > 0
  /\ chunk_size \in 1 .. MaxSize
  /\ next = 1
  /\ first = 1
  /\ current_len = 0
  /\ chunks = <<>>
  /\ returned = FALSE

Current == [first |-> first, last |-> next - 1]

\* "if current" holds, and the next word does not fit.
Full == current_len + Length(next) + 1 > chunk_size /\ first < next

NextWord_DropsWord ==
  /\ next <= words
  /\ next' = next + 1
  /\ IF Full
     THEN /\ chunks' = Append(chunks, Current)
          /\ first' = next + 1
          /\ current_len' = 0
     ELSE /\ current_len' = current_len + Length(next) + 1
          /\ UNCHANGED <<chunks, first>>
  /\ UNCHANGED <<words, letters, chunk_size, returned>>

NextWord_NoBlank ==
  /\ next <= words
  /\ next' = next + 1
  /\ IF Full
     THEN /\ chunks' = Append(chunks, Current)
          /\ first' = next
          /\ current_len' = Length(next)
     ELSE /\ current_len' = current_len + Length(next)
          /\ UNCHANGED <<chunks, first>>
  /\ UNCHANGED <<words, letters, chunk_size, returned>>

NextWord_LengthKept ==
  /\ next <= words
  /\ next' = next + 1
  /\ current_len' = current_len + Length(next) + 1
  /\ IF Full
     THEN chunks' = Append(chunks, Current) /\ first' = next
     ELSE UNCHANGED <<chunks, first>>
  /\ UNCHANGED <<words, letters, chunk_size, returned>>

\* A round of the loop: the word starts a new list or joins the current one.
NextWord ==
  /\ next <= words
  /\ next' = next + 1
  /\ IF Full
     THEN /\ chunks' = Append(chunks, Current)
          /\ first' = next
          /\ current_len' = Length(next) + 1
     ELSE /\ current_len' = current_len + Length(next) + 1
          /\ UNCHANGED <<chunks, first>>
  /\ UNCHANGED <<words, letters, chunk_size, returned>>

Return_Always ==
  /\ next = words + 1 /\ ~returned
  /\ returned' = TRUE
  /\ chunks' = Append(chunks, Current)
  /\ first' = next
  /\ UNCHANGED <<words, letters, chunk_size, next, current_len>>

\* After the loop the current list is the last chunk, if it has words.
Return ==
  /\ next = words + 1 /\ ~returned
  /\ returned' = TRUE
  /\ chunks' = IF first < next THEN Append(chunks, Current) ELSE chunks
  /\ first' = next
  /\ UNCHANGED <<words, letters, chunk_size, next, current_len>>

Next == NextWord \/ Return

Spec == Init /\ [][Next]_vars

-----------------------------------------------------------------------------
(* Properties.                                                             *)

\* Where chunk n begins; the current list begins after the last one.
Start(n) == IF n <= Len(chunks) THEN chunks[n].first ELSE first

\* No word is lost, doubled or out of its place: chunks follow each other
\* without a gap, from the first word on, and in the end to the last.
CoversText ==
  /\ Start(1) = 1
  /\ \A n \in 1 .. Len(chunks) : Start(n + 1) = chunks[n].last + 1
  /\ returned => first = words + 1

\* A chunk is no longer than chunk_size, unless it is a single word.
ChunksFit ==
  \A n \in 1 .. Len(chunks) :
    LET c == chunks[n] IN c.first = c.last \/ Joined(c.first, c.last) <= chunk_size

\* A chunk ends only where the next word, with a blank before and after it,
\* would make it too long.
ChunksFull ==
  \A n \in 1 .. Len(chunks) :
    LET c == chunks[n] IN
    c.last < words => Joined(c.first, c.last + 1) + 1 > chunk_size

\* The inductive invariant: what current_len counts, and that what is in the
\* current list would fit as a chunk.
SplitInv ==
  /\ letters[0] = 0
  /\ \A k \in 1 .. words : Length(k) > 0
  /\ CoversText /\ ChunksFit /\ ChunksFull
  /\ \A n \in 1 .. Len(chunks) : chunks[n].last <= words
  /\ ~returned => current_len = letters[next - 1] - letters[first - 1] + (next - first)
  /\ ~returned /\ first + 1 < next => current_len <= chunk_size
  /\ ~returned /\ next > 1 => first < next
=============================================================================
