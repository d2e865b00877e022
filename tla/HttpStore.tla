----------------------------- MODULE HttpStore -----------------------------
(***************************************************************************)
(* packages/noisycache: the HTTP client of the object store               *)
(* (http_store.js), the object the store keeps, and the arithmetic of the  *)
(* manifest (manifest.js) that uploader and downloader must agree on.      *)
(*                                                                         *)
(* A blob is the sequence of the pieces it was sealed from, each with the  *)
(* byte it starts at; as ciphertext it is TagBytes longer.  The store is   *)
(* an external service: what it answers is taken from the requests made of *)
(* it and from the integration tests in old_test.                          *)
(***************************************************************************)
EXTENDS Integers, Sequences

CONSTANTS
    ChunkBytes,  \* chunkBytes of the manifest
    TagBytes,    \* bytes the AEAD adds to a piece
    Retries,     \* HttpStore.retries
    MaxFaults    \* bound: requests that fail, aborts, failures of crypto, sink, onProgress

ASSUME SizesArePositive == ChunkBytes \in Nat \ {0} /\ TagBytes \in Nat \ {0}
ASSUME BoundsAreNat     == Retries \in Nat /\ MaxFaults \in Nat

VARIABLES
    blob,       \* what a PUT left: the pieces of its body
    stored,     \* the manifest a PUT left
    committed,  \* a commit was accepted
    faults      \* faults so far

store == <<blob, stored, committed>>

NoManifest == [totalBytes |-> -1, totalChunks |-> 0, last |-> 0, digest |-> <<>>]

StoreInit ==
    /\ blob = <<>> /\ stored = NoManifest /\ committed = FALSE
    /\ faults = 0

\* Where the blob of these pieces ends, and a piece that follows them.
EndOf(pieces) ==
    IF pieces = <<>> THEN 0
    ELSE LET last == pieces[Len(pieces)] IN last.at + last.bytes + TagBytes
Piece(pieces, n) == [at |-> EndOf(pieces), bytes |-> n]

Fault == faults < MaxFaults /\ faults' = faults + 1

----------------------------------------------------------------------------
(* _request. *)

\* ok: the expected status.  busy: 429, 502, 503, 504.  lost: fetch rejected.
\* The others are statuses that are reported at once.
Answers == {"ok", "busy", "lost", "missing", "uncommitted", "refused"}

Code(a) ==
    [busy |-> "NC_HTTP_503", lost |-> "NC_NETWORK", missing |-> "NC_NOT_FOUND",
     uncommitted |-> "NC_NOT_COMMITTED", refused |-> "NC_HTTP"][a]

\* Mutant: an attempt too many.
RetriesOneMore(a, attempt, retries) == a \in {"busy", "lost"} /\ attempt <= retries

\* Whether an answer to the attempt (counted from 0) is slept over and retried.
Retried(a, attempt, retries) == a \in {"busy", "lost"} /\ attempt < retries

\* What a request may have done to the store when its answer is a.
Effect(a, done) ==
    \/ a \in {"ok", "lost"} /\ done
    \/ a # "ok" /\ UNCHANGED store

----------------------------------------------------------------------------
(* The manifest. *)

Chunks(bytes) == (bytes + ChunkBytes - 1) \div ChunkBytes

\* makeManifest computes the chunks from the total, whatever the pieces were;
\* the digest is that of the pieces hashed.
MakeManifest(bytes, pieces) ==
    [totalBytes  |-> bytes,
     totalChunks |-> Chunks(bytes),
     last        |-> IF bytes = 0 THEN 0 ELSE bytes - (Chunks(bytes) - 1) * ChunkBytes,
     digest      |-> pieces]

\* validateManifest; its numbers are whole here.
ValidManifest(m) ==
    /\ {m.totalBytes, m.totalChunks, m.last} \subseteq Nat
    /\ m.totalChunks = 0 => m.totalBytes = 0
    /\ m.totalChunks > 0 => m.last > 0 /\ m.last <= ChunkBytes

PtLen(i, m) == IF i < m.totalChunks - 1 THEN ChunkBytes ELSE m.last

\* Mutant: the last chunk is taken for a full one.
CtLenFull(i, m) == IF i <= m.totalChunks - 1 THEN ChunkBytes + TagBytes ELSE m.last + TagBytes

\* ctLenOfChunk, chunks counted from 0.
CtLen(i, m) == IF m.totalChunks = 0 THEN 0 ELSE PtLen(i, m) + TagBytes

\* ctOffsetOfChunk.
CtOffset(i) == i * (ChunkBytes + TagBytes)

----------------------------------------------------------------------------
(* The store. *)

\* How the store answers a range that is not disturbed on the way.
RangeAnswer(i, m) ==
    IF ~committed THEN "uncommitted"
    ELSE IF CtOffset(i) >= EndOf(blob) THEN "refused" ELSE "ok"

\* The answer holds fewer bytes than asked for.
RangeIsShort(i, m) == CtOffset(i) + CtLen(i, m) > EndOf(blob)

\* The bytes of the range are the i-th piece, sealed as the i-th: openChunk
\* accepts nothing else.
RangeIsPiece(i, m) ==
    i < Len(blob) /\ blob[i + 1] = [at |-> CtOffset(i), bytes |-> PtLen(i, m)]

=============================================================================
