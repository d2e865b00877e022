------------------------------ MODULE Uploader ------------------------------
(***************************************************************************)
(* uploadCiphertext: create the object, PUT the blob while the source is   *)
(* read, sealed and hashed, PUT the manifest, commit.  Each request goes   *)
(* through HttpStore._request; the blob is a stream and is never retried.  *)
(***************************************************************************)
EXTENDS HttpStore

CONSTANTS
    Sources,    \* "bytes" (cut into chunks here) and "stream" (pieces as they come)
    Sizes       \* bytes a source may have

ASSUME SourcesAreKnown == Sources \subseteq {"bytes", "stream"} /\ Sizes \subseteq Nat

VARIABLES
    source,     \* the kind of the source
    left,       \* bytes the source has yet to yield
    uPc,        \* the request uploadCiphertext awaits, or how it ended
    attempt,    \* attempts of that request that failed
    sealed,     \* pieces sealed and hashed
    totalPt,    \* their bytes
    body        \* pieces sent in the body of the attempt

upload == <<source, left, uPc, attempt, sealed, totalPt, body>>

UploadInit ==
    /\ source \in Sources /\ left \in Sizes
    /\ uPc = "create" /\ attempt = 0
    /\ sealed = <<>> /\ totalPt = 0 /\ body = <<>>

Manifest == MakeManifest(totalPt, sealed)

\* What the iterator yields next: a Uint8Array is cut into chunks, the chunks
\* of a stream are taken as they are.
NextPiece ==
    IF source = "bytes" THEN {IF left < ChunkBytes THEN left ELSE ChunkBytes} ELSE 1 .. left

\* Mutant: a streamed body is retried like any other.
BlobRetriesAny == Retries

\* retriesOverride for a body that is a stream.
BlobRetries == 0

RetriesOf(request) == IF request = "blob" THEN BlobRetries ELSE Retries

\* The order of the requests.
Following == [create |-> "blob", blob |-> "manifest", manifest |-> "commit", commit |-> "ok"]

\* The request is answered with a: go on, try again or fail with the code.
Answered(request, a) ==
    \/ /\ a = "ok"
       /\ uPc' = Following[request] /\ attempt' = 0
       /\ UNCHANGED body
    \/ /\ a # "ok" /\ Retried(a, attempt, RetriesOf(request))
       /\ attempt' = attempt + 1 /\ body' = <<>>
       /\ UNCHANGED uPc
    \/ /\ a # "ok" /\ ~Retried(a, attempt, RetriesOf(request))
       /\ uPc' = Code(a)
       /\ UNCHANGED <<attempt, body>>

Disturbed(a) == IF a = "ok" THEN UNCHANGED faults ELSE Fault

Create ==
    /\ uPc = "create"
    /\ \E a \in Answers \ {"missing", "uncommitted"} : Answered("create", a) /\ Disturbed(a)
    /\ UNCHANGED <<store, source, left, sealed, totalPt>>

\* ctGenerator yields the next piece to the request under way.
SealChunk ==
    /\ uPc = "blob" /\ left > 0
    /\ \E n \in NextPiece :
          /\ left' = left - n
          /\ totalPt' = totalPt + n
          /\ sealed' = Append(sealed, Piece(sealed, n))
          /\ body' = Append(body, Piece(body, n))
    /\ UNCHANGED <<store, faults, source, uPc, attempt>>

\* The source or sealChunk rejects, or onProgress throws: the body fails, and the
\* request with it.  What was counted of the piece is not looked at again.
SealFails ==
    /\ uPc = "blob" /\ left > 0 /\ Fault
    /\ uPc' = "NC_NETWORK"
    /\ UNCHANGED <<store, source, left, attempt, sealed, totalPt, body>>

\* The store keeps a body only when it came whole; before that a request can
\* only fail.
PutBlob ==
    /\ uPc = "blob"
    /\ \E a \in Answers \ {"uncommitted"} :
          /\ a = "ok" => left = 0
          /\ Answered("blob", a) /\ Disturbed(a)
          /\ Effect(a, left = 0 /\ blob' = body /\ UNCHANGED <<stored, committed>>)
    /\ UNCHANGED <<source, left, sealed, totalPt>>

\* The signature over the digest is made before the manifest is sent.
SignFails ==
    /\ uPc = "manifest" /\ attempt = 0 /\ Fault
    /\ uPc' = "NC_SIGN_FAILED"
    /\ UNCHANGED <<store, source, left, attempt, sealed, totalPt, body>>

PutManifest ==
    /\ uPc = "manifest"
    /\ \E a \in Answers \ {"uncommitted"} :
          /\ Answered("manifest", a) /\ Disturbed(a)
          /\ Effect(a, stored' = Manifest /\ UNCHANGED <<blob, committed>>)
    /\ UNCHANGED <<source, left, sealed, totalPt>>

\* A commit whose answer was lost is tried again; the store may refuse the second.
Commit ==
    /\ uPc = "commit"
    /\ \E a \in Answers :
          /\ Answered("commit", a)
          /\ Effect(a, committed' = TRUE /\ UNCHANGED <<blob, stored>>)
          /\ IF committed /\ a = "refused" THEN UNCHANGED faults ELSE Disturbed(a)
    /\ UNCHANGED <<source, left, sealed, totalPt>>

Uploading == uPc \in {"create", "blob", "manifest", "commit"}

\* The caller's signal: fetch rejects, or the sleep before the next attempt does,
\* whose own error escapes when it follows a rejected fetch.
UploadAborts ==
    /\ Uploading /\ Fault
    /\ uPc' \in {"NC_ABORTED"} \cup (IF attempt > 0 THEN {"AbortError"} ELSE {})
    /\ UNCHANGED <<store, source, left, attempt, sealed, totalPt, body>>

UploadNext ==
    \/ Create \/ SealChunk \/ SealFails \/ PutBlob \/ SignFails
    \/ PutManifest \/ Commit \/ UploadAborts

=============================================================================
