-------------------------------- MODULE Cache --------------------------------
(***************************************************************************)
(* packages/noisycache: one object, uploaded by uploadCiphertext and       *)
(* downloaded by downloadAndDecrypt, which may start as soon as the        *)
(* manifest is there to be read: before the commit, too.                   *)
(***************************************************************************)
EXTENDS Uploader, Downloader

\* The bound on the chunks is one on the objects there are.
ASSUME ObjectsFit == \A n \in Sizes : Chunks(n) <= MaxChunks

vars == <<store, faults, upload, download>>

Init == StoreInit /\ UploadInit /\ DownloadInit

Next ==
    \/ UploadNext /\ UNCHANGED download
    \/ DownloadNext /\ UNCHANGED upload

Spec == Init /\ [][Next]_vars

\* Once called, the pool works: its requests are answered or fail (nothing in the
\* code times one out), the promises of crypto and sink settle and its jobs run.
FairSpec == Spec /\ WF_vars(Working /\ UNCHANGED upload)

----------------------------------------------------------------------------

Codes == {"NC_HTTP_503", "NC_NETWORK", "NC_NOT_FOUND", "NC_NOT_COMMITTED", "NC_HTTP",
          "NC_ABORTED", "AbortError"}
UploadCodes   == Codes \cup {"NC_SIGN_FAILED", "ok"}
DownloadCodes == Codes \cup {"NC_RANGE_SIZE", "TypeError", "NC_DECRYPT_FAILED", "caller"}

\* The state is of the shape the two functions keep it in.
TypeOK ==
    /\ uPc \in {"create", "blob", "manifest", "commit"} \cup UploadCodes
    /\ attempt \in 0 .. Retries /\ left \in Nat
    /\ committed \in BOOLEAN /\ faults \in 0 .. MaxFaults
    /\ \A i \in Seqs : /\ worker[i].at \in {"none", "fetch", "open", "ended", "gone"}
                       /\ worker[i].attempt \in 0 .. Retries
                       /\ worker[i].error \in DownloadCodes \cup {"none"}
    /\ nextSeq \in 0 .. MaxChunks /\ active \in 0 .. MaxChunks
    /\ slots \subseteq Seqs /\ nextToDrain \in 0 .. MaxChunks
    /\ draining \in {"no", "worker", "main"}
    /\ doneP \in {"pending", "resolved"} \cup DownloadCodes
    /\ result \in {"none", "pending", "ok", "NC_BAD_MANIFEST", "NC_INTERNAL_ORDER",
                   "NC_HASH_MISMATCH"} \cup DownloadCodes

\* What is committed is the source, all of it: the store holds every piece that
\* was sealed, in order, and the manifest that was made of them, whatever was
\* retried, lost or refused on the way.
CommittedIsWhole ==
    committed => left = 0 /\ blob = sealed /\ stored = Manifest

\* The chunk that is due when the sink has taken n: the one after the last, or that
\* one again when onProgress threw behind it.
Due(n) ==
    IF n = 0 THEN 0 ELSE IF n \in threw THEN written[n] ELSE written[n] + 1

\* Chunks may come in any order, and the sink may be slow or fail and be written to
\* again: it takes the object from its beginning, without a gap, and is given a chunk
\* it has taken only after onProgress threw behind that very write.
SinkInOrder == \A n \in 1 .. Len(written) : written[n] = Due(n - 1)

\* A download that reports verified bytes has written every chunk once and hashed each
\* once, of an object that was committed, or of the empty one, of which nothing is
\* requested.  A chunk the sink took twice was hashed twice, which the digest shows.
VerifiedIsWhole ==
    result = "ok" =>
        /\ committed \/ Total = 0
        /\ written = UpTo(0, Len(sealed)) /\ hashed = written

\* When no chunk has to wait for a worker the download ends, whatever fails.
PoolSettles == (Pending /\ Total <= parallel) ~> ~Pending

\* A download fails for a reason: uploader and downloader agree on where each chunk
\* lies, and the pool is done only when every chunk is.  With no request disturbed,
\* no failure of crypto, sink or onProgress and no abort, an object its uploader cut
\* and a sink that returns no promise, it can only have come before the commit.
FailuresHaveCauses ==
    faults = 0 /\ source = "bytes" /\ sink = "sync" =>
        result \in {"none", "pending", "ok", "NC_NOT_COMMITTED"}

=============================================================================
