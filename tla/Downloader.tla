----------------------------- MODULE Downloader -----------------------------
(***************************************************************************)
(* downloadAndDecrypt: a pool of workers fetches and decrypts the chunks   *)
(* of a manifest in any order, and drain() hashes and writes them in       *)
(* order, one drain at a time.  Nothing waits for a drain but the last     *)
(* one, called when the pool is done.                                      *)
(*                                                                         *)
(* A worker's promise settles a microtask after its finally, in which it   *)
(* still counts as active: other workers may reach theirs in between.      *)
(***************************************************************************)
EXTENDS HttpStore

CONSTANTS
    MaxChunks,   \* bound: chunks of an object
    Parallels,   \* values of the option parallel
    Sinks        \* "sync": write returns no promise; "async": it does

ASSUME MaxChunksIsNat    == MaxChunks \in Nat
ASSUME ParallelsArePositive == Parallels \subseteq Nat \ {0}
ASSUME SinksAreKnown     == Sinks \subseteq {"sync", "async"}

VARIABLES
    manifest,    \* the manifest given, NoManifest before the call
    parallel, sink,
    worker,      \* per chunk, where its worker is, its failed attempts, its error
    nextSeq, active,
    slots,       \* chunks decrypted and not yet drained
    nextToDrain, \* nextSeqToDrain
    draining,    \* whose drain awaits a write: "no", "worker" or "main"
    failing,     \* a drain failed and its catch has not run
    hashed,      \* chunks given to sha.update
    written,     \* chunks the sink has taken
    threw,       \* history: the writes, by position, behind which onProgress threw
    doneP,       \* "pending", "resolved" or the code it was rejected with
    result,      \* of downloadAndDecrypt: "none", "pending", "ok" or a code
    aborted

pool     == <<worker, nextSeq, active>>
drainer  == <<slots, nextToDrain, draining, failing, hashed, written, threw>>
options  == <<manifest, parallel, sink>>
download == <<options, pool, drainer, doneP, result, aborted>>

Seqs  == 0 .. MaxChunks - 1
Total == manifest.totalChunks
At(where) == [at |-> where, attempt |-> 0, error |-> "none"]

DownloadInit ==
    /\ manifest = NoManifest /\ parallel = 0 /\ sink = "none"
    /\ worker = [i \in Seqs |-> At("none")] /\ nextSeq = 0 /\ active = 0
    /\ slots = {} /\ nextToDrain = 0 /\ draining = "no" /\ failing = FALSE
    /\ hashed = <<>> /\ written = <<>> /\ threw = {}
    /\ doneP = "pending" /\ result = "none" /\ aborted = FALSE

Pending == result = "pending"

\* rejectOnce: only the first settles the pool, and the caller with it.
Reject(code) ==
    /\ doneP' = IF doneP = "pending" THEN code ELSE doneP
    /\ result' = IF doneP = "pending" THEN code ELSE result

----------------------------------------------------------------------------
(* The pool. *)

\* Workers schedule() may start.
Room == parallel - active

\* How many it starts.
Starting(total) == LET rest == total - nextSeq IN IF Room < rest THEN Room ELSE rest

\* schedule(), given the workers as they are.
Started(workers, total) ==
    LET k == IF aborted THEN 0 ELSE Starting(total)
    IN  /\ worker' = [i \in Seqs |-> IF i \in nextSeq .. nextSeq + k - 1
                                        THEN At("fetch") ELSE workers[i]]
        /\ nextSeq' = nextSeq + k /\ active' = active + k

\* The call: validateManifest, then the first schedule(), which settles an empty
\* object at once.
Download ==
    /\ result = "none" /\ stored # NoManifest
    /\ manifest' = stored
    /\ parallel' \in Parallels /\ sink' \in Sinks
    /\ UNCHANGED <<drainer, aborted, store, faults>>
    /\ IF ValidManifest(stored)
         THEN /\ result' = "pending"
              /\ LET k == IF parallel' < stored.totalChunks THEN parallel' ELSE stored.totalChunks
                 IN  /\ worker' = [i \in Seqs |-> IF i < k THEN At("fetch") ELSE worker[i]]
                     /\ nextSeq' = k /\ active' = k
                     /\ doneP' = IF k = 0 THEN "resolved" ELSE doneP
         ELSE result' = "NC_BAD_MANIFEST" /\ UNCHANGED <<pool, doneP>>

\* The finally of a worker: an abort is noticed here, before its own error.
Ends(i, error) ==
    /\ Started([worker EXCEPT ![i] = [At("ended") EXCEPT !.error = error]], Total)

Fetching(i) == worker[i].at = "fetch"

\* getRange answered: the store's own answer, or a disturbed one.
Fetch(i) ==
    /\ Fetching(i)
    /\ UNCHANGED <<options, drainer, store, aborted>>
    /\ \E a \in Answers :
          /\ IF a = RangeAnswer(i, manifest) THEN UNCHANGED faults
                                             ELSE a \in {"busy", "lost", "missing", "refused"} /\ Fault
          /\ \/ /\ a = "ok" /\ ~RangeIsShort(i, manifest)
                /\ worker' = [worker EXCEPT ![i].at = "open"]
                /\ UNCHANGED <<nextSeq, active, doneP, result>>
             \/ /\ Retried(a, worker[i].attempt, Retries)
                /\ worker' = [worker EXCEPT ![i].attempt = @ + 1]
                /\ UNCHANGED <<nextSeq, active, doneP, result>>
             \/ /\ a = "ok" /\ RangeIsShort(i, manifest)
                /\ Ends(i, "NC_RANGE_SIZE")
                /\ IF aborted THEN Reject("AbortError") ELSE UNCHANGED <<doneP, result>>
             \/ /\ a # "ok" /\ ~Retried(a, worker[i].attempt, Retries)
                /\ Ends(i, Code(a))
                /\ IF aborted THEN Reject("AbortError") ELSE UNCHANGED <<doneP, result>>

\* The body of an answer breaks off (arrayBuffer is outside the retries), or the
\* signal has fired: fetch, the sleep or the body rejects.
FetchBreaks(i) ==
    /\ Fetching(i)
    /\ \/ aborted /\ Ends(i, "NC_ABORTED") /\ Reject("AbortError") /\ UNCHANGED faults
       \/ ~aborted /\ Fault /\ Ends(i, "TypeError") /\ UNCHANGED <<doneP, result>>
    /\ UNCHANGED <<options, drainer, store, aborted>>

----------------------------------------------------------------------------
(* The drain. *)

UpTo(from, to) == [j \in 1 .. to - from |-> from + j - 1]

\* The sink takes the chunks up to k.
Takes(k) == written' = written \o UpTo(nextToDrain, k)

\* onProgress threw behind the last write.
Threw == threw' = threw \cup {Len(written')}

\* drain() on a sink that returns no promise: one turn up to the first gap, or up
\* to a chunk whose write throws or whose onProgress does.  That chunk has been
\* hashed, and in the latter case taken, and stays in its slot.
DrainNow(ready) ==
    /\ UNCHANGED draining
    /\ \E k \in nextToDrain .. Total :
          /\ nextToDrain .. k - 1 \subseteq ready
          /\ slots' = ready \ (nextToDrain .. k - 1)
          /\ nextToDrain' = k
          /\ \/ /\ k \notin ready
                /\ hashed' = hashed \o UpTo(nextToDrain, k)
                /\ Takes(k) /\ UNCHANGED <<threw, failing, faults>>
             \/ /\ k \in ready /\ Fault
                /\ hashed' = hashed \o UpTo(nextToDrain, k + 1)
                /\ failing' = TRUE
                /\ \/ Takes(k) /\ UNCHANGED threw
                   \/ Takes(k + 1) /\ Threw

Busy == draining # "no"

\* drain() on a sink that returns promises: it writes one chunk and awaits it.
DrainLater(ready, owner) ==
    /\ slots' = ready
    /\ IF ~Busy /\ nextToDrain \in ready
         THEN /\ hashed' = Append(hashed, nextToDrain)
              /\ draining' = owner
         ELSE UNCHANGED <<hashed, draining>>
    /\ UNCHANGED <<nextToDrain, failing, written, threw, faults>>

\* openChunk resolved: keep the chunk, drain, and end.  A drain that throws
\* rejects in a microtask of its own, after schedule().
Open(i) ==
    /\ worker[i].at = "open" /\ RangeIsPiece(i, manifest)
    /\ LET ready == slots \cup {i}
       IN  IF sink = "sync" /\ ~Busy THEN DrainNow(ready) ELSE DrainLater(ready, "worker")
    /\ Ends(i, "none")
    /\ IF aborted THEN Reject("AbortError") ELSE UNCHANGED <<doneP, result>>
    /\ UNCHANGED <<options, store, aborted>>

\* openChunk rejected the bytes of another piece, or failed.
OpenFails(i) ==
    /\ worker[i].at = "open"
    /\ IF RangeIsPiece(i, manifest) THEN Fault ELSE UNCHANGED faults
    /\ Ends(i, "NC_DECRYPT_FAILED")
    /\ IF aborted THEN Reject("AbortError") ELSE UNCHANGED <<doneP, result>>
    /\ UNCHANGED <<options, drainer, store, aborted>>

\* Mutant: the worker that settles is counted.
LastCounted == active = 0 /\ nextSeq >= Total

\* The worker that settles is the last one.
Last == active = 1 /\ nextSeq >= Total

\* The promise of a worker settled: it is active no more.  The catch behind its
\* own drain has run by then.
Settled(i) ==
    /\ worker[i].at = "ended" /\ ~(failing /\ sink = "sync" /\ active = 1)
    /\ worker' = [worker EXCEPT ![i].at = "gone"]
    /\ active' = active - 1
    /\ IF worker[i].error # "none"
         THEN Reject(worker[i].error)
         ELSE /\ doneP' = IF doneP = "pending" /\ Last
                            THEN "resolved" ELSE doneP
              /\ UNCHANGED result
    /\ UNCHANGED <<options, nextSeq, drainer, store, faults, aborted>>

\* The catch behind a drain.
DrainRejects ==
    /\ failing /\ failing' = FALSE
    /\ Reject("caller")
    /\ UNCHANGED <<options, pool, slots, nextToDrain, draining, hashed, written, threw, store,
                   faults, aborted>>

----------------------------------------------------------------------------
(* The end. *)

\* Mutant: the drain is not awaited and nothing is compared after it.
VerdictUnchecked(left, next, hash) == "ok"

\* What downloadAndDecrypt returns once its own drain() has.
Verdict(left, next, hash) ==
    IF next # Total \/ left # {} THEN "NC_INTERNAL_ORDER"
    ELSE IF hash # UpTo(0, Len(manifest.digest)) THEN "NC_HASH_MISMATCH" ELSE "ok"

\* The pool is done: the last drain() returns at once when another is at work or
\* nothing is left, and else writes what a failed drain left.
Finish ==
    /\ Pending /\ doneP = "resolved" /\ draining # "main"
    /\ IF ~Busy /\ nextToDrain \in slots
         THEN DrainLater(slots, "main") /\ UNCHANGED result
         ELSE result' = Verdict(slots, nextToDrain, hashed) /\ UNCHANGED <<drainer, faults>>
    /\ UNCHANGED <<options, pool, doneP, store, aborted>>

\* A write resolved and onProgress, if there is one, returned: the drain goes on with
\* the next chunk, or ends.
WriteDone ==
    /\ draining # "no"
    /\ LET next == nextToDrain + 1
           goesOn == next \in slots
       IN  /\ written' = Append(written, nextToDrain)
           /\ slots' = slots \ {nextToDrain}
           /\ nextToDrain' = next
           /\ hashed' = IF goesOn THEN Append(hashed, next) ELSE hashed
           /\ draining' = IF goesOn THEN draining ELSE "no"
           /\ result' = IF draining = "main" /\ ~goesOn
                          THEN Verdict(slots', next, hashed') ELSE result
    /\ UNCHANGED <<options, pool, failing, threw, doneP, store, faults, aborted>>

\* What the sink or onProgress threw ends a drain that awaited a write.
DrainFails ==
    /\ Busy /\ Fault
    /\ draining' = "no"
    /\ IF draining = "main" THEN result' = "caller" /\ UNCHANGED failing
                            ELSE failing' = TRUE /\ UNCHANGED result
    /\ UNCHANGED <<options, pool, hashed, doneP, store, aborted>>

\* Mutant: the chunk is taken out of its slot before its write is awaited.
WriteFailsGone ==
    /\ DrainFails /\ UNCHANGED <<written, threw>>
    /\ slots' = slots \ {nextToDrain} /\ nextToDrain' = nextToDrain + 1

\* A write rejected: the chunk stays in its slot, hashed.
WriteFails == DrainFails /\ UNCHANGED <<slots, nextToDrain, written, threw>>

\* A write resolved and onProgress threw: the chunk has been taken and stays in its
\* slot for the next drain, which hashes and writes it again.
ProgressThrows ==
    /\ DrainFails
    /\ Takes(nextToDrain + 1) /\ Threw
    /\ UNCHANGED <<slots, nextToDrain>>

Abort ==
    /\ Pending /\ ~aborted /\ Fault
    /\ aborted' = TRUE
    /\ UNCHANGED <<options, pool, drainer, doneP, result, store>>

Working ==
    \/ DrainRejects \/ Finish \/ WriteDone
    \/ \E i \in Seqs : Fetch(i) \/ FetchBreaks(i) \/ Open(i) \/ OpenFails(i) \/ Settled(i)

DownloadNext == Download \/ Working \/ WriteFails \/ ProgressThrows \/ Abort

=============================================================================
