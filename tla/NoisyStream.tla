---------------------------- MODULE NoisyStream ----------------------------
(***************************************************************************)
(* packages/noisystream: one encrypted transfer from sendFileWithAuth to   *)
(* recvFileWithAuth over one transport,                                    *)
(*                                                                         *)
(*    INIT -> READY -> DATA* (gated by CREDIT) -> FIN -> FIN_ACK.          *)
(*                                                                         *)
(* Every await of the code is a point between two actions.  The receiver's *)
(* message handler is asynchronous and not serialised, so the INIT handler *)
(* (initStage), the chain of sink writes (delivered .. nextSeq) and any    *)
(* number of FIN handlers (finWait, finVerify) overlap with one another    *)
(* and with the arrival of the next frame.                                 *)
(*                                                                         *)
(* A chunk carries one byte, so a count of chunks is also a count of       *)
(* bytes; ciphertexts are represented by their sequence numbers.           *)
(***************************************************************************)
EXTENDS Integers, Sequences, FiniteSets

CONSTANTS
    Chunks,           \* chunks the source really yields
    Total,            \* totalBytes advertised in INIT
    Window,           \* the receiver's windowChunks, 0 = no crediting
    Credit,           \* the receiver's credit (chunks written per grant)
    BacklogChunks,    \* the receiver's backlogChunks, 0 = unlimited
    BacklogBytes,     \* the receiver's backlogBytes, 0 = unlimited
    FinAckMaxRetries, \* the sender's finAckMaxRetries
    Signed,           \* the sender has sign.privateKey
    HasVerifyKey,     \* the receiver has sign.verifyKey, or FIN embeds a key
    MaxLose,          \* bound: frames the transport may lose
    MaxDup,           \* bound: frames the transport may repeat
    MaxDelay,         \* bound: frames the transport may overtake
    Faults            \* which of the faults below can happen

FaultKinds == {"senderAbort", "receiverAbort", "senderClose", "receiverClose", "sink"}

ASSUME SizesAreNat ==
    /\ Chunks \in Nat /\ Total \in Nat /\ Window \in Nat /\ Credit \in Nat
    /\ BacklogChunks \in Nat /\ BacklogBytes \in Nat /\ FinAckMaxRetries \in Nat
    /\ MaxLose \in Nat /\ MaxDup \in Nat /\ MaxDelay \in Nat

ASSUME ModesAreBoolean == Signed \in BOOLEAN /\ HasVerifyKey \in BOOLEAN

ASSUME FaultsAreKnown == Faults \subseteq FaultKinds

VARIABLES
    \* sendFileWithAuth
    sPc,         \* where the sender stands
    sErr,        \* the code it was rejected with
    sListening,  \* its READY/CREDIT listener is subscribed
    creditOn,    \* creditEnabled
    credit,      \* credits left
    seq,         \* DATA frames sent
    tries,       \* FIN attempts that timed out
    acked,       \* a FIN_ACK was seen (done)
    sAborted,    \* abortSignal.aborted
    sOpen,       \* the sender's end of the transport is open
    \* recvFileWithAuth
    initStage,   \* the INIT handler: not started, awaiting crypto, finished
    frames,      \* state.frames
    nextSeq,     \* state.nextSeq: first sequence number not yet reserved
    seenMax,     \* seenMaxSeq
    delivered,   \* deliveredSeq + 1 = state.bytes: chunks written to the sink
    sinceCredit, \* deliveredSinceCredit
    backlog,     \* keys of the backlog map
    backlogSize, \* backlogTotalBytes
    sinkOk,      \* lastWriteP has not been rejected
    finWait,     \* FIN handlers awaiting lastWriteP, each with the seq it awaits
    finVerify,   \* FIN handlers awaiting the signature, with what they hashed
    rResult,     \* how the receiver's promise settled
    verified,    \* state.signatureVerified
    rOpen,       \* the receiver's end of the transport is open
    \* the transport
    s2r, r2s,    \* frames in flight, oldest first
    lost, dups, delays,
    \* history
    granted,     \* credits the receiver ever granted
    applied      \* credits the sender ever added after READY

senderVars   == <<sPc, sErr, sListening, creditOn, credit, seq, tries, acked, sAborted, sOpen>>
windowVars   == <<nextSeq, seenMax, delivered, sinceCredit, backlog, backlogSize, sinkOk>>
finVars      == <<finWait, finVerify, verified>>
receiverVars == <<initStage, frames, windowVars, finVars, rResult, rOpen>>
faultVars    == <<lost, dups, delays>>
vars == <<senderVars, receiverVars, s2r, r2s, faultVars, granted, applied>>

SenderFrame   == [type : {"INIT", "FIN"}] \cup [type : {"DATA"}, seq : Nat]
\* upto is a history field: the total the receiver had granted, this frame included.
ReceiverFrame == [type : {"READY", "FIN_ACK"}]
                   \cup [type : {"CREDIT"}, chunks : Nat, upto : Nat]
Hashed        == [frames : Nat, bytes : Nat]

SenderPcs == {"start", "waitReady", "data", "seal", "fin", "finWait", "ok", "failed"}
SenderErrors == {"none", "NC_ABORTED", "NC_TX_CLOSED", "NC_TX_SEND", "NC_SIGNAL_RETRIES"}
Results == {"pending", "ok", "NC_ABORTED", "NC_TX_CLOSED", "NC_PROTOCOL",
            "NC_BACKLOG_OVERFLOW", "NC_SIGNATURE_INVALID", "NC_STREAM_MISMATCH"}

Init ==
    /\ sPc = "start" /\ sErr = "none" /\ sListening = FALSE
    /\ creditOn = FALSE /\ credit = 0 /\ seq = 0 /\ tries = 0 /\ acked = FALSE
    /\ sAborted = FALSE /\ sOpen = TRUE
    /\ initStage = "none" /\ frames = 0
    /\ nextSeq = 0 /\ seenMax = -1 /\ delivered = 0 /\ sinceCredit = 0
    /\ backlog = {} /\ backlogSize = 0 /\ sinkOk = TRUE
    /\ finWait = <<>> /\ finVerify = {} /\ verified = FALSE
    /\ rResult = "pending" /\ rOpen = TRUE
    /\ s2r = <<>> /\ r2s = <<>>
    /\ lost = 0 /\ dups = 0 /\ delays = 0
    /\ granted = 0 /\ applied = 0

----------------------------------------------------------------------------
(* The sender. *)

SenderFails(code) ==
    /\ sPc' = "failed"
    /\ sErr' = code

\* safeSend: delivered to an open transport; on a closed one an RTC channel
\* throws (NC_TX_SEND) and a WebSocket without a socket drops the frame.
SafeSend(frame, onward) ==
    \/ /\ sOpen
       /\ s2r' = Append(s2r, frame)
       /\ onward /\ UNCHANGED sErr
    \/ /\ ~sOpen
       /\ onward /\ UNCHANGED <<sErr, s2r>>
    \/ /\ ~sOpen
       /\ SenderFails("NC_TX_SEND")
       /\ UNCHANGED s2r

\* INIT goes out and the READY/CREDIT and close listeners are attached in the
\* same turn.  onClose of a channel that is already down fires at once.
SendInit ==
    /\ sPc = "start"
    /\ \/ /\ sOpen
          /\ s2r' = Append(s2r, [type |-> "INIT"])
          /\ sPc' = "waitReady" /\ sListening' = TRUE
          /\ UNCHANGED sErr
       \/ /\ ~sOpen
          /\ \/ SenderFails("NC_TX_SEND") /\ UNCHANGED sListening
             \/ SenderFails("NC_TX_CLOSED") /\ sListening' = TRUE
          /\ UNCHANGED s2r
    /\ UNCHANGED <<creditOn, credit, seq, tries, acked, sAborted, sOpen,
                   receiverVars, r2s, faultVars, granted, applied>>

\* Mutant: READY turns crediting on without the window it opens with.
OnReadyBare ==
    /\ sOpen /\ sListening
    /\ r2s # <<>> /\ Head(r2s).type = "READY"
    /\ r2s' = Tail(r2s)
    /\ sPc' = IF sPc = "waitReady" THEN "data" ELSE sPc
    /\ creditOn' = (Window > 0)
    /\ UNCHANGED <<credit, sErr, sListening, seq, tries, acked, sAborted, sOpen,
                   receiverVars, s2r, faultVars, granted, applied>>

\* READY starts the data phase and sets (not adds) the credit; the listener
\* stays subscribed, so a second READY sets it again.
OnReady ==
    /\ sOpen /\ sListening
    /\ r2s # <<>> /\ Head(r2s).type = "READY"
    /\ r2s' = Tail(r2s)
    /\ sPc' = IF sPc = "waitReady" THEN "data" ELSE sPc
    /\ IF Window > 0
         THEN creditOn' = TRUE /\ credit' = Window
         ELSE UNCHANGED <<creditOn, credit>>
    /\ UNCHANGED <<sErr, sListening, seq, tries, acked, sAborted, sOpen,
                   receiverVars, s2r, faultVars, granted, applied>>

OnCredit ==
    /\ sOpen /\ sListening
    /\ r2s # <<>> /\ Head(r2s).type = "CREDIT"
    /\ r2s' = Tail(r2s)
    /\ IF creditOn
         THEN /\ credit' = credit + Head(r2s).chunks
              /\ applied' = applied + Head(r2s).chunks
         ELSE UNCHANGED <<credit, applied>>
    /\ UNCHANGED <<sPc, sErr, sListening, creditOn, seq, tries, acked, sAborted, sOpen,
                   receiverVars, s2r, faultVars, granted>>

\* The FIN_ACK listener exists only during the FIN loop.
AwaitingAck == sPc \in {"fin", "finWait"}

OnFinAck ==
    /\ sOpen /\ AwaitingAck
    /\ r2s # <<>> /\ Head(r2s).type = "FIN_ACK"
    /\ r2s' = Tail(r2s)
    /\ acked' = TRUE
    /\ UNCHANGED <<sPc, sErr, sListening, creditOn, credit, seq, tries, sAborted, sOpen,
                   receiverVars, s2r, faultVars, granted, applied>>

\* A frame nobody listens for is gone.
SenderIgnores ==
    /\ sOpen /\ r2s # <<>>
    /\ IF Head(r2s).type = "FIN_ACK" THEN ~AwaitingAck ELSE ~sListening
    /\ r2s' = Tail(r2s)
    /\ UNCHANGED <<senderVars, receiverVars, s2r, faultVars, granted, applied>>

\* Mutant: the credit is drawn without waiting for it.
TakeChunkUngated ==
    /\ sPc = "data" /\ seq < Chunks
    /\ ~sAborted
    /\ sPc' = "seal"
    /\ credit' = IF creditOn THEN credit - 1 ELSE credit
    /\ UNCHANGED <<sErr, sListening, creditOn, seq, tries, acked, sAborted, sOpen,
                   receiverVars, s2r, r2s, faultVars, granted, applied>>

\* One turn of the data loop up to the await of hpkeSend.seal: the abort check,
\* the wait for credit and the decrement.
TakeChunk ==
    /\ sPc = "data" /\ seq < Chunks
    /\ ~sAborted
    /\ creditOn => credit > 0
    /\ sPc' = "seal"
    /\ credit' = IF creditOn THEN credit - 1 ELSE credit
    /\ UNCHANGED <<sErr, sListening, creditOn, seq, tries, acked, sAborted, sOpen,
                   receiverVars, s2r, r2s, faultVars, granted, applied>>

\* The abort signal is looked at only here: before a chunk and while polling
\* for credit.
AbortSeen ==
    /\ sPc = "data" /\ seq < Chunks
    /\ sAborted
    /\ SenderFails("NC_ABORTED")
    /\ UNCHANGED <<sListening, creditOn, credit, seq, tries, acked, sAborted, sOpen,
                   receiverVars, s2r, r2s, faultVars, granted, applied>>

SendData ==
    /\ sPc = "seal"
    /\ SafeSend([type |-> "DATA", seq |-> seq], sPc' = "data")
    /\ seq' = IF sPc' = "data" THEN seq + 1 ELSE seq
    /\ UNCHANGED <<sListening, creditOn, credit, tries, acked, sAborted, sOpen,
                   receiverVars, r2s, faultVars, granted, applied>>

\* The source is exhausted: flush, subscribe for FIN_ACK, sign the transcript.
BeginFin ==
    /\ sPc = "data" /\ seq = Chunks
    /\ sPc' = "fin"
    /\ UNCHANGED <<sErr, sListening, creditOn, credit, seq, tries, acked, sAborted, sOpen,
                   receiverVars, s2r, r2s, faultVars, granted, applied>>

SendFin ==
    /\ sPc = "fin" /\ ~acked /\ tries <= FinAckMaxRetries
    /\ SafeSend([type |-> "FIN"], sPc' = "finWait")
    /\ UNCHANGED <<sListening, creditOn, credit, seq, tries, acked, sAborted, sOpen,
                   receiverVars, r2s, faultVars, granted, applied>>

\* finAckTimeoutMs and the backoff that follows it.
FinTimeout ==
    /\ sPc = "finWait" /\ ~acked
    /\ sPc' = "fin"
    /\ tries' = tries + 1
    /\ UNCHANGED <<sErr, sListening, creditOn, credit, seq, acked, sAborted, sOpen,
                   receiverVars, s2r, r2s, faultVars, granted, applied>>

GiveUp ==
    /\ sPc = "fin" /\ ~acked /\ tries > FinAckMaxRetries
    /\ SenderFails("NC_SIGNAL_RETRIES")
    /\ UNCHANGED <<sListening, creditOn, credit, seq, tries, acked, sAborted, sOpen,
                   receiverVars, s2r, r2s, faultVars, granted, applied>>

\* cleanup() runs on this path only.
Succeed ==
    /\ AwaitingAck /\ acked
    /\ sPc' = "ok"
    /\ sListening' = FALSE
    /\ UNCHANGED <<sErr, creditOn, credit, seq, tries, acked, sAborted, sOpen,
                   receiverVars, s2r, r2s, faultVars, granted, applied>>

----------------------------------------------------------------------------
(* The receiver. *)

Listening == rOpen /\ rResult = "pending"

\* Mutant: a late handler overwrites what the promise settled with.
SettleAgain(result) == rResult' = result

\* A promise settles once; what a handler does later cannot change it.
Settle(result) == rResult' = IF rResult = "pending" THEN result ELSE rResult

\* safeSend of the receiver.  Its transport reports a close before a send can
\* fail, so a failed send meets a settled promise and only loses the frame.
Reply(frame) == r2s' = IF rOpen THEN Append(r2s, frame) ELSE r2s

OnInit ==
    /\ Listening
    /\ s2r # <<>> /\ Head(s2r).type = "INIT"
    /\ s2r' = Tail(s2r)
    /\ IF initStage = "none"
         THEN /\ initStage' = "crypto"
              /\ frames' = frames + 1
              /\ UNCHANGED rResult
         ELSE /\ Settle("NC_PROTOCOL")
              /\ UNCHANGED <<initStage, frames>>
    /\ UNCHANGED <<senderVars, windowVars, finVars, rOpen, r2s, faultVars, granted, applied>>

\* The HPKE context and the transcript exist: answer READY.
InitDone ==
    /\ initStage = "crypto"
    /\ initStage' = "ready"
    /\ Reply([type |-> "READY"])
    /\ UNCHANGED <<senderVars, frames, windowVars, finVars, rResult, rOpen, s2r,
                   faultVars, granted, applied>>

\* backlog.set and the byte count come first, a stale duplicate is left in the
\* map, and the count is raised a second time for every other frame.
Overflows(keys, size) ==
    \/ BacklogChunks > 0 /\ Cardinality(keys) > BacklogChunks
    \/ BacklogBytes > 0 /\ size > BacklogBytes

\* processInOrder until the next sequence number is missing: each chunk leaves
\* the map and a write job is chained behind lastWriteP.
Drain(keys, size) ==
    \E next \in nextSeq .. Chunks :
        /\ nextSeq .. (next - 1) \subseteq keys
        /\ next \notin keys
        /\ nextSeq' = next
        /\ backlog' = keys \ (nextSeq .. (next - 1))
        /\ backlogSize' = size - (next - nextSeq)

OnData ==
    /\ Listening
    /\ s2r # <<>> /\ Head(s2r).type = "DATA"
    /\ s2r' = Tail(s2r)
    /\ LET n    == Head(s2r).seq
           keys == backlog \cup {n}
       IN  \/ /\ initStage # "ready"
              /\ Settle("NC_PROTOCOL")
              /\ UNCHANGED <<frames, nextSeq, seenMax, backlog, backlogSize>>
           \/ /\ initStage = "ready"
              /\ frames' = frames + 1
              /\ seenMax' = IF n > seenMax THEN n ELSE seenMax
              /\ \/ /\ n < nextSeq
                    /\ backlog' = keys /\ backlogSize' = backlogSize + 1
                    /\ UNCHANGED <<nextSeq, rResult>>
                 \/ /\ n >= nextSeq
                    /\ Overflows(keys, backlogSize + 2)
                    /\ backlog' = keys /\ backlogSize' = backlogSize + 2
                    /\ Settle("NC_BACKLOG_OVERFLOW")
                    /\ UNCHANGED nextSeq
                 \/ /\ n >= nextSeq
                    /\ ~Overflows(keys, backlogSize + 2)
                    /\ Drain(keys, backlogSize + 2)
                    /\ UNCHANGED rResult
    /\ UNCHANGED <<senderVars, initStage, delivered, sinceCredit, sinkOk, finVars, rOpen,
                   r2s, faultVars, granted, applied>>

\* Mutant: the chunk just written still counts as in flight.
InFlightLate(n) == IF seenMax - n + 2 > 0 THEN seenMax - n + 2 ELSE 0

\* The credit arithmetic of a write job that brought the delivered chunks to n.
InFlight(n) == IF seenMax - n + 1 > 0 THEN seenMax - n + 1 ELSE 0
Missing(n)  == IF Window - InFlight(n) > 0 THEN Window - InFlight(n) ELSE 0

\* Mutant: the whole room of the window is granted, whatever was delivered.
GrantRoom(n, since) == Missing(n)

Grant(n, since) == IF since < Missing(n) THEN since ELSE Missing(n)

\* The oldest write job finishes: the transcript, the decryption and the sink
\* write are done, and credit may be granted.
WriteDone ==
    /\ sinkOk /\ delivered < nextSeq
    /\ delivered' = delivered + 1
    /\ LET n     == delivered + 1
           since == sinceCredit + 1
           grant == Grant(n, since)
       IN  IF Window > 0 /\ since >= Credit /\ Missing(n) > 0
             THEN /\ sinceCredit' = 0
                  /\ granted' = granted + grant
                  /\ Reply([type |-> "CREDIT", chunks |-> grant, upto |-> granted + grant])
             ELSE /\ sinceCredit' = since
                  /\ UNCHANGED <<granted, r2s>>
    /\ UNCHANGED <<senderVars, initStage, frames, nextSeq, seenMax, backlog, backlogSize,
                   sinkOk, finVars, rResult, rOpen, s2r, faultVars, applied>>

\* dec.open or writer.write rejects: every later job is skipped.
WriteFails ==
    /\ "sink" \in Faults
    /\ sinkOk /\ delivered < nextSeq
    /\ sinkOk' = FALSE
    /\ UNCHANGED <<senderVars, initStage, frames, nextSeq, seenMax, delivered, sinceCredit,
                   backlog, backlogSize, finVars, rResult, rOpen, s2r, r2s, faultVars,
                   granted, applied>>

OnFin ==
    /\ Listening
    /\ s2r # <<>> /\ Head(s2r).type = "FIN"
    /\ s2r' = Tail(s2r)
    /\ finWait' = Append(finWait, nextSeq)
    /\ UNCHANGED <<senderVars, initStage, frames, windowVars, finVerify, verified, rResult,
                   rOpen, r2s, faultVars, granted, applied>>

\* The oldest FIN handler resumes from await lastWriteP: it counts its frame and
\* takes what it hashes, or fails with the write that failed.
FinResumes ==
    /\ finWait # <<>>
    /\ finWait' = Tail(finWait)
    /\ \/ /\ delivered >= Head(finWait)
          /\ frames' = frames + 1
          /\ finVerify' = finVerify \cup {[frames |-> frames + 1, bytes |-> delivered]}
          /\ UNCHANGED rResult
       \/ /\ delivered < Head(finWait) /\ ~sinkOk
          /\ Settle("NC_PROTOCOL")
          /\ UNCHANGED <<frames, finVerify>>
    /\ UNCHANGED <<senderVars, initStage, windowVars, verified, rOpen, s2r, r2s, faultVars,
                   granted, applied>>

\* Mutant: the count is compared with itself.
TotalUnchecked == delivered

\* state.totalBytes
TotalBytes == IF initStage = "none" THEN 0 ELSE Total

\* Mutant: the sender forgets to count the FIN frame it signs.
SignatureWithoutFin(h) == h.frames = Chunks + 1 /\ h.bytes = Chunks

\* The digest is the sender's iff the frames and bytes it covers are; a second
\* finalisation of the transcript always counts one frame more.
SignatureMatches(h) == h.frames = Chunks + 2 /\ h.bytes = Chunks

\* The rest of a FIN handler: signature, byte count, FIN_ACK, resolve.  The
\* digests and verifications of two handlers may finish in either order, and a
\* handler goes on when the promise was settled by something else meanwhile.
FinDone(h) ==
    /\ h \in finVerify
    /\ finVerify' = finVerify \ {h}
    /\ LET checked == initStage = "ready" /\ Signed /\ HasVerifyKey
       IN  \/ /\ checked /\ ~SignatureMatches(h)
              /\ Settle("NC_SIGNATURE_INVALID")
              /\ UNCHANGED <<verified, r2s>>
           \/ /\ checked => SignatureMatches(h)
              /\ verified' = (verified \/ checked)
              /\ IF delivered = TotalBytes
                   THEN Settle("ok") /\ Reply([type |-> "FIN_ACK"])
                   ELSE Settle("NC_STREAM_MISMATCH") /\ UNCHANGED r2s
    /\ UNCHANGED <<senderVars, initStage, frames, windowVars, finWait, rOpen, s2r, faultVars,
                   granted, applied>>

\* Once settled, the receiver has unsubscribed.
ReceiverIgnores ==
    /\ rOpen /\ rResult # "pending"
    /\ s2r # <<>>
    /\ s2r' = Tail(s2r)
    /\ UNCHANGED <<senderVars, receiverVars, r2s, faultVars, granted, applied>>

----------------------------------------------------------------------------
(* The environment: aborts, closes and an imperfect transport. *)

SenderAbort ==
    /\ "senderAbort" \in Faults /\ ~sAborted
    /\ sPc \notin {"ok", "failed"}
    /\ sAborted' = TRUE
    /\ UNCHANGED <<sPc, sErr, sListening, creditOn, credit, seq, tries, acked, sOpen,
                   receiverVars, s2r, r2s, faultVars, granted, applied>>

ReceiverAbort ==
    /\ "receiverAbort" \in Faults /\ rResult = "pending"
    /\ Settle("NC_ABORTED")
    /\ UNCHANGED <<senderVars, initStage, frames, windowVars, finVars, rOpen, s2r, r2s,
                   faultVars, granted, applied>>

\* The sender's close listener only knows how to reject the wait for READY.
SenderClose ==
    /\ "senderClose" \in Faults /\ sOpen
    /\ sOpen' = FALSE
    /\ IF sPc = "waitReady"
         THEN SenderFails("NC_TX_CLOSED")
         ELSE UNCHANGED <<sPc, sErr>>
    /\ UNCHANGED <<sListening, creditOn, credit, seq, tries, acked, sAborted,
                   receiverVars, s2r, r2s, faultVars, granted, applied>>

ReceiverClose ==
    /\ "receiverClose" \in Faults /\ rOpen
    /\ rOpen' = FALSE
    /\ Settle("NC_TX_CLOSED")
    /\ UNCHANGED <<senderVars, initStage, frames, windowVars, finVars, s2r, r2s, faultVars,
                   granted, applied>>

\* What may happen to the oldest frame of a channel: lost, repeated behind the
\* frames that follow it, or overtaken by them.
Disturb(ch, other) ==
    /\ ch # <<>>
    /\ \/ /\ lost < MaxLose /\ lost' = lost + 1
          /\ ch' = Tail(ch)
          /\ UNCHANGED <<dups, delays>>
       \/ /\ dups < MaxDup /\ dups' = dups + 1
          /\ ch' = Append(ch, Head(ch))
          /\ UNCHANGED <<lost, delays>>
       \/ /\ delays < MaxDelay /\ delays' = delays + 1
          /\ Len(ch) > 1
          /\ ch' = Append(Tail(ch), Head(ch))
          /\ UNCHANGED <<lost, dups>>
    /\ UNCHANGED <<senderVars, receiverVars, other, granted, applied>>

----------------------------------------------------------------------------

SenderStep ==
    \/ SendInit \/ TakeChunk \/ AbortSeen \/ SendData \/ BeginFin
    \/ SendFin \/ FinTimeout \/ GiveUp \/ Succeed

SenderHandler == OnReady \/ OnCredit \/ OnFinAck \/ SenderIgnores

ReceiverHandler == OnInit \/ OnData \/ OnFin \/ ReceiverIgnores

ReceiverStep ==
    \/ InitDone \/ WriteDone \/ FinResumes
    \/ \E h \in finVerify : FinDone(h)

Environment ==
    \/ SenderAbort \/ ReceiverAbort \/ SenderClose \/ ReceiverClose \/ WriteFails
    \/ Disturb(s2r, r2s) \/ Disturb(r2s, s2r)

Next == SenderStep \/ SenderHandler \/ ReceiverHandler \/ ReceiverStep \/ Environment

Spec == Init /\ [][Next]_vars

\* Timers fire, promises of the runtime settle and an open transport delivers;
\* nothing obliges the environment to disturb anything.
Fairness ==
    /\ WF_vars(SenderStep)
    /\ WF_vars(SenderHandler)
    /\ WF_vars(ReceiverHandler)
    /\ WF_vars(ReceiverStep)

FairSpec == Spec /\ Fairness

----------------------------------------------------------------------------
(* Properties. *)

FlagsTyped ==
    /\ sListening \in BOOLEAN /\ creditOn \in BOOLEAN /\ acked \in BOOLEAN
    /\ sAborted \in BOOLEAN /\ sOpen \in BOOLEAN /\ rOpen \in BOOLEAN
    /\ sinkOk \in BOOLEAN /\ verified \in BOOLEAN

StagesTyped ==
    /\ sPc \in SenderPcs /\ sErr \in SenderErrors
    /\ initStage \in {"none", "crypto", "ready"} /\ rResult \in Results

CountersTyped ==
    /\ credit \in Nat /\ seq \in Nat /\ tries \in Nat
    /\ frames \in Nat /\ nextSeq \in Nat /\ seenMax \in Nat \cup {-1}
    /\ delivered \in Nat /\ sinceCredit \in Nat
    /\ backlog \subseteq Nat /\ backlogSize \in Int
    /\ lost \in Nat /\ dups \in Nat /\ delays \in Nat
    /\ granted \in Nat /\ applied \in Nat

QueuesTyped ==
    /\ finWait \in Seq(Nat) /\ finVerify \subseteq Hashed
    /\ s2r \in Seq(SenderFrame) /\ r2s \in Seq(ReceiverFrame)

\* Every variable stays in its type: counters are naturals (the code's credit
\* counter included, which a wrong grant would drive below zero) and every
\* frame in flight is one the two sides can produce.
TypeOK == FlagsTyped /\ StagesTyped /\ CountersTyped /\ QueuesTyped

\* Chunks the sender has drawn credit for.
Drawn == IF sPc = "seal" THEN seq + 1 ELSE seq

\* Crediting works as a sliding window: the sender is never more than
\* windowChunks ahead of what the receiver's sink has taken.
WithinWindow == Window > 0 => Drawn <= delivered + Window

\* Resetting deliveredSinceCredit after a grant capped by the window never
\* throws a chunk's credit away: every chunk written is granted or still counted.
NoCreditLost == Window > 0 => granted + sinceCredit = delivered

\* A FIN_ACK counts for the sender as proof of delivery: sendFileWithAuth
\* resolves only when the receiver's sink has taken every byte INIT advertised.
OkMeansDelivered == sPc = "ok" => delivered >= Total

\* recvFileWithAuth resolves only with the whole source written, in spite of
\* lost, repeated and overtaken frames.
ReceivedMeansWhole == rResult = "ok" => delivered = Chunks /\ delivered = Total

\* On an ordered lossless transport with nobody giving up, a transfer fails in
\* one way only: a FIN resent while its predecessor is still being verified.
OnlyRetriedFinRejects ==
    rResult # "pending" => \/ rResult = "ok" /\ (Signed /\ HasVerifyKey => verified)
                           \/ rResult = "NC_SIGNATURE_INVALID" /\ tries > 0

\* The transfer as its two callers see it.  The window binds the sender as long
\* as the transport keeps the order of the CREDIT frames and repeats none.
Crediting == Window > 0 /\ MaxDup = 0 /\ MaxDelay = 0

Outcome(pending, settled) ==
    IF pending THEN "pending" ELSE IF settled = "ok" THEN "ok" ELSE "failed"

Abstract == INSTANCE Transfer WITH
    Limit    <- IF Crediting THEN Window ELSE 0,
    sent     <- seq,
    written  <- delivered,
    sender   <- Outcome(sPc \notin {"ok", "failed"}, sPc),
    receiver <- Outcome(rResult = "pending", rResult)

\* A transfer implements Transfer: whatever the transport and the callers do,
\* chunks reach the sink in order, no promise resolves early or twice, and a
\* sender that has settled sends nothing more.
ImplementsTransfer == Abstract!Spec

\* Neither promise stays pending: the window never closes for good, and the
\* bounded FIN loop ends.
BothSettle == <>(sPc \in {"ok", "failed"}) /\ <>(rResult # "pending")

\* A transport that closed under the sender is reported to its caller
\* (README.md:164, "NC_TX_SEND / NC_TX_CLOSED - transport issues").
ClosedSenderSettles == ~sOpen ~> sPc \in {"ok", "failed"}

============================================================================
