------------------------------ MODULE Transfer ------------------------------
(***************************************************************************)
(* What packages/noisystream promises its two callers about one transfer,  *)
(* with no frame, handler or retry in it: chunks are written in the order  *)
(* they were sent, the sender stays within the receiver's window, and      *)
(* neither promise resolves before the sink holds the advertised bytes.    *)
(***************************************************************************)
EXTENDS Naturals

CONSTANTS
    Chunks,   \* chunks of the source, one byte each
    Total,    \* bytes the sender advertised
    Limit     \* how far sending may be ahead of writing, 0 = unlimited

VARIABLES
    sent,      \* chunks handed to the transport
    written,   \* chunks the sink has taken
    sender,    \* the promise of sendFileWithAuth
    receiver   \* the promise of recvFileWithAuth

vars == <<sent, written, sender, receiver>>

Init == sent = 0 /\ written = 0 /\ sender = "pending" /\ receiver = "pending"

Send ==
    /\ sender = "pending" /\ sent < Chunks
    /\ Limit > 0 => sent < written + Limit
    /\ sent' = sent + 1
    /\ UNCHANGED <<written, sender, receiver>>

\* The sink may take what is already reserved after either side has settled.
Write ==
    /\ written < sent
    /\ written' = written + 1
    /\ UNCHANGED <<sent, sender, receiver>>

SenderSettles(how) ==
    /\ sender = "pending"
    /\ how = "ok" => written >= Total
    /\ sender' = how
    /\ UNCHANGED <<sent, written, receiver>>

ReceiverSettles(how) ==
    /\ receiver = "pending"
    /\ how = "ok" => written >= Total
    /\ receiver' = how
    /\ UNCHANGED <<sent, written, sender>>

Next ==
    \/ Send \/ Write
    \/ \E how \in {"ok", "failed"} : SenderSettles(how) \/ ReceiverSettles(how)

Spec == Init /\ [][Next]_vars

=============================================================================
