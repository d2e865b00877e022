------------------------- MODULE NoisyStreamProofs -------------------------
(***************************************************************************)
(* What holds of NoisyStream for every size of source and window, every    *)
(* number of retries and every mix of faults.                              *)
(***************************************************************************)
EXTENDS NoisyStream, FiniteSetTheorems, TLAPS

(***************************************************************************)
(* The inductive invariants.                                               *)
(***************************************************************************)

InFlightHas(ch, type) == \E i \in 1 .. Len(ch) : ch[i].type = type

\* Nothing past READY exists before the receiver is ready, and an
\* acknowledgement is only about chunks that reached the sink.
DeliveryInv ==
    /\ InFlightHas(r2s, "READY") => initStage = "ready"
    /\ sPc \in {"data", "seal", "fin", "finWait", "ok"} => initStage = "ready"
    /\ InFlightHas(s2r, "FIN") => initStage = "ready"
    /\ finWait # <<>> \/ finVerify # {} => initStage = "ready"
    /\ acked \/ InFlightHas(r2s, "FIN_ACK") => delivered >= Total
    /\ sPc = "ok" => acked
    /\ rResult = "ok" => delivered >= Total

DataBelow(ch, n) == \A i \in 1 .. Len(ch) : ch[i].type = "DATA" => ch[i].seq < n

\* The receiver never handles, reserves or writes a chunk that was not sent.
OrderInv ==
    /\ DataBelow(s2r, seq)
    /\ \A n \in backlog : n < seq
    /\ seenMax < seq
    /\ delivered <= nextSeq /\ nextSeq <= seq /\ seq <= Chunks
    /\ sPc = "seal" => seq < Chunks

OneReady(ch) ==
    \A i, j \in 1 .. Len(ch) : ch[i].type = "READY" /\ ch[j].type = "READY" => i = j

\* READY arrives once, before anything is sent.
ReadyOnce ==
    /\ OneReady(r2s)
    /\ creditOn => initStage = "ready" /\ ~InFlightHas(r2s, "READY")
    /\ ~creditOn => applied = 0 /\ seq = 0 /\ sPc \in {"start", "waitReady", "failed"}

\* The CREDIT frames of a channel are slices, in order, of what lies between
\* the credits applied and the credits granted.
Slices(ch, low, high) ==
    /\ low <= high
    /\ \A i \in 1 .. Len(ch) : ch[i].type = "CREDIT" =>
          low + ch[i].chunks <= ch[i].upto /\ ch[i].upto <= high
    /\ \A i, j \in 1 .. Len(ch) :
          i < j /\ ch[i].type = "CREDIT" /\ ch[j].type = "CREDIT"
             => ch[i].upto + ch[j].chunks <= ch[j].upto

\* Credit conservation.
CreditInv ==
    /\ ReadyOnce
    /\ Slices(r2s, applied, granted)
    /\ creditOn => credit + Drawn <= Window + applied
    /\ granted + sinceCredit = delivered

IInv == TypeOK /\ DeliveryInv /\ OrderInv /\ (Crediting => CreditInv)

----------------------------------------------------------------------------
(* Type correctness. *)

LEMMA FrameTypes ==
    /\ [type |-> "INIT"] \in SenderFrame
    /\ [type |-> "FIN"] \in SenderFrame
    /\ \A n \in Nat : [type |-> "DATA", seq |-> n] \in SenderFrame
    /\ [type |-> "READY"] \in ReceiverFrame
    /\ [type |-> "FIN_ACK"] \in ReceiverFrame
    /\ \A c, u \in Nat : [type |-> "CREDIT", chunks |-> c, upto |-> u] \in ReceiverFrame
  BY DEF SenderFrame, ReceiverFrame

LEMMA FrameFields ==
    /\ \A f \in SenderFrame : f.type = "DATA" => f.seq \in Nat
    /\ \A f \in ReceiverFrame : f.type = "CREDIT" => f.chunks \in Nat /\ f.upto \in Nat
  BY DEF SenderFrame, ReceiverFrame

LEMMA QueueTyped ==
  ASSUME NEW S, NEW q \in Seq(S)
  PROVE  /\ \A e \in S : Append(q, e) \in Seq(S)
         /\ q # <<>> => /\ Head(q) \in S
                        /\ Tail(q) \in Seq(S)
                        /\ Append(q, Head(q)) \in Seq(S)
                        /\ Append(Tail(q), Head(q)) \in Seq(S)
  OBVIOUS

LEMMA TypeInit == Init => TypeOK
<1> SUFFICES ASSUME Init PROVE TypeOK
  OBVIOUS
<1>1. FlagsTyped
  BY Zenon DEF Init, FlagsTyped
<1>2. StagesTyped /\ CountersTyped
  BY DEF Init, StagesTyped, CountersTyped, SenderPcs, SenderErrors, Results
<1>3. QueuesTyped
  BY DEF Init, QueuesTyped
<1>4. QED
  BY <1>1, <1>2, <1>3 DEF TypeOK

\* What one DATA frame can change: the new chunk joins the backlog, and only
\* chunks that are there leave it for the sink.
LEMMA OnDataEffect ==
  ASSUME TypeOK, OnData
  PROVE  LET n == Head(s2r).seq
         IN  /\ s2r # <<>> /\ Head(s2r).type = "DATA" /\ s2r' = Tail(s2r)
             /\ n \in Nat
             /\ frames' \in Nat
             /\ seenMax' \in {seenMax, n}
             /\ nextSeq' \in Nat /\ nextSeq' >= nextSeq
             /\ backlog' \subseteq backlog \cup {n}
             /\ \A k \in nextSeq .. (nextSeq' - 1) : k \in backlog \cup {n}
             /\ backlogSize' \in Int
             /\ rResult' # "ok" \/ rResult' = rResult
<1> USE DEF TypeOK, CountersTyped, QueuesTyped
<1>1. s2r # <<>> /\ Head(s2r).type = "DATA" /\ Head(s2r).seq \in Nat
  BY FrameFields, QueueTyped DEF OnData
<1>2. s2r' = Tail(s2r) /\ frames' \in Nat /\ seenMax' \in {seenMax, Head(s2r).seq}
  BY DEF OnData
<1>3. rResult' # "ok" \/ rResult' = rResult
  BY DEF OnData, Settle
<1>4. \/ nextSeq' = nextSeq /\ backlog' \subseteq backlog \cup {Head(s2r).seq} /\ backlogSize' \in Int
      \/ Drain(backlog \cup {Head(s2r).seq}, backlogSize + 2)
  BY DEF OnData
<1>5. CASE Drain(backlog \cup {Head(s2r).seq}, backlogSize + 2)
  BY <1>1, <1>2, <1>3, <1>5, SizesAreNat DEF Drain
<1>6. QED
  BY <1>1, <1>2, <1>3, <1>4, <1>5

LEMMA FlagsNext == TypeOK /\ [Next]_vars => FlagsTyped'
<1> SUFFICES ASSUME TypeOK, [Next]_vars PROVE FlagsTyped'
  OBVIOUS
<1> USE DEF TypeOK, FlagsTyped, senderVars, windowVars, finVars, receiverVars, faultVars
<1>1. CASE SendInit
  BY <1>1, Zenon DEF SendInit, SenderFails
<1>2. CASE TakeChunk
  BY <1>2, Zenon DEF TakeChunk
<1>3. CASE AbortSeen
  BY <1>3, Zenon DEF AbortSeen, SenderFails
<1>4. CASE SendData
  BY <1>4, Zenon DEF SendData, SafeSend, SenderFails
<1>5. CASE BeginFin
  BY <1>5, Zenon DEF BeginFin
<1>6. CASE SendFin
  BY <1>6, Zenon DEF SendFin, SafeSend, SenderFails
<1>7. CASE FinTimeout
  BY <1>7, Zenon DEF FinTimeout
<1>8. CASE GiveUp
  BY <1>8, Zenon DEF GiveUp, SenderFails
<1>9. CASE Succeed
  BY <1>9, Zenon DEF Succeed, AwaitingAck
<1>10. CASE OnReady
  BY <1>10, Zenon DEF OnReady
<1>11. CASE OnCredit
  BY <1>11, Zenon DEF OnCredit
<1>12. CASE OnFinAck
  BY <1>12, Zenon DEF OnFinAck
<1>13. CASE SenderIgnores
  BY <1>13, Zenon DEF SenderIgnores
<1>14. CASE OnInit
  BY <1>14, Zenon DEF OnInit, Settle
<1>15. CASE OnData
  BY <1>15, Zenon DEF OnData, Drain, Settle
<1>16. CASE OnFin
  BY <1>16, Zenon DEF OnFin
<1>17. CASE ReceiverIgnores
  BY <1>17, Zenon DEF ReceiverIgnores
<1>18. CASE InitDone
  BY <1>18, Zenon DEF InitDone, Reply
<1>19. CASE WriteDone
  BY <1>19, Zenon DEF WriteDone, Reply, Grant, Missing, InFlight
<1>20. CASE FinResumes
  BY <1>20, Zenon DEF FinResumes, Settle
<1>21. CASE \E h \in finVerify : FinDone(h)
  BY <1>21, Zenon DEF FinDone, Settle, Reply
<1>22. CASE SenderAbort
  BY <1>22, Zenon DEF SenderAbort
<1>23. CASE ReceiverAbort
  BY <1>23, Zenon DEF ReceiverAbort, Settle
<1>24. CASE SenderClose
  BY <1>24, Zenon DEF SenderClose, SenderFails
<1>25. CASE ReceiverClose
  BY <1>25, Zenon DEF ReceiverClose, Settle
<1>26. CASE WriteFails
  BY <1>26, Zenon DEF WriteFails
<1>27. CASE Disturb(s2r, r2s)
  BY <1>27, Zenon DEF Disturb
<1>28. CASE Disturb(r2s, s2r)
  BY <1>28, Zenon DEF Disturb
<1>29. CASE UNCHANGED vars
  BY <1>29, Zenon DEF vars
<1>30. QED
  BY <1>1, <1>2, <1>3, <1>4, <1>5, <1>6, <1>7, <1>8, <1>9, <1>10, <1>11, <1>12, <1>13, <1>14, <1>15, <1>16, <1>17, <1>18, <1>19, <1>20, <1>21, <1>22, <1>23, <1>24, <1>25, <1>26, <1>27, <1>28, <1>29 DEF Next, SenderStep, SenderHandler, ReceiverHandler, ReceiverStep, Environment


LEMMA StagesNext == TypeOK /\ [Next]_vars => StagesTyped'
<1> SUFFICES ASSUME TypeOK, [Next]_vars PROVE StagesTyped'
  OBVIOUS
<1> USE DEF TypeOK, StagesTyped, SenderPcs, SenderErrors, Results, senderVars, windowVars, finVars, receiverVars, faultVars
<1>1. CASE SendInit
  BY <1>1 DEF SendInit, SenderFails
<1>2. CASE TakeChunk
  BY <1>2 DEF TakeChunk
<1>3. CASE AbortSeen
  BY <1>3 DEF AbortSeen, SenderFails
<1>4. CASE SendData
  BY <1>4 DEF SendData, SafeSend, SenderFails
<1>5. CASE BeginFin
  BY <1>5 DEF BeginFin
<1>6. CASE SendFin
  BY <1>6 DEF SendFin, SafeSend, SenderFails
<1>7. CASE FinTimeout
  BY <1>7 DEF FinTimeout
<1>8. CASE GiveUp
  BY <1>8 DEF GiveUp, SenderFails
<1>9. CASE Succeed
  BY <1>9 DEF Succeed, AwaitingAck
<1>10. CASE OnReady
  BY <1>10 DEF OnReady
<1>11. CASE OnCredit
  BY <1>11 DEF OnCredit
<1>12. CASE OnFinAck
  BY <1>12 DEF OnFinAck
<1>13. CASE SenderIgnores
  BY <1>13 DEF SenderIgnores
<1>14. CASE OnInit
  BY <1>14 DEF OnInit, Settle
<1>15. CASE OnData
  BY <1>15 DEF OnData, Drain, Settle
<1>16. CASE OnFin
  BY <1>16 DEF OnFin
<1>17. CASE ReceiverIgnores
  BY <1>17 DEF ReceiverIgnores
<1>18. CASE InitDone
  BY <1>18 DEF InitDone, Reply
<1>19. CASE WriteDone
  BY <1>19 DEF WriteDone, Reply, Grant, Missing, InFlight
<1>20. CASE FinResumes
  BY <1>20 DEF FinResumes, Settle
<1>21. CASE \E h \in finVerify : FinDone(h)
  BY <1>21 DEF FinDone, Settle, Reply
<1>22. CASE SenderAbort
  BY <1>22 DEF SenderAbort
<1>23. CASE ReceiverAbort
  BY <1>23 DEF ReceiverAbort, Settle
<1>24. CASE SenderClose
  BY <1>24 DEF SenderClose, SenderFails
<1>25. CASE ReceiverClose
  BY <1>25 DEF ReceiverClose, Settle
<1>26. CASE WriteFails
  BY <1>26 DEF WriteFails
<1>27. CASE Disturb(s2r, r2s)
  BY <1>27 DEF Disturb
<1>28. CASE Disturb(r2s, s2r)
  BY <1>28 DEF Disturb
<1>29. CASE UNCHANGED vars
  BY <1>29 DEF vars
<1>30. QED
  BY <1>1, <1>2, <1>3, <1>4, <1>5, <1>6, <1>7, <1>8, <1>9, <1>10, <1>11, <1>12, <1>13, <1>14, <1>15, <1>16, <1>17, <1>18, <1>19, <1>20, <1>21, <1>22, <1>23, <1>24, <1>25, <1>26, <1>27, <1>28, <1>29 DEF Next, SenderStep, SenderHandler, ReceiverHandler, ReceiverStep, Environment


LEMMA CountersNext == TypeOK /\ [Next]_vars => CountersTyped'
<1> SUFFICES ASSUME TypeOK, [Next]_vars PROVE CountersTyped'
  OBVIOUS
<1> USE SizesAreNat, FrameFields, QueueTyped DEF TypeOK, CountersTyped, QueuesTyped, Hashed, senderVars, windowVars, finVars, receiverVars, faultVars
<1>1. CASE SendInit
  BY <1>1 DEF SendInit, SenderFails
<1>2. CASE TakeChunk
  BY <1>2 DEF TakeChunk
<1>3. CASE AbortSeen
  BY <1>3 DEF AbortSeen, SenderFails
<1>4. CASE SendData
  BY <1>4 DEF SendData, SafeSend, SenderFails
<1>5. CASE BeginFin
  BY <1>5 DEF BeginFin
<1>6. CASE SendFin
  BY <1>6 DEF SendFin, SafeSend, SenderFails
<1>7. CASE FinTimeout
  BY <1>7 DEF FinTimeout
<1>8. CASE GiveUp
  BY <1>8 DEF GiveUp, SenderFails
<1>9. CASE Succeed
  BY <1>9 DEF Succeed, AwaitingAck
<1>10. CASE OnReady
  BY <1>10 DEF OnReady
<1>11. CASE OnCredit
  BY <1>11 DEF OnCredit
<1>12. CASE OnFinAck
  BY <1>12 DEF OnFinAck
<1>13. CASE SenderIgnores
  BY <1>13 DEF SenderIgnores
<1>14. CASE OnInit
  BY <1>14 DEF OnInit, Settle
<1>15. CASE OnData
  BY <1>15, OnDataEffect DEF OnData
<1>16. CASE OnFin
  BY <1>16 DEF OnFin
<1>17. CASE ReceiverIgnores
  BY <1>17 DEF ReceiverIgnores
<1>18. CASE InitDone
  BY <1>18 DEF InitDone, Reply
<1>19. CASE WriteDone
  BY <1>19 DEF WriteDone, Reply, Grant, Missing, InFlight
<1>20. CASE FinResumes
  BY <1>20 DEF FinResumes, Settle
<1>21. CASE \E h \in finVerify : FinDone(h)
  BY <1>21 DEF FinDone, Settle, Reply
<1>22. CASE SenderAbort
  BY <1>22 DEF SenderAbort
<1>23. CASE ReceiverAbort
  BY <1>23 DEF ReceiverAbort, Settle
<1>24. CASE SenderClose
  BY <1>24 DEF SenderClose, SenderFails
<1>25. CASE ReceiverClose
  BY <1>25 DEF ReceiverClose, Settle
<1>26. CASE WriteFails
  BY <1>26 DEF WriteFails
<1>27. CASE Disturb(s2r, r2s)
  BY <1>27 DEF Disturb
<1>28. CASE Disturb(r2s, s2r)
  BY <1>28 DEF Disturb
<1>29. CASE UNCHANGED vars
  BY <1>29 DEF vars
<1>30. QED
  BY <1>1, <1>2, <1>3, <1>4, <1>5, <1>6, <1>7, <1>8, <1>9, <1>10, <1>11, <1>12, <1>13, <1>14, <1>15, <1>16, <1>17, <1>18, <1>19, <1>20, <1>21, <1>22, <1>23, <1>24, <1>25, <1>26, <1>27, <1>28, <1>29 DEF Next, SenderStep, SenderHandler, ReceiverHandler, ReceiverStep, Environment


LEMMA QueuesNext == TypeOK /\ [Next]_vars => QueuesTyped'
<1> SUFFICES ASSUME TypeOK, [Next]_vars PROVE QueuesTyped'
  OBVIOUS
<1> USE SizesAreNat, FrameTypes, FrameFields, QueueTyped DEF TypeOK, CountersTyped, QueuesTyped, Hashed, senderVars, windowVars, finVars, receiverVars, faultVars
<1>1. CASE SendInit
  <2>1. Append(s2r, [type |-> "INIT"]) \in Seq(SenderFrame)
    BY FrameTypes, QueueTyped
  <2>2. QED
    BY <1>1, <2>1 DEF SendInit, SenderFails
<1>2. CASE TakeChunk
  BY <1>2 DEF TakeChunk
<1>3. CASE AbortSeen
  BY <1>3 DEF AbortSeen, SenderFails
<1>4. CASE SendData
  <2>1. Append(s2r, [type |-> "DATA", seq |-> seq]) \in Seq(SenderFrame)
    BY FrameTypes, QueueTyped
  <2>2. QED
    BY <1>4, <2>1 DEF SendData, SafeSend, SenderFails
<1>5. CASE BeginFin
  BY <1>5 DEF BeginFin
<1>6. CASE SendFin
  <2>1. Append(s2r, [type |-> "FIN"]) \in Seq(SenderFrame)
    BY FrameTypes, QueueTyped
  <2>2. QED
    BY <1>6, <2>1 DEF SendFin, SafeSend, SenderFails
<1>7. CASE FinTimeout
  BY <1>7 DEF FinTimeout
<1>8. CASE GiveUp
  BY <1>8 DEF GiveUp, SenderFails
<1>9. CASE Succeed
  BY <1>9 DEF Succeed, AwaitingAck
<1>10. CASE OnReady
  BY <1>10 DEF OnReady
<1>11. CASE OnCredit
  BY <1>11 DEF OnCredit
<1>12. CASE OnFinAck
  BY <1>12 DEF OnFinAck
<1>13. CASE SenderIgnores
  BY <1>13 DEF SenderIgnores
<1>14. CASE OnInit
  BY <1>14 DEF OnInit, Settle
<1>15. CASE OnData
  BY <1>15 DEF OnData, Drain, Settle
<1>16. CASE OnFin
  BY <1>16 DEF OnFin
<1>17. CASE ReceiverIgnores
  BY <1>17 DEF ReceiverIgnores
<1>18. CASE InitDone
  BY <1>18 DEF InitDone, Reply
<1>19. CASE WriteDone
  <2> DEFINE n == delivered + 1
             grant == Grant(n, sinceCredit + 1)
  <2>1. grant \in Nat /\ granted + grant \in Nat
    BY SizesAreNat DEF Grant, Missing, InFlight
  <2>2. Append(r2s, [type |-> "CREDIT", chunks |-> grant, upto |-> granted + grant])
          \in Seq(ReceiverFrame)
    BY <2>1, FrameTypes, QueueTyped
  <2>3. QED
    BY <1>19, <2>2 DEF WriteDone, Reply
<1>20. CASE FinResumes
  BY <1>20 DEF FinResumes, Settle
<1>21. CASE \E h \in finVerify : FinDone(h)
  <2>1. Append(r2s, [type |-> "FIN_ACK"]) \in Seq(ReceiverFrame)
    BY FrameTypes, QueueTyped
  <2>2. QED
    BY <1>21, <2>1 DEF FinDone, Settle, Reply
<1>22. CASE SenderAbort
  BY <1>22 DEF SenderAbort
<1>23. CASE ReceiverAbort
  BY <1>23 DEF ReceiverAbort, Settle
<1>24. CASE SenderClose
  BY <1>24 DEF SenderClose, SenderFails
<1>25. CASE ReceiverClose
  BY <1>25 DEF ReceiverClose, Settle
<1>26. CASE WriteFails
  BY <1>26 DEF WriteFails
<1>27. CASE Disturb(s2r, r2s)
  BY <1>27, ZenonT(40) DEF Disturb
<1>28. CASE Disturb(r2s, s2r)
  BY <1>28, ZenonT(40) DEF Disturb
<1>29. CASE UNCHANGED vars
  BY <1>29 DEF vars
<1>30. QED
  BY <1>1, <1>2, <1>3, <1>4, <1>5, <1>6, <1>7, <1>8, <1>9, <1>10, <1>11, <1>12, <1>13, <1>14, <1>15, <1>16, <1>17, <1>18, <1>19, <1>20, <1>21, <1>22, <1>23, <1>24, <1>25, <1>26, <1>27, <1>28, <1>29 DEF Next, SenderStep, SenderHandler, ReceiverHandler, ReceiverStep, Environment


----------------------------------------------------------------------------
(* Frames in flight. *)

LEMMA InFlightStep ==
  ASSUME NEW S, NEW q \in Seq(S), NEW t
  PROVE  /\ \A e \in S : InFlightHas(Append(q, e), t) => InFlightHas(q, t) \/ e.type = t
         /\ q # <<>> => /\ InFlightHas(Tail(q), t) => InFlightHas(q, t)
                        /\ Head(q).type = t => InFlightHas(q, t)
                        /\ InFlightHas(Append(q, Head(q)), t) => InFlightHas(q, t)
                        /\ InFlightHas(Append(Tail(q), Head(q)), t) => InFlightHas(q, t)
  BY DEF InFlightHas

LEMMA DataBelowStep ==
  ASSUME NEW q \in Seq(SenderFrame), NEW n \in Nat, DataBelow(q, n)
  PROVE  /\ DataBelow(q, n + 1)
         /\ \A e \in SenderFrame : e.type # "DATA" => DataBelow(Append(q, e), n)
         /\ DataBelow(Append(q, [type |-> "DATA", seq |-> n]), n + 1)
         /\ q # <<>> => /\ DataBelow(Tail(q), n)
                        /\ Head(q).type = "DATA" => Head(q).seq < n
                        /\ DataBelow(Append(q, Head(q)), n)
                        /\ DataBelow(Append(Tail(q), Head(q)), n)
<1>1. \A i \in 1 .. Len(q) : q[i] \in SenderFrame /\ (q[i].type = "DATA" => q[i].seq \in Nat)
  BY FrameFields
<1>2. DataBelow(q, n + 1) /\ \A e \in SenderFrame : e.type # "DATA" => DataBelow(Append(q, e), n)
  BY <1>1 DEF DataBelow
<1>3. DataBelow(Append(q, [type |-> "DATA", seq |-> n]), n + 1)
  BY <1>1, FrameTypes DEF DataBelow
<1>4. q # <<>> => DataBelow(Tail(q), n) /\ (Head(q).type = "DATA" => Head(q).seq < n)
  BY <1>1 DEF DataBelow
<1>5. q # <<>> => DataBelow(Append(q, Head(q)), n) /\ DataBelow(Append(Tail(q), Head(q)), n)
  BY <1>1 DEF DataBelow
<1>6. QED
  BY <1>2, <1>3, <1>4, <1>5

\* A disturbed channel holds no kind of frame it did not hold before.
LEMMA DisturbStep ==
  ASSUME TypeOK
  PROVE  /\ Disturb(s2r, r2s) => \A t : InFlightHas(s2r', t) => InFlightHas(s2r, t)
         /\ Disturb(r2s, s2r) => \A t : InFlightHas(r2s', t) => InFlightHas(r2s, t)
<1> USE DEF TypeOK, QueuesTyped
<1>1. ASSUME Disturb(s2r, r2s), NEW t, InFlightHas(s2r', t) PROVE InFlightHas(s2r, t)
  <2>1. s2r # <<>> /\ s2r' \in {Tail(s2r), Append(s2r, Head(s2r)), Append(Tail(s2r), Head(s2r))}
    BY <1>1 DEF Disturb
  <2>2. QED
    BY <1>1, <2>1, InFlightStep
<1>2. ASSUME Disturb(r2s, s2r), NEW t, InFlightHas(r2s', t) PROVE InFlightHas(r2s, t)
  <2>1. r2s # <<>> /\ r2s' \in {Tail(r2s), Append(r2s, Head(r2s)), Append(Tail(r2s), Head(r2s))}
    BY <1>2 DEF Disturb
  <2>2. QED
    BY <1>2, <2>1, InFlightStep
<1>3. QED
  BY <1>1, <1>2

\* What the end of a write job can change.
LEMMA WriteDoneEffect ==
  ASSUME TypeOK, WriteDone
  PROVE  /\ delivered' = delivered + 1 /\ delivered < nextSeq
         /\ \/ r2s' = r2s
            \/ \E c, u \in Nat : r2s' = Append(r2s, [type |-> "CREDIT", chunks |-> c, upto |-> u])
         /\ \A t : InFlightHas(r2s', t) => InFlightHas(r2s, t) \/ t = "CREDIT"
<1> USE DEF TypeOK, CountersTyped, QueuesTyped
<1>1. \A n, c \in Nat : Grant(n, c) \in Nat /\ granted + Grant(n, c) \in Nat
  BY SizesAreNat DEF Grant, Missing, InFlight
<1>2. delivered' = delivered + 1 /\ delivered < nextSeq
  BY DEF WriteDone
<1>3. \/ r2s' = r2s
      \/ r2s' = Append(r2s, [type |-> "CREDIT", chunks |-> Grant(delivered + 1, sinceCredit + 1),
                             upto |-> granted + Grant(delivered + 1, sinceCredit + 1)])
  BY DEF WriteDone, Reply
<1>4. \A c, u \in Nat :
         \A t : InFlightHas(Append(r2s, [type |-> "CREDIT", chunks |-> c, upto |-> u]), t)
                   => InFlightHas(r2s, t) \/ t = "CREDIT"
  BY FrameTypes, InFlightStep
<1>5. delivered + 1 \in Nat /\ sinceCredit + 1 \in Nat
  OBVIOUS
<1>6. \/ r2s' = r2s
      \/ \E c, u \in Nat : r2s' = Append(r2s, [type |-> "CREDIT", chunks |-> c, upto |-> u])
  BY <1>1, <1>3, <1>5
<1>7. \A t : InFlightHas(r2s', t) => InFlightHas(r2s, t) \/ t = "CREDIT"
  BY <1>4, <1>6
<1>8. QED
  BY <1>2, <1>6, <1>7

LEMMA DeliveryInit == Init => DeliveryInv
  BY SizesAreNat DEF Init, DeliveryInv, InFlightHas

LEMMA DeliveryNext == TypeOK /\ DeliveryInv /\ [Next]_vars => DeliveryInv'
<1> SUFFICES ASSUME TypeOK, DeliveryInv, [Next]_vars PROVE DeliveryInv'
  OBVIOUS
<1> USE SizesAreNat, FrameTypes, InFlightStep
        DEF DeliveryInv, TypeOK, CountersTyped, QueuesTyped, StagesTyped,
            senderVars, windowVars, finVars, receiverVars, faultVars
<1>1. CASE SendInit
  <2>1. InFlightHas(Append(s2r, [type |-> "INIT"]), "FIN") => InFlightHas(s2r, "FIN")
    BY FrameTypes, InFlightStep
  <2>2. QED
    BY <1>1, <2>1, ZenonT(40) DEF SendInit, SenderFails
<1>2. CASE TakeChunk
  BY <1>2 DEF TakeChunk
<1>3. CASE AbortSeen
  BY <1>3 DEF AbortSeen, SenderFails
<1>4. CASE SendData
  BY <1>4 DEF SendData, SafeSend, SenderFails
<1>5. CASE BeginFin
  BY <1>5 DEF BeginFin
<1>6. CASE SendFin
  BY <1>6 DEF SendFin, SafeSend, SenderFails
<1>7. CASE FinTimeout
  BY <1>7 DEF FinTimeout
<1>8. CASE GiveUp
  BY <1>8 DEF GiveUp, SenderFails
<1>9. CASE Succeed
  BY <1>9 DEF Succeed, AwaitingAck
<1>10. CASE OnReady
  BY <1>10 DEF OnReady
<1>11. CASE OnCredit
  BY <1>11 DEF OnCredit
<1>12. CASE OnFinAck
  BY <1>12 DEF OnFinAck
<1>13. CASE SenderIgnores
  BY <1>13 DEF SenderIgnores
<1>14. CASE OnInit
  BY <1>14 DEF OnInit, Settle
<1>15. CASE OnData
  BY <1>15, OnDataEffect DEF OnData
<1>16. CASE OnFin
  BY <1>16 DEF OnFin
<1>17. CASE ReceiverIgnores
  BY <1>17 DEF ReceiverIgnores
<1>18. CASE InitDone
  BY <1>18 DEF InitDone, Reply
<1>19. CASE WriteDone
  BY <1>19, WriteDoneEffect DEF WriteDone
<1>20. CASE FinResumes
  BY <1>20 DEF FinResumes, Settle
<1>21. CASE \E h \in finVerify : FinDone(h)
  BY <1>21 DEF FinDone, Settle, Reply, TotalBytes
<1>22. CASE SenderAbort
  BY <1>22 DEF SenderAbort
<1>23. CASE ReceiverAbort
  BY <1>23 DEF ReceiverAbort, Settle
<1>24. CASE SenderClose
  BY <1>24 DEF SenderClose, SenderFails
<1>25. CASE ReceiverClose
  BY <1>25 DEF ReceiverClose, Settle
<1>26. CASE WriteFails
  BY <1>26 DEF WriteFails
<1>27. CASE Disturb(s2r, r2s)
  BY <1>27, DisturbStep DEF Disturb
<1>28. CASE Disturb(r2s, s2r)
  BY <1>28, DisturbStep DEF Disturb
<1>29. CASE UNCHANGED vars
  BY <1>29 DEF vars
<1>30. QED
  BY <1>1, <1>2, <1>3, <1>4, <1>5, <1>6, <1>7, <1>8, <1>9, <1>10, <1>11, <1>12, <1>13, <1>14, <1>15, <1>16, <1>17, <1>18, <1>19, <1>20, <1>21, <1>22, <1>23, <1>24, <1>25, <1>26, <1>27, <1>28, <1>29
     DEF Next, SenderStep, SenderHandler, ReceiverHandler, ReceiverStep, Environment

LEMMA OrderInit == Init => OrderInv
  BY SizesAreNat DEF Init, OrderInv, DataBelow

LEMMA OrderNext == TypeOK /\ OrderInv /\ [Next]_vars => OrderInv'
<1> SUFFICES ASSUME TypeOK, OrderInv, [Next]_vars PROVE OrderInv'
  OBVIOUS
<1> USE SizesAreNat, FrameTypes, DataBelowStep
        DEF OrderInv, TypeOK, CountersTyped, QueuesTyped,
            senderVars, windowVars, finVars, receiverVars, faultVars
<1>1. CASE SendInit
  <2>1. DataBelow(Append(s2r, [type |-> "INIT"]), seq)
    OBVIOUS
  <2>2. QED
    BY <1>1, <2>1 DEF SendInit, SenderFails
<1>2. CASE TakeChunk
  BY <1>2 DEF TakeChunk
<1>3. CASE AbortSeen
  BY <1>3 DEF AbortSeen, SenderFails
<1>4. CASE SendData
  <2>1. DataBelow(Append(s2r, [type |-> "DATA", seq |-> seq]), seq + 1) /\ DataBelow(s2r, seq + 1)
    OBVIOUS
  <2>2. \/ /\ seq' = seq + 1 /\ sPc' = "data"
           /\ s2r' \in {s2r, Append(s2r, [type |-> "DATA", seq |-> seq])}
        \/ seq' = seq /\ sPc' = "failed" /\ s2r' = s2r
    BY <1>4 DEF SendData, SafeSend, SenderFails
  <2>3. DataBelow(s2r', seq')
    BY <2>1, <2>2
  <2>4. seq <= seq' /\ seq' <= Chunks /\ sPc' # "seal"
    BY <1>4, <2>2 DEF SendData
  <2>5. QED
    BY <1>4, <2>3, <2>4 DEF SendData
<1>5. CASE BeginFin
  BY <1>5 DEF BeginFin
<1>6. CASE SendFin
  <2>1. DataBelow(Append(s2r, [type |-> "FIN"]), seq)
    OBVIOUS
  <2>2. QED
    BY <1>6, <2>1 DEF SendFin, SafeSend, SenderFails
<1>7. CASE FinTimeout
  BY <1>7 DEF FinTimeout
<1>8. CASE GiveUp
  BY <1>8 DEF GiveUp, SenderFails
<1>9. CASE Succeed
  BY <1>9 DEF Succeed, AwaitingAck
<1>10. CASE OnReady
  BY <1>10 DEF OnReady
<1>11. CASE OnCredit
  BY <1>11 DEF OnCredit
<1>12. CASE OnFinAck
  BY <1>12 DEF OnFinAck
<1>13. CASE SenderIgnores
  BY <1>13 DEF SenderIgnores
<1>14. CASE OnInit
  BY <1>14 DEF OnInit, Settle
<1>15. CASE OnData
  <2>1. Head(s2r).seq < seq /\ DataBelow(s2r', seq)
    BY <1>15, OnDataEffect
  <2>2. (\A k \in backlog' : k < seq) /\ seenMax' < seq
    BY <1>15, <2>1, OnDataEffect
  <2>3. nextSeq' <= seq
    <3>1. CASE nextSeq' = nextSeq
      BY <3>1
    <3>2. CASE nextSeq' > nextSeq
      <4>1. nextSeq' - 1 \in backlog \cup {Head(s2r).seq}
        BY <1>15, <3>2, OnDataEffect
      <4>2. QED
        BY <1>15, <2>1, <4>1, OnDataEffect
    <3>3. QED
      BY <1>15, <3>1, <3>2, OnDataEffect
  <2>4. QED
    BY <1>15, <2>1, <2>2, <2>3, OnDataEffect DEF OnData
<1>16. CASE OnFin
  BY <1>16 DEF OnFin
<1>17. CASE ReceiverIgnores
  BY <1>17 DEF ReceiverIgnores
<1>18. CASE InitDone
  BY <1>18 DEF InitDone, Reply
<1>19. CASE WriteDone
  BY <1>19 DEF WriteDone, Reply
<1>20. CASE FinResumes
  BY <1>20 DEF FinResumes, Settle
<1>21. CASE \E h \in finVerify : FinDone(h)
  BY <1>21 DEF FinDone, Settle, Reply, TotalBytes
<1>22. CASE SenderAbort
  BY <1>22 DEF SenderAbort
<1>23. CASE ReceiverAbort
  BY <1>23 DEF ReceiverAbort, Settle
<1>24. CASE SenderClose
  BY <1>24 DEF SenderClose, SenderFails
<1>25. CASE ReceiverClose
  BY <1>25 DEF ReceiverClose, Settle
<1>26. CASE WriteFails
  BY <1>26 DEF WriteFails
<1>27. CASE Disturb(s2r, r2s)
  BY <1>27 DEF Disturb
<1>28. CASE Disturb(r2s, s2r)
  BY <1>28 DEF Disturb
<1>29. CASE UNCHANGED vars
  BY <1>29 DEF vars
<1>30. QED
  BY <1>1, <1>2, <1>3, <1>4, <1>5, <1>6, <1>7, <1>8, <1>9, <1>10, <1>11, <1>12, <1>13, <1>14, <1>15, <1>16, <1>17, <1>18, <1>19, <1>20, <1>21, <1>22, <1>23, <1>24, <1>25, <1>26, <1>27, <1>28, <1>29
     DEF Next, SenderStep, SenderHandler, ReceiverHandler, ReceiverStep, Environment
----------------------------------------------------------------------------
(* Credit conservation. *)

LEMMA OneReadyStep ==
  ASSUME NEW q \in Seq(ReceiverFrame), OneReady(q)
  PROVE  /\ \A e \in ReceiverFrame : e.type # "READY" => OneReady(Append(q, e))
         /\ ~InFlightHas(q, "READY") => \A e \in ReceiverFrame : OneReady(Append(q, e))
         /\ q # <<>> => /\ OneReady(Tail(q))
                        /\ Head(q).type = "READY" => ~InFlightHas(Tail(q), "READY")
  BY DEF OneReady, InFlightHas

LEMMA SlicesStep ==
  ASSUME NEW q \in Seq(ReceiverFrame), NEW low \in Nat, NEW high \in Nat, Slices(q, low, high)
  PROVE  /\ \A e \in ReceiverFrame : e.type # "CREDIT" => Slices(Append(q, e), low, high)
         /\ \A c \in Nat : /\ Slices(q, low, high + c)
                           /\ Slices(Append(q, [type |-> "CREDIT", chunks |-> c, upto |-> high + c]),
                                     low, high + c)
         /\ q # <<>> => /\ Slices(Tail(q), low, high)
                        /\ Head(q).type = "CREDIT" => Slices(Tail(q), low + Head(q).chunks, high)
<1>1. \A i \in 1 .. Len(q) : q[i] \in ReceiverFrame
                             /\ (q[i].type = "CREDIT" => q[i].chunks \in Nat /\ q[i].upto \in Nat)
  BY FrameFields
<1>2. ASSUME NEW e \in ReceiverFrame, e.type # "CREDIT"
      PROVE  Slices(Append(q, e), low, high)
  <2> DEFINE t == Append(q, e)
  <2>1. /\ \A i \in 1 .. Len(q) : i \in 1 .. Len(t) /\ t[i] = q[i]
        /\ \A i \in 1 .. Len(t) : t[i].type = "CREDIT" => i \in 1 .. Len(q)
    BY <1>2
  <2>2. \A i \in 1 .. Len(t) : t[i].type = "CREDIT" => i \in 1 .. Len(q) /\ t[i] = q[i]
    BY <2>1
  <2> HIDE DEF t
  <2>3. \A i, j \in 1 .. Len(t) : i < j /\ t[i].type = "CREDIT" /\ t[j].type = "CREDIT"
                                  => t[i].upto + t[j].chunks <= t[j].upto
    BY <2>2 DEF Slices
  <2>4. \A i \in 1 .. Len(t) : t[i].type = "CREDIT" =>
           low + t[i].chunks <= t[i].upto /\ t[i].upto <= high
    BY <2>2 DEF Slices
  <2>5. Slices(t, low, high)
    BY <2>3, <2>4 DEF Slices
  <2>6. QED
    BY <2>5 DEF t
<1>3. ASSUME NEW c \in Nat
      PROVE  /\ Slices(q, low, high + c)
             /\ Slices(Append(q, [type |-> "CREDIT", chunks |-> c, upto |-> high + c]), low, high + c)
  BY <1>1, FrameTypes DEF Slices
<1>4. ASSUME q # <<>>
      PROVE  /\ Slices(Tail(q), low, high)
             /\ Head(q).type = "CREDIT" => Slices(Tail(q), low + Head(q).chunks, high)
  <2> DEFINE t == Tail(q)
  <2>1. \A i \in 1 .. Len(t) : t[i] = q[i + 1] /\ i + 1 \in 1 .. Len(q)
    BY <1>4
  <2>2. /\ low <= high
        /\ \A i \in 1 .. Len(t) : t[i].type = "CREDIT" =>
              low + t[i].chunks <= t[i].upto /\ t[i].upto <= high
    BY <2>1 DEF Slices
  <2>3. ASSUME NEW i \in 1 .. Len(t), NEW j \in 1 .. Len(t), i < j,
               t[i].type = "CREDIT", t[j].type = "CREDIT"
        PROVE  t[i].upto + t[j].chunks <= t[j].upto
    <3>1. i + 1 \in 1 .. Len(q) /\ j + 1 \in 1 .. Len(q) /\ i + 1 < j + 1
      BY <2>1, <2>3
    <3>2. QED
      BY <2>1, <2>3, <3>1 DEF Slices
  <2>4. Slices(t, low, high)
    BY <2>2, <2>3 DEF Slices
  <2>5. ASSUME Head(q).type = "CREDIT" PROVE Slices(t, low + Head(q).chunks, high)
    <3>1. /\ Head(q) = q[1] /\ 1 \in 1 .. Len(q) /\ q[1].chunks \in Nat /\ q[1].upto \in Nat
          /\ low + q[1].chunks <= q[1].upto /\ q[1].upto <= high
      BY <1>1, <1>4, <2>5 DEF Slices
    <3>2. ASSUME NEW i \in 1 .. Len(t), t[i].type = "CREDIT"
          PROVE  low + Head(q).chunks + t[i].chunks <= t[i].upto /\ t[i].upto <= high
      <4>1. t[i].chunks \in Nat /\ t[i].upto \in Nat /\ t[i].upto <= high
        BY <1>1, <2>1, <2>2, <3>2
      <4>2. q[1].upto + t[i].chunks <= t[i].upto
        BY <2>1, <2>5, <3>1, <3>2 DEF Slices
      <4>3. \A a, b, c, d \in Nat : low + a <= b /\ b + c <= d => low + a + c <= d
        OBVIOUS
      <4>4. low + q[1].chunks + t[i].chunks <= t[i].upto
        BY <3>1, <4>1, <4>2, <4>3, SMTT(40)
      <4>5. QED
        BY <3>1, <4>1, <4>4
    <3>3. low + Head(q).chunks <= high
      BY <3>1
    <3>4. QED
      BY <2>3, <3>2, <3>3 DEF Slices
  <2>6. QED
    BY <2>4, <2>5
<1>5. QED
  BY <1>2, <1>3, <1>4

\* The window always has room for what was delivered since the last grant, so
\* the minimum in the code never cuts a grant short.
LEMMA GrantIsWhole ==
  ASSUME TypeOK, OrderInv, CreditInv, Crediting, delivered < nextSeq, creditOn
  PROVE  Grant(delivered + 1, sinceCredit + 1) = sinceCredit + 1
<1> USE SizesAreNat DEF TypeOK, CountersTyped, Crediting, OrderInv, CreditInv
<1>1. seq <= Window + delivered - sinceCredit
  BY DEF Drawn, Slices
<1>2. seenMax - (delivered + 1) + 1 <= Window - (sinceCredit + 1) /\ sinceCredit + 1 <= Window
  BY <1>1
<1>3. InFlight(delivered + 1) <= Window - (sinceCredit + 1)
  BY <1>2 DEF InFlight
<1>4. sinceCredit + 1 <= Missing(delivered + 1)
  BY <1>3 DEF Missing, InFlight
<1>5. QED
  BY <1>4 DEF Grant, Missing, InFlight

\* Popping the oldest frame, or adding one that is neither READY nor CREDIT,
\* leaves the bookkeeping of the frames intact.
LEMMA QueueKeepsCredit ==
  ASSUME TypeOK, OneReady(r2s), Slices(r2s, applied, granted)
  PROVE  /\ r2s # <<>> => /\ OneReady(Tail(r2s)) /\ Slices(Tail(r2s), applied, granted)
                          /\ InFlightHas(Tail(r2s), "READY") => InFlightHas(r2s, "READY")
         /\ OneReady(Append(r2s, [type |-> "FIN_ACK"]))
         /\ Slices(Append(r2s, [type |-> "FIN_ACK"]), applied, granted)
         /\ InFlightHas(Append(r2s, [type |-> "FIN_ACK"]), "READY") => InFlightHas(r2s, "READY")
<1> USE DEF TypeOK, CountersTyped, QueuesTyped
<1>1. r2s # <<>> => /\ OneReady(Tail(r2s)) /\ Slices(Tail(r2s), applied, granted)
                    /\ InFlightHas(Tail(r2s), "READY") => InFlightHas(r2s, "READY")
  BY OneReadyStep, SlicesStep, InFlightStep
<1>2. OneReady(Append(r2s, [type |-> "FIN_ACK"]))
      /\ Slices(Append(r2s, [type |-> "FIN_ACK"]), applied, granted)
  BY FrameTypes, OneReadyStep, SlicesStep
<1>3. InFlightHas(Append(r2s, [type |-> "FIN_ACK"]), "READY") => InFlightHas(r2s, "READY")
  BY FrameTypes, InFlightStep
<1>4. QED
  BY <1>1, <1>2, <1>3

LEMMA OnReadyCredit ==
  ASSUME TypeOK, DeliveryInv, ReadyOnce, OnReady
  PROVE  /\ ~creditOn /\ initStage = "ready"
         /\ OneReady(r2s') /\ ~InFlightHas(r2s', "READY")
         /\ sPc' # "seal"
<1> USE DEF TypeOK, QueuesTyped
<1>1. r2s # <<>> /\ Head(r2s).type = "READY" /\ r2s' = Tail(r2s)
  BY DEF OnReady
<1>2. InFlightHas(r2s, "READY")
  BY <1>1, InFlightStep
<1>3. OneReady(r2s') /\ ~InFlightHas(r2s', "READY")
  BY <1>1, OneReadyStep DEF ReadyOnce
<1>4. QED
  BY <1>2, <1>3 DEF ReadyOnce, DeliveryInv, OnReady

LEMMA WriteDoneCredit ==
  ASSUME TypeOK, DeliveryInv, OrderInv, CreditInv, Crediting, WriteDone
  PROVE  /\ granted' + sinceCredit' = delivered'
         /\ OneReady(r2s') /\ Slices(r2s', applied, granted')
<1> USE DEF TypeOK, CountersTyped, QueuesTyped
<1> DEFINE since == sinceCredit + 1
<1>1. delivered < nextSeq /\ delivered' = delivered + 1
  BY DEF WriteDone
<1>2. creditOn
  BY <1>1 DEF OrderInv, CreditInv, ReadyOnce
<1>3. Grant(delivered + 1, since) = since
  BY <1>1, <1>2, GrantIsWhole
<1>4. \/ sinceCredit' = since /\ granted' = granted /\ r2s' = r2s
      \/ /\ sinceCredit' = 0 /\ granted' = granted + since
         /\ r2s' \in {r2s, Append(r2s, [type |-> "CREDIT", chunks |-> since, upto |-> granted + since])}
  BY <1>3 DEF WriteDone, Reply
<1>5. since \in Nat /\ granted + sinceCredit = delivered /\ OneReady(r2s) /\ Slices(r2s, applied, granted)
  BY DEF CreditInv, ReadyOnce
<1>6. /\ OneReady(Append(r2s, [type |-> "CREDIT", chunks |-> since, upto |-> granted + since]))
      /\ Slices(r2s, applied, granted + since)
      /\ Slices(Append(r2s, [type |-> "CREDIT", chunks |-> since, upto |-> granted + since]),
                applied, granted + since)
  BY <1>5, FrameTypes, OneReadyStep, SlicesStep
<1>7. granted' + sinceCredit' = delivered'
  <2>1. \/ sinceCredit' = since /\ granted' = granted
        \/ sinceCredit' = 0 /\ granted' = granted + since
    BY <1>4
  <2>2. granted + sinceCredit = delivered /\ delivered' = delivered + 1
    BY <1>1, <1>5
  <2>3. CASE sinceCredit' = since /\ granted' = granted
    BY <2>2, <2>3
  <2>4. CASE sinceCredit' = 0 /\ granted' = granted + since
    BY <2>2, <2>4
  <2>5. QED
    BY <2>1, <2>3, <2>4
<1>8. QED
  BY <1>4, <1>5, <1>6, <1>7

LEMMA CreditInit == Init => CreditInv
  BY SizesAreNat DEF Init, CreditInv, ReadyOnce, OneReady, Slices, InFlightHas

LEMMA CreditNext ==
  TypeOK /\ DeliveryInv /\ OrderInv /\ CreditInv /\ Crediting /\ [Next]_vars => CreditInv'
<1> SUFFICES ASSUME TypeOK, DeliveryInv, OrderInv, CreditInv, Crediting, [Next]_vars
             PROVE  CreditInv'
  OBVIOUS
<1> USE SizesAreNat, FrameTypes
        DEF CreditInv, ReadyOnce, Drawn, TypeOK, CountersTyped, QueuesTyped,
            senderVars, windowVars, finVars, receiverVars, faultVars
<1>1. CASE SendInit
  BY <1>1 DEF SendInit, SenderFails
<1>2. CASE TakeChunk
  BY <1>2 DEF TakeChunk
<1>3. CASE AbortSeen
  BY <1>3 DEF AbortSeen, SenderFails
<1>4. CASE SendData
  BY <1>4 DEF SendData, SafeSend, SenderFails
<1>5. CASE BeginFin
  BY <1>5 DEF BeginFin
<1>6. CASE SendFin
  BY <1>6 DEF SendFin, SafeSend, SenderFails
<1>7. CASE FinTimeout
  BY <1>7 DEF FinTimeout
<1>8. CASE GiveUp
  BY <1>8 DEF GiveUp, SenderFails
<1>9. CASE Succeed
  BY <1>9 DEF Succeed, AwaitingAck
<1>10. CASE OnReady
  <2>1. Slices(r2s', applied', granted')
    BY <1>10, QueueKeepsCredit DEF OnReady
  <2>2. seq' = 0 /\ applied' = 0 /\ creditOn' = TRUE /\ credit' = Window /\ sPc' # "seal"
    BY <1>10, OnReadyCredit DEF OnReady, Crediting
  <2>3. ReadyOnce'
    BY <1>10, <2>2, OnReadyCredit DEF OnReady
  <2>4. credit' + Drawn' <= Window + applied'
    BY <2>2 DEF Crediting
  <2>5. granted' + sinceCredit' = delivered'
    BY <1>10 DEF OnReady
  <2>6. QED
    BY <2>1, <2>3, <2>4, <2>5
<1>11. CASE OnCredit
  <2> DEFINE c == Head(r2s).chunks
  <2>1. r2s # <<>> /\ Head(r2s).type = "CREDIT" /\ r2s' = Tail(r2s) /\ c \in Nat
    BY <1>11, FrameFields, QueueTyped DEF OnCredit
  <2>2. /\ OneReady(r2s') /\ (InFlightHas(r2s', "READY") => InFlightHas(r2s, "READY"))
        /\ Slices(r2s', applied, granted) /\ Slices(r2s', applied + c, granted)
    BY <2>1, QueueKeepsCredit, SlicesStep
  <2>3. CASE creditOn
    <3>1. credit' = credit + c /\ applied' = applied + c
      BY <1>11, <2>3 DEF OnCredit
    <3>2. credit' + Drawn' <= Window + applied'
      <4>1. Drawn' = Drawn /\ Drawn \in Nat /\ credit + Drawn <= Window + applied
        BY <1>11, <2>3 DEF OnCredit
      <4>2. credit \in Nat /\ applied \in Nat /\ Window \in Nat
        OBVIOUS
      <4>3. \A a, b, w, p, k \in Nat : a + b <= w + p => a + k + b <= w + (p + k)
        OBVIOUS
      <4> HIDE DEF Drawn, CreditInv, ReadyOnce, TypeOK, CountersTyped, QueuesTyped, c
      <4>4. QED
        BY <2>1, <3>1, <4>1, <4>2, <4>3
    <3>3. QED
      BY <1>11, <2>2, <2>3, <3>1, <3>2 DEF OnCredit
  <2>4. CASE ~creditOn
    BY <1>11, <2>2, <2>4 DEF OnCredit
  <2>5. QED
    BY <2>3, <2>4
<1>12. CASE OnFinAck
  BY <1>12, QueueKeepsCredit DEF OnFinAck
<1>13. CASE SenderIgnores
  BY <1>13, QueueKeepsCredit DEF SenderIgnores
<1>14. CASE OnInit
  BY <1>14 DEF OnInit, Settle
<1>15. CASE OnData
  BY <1>15 DEF OnData
<1>16. CASE OnFin
  BY <1>16 DEF OnFin
<1>17. CASE ReceiverIgnores
  BY <1>17 DEF ReceiverIgnores
<1>18. CASE InitDone
  <2>1. ~InFlightHas(r2s, "READY") /\ ~creditOn
    BY <1>18 DEF InitDone, DeliveryInv
  <2>2. /\ OneReady(Append(r2s, [type |-> "READY"]))
        /\ Slices(Append(r2s, [type |-> "READY"]), applied, granted)
    BY <2>1, OneReadyStep, SlicesStep
  <2>3. QED
    BY <1>18, <2>1, <2>2 DEF InitDone, Reply
<1>19. CASE WriteDone
  <2>1. InFlightHas(r2s', "READY") => InFlightHas(r2s, "READY")
    BY <1>19, WriteDoneEffect
  <2>2. QED
    BY <1>19, <2>1, WriteDoneCredit DEF WriteDone
<1>20. CASE FinResumes
  BY <1>20 DEF FinResumes, Settle
<1>21. CASE \E h \in finVerify : FinDone(h)
  <2>1. r2s' \in {r2s, Append(r2s, [type |-> "FIN_ACK"])}
    BY <1>21 DEF FinDone, Reply
  <2>2. /\ OneReady(r2s') /\ Slices(r2s', applied, granted)
        /\ InFlightHas(r2s', "READY") => InFlightHas(r2s, "READY")
    BY <2>1, QueueKeepsCredit
  <2>3. QED
    BY <1>21, <2>2 DEF FinDone
<1>22. CASE SenderAbort
  BY <1>22 DEF SenderAbort
<1>23. CASE ReceiverAbort
  BY <1>23 DEF ReceiverAbort, Settle
<1>24. CASE SenderClose
  BY <1>24 DEF SenderClose, SenderFails
<1>25. CASE ReceiverClose
  BY <1>25 DEF ReceiverClose, Settle
<1>26. CASE WriteFails
  BY <1>26 DEF WriteFails
<1>27. CASE Disturb(s2r, r2s)
  BY <1>27 DEF Disturb
<1>28. CASE Disturb(r2s, s2r)
  <2>1. r2s # <<>> /\ r2s' = Tail(r2s)
    BY <1>28 DEF Disturb, Crediting
  <2>2. QED
    BY <1>28, <2>1, QueueKeepsCredit DEF Disturb
<1>29. CASE UNCHANGED vars
  BY <1>29 DEF vars
<1>30. QED
  BY <1>1, <1>2, <1>3, <1>4, <1>5, <1>6, <1>7, <1>8, <1>9, <1>10, <1>11, <1>12, <1>13, <1>14, <1>15, <1>16, <1>17, <1>18, <1>19, <1>20, <1>21, <1>22, <1>23, <1>24, <1>25, <1>26, <1>27, <1>28, <1>29
     DEF Next, SenderStep, SenderHandler, ReceiverHandler, ReceiverStep, Environment

\* The program's counters, frames and handler states keep their types.
THEOREM TypeCorrect == Spec => []TypeOK
<1>1. Init => TypeOK
  BY TypeInit
<1>2. TypeOK /\ [Next]_vars => TypeOK'
  BY FlagsNext, StagesNext, CountersNext, QueuesNext DEF TypeOK
<1>3. QED
  BY <1>1, <1>2, PTL DEF Spec

----------------------------------------------------------------------------
(* The promises. *)

\* The strengthening that makes the properties inductive: what a FIN handler has
\* hashed, what is in flight and what the credit adds up to.
THEOREM StreamInvariant == Spec => []IInv
<1>1. Init => IInv
  BY TypeInit, DeliveryInit, OrderInit, CreditInit DEF IInv
<1>2. IInv /\ [Next]_vars => IInv'
  <2> SUFFICES ASSUME IInv, [Next]_vars PROVE IInv'
    OBVIOUS
  <2>1. TypeOK' /\ DeliveryInv' /\ OrderInv'
    BY FlagsNext, StagesNext, CountersNext, QueuesNext, DeliveryNext, OrderNext DEF IInv, TypeOK
  <2>2. Crediting => CreditInv'
    BY CreditNext DEF IInv
  <2>3. QED
    BY <2>1, <2>2 DEF IInv, Crediting
<1>3. QED
  BY <1>1, <1>2, PTL DEF Spec

\* sendFileWithAuth never resolves before every advertised byte is in the sink,
\* however frames are lost, repeated or overtaken.
THEOREM AckProvesDelivery == Spec => []OkMeansDelivered
<1>1. IInv => OkMeansDelivered
  BY DEF IInv, DeliveryInv, OkMeansDelivered
<1>2. QED
  BY <1>1, StreamInvariant, PTL

\* recvFileWithAuth never resolves with less than the source, provided INIT
\* advertised its size.
THEOREM ReceiptIsWhole == Total = Chunks => (Spec => []ReceivedMeansWhole)
<1> SUFFICES ASSUME Total = Chunks PROVE Spec => []ReceivedMeansWhole
  OBVIOUS
<1>1. IInv => ReceivedMeansWhole
  BY SizesAreNat
     DEF IInv, TypeOK, CountersTyped, DeliveryInv, OrderInv, ReceivedMeansWhole
<1>2. QED
  BY <1>1, StreamInvariant, PTL

LEMMA WindowFromCredit == IInv /\ Crediting => WithinWindow
<1> SUFFICES ASSUME IInv, Crediting PROVE Drawn <= delivered + Window
  BY DEF WithinWindow
<1> USE SizesAreNat DEF IInv, TypeOK, CountersTyped, CreditInv, Drawn
<1>1. CASE creditOn
  <2>1. applied <= granted /\ granted <= delivered
    BY <1>1 DEF Slices
  <2>2. QED
    BY <1>1, <2>1
<1>2. CASE ~creditOn
  BY <1>2 DEF ReadyOnce, Crediting
<1>3. QED
  BY <1>1, <1>2

\* On a transport that neither repeats nor overtakes frames the sender is never
\* more than windowChunks ahead of the sink, whatever is lost.
THEOREM SlidingWindow == Crediting => (Spec => []WithinWindow)
<1> SUFFICES ASSUME Crediting PROVE Spec => []WithinWindow
  OBVIOUS
<1>1. IInv => WithinWindow
  BY WindowFromCredit
<1>2. QED
  BY <1>1, StreamInvariant, PTL

\* On such a transport the receiver never forgets a chunk it owes credit for.
THEOREM CreditConserved == Crediting => (Spec => []NoCreditLost)
<1> SUFFICES ASSUME Crediting PROVE Spec => []NoCreditLost
  OBVIOUS
<1>1. IInv => NoCreditLost
  BY DEF IInv, CreditInv, NoCreditLost
<1>2. QED
  BY <1>1, StreamInvariant, PTL

----------------------------------------------------------------------------
(* Refinement. *)

LEMMA SettleShows ==
  ASSUME NEW code \in Results \ {"pending"}, Settle(code), code = "ok" => delivered >= Total,
         UNCHANGED <<seq, delivered, sPc>>
  PROVE  Abstract!Next \/ UNCHANGED Abstract!vars
<1>1. CASE rResult = "pending"
  <2>1. rResult' = code
    BY <1>1 DEF Settle
  <2>2. Abstract!ReceiverSettles(IF code = "ok" THEN "ok" ELSE "failed")
    BY <1>1, <2>1 DEF Abstract!ReceiverSettles, Outcome
  <2>3. QED
    BY <2>2 DEF Abstract!Next
<1>2. CASE rResult # "pending"
  BY <1>2 DEF Settle, Abstract!vars, Outcome
<1>3. QED
  BY <1>1, <1>2

LEMMA SenderFailsShows ==
  ASSUME NEW code, SenderFails(code), sPc \notin {"ok", "failed"},
         UNCHANGED <<seq, delivered, rResult>>
  PROVE  Abstract!Next
<1>1. Abstract!SenderSettles("failed")
  BY DEF Abstract!SenderSettles, SenderFails, Outcome
<1>2. QED
  BY <1>1 DEF Abstract!Next

LEMMA StepShows == IInv /\ [Next]_vars => Abstract!Next \/ UNCHANGED Abstract!vars
<1> SUFFICES ASSUME IInv, [Next]_vars
             PROVE  Abstract!Next \/ UNCHANGED Abstract!vars
  OBVIOUS
<1> USE DEF Abstract!vars, Outcome, senderVars, windowVars, finVars, receiverVars, faultVars
<1>1. CASE SendInit
  <2>1. CASE sPc' = "waitReady"
    BY <1>1, <2>1 DEF SendInit, SenderFails
  <2>2. CASE sPc' # "waitReady"
    BY <1>1, <2>2, SenderFailsShows DEF SendInit
  <2>3. QED
    BY <2>1, <2>2
<1>2. CASE TakeChunk
  BY <1>2 DEF TakeChunk
<1>3. CASE AbortSeen
  BY <1>3, SenderFailsShows DEF AbortSeen
<1>4. CASE SendData
  <2>1. seq \in Nat /\ delivered \in Nat /\ seq < Chunks /\ Drawn = seq + 1
    BY <1>4 DEF SendData, IInv, TypeOK, CountersTyped, OrderInv, Drawn
  <2>2. CASE sPc' = "data"
    <3>1. Crediting => seq < delivered + Window
      BY <2>1, WindowFromCredit, SizesAreNat DEF WithinWindow, Crediting
    <3>2. Abstract!Send
      BY <1>4, <2>1, <2>2, <3>1 DEF SendData, Abstract!Send, Outcome
    <3>3. QED
      BY <3>2 DEF Abstract!Next
  <2>3. CASE sPc' # "data"
    BY <1>4, <2>3, SenderFailsShows DEF SendData, SafeSend
  <2>4. QED
    BY <2>2, <2>3
<1>5. CASE BeginFin
  BY <1>5 DEF BeginFin
<1>6. CASE SendFin
  <2>1. CASE sPc' = "finWait"
    BY <1>6, <2>1 DEF SendFin
  <2>2. CASE sPc' # "finWait"
    BY <1>6, <2>2, SenderFailsShows DEF SendFin, SafeSend
  <2>3. QED
    BY <2>1, <2>2
<1>7. CASE FinTimeout
  BY <1>7 DEF FinTimeout
<1>8. CASE GiveUp
  BY <1>8, SenderFailsShows DEF GiveUp
<1>9. CASE Succeed
  <2>1. Abstract!SenderSettles("ok")
    BY <1>9 DEF Succeed, AwaitingAck, IInv, DeliveryInv, Abstract!SenderSettles, Outcome
  <2>2. QED
    BY <2>1 DEF Abstract!Next
<1>10. CASE OnReady
  BY <1>10 DEF OnReady
<1>11. CASE OnCredit
  BY <1>11 DEF OnCredit
<1>12. CASE OnFinAck
  BY <1>12 DEF OnFinAck
<1>13. CASE SenderIgnores
  BY <1>13 DEF SenderIgnores
<1>14. CASE OnInit
  BY <1>14, SettleShows DEF OnInit, windowVars, senderVars, Results
<1>15. CASE OnData
  <2>1. UNCHANGED <<seq, delivered, sPc>>
    BY <1>15 DEF OnData
  <2>2. \/ UNCHANGED rResult
        \/ Settle("NC_PROTOCOL")
        \/ Settle("NC_BACKLOG_OVERFLOW")
    BY <1>15 DEF OnData
  <2>3. QED
    BY <2>1, <2>2, SettleShows DEF Results
<1>16. CASE OnFin
  BY <1>16 DEF OnFin
<1>17. CASE ReceiverIgnores
  BY <1>17 DEF ReceiverIgnores
<1>18. CASE InitDone
  BY <1>18 DEF InitDone
<1>19. CASE WriteDone
  <2>1. Abstract!Write
    BY <1>19 DEF WriteDone, IInv, TypeOK, CountersTyped, OrderInv, Abstract!Write
  <2>2. QED
    BY <2>1 DEF Abstract!Next
<1>20. CASE FinResumes
  BY <1>20, SettleShows DEF FinResumes, Results
<1>21. CASE \E h \in finVerify : FinDone(h)
  <2>1. UNCHANGED <<seq, delivered, sPc>>
    BY <1>21 DEF FinDone
  <2>2. \/ Settle("NC_SIGNATURE_INVALID")
        \/ Settle("NC_STREAM_MISMATCH")
        \/ Settle("ok") /\ delivered = TotalBytes
    BY <1>21 DEF FinDone
  <2>3. delivered = TotalBytes => delivered >= Total
    BY <1>21, SizesAreNat DEF IInv, DeliveryInv, TotalBytes, TypeOK, CountersTyped
  <2>4. QED
    BY <2>1, <2>2, <2>3, SettleShows DEF Results
<1>22. CASE SenderAbort
  BY <1>22 DEF SenderAbort
<1>23. CASE ReceiverAbort
  BY <1>23, SettleShows DEF ReceiverAbort, Results
<1>24. CASE SenderClose
  <2>1. CASE sPc = "waitReady"
    BY <1>24, <2>1, SenderFailsShows DEF SenderClose
  <2>2. CASE sPc # "waitReady"
    BY <1>24, <2>2 DEF SenderClose
  <2>3. QED
    BY <2>1, <2>2
<1>25. CASE ReceiverClose
  BY <1>25, SettleShows DEF ReceiverClose, Results
<1>26. CASE WriteFails
  BY <1>26 DEF WriteFails
<1>27. CASE Disturb(s2r, r2s)
  BY <1>27 DEF Disturb
<1>28. CASE Disturb(r2s, s2r)
  BY <1>28 DEF Disturb
<1>29. CASE UNCHANGED vars
  BY <1>29 DEF vars
<1>30. QED
  BY <1>1, <1>2, <1>3, <1>4, <1>5, <1>6, <1>7, <1>8, <1>9, <1>10, <1>11, <1>12, <1>13, <1>14, <1>15, <1>16, <1>17, <1>18, <1>19, <1>20, <1>21, <1>22, <1>23, <1>24, <1>25, <1>26, <1>27, <1>28, <1>29
     DEF Next, SenderStep, SenderHandler, ReceiverHandler, ReceiverStep, Environment

\* Whatever the transport and the callers do, a transfer behaves as Transfer
\* promises.
THEOREM TransferImplemented == Spec => ImplementsTransfer
<1>1. Init => Abstract!Init
  BY DEF Init, Abstract!Init, Outcome
<1>2. IInv /\ [Next]_vars => [Abstract!Next]_Abstract!vars
  BY StepShows
<1>3. QED
  BY <1>1, <1>2, StreamInvariant, PTL DEF Spec, Abstract!Spec, ImplementsTransfer

----------------------------------------------------------------------------
(* A transfer nobody disturbs. *)

\* An ordered lossless transport, nobody aborts, closes or fails, INIT tells the
\* truth and the backlog is not bounded in bytes.
Orderly ==
    /\ MaxLose = 0 /\ MaxDup = 0 /\ MaxDelay = 0 /\ Faults = {}
    /\ Total = Chunks /\ BacklogBytes = 0

\* FIN frames the sender has sent at most.
FinsSent == IF sPc \in {"finWait", "ok"} THEN tries + 1 ELSE tries

\* The chunks n .. k - 1 are on their way, and FIN frames behind the last one.
InLine(q, n, k) ==
    /\ k - n <= Len(q)
    /\ \A i \in 1 .. Len(q) :
          q[i] = IF i <= k - n THEN [type |-> "DATA", seq |-> n + i - 1] ELSE [type |-> "FIN"]
    /\ k < Chunks => Len(q) = k - n

\* INIT is on its way alone, and later the chunks the receiver has not reserved.
LineInv ==
    /\ sOpen /\ rOpen /\ sinkOk /\ backlog = {}
    /\ initStage = "none" => /\ frames = 0
                             /\ \/ sPc = "start" /\ s2r = <<>>
                                \/ sPc = "waitReady" /\ s2r = <<[type |-> "INIT"]>>
    /\ initStage = "crypto" => s2r = <<>> /\ sPc = "waitReady"
    /\ initStage # "ready" => seq = 0 /\ nextSeq = 0
    /\ initStage = "ready" => InLine(s2r, nextSeq, seq)
    /\ sPc = "start" => initStage = "none"
    /\ sPc \in {"start", "waitReady"} => seq = 0
    /\ sPc \in {"fin", "finWait", "ok"} => seq = Chunks

\* Each handler of a FIN frame counts one frame more than the one before, so the
\* second of them means that the sender has retried.
FinInv ==
    /\ initStage # "none" =>
          /\ frames > nextSeq
          /\ frames - 1 - nextSeq + Len(finWait) + (Len(s2r) - (seq - nextSeq)) <= FinsSent
    /\ \A i \in 1 .. Len(finWait) : finWait[i] = Chunks /\ nextSeq = Chunks
    /\ \A h \in finVerify : /\ h.bytes = Chunks /\ delivered = Chunks
                            /\ Chunks + 2 <= h.frames /\ h.frames <= frames

RetryInv == OnlyRetriedFinRejects /\ (rResult = "pending" => LineInv /\ FinInv)

LEMMA SeqSteps ==
  ASSUME NEW S, NEW q \in Seq(S)
  PROVE  /\ \A e \in S : /\ Len(Append(q, e)) = Len(q) + 1
                         /\ \A i \in 1 .. Len(q) : Append(q, e)[i] = q[i]
                         /\ Append(q, e)[Len(q) + 1] = e
         /\ q # <<>> => /\ Len(q) > 0 /\ Head(q) = q[1] /\ Len(Tail(q)) = Len(q) - 1
                        /\ \A i \in 1 .. Len(q) - 1 : Tail(q)[i] = q[i + 1]
OBVIOUS

\* Sending a chunk, or FIN when there is none left.
LEMMA InLineGrows ==
  ASSUME NEW q \in Seq(SenderFrame), NEW n \in Nat, NEW k \in Nat, InLine(q, n, k), n <= k
  PROVE  /\ k < Chunks => InLine(Append(q, [type |-> "DATA", seq |-> k]), n, k + 1)
         /\ k = Chunks => InLine(Append(q, [type |-> "FIN"]), n, k)
<1>1. Len(q) \in Nat /\ Chunks \in Nat
  BY SizesAreNat
<1>2. ASSUME k < Chunks PROVE InLine(Append(q, [type |-> "DATA", seq |-> k]), n, k + 1)
  <2> DEFINE e == [type |-> "DATA", seq |-> k]
  <2>1. /\ Len(Append(q, e)) = Len(q) + 1 /\ Append(q, e)[Len(q) + 1] = e
        /\ \A i \in 1 .. Len(q) : Append(q, e)[i] = q[i]
    BY FrameTypes, SeqSteps
  <2>2. Len(q) = k - n /\ n + (Len(q) + 1) - 1 = k
    BY <1>1, <1>2 DEF InLine
  <2>3. ASSUME NEW i \in 1 .. Len(q) + 1
        PROVE  i <= (k + 1) - n /\ Append(q, e)[i] = [type |-> "DATA", seq |-> n + i - 1]
    <3>1. CASE i = Len(q) + 1
      BY <1>1, <2>1, <2>2, <3>1
    <3>2. CASE i # Len(q) + 1
      <4>1. i \in 1 .. Len(q) /\ i <= k - n
        BY <1>1, <2>2, <2>3, <3>2
      <4>2. QED
        BY <1>1, <2>1, <4>1 DEF InLine
    <3>3. QED
      BY <3>1, <3>2
  <2> HIDE DEF e
  <2>4. InLine(Append(q, e), n, k + 1)
    BY <1>1, <2>1, <2>2, <2>3 DEF InLine
  <2>5. QED
    BY <2>4 DEF e
<1>3. ASSUME k = Chunks PROVE InLine(Append(q, [type |-> "FIN"]), n, k)
  <2> DEFINE e == [type |-> "FIN"]
  <2>1. /\ Len(Append(q, e)) = Len(q) + 1 /\ Append(q, e)[Len(q) + 1] = e
        /\ \A i \in 1 .. Len(q) : Append(q, e)[i] = q[i]
    BY FrameTypes, SeqSteps
  <2>2. k - n <= Len(q) /\ ~(k < Chunks)
    BY <1>1, <1>3 DEF InLine
  <2>3. ASSUME NEW i \in 1 .. Len(q) + 1
        PROVE  Append(q, e)[i] = IF i <= k - n THEN [type |-> "DATA", seq |-> n + i - 1]
                                               ELSE [type |-> "FIN"]
    <3>1. CASE i = Len(q) + 1
      BY <1>1, <2>1, <2>2, <3>1
    <3>2. CASE i # Len(q) + 1
      <4>1. i \in 1 .. Len(q)
        BY <1>1, <2>3, <3>2
      <4>2. QED
        BY <1>1, <2>1, <4>1 DEF InLine
    <3>3. QED
      BY <3>1, <3>2
  <2> HIDE DEF e
  <2>4. InLine(Append(q, e), n, k)
    BY <1>1, <2>1, <2>2, <2>3 DEF InLine
  <2>5. QED
    BY <2>4 DEF e
<1>4. QED
  BY <1>2, <1>3

\* The oldest frame is the next chunk, or FIN when all were taken.
LEMMA InLineTaken ==
  ASSUME NEW q \in Seq(SenderFrame), NEW n \in Nat, NEW k \in Nat, InLine(q, n, k),
         n <= k, k <= Chunks, q # <<>>
  PROVE  /\ Head(q).type \in {"DATA", "FIN"}
         /\ Head(q).type = "DATA" => Head(q).seq = n /\ n < k /\ InLine(Tail(q), n + 1, k)
         /\ Head(q).type = "FIN" => n = k /\ k = Chunks /\ InLine(Tail(q), n, k)
<1>1. /\ Len(q) \in Nat /\ Len(q) > 0 /\ Chunks \in Nat /\ Head(q) = q[1]
      /\ Len(Tail(q)) = Len(q) - 1 /\ \A i \in 1 .. Len(q) - 1 : Tail(q)[i] = q[i + 1]
  BY SizesAreNat, SeqSteps
<1>2. /\ k - n <= Len(q)
      /\ \A i \in 1 .. Len(q) :
          q[i] = IF i <= k - n THEN [type |-> "DATA", seq |-> n + i - 1] ELSE [type |-> "FIN"]
      /\ k < Chunks => Len(q) = k - n
  BY DEF InLine
<1>3. CASE n < k
  <2>1. Head(q) = [type |-> "DATA", seq |-> n]
    <3>1. 1 \in 1 .. Len(q) /\ 1 <= k - n /\ n + 1 - 1 = n
      BY <1>1, <1>3
    <3>2. QED
      BY <1>1, <1>2, <3>1
  <2>2. ASSUME NEW i \in 1 .. Len(q) - 1
        PROVE  Tail(q)[i] = IF i <= k - (n + 1) THEN [type |-> "DATA", seq |-> (n + 1) + i - 1]
                                                ELSE [type |-> "FIN"]
    <3>1. /\ i + 1 \in 1 .. Len(q) /\ n + (i + 1) - 1 = (n + 1) + i - 1
          /\ i + 1 <= k - n <=> i <= k - (n + 1)
      BY <1>1
    <3>2. QED
      BY <1>1, <1>2, <3>1
  <2>3. InLine(Tail(q), n + 1, k)
    BY <1>1, <1>2, <2>2 DEF InLine
  <2>4. QED
    BY <1>3, <2>1, <2>3
<1>4. CASE n = k
  <2>1. Head(q) = [type |-> "FIN"]
    <3>1. 1 \in 1 .. Len(q) /\ ~(1 <= k - n)
      BY <1>1, <1>4
    <3>2. QED
      BY <1>1, <1>2, <3>1
  <2>2. k = Chunks
    BY <1>1, <1>2, <1>4
  <2>3. ASSUME NEW i \in 1 .. Len(q) - 1
        PROVE  Tail(q)[i] = IF i <= k - n THEN [type |-> "DATA", seq |-> n + i - 1]
                                          ELSE [type |-> "FIN"]
    <3>1. i + 1 \in 1 .. Len(q) /\ ~(i + 1 <= k - n) /\ ~(i <= k - n)
      BY <1>1, <1>4
    <3>2. QED
      BY <1>1, <1>2, <3>1
  <2>4. InLine(Tail(q), n, k)
    BY <1>1, <1>2, <1>4, <2>2, <2>3 DEF InLine
  <2>5. QED
    BY <1>4, <2>1, <2>2, <2>4
<1>5. QED
  BY <1>3, <1>4


\* What a DATA frame does when it is the next one and nothing waits before it.
LEMMA OnDataInTurn ==
  ASSUME Orderly, TypeOK, OrderInv, LineInv, rResult = "pending", OnData
  PROVE  /\ initStage = "ready" /\ initStage' = "ready"
         /\ rResult' = "pending" /\ frames' = frames + 1
         /\ nextSeq' = nextSeq + 1 /\ nextSeq < seq /\ backlog' = {}
         /\ s2r # <<>> /\ s2r' = Tail(s2r) /\ InLine(s2r', nextSeq', seq)
<1> DEFINE n == Head(s2r).seq
<1>1. s2r # <<>> /\ Head(s2r).type = "DATA" /\ s2r' = Tail(s2r) /\ backlog = {}
  BY DEF OnData, LineInv
<1>2. initStage = "ready" /\ initStage' = initStage
  <2>1. initStage \in {"none", "crypto", "ready"} /\ initStage' = initStage
    BY DEF OnData, TypeOK, StagesTyped
  <2>2. s2r = <<[type |-> "INIT"]>> => Head(s2r).type = "INIT"
    OBVIOUS
  <2>3. QED
    BY <1>1, <2>1, <2>2 DEF LineInv
<1>3. /\ s2r \in Seq(SenderFrame) /\ nextSeq \in Nat /\ seq \in Nat /\ frames \in Nat
      /\ nextSeq <= seq /\ seq <= Chunks /\ Chunks \in Nat /\ BacklogChunks \in Nat
  BY SizesAreNat DEF TypeOK, CountersTyped, QueuesTyped, OrderInv
<1>4. n = nextSeq /\ nextSeq < seq /\ InLine(Tail(s2r), nextSeq + 1, seq)
  BY <1>1, <1>2, <1>3, InLineTaken DEF LineInv
<1>5. ~Overflows({n}, backlogSize + 2)
  <2>1. Cardinality({n}) = 1
    BY FS_Singleton
  <2>2. BacklogBytes = 0
    BY DEF Orderly
  <2>3. QED
    BY <1>3, <2>1, <2>2 DEF Overflows
<1>6. backlog \cup {n} = {n}
  BY <1>1
<1> HIDE DEF n
<1>7. /\ frames' = frames + 1 /\ rResult' = rResult
      /\ Drain({n}, backlogSize + 2)
  <2>1. ~(n < nextSeq)
    BY <1>3, <1>4
  <2>2. QED
    BY <1>2, <1>5, <1>6, <2>1, Zenon DEF OnData, n
<1>8. nextSeq' = nextSeq + 1 /\ backlog' = {}
  <2>1. PICK next \in nextSeq .. Chunks :
          /\ nextSeq .. (next - 1) \subseteq {n} /\ next \notin {n}
          /\ nextSeq' = next /\ backlog' = {n} \ (nextSeq .. (next - 1))
    BY <1>7 DEF Drain
  <2>2. next # nextSeq
    BY <1>4, <2>1
  <2>3. ~(next > nextSeq + 1)
    <3>1. next > nextSeq + 1 => nextSeq + 1 \in nextSeq .. (next - 1) /\ nextSeq + 1 # nextSeq
      BY <1>3, <2>1
    <3>2. QED
      BY <1>4, <2>1, <3>1
  <2>4. next = nextSeq + 1
    BY <1>3, <2>1, <2>2, <2>3
  <2>5. n \in nextSeq .. (next - 1)
    BY <1>3, <1>4, <2>4
  <2>6. QED
    BY <2>1, <2>4, <2>5
<1>9. QED
  BY <1>1, <1>2, <1>4, <1>7, <1>8

\* A settled promise stays, and what the sender retried or the receiver verified
\* is not taken back.
LEMMA SettledStays ==
  ASSUME TypeOK, [Next]_vars
  PROVE  /\ tries' \in Nat /\ tries' >= tries
         /\ verified => verified'
         /\ rResult # "pending" => rResult' = rResult
<1>0. \A a \in Nat : \A b : b = a \/ b = a + 1 => b \in Nat /\ b >= a
  OBVIOUS
<1> USE DEF TypeOK, CountersTyped, senderVars, windowVars, finVars, receiverVars, faultVars,
            vars, Next, SenderStep, SenderHandler, ReceiverHandler, ReceiverStep, Environment,
            SendInit, TakeChunk, AbortSeen, SendData, BeginFin, SendFin, FinTimeout, GiveUp,
            Succeed, OnReady, OnCredit, OnFinAck, SenderIgnores, OnInit, OnData, OnFin,
            ReceiverIgnores, InitDone, WriteDone, FinResumes, FinDone, SenderAbort,
            ReceiverAbort, SenderClose, ReceiverClose, WriteFails, Disturb
<1>1. tries' = tries \/ tries' = tries + 1
  OBVIOUS
<1>2. tries \in Nat
  OBVIOUS
<1>3. tries' \in Nat /\ tries' >= tries
  BY <1>0, <1>1, <1>2, Zenon
<1>4. verified => verified'
  OBVIOUS
<1>5. rResult # "pending" => rResult' = rResult
  BY DEF Settle
<1>6. QED
  BY <1>3, <1>4, <1>5

\* Nothing but the two programs moves.
LEMMA OnlyTheProgramsMove ==
  ASSUME Orderly, TypeOK, [Next]_vars
  PROVE  SenderStep \/ SenderHandler \/ ReceiverHandler \/ ReceiverStep \/ UNCHANGED vars
<1>1. ~Environment
  <2>1. ~Disturb(s2r, r2s) /\ ~Disturb(r2s, s2r)
    BY DEF Disturb, Orderly, TypeOK, CountersTyped
  <2>2. QED
    BY <2>1 DEF Environment, Orderly, SenderAbort, ReceiverAbort, SenderClose, ReceiverClose,
                WriteFails
<1>2. QED
  BY <1>1 DEF Next


LEMMA RetryInit == Init => RetryInv
<1> SUFFICES ASSUME Init PROVE RetryInv
  OBVIOUS
<1>1. LineInv
  BY DEF Init, LineInv
<1>2. FinInv
  BY DEF Init, FinInv
<1>3. QED
  BY <1>1, <1>2 DEF Init, RetryInv, OnlyRetriedFinRejects

LEMMA SenderKeepsOrder ==
  ASSUME Orderly, TypeOK, DeliveryInv, OrderInv, LineInv, FinInv, rResult = "pending",
         SenderStep \/ SenderHandler
  PROVE  LineInv' /\ FinInv' /\ rResult' = "pending"
<1>1. /\ s2r \in Seq(SenderFrame) /\ nextSeq \in Nat /\ seq \in Nat /\ frames \in Nat
      /\ tries \in Nat /\ Len(finWait) \in Nat /\ Len(s2r) \in Nat /\ delivered \in Nat
      /\ nextSeq <= seq /\ seq <= Chunks /\ Chunks \in Nat
      /\ initStage \in {"none", "crypto", "ready"}
  BY SizesAreNat DEF TypeOK, CountersTyped, QueuesTyped, StagesTyped, OrderInv
<1>2. receiverVars' = receiverVars
  BY DEF SenderStep, SenderHandler, SendInit, TakeChunk, AbortSeen, SendData, BeginFin, SendFin,
         FinTimeout, GiveUp, Succeed, OnReady, OnCredit, OnFinAck, SenderIgnores, receiverVars
<1>3. /\ initStage' = initStage /\ frames' = frames /\ nextSeq' = nextSeq /\ rOpen' = rOpen
      /\ sinkOk' = sinkOk /\ backlog' = backlog /\ finWait' = finWait
      /\ finVerify' = finVerify /\ delivered' = delivered /\ rResult' = rResult
  BY <1>2 DEF receiverVars, windowVars, finVars
<1>4. sOpen' = sOpen /\ sOpen
  BY DEF SenderStep, SenderHandler, SendInit, TakeChunk, AbortSeen, SendData, BeginFin, SendFin,
         FinTimeout, GiveUp, Succeed, OnReady, OnCredit, OnFinAck, SenderIgnores, LineInv,
         senderVars
<1>5. \/ SendInit \/ SendData \/ SendFin
      \/ /\ s2r' = s2r /\ seq' = seq
         /\ \/ sPc' = sPc /\ tries' = tries
            \/ /\ sPc \in {"data", "seal", "fin", "finWait"}
               /\ \/ tries' = tries /\ sPc' \in {"seal", "failed"} /\ sPc \in {"data", "fin"}
                  \/ tries' = tries /\ sPc' = "fin" /\ sPc = "data" /\ seq = Chunks
                  \/ tries' = tries /\ sPc' = "ok" /\ sPc \in {"fin", "finWait"}
                  \/ tries' = tries + 1 /\ sPc' = "fin" /\ sPc = "finWait"
            \/ tries' = tries /\ sPc = "waitReady" /\ sPc' = "data" /\ initStage = "ready"
  <2>1. CASE OnReady
    <3>1. initStage = "ready"
      <4>1. r2s # <<>> /\ Head(r2s).type = "READY" /\ r2s \in Seq(ReceiverFrame)
        BY <2>1 DEF OnReady, TypeOK, QueuesTyped
      <4>2. 1 \in 1 .. Len(r2s) /\ r2s[1].type = "READY"
        BY <4>1
      <4>3. QED
        BY <4>2 DEF DeliveryInv, InFlightHas
    <3>2. s2r' = s2r /\ seq' = seq /\ tries' = tries
          /\ (sPc' = sPc \/ (sPc = "waitReady" /\ sPc' = "data"))
      BY <2>1 DEF OnReady
    <3>3. QED
      BY <3>1, <3>2
  <2>2. CASE OnCredit \/ OnFinAck \/ SenderIgnores
    <3>1. s2r' = s2r /\ seq' = seq /\ tries' = tries /\ sPc' = sPc
      BY <2>2 DEF OnCredit, OnFinAck, SenderIgnores, senderVars
    <3>2. QED
      BY <3>1
  <2>3. CASE TakeChunk \/ AbortSeen
    BY <2>3 DEF TakeChunk, AbortSeen, SenderFails
  <2>4. CASE BeginFin
    BY <2>4 DEF BeginFin
  <2>5. CASE FinTimeout
    BY <2>5 DEF FinTimeout
  <2>6. CASE GiveUp
    BY <2>6 DEF GiveUp, SenderFails
  <2>7. CASE Succeed
    BY <2>7 DEF Succeed, AwaitingAck
  <2>8. QED
    BY <2>1, <2>2, <2>3, <2>4, <2>5, <2>6, <2>7 DEF SenderStep, SenderHandler
<1>6. CASE SendInit
  <2>1. /\ sPc = "start" /\ sPc' = "waitReady" /\ s2r' = Append(s2r, [type |-> "INIT"])
        /\ seq' = seq /\ tries' = tries
    BY <1>4, <1>6 DEF SendInit
  <2>2. initStage = "none" /\ s2r = <<>> /\ seq = 0 /\ frames = 0
    BY <2>1 DEF LineInv
  <2>3. s2r' = <<[type |-> "INIT"]>>
    BY <2>1, <2>2
  <2>4. LineInv'
    BY <1>3, <1>4, <2>1, <2>2, <2>3 DEF LineInv
  <2>5. FinInv'
    BY <1>3, <2>1, <2>2 DEF FinInv
  <2>6. QED
    BY <1>3, <2>4, <2>5
<1>7. CASE SendData
  <2>1. /\ sPc = "seal" /\ sPc' = "data" /\ seq' = seq + 1 /\ tries' = tries
        /\ s2r' = Append(s2r, [type |-> "DATA", seq |-> seq])
    BY <1>4, <1>7 DEF SendData, SafeSend
  <2>2. initStage = "ready" /\ seq < Chunks
    BY <2>1 DEF DeliveryInv, OrderInv
  <2>3. InLine(s2r', nextSeq', seq') /\ Len(s2r') = Len(s2r) + 1
    <3>1. InLine(Append(s2r, [type |-> "DATA", seq |-> seq]), nextSeq, seq + 1)
      BY <1>1, <2>2, InLineGrows DEF LineInv
    <3>2. Len(Append(s2r, [type |-> "DATA", seq |-> seq])) = Len(s2r) + 1
      BY <1>1, FrameTypes, SeqSteps
    <3>3. QED
      BY <1>3, <2>1, <3>1, <3>2
  <2>4. LineInv'
    BY <1>3, <1>4, <2>1, <2>2, <2>3 DEF LineInv
  <2>5. FinsSent' = FinsSent
    BY <2>1 DEF FinsSent
  <2>6. FinInv'
    BY <1>1, <1>3, <2>1, <2>3, <2>5 DEF FinInv
  <2>7. QED
    BY <1>3, <2>4, <2>6
<1>8. CASE SendFin
  <2>1. /\ sPc = "fin" /\ sPc' = "finWait" /\ seq' = seq /\ tries' = tries
        /\ s2r' = Append(s2r, [type |-> "FIN"])
    BY <1>4, <1>8 DEF SendFin, SafeSend
  <2>2. initStage = "ready" /\ seq = Chunks
    BY <2>1 DEF DeliveryInv, LineInv
  <2>3. InLine(s2r', nextSeq', seq') /\ Len(s2r') = Len(s2r) + 1
    <3>1. InLine(Append(s2r, [type |-> "FIN"]), nextSeq, seq)
      BY <1>1, <2>2, InLineGrows DEF LineInv
    <3>2. Len(Append(s2r, [type |-> "FIN"])) = Len(s2r) + 1
      BY <1>1, FrameTypes, SeqSteps
    <3>3. QED
      BY <1>3, <2>1, <3>1, <3>2
  <2>4. LineInv'
    BY <1>3, <1>4, <2>1, <2>2, <2>3 DEF LineInv
  <2>5. FinsSent' = FinsSent + 1
    BY <1>1, <2>1 DEF FinsSent
  <2>6. FinInv'
    <3>1. FinsSent \in Nat
      BY <1>1 DEF FinsSent
    <3>2. QED
      BY <1>1, <1>3, <2>1, <2>3, <2>5, <3>1 DEF FinInv
  <2>7. QED
    BY <1>3, <2>4, <2>6
<1>9. CASE /\ s2r' = s2r /\ seq' = seq
           /\ \/ sPc' = sPc /\ tries' = tries
              \/ /\ sPc \in {"data", "seal", "fin", "finWait"}
                 /\ \/ tries' = tries /\ sPc' \in {"seal", "failed"} /\ sPc \in {"data", "fin"}
                    \/ tries' = tries /\ sPc' = "fin" /\ sPc = "data" /\ seq = Chunks
                    \/ tries' = tries /\ sPc' = "ok" /\ sPc \in {"fin", "finWait"}
                    \/ tries' = tries + 1 /\ sPc' = "fin" /\ sPc = "finWait"
              \/ tries' = tries /\ sPc = "waitReady" /\ sPc' = "data" /\ initStage = "ready"
  <2>1. FinsSent' \in Nat /\ FinsSent \in Nat /\ FinsSent' >= FinsSent
    BY <1>1, <1>9 DEF FinsSent
  <2>2. FinInv'
    BY <1>1, <1>3, <1>9, <2>1 DEF FinInv
  <2>3. sPc \in {"data", "seal", "fin", "finWait"} => initStage = "ready"
    BY DEF DeliveryInv
  <2>4. LineInv'
    BY <1>3, <1>4, <1>9, <2>3 DEF LineInv
  <2>5. QED
    BY <1>3, <2>2, <2>4
<1>10. QED
  BY <1>5, <1>6, <1>7, <1>8, <1>9


LEMMA ReceiverTakesInOrder ==
  ASSUME Orderly, TypeOK, DeliveryInv, OrderInv, LineInv, FinInv, rResult = "pending",
         ReceiverHandler
  PROVE  LineInv' /\ FinInv' /\ rResult' = "pending"
<1>1. /\ s2r \in Seq(SenderFrame) /\ nextSeq \in Nat /\ seq \in Nat /\ frames \in Nat
      /\ tries \in Nat /\ finWait \in Seq(Nat) /\ Len(finWait) \in Nat /\ Len(s2r) \in Nat
      /\ delivered \in Nat /\ nextSeq <= seq /\ seq <= Chunks /\ Chunks \in Nat
      /\ initStage \in {"none", "crypto", "ready"} /\ FinsSent \in Nat
  BY SizesAreNat DEF TypeOK, CountersTyped, QueuesTyped, StagesTyped, OrderInv, FinsSent
<1>2. senderVars' = senderVars /\ s2r # <<>> /\ s2r' = Tail(s2r)
  BY DEF ReceiverHandler, OnInit, OnData, OnFin, ReceiverIgnores
<1>3. /\ sPc' = sPc /\ seq' = seq /\ tries' = tries /\ sOpen' = sOpen /\ FinsSent' = FinsSent
      /\ Len(s2r') = Len(s2r) - 1
  BY <1>1, <1>2, SeqSteps DEF senderVars, FinsSent
<1>4. rOpen' = rOpen /\ sinkOk' = sinkOk /\ delivered' = delivered /\ finVerify' = finVerify
  BY DEF ReceiverHandler, OnInit, OnData, OnFin, ReceiverIgnores, receiverVars, windowVars, finVars
<1>5. CASE OnInit
  <2>1. Head(s2r).type = "INIT"
    BY <1>5 DEF OnInit
  <2>2. initStage = "none"
    <3>1. initStage # "ready"
      <4>1. initStage = "ready" => Head(s2r).type \in {"DATA", "FIN"}
        BY <1>1, <1>2, InLineTaken DEF LineInv
      <4>2. QED
        BY <2>1, <4>1
    <3>2. initStage # "crypto"
      BY <1>2 DEF LineInv
    <3>3. QED
      BY <1>1, <3>1, <3>2
  <2>3. s2r = <<[type |-> "INIT"]>> /\ sPc = "waitReady" /\ frames = 0 /\ nextSeq = 0 /\ seq = 0
    BY <1>2, <2>2 DEF LineInv
  <2>4. s2r' = <<>>
    BY <1>2, <2>3
  <2>5. /\ initStage' = "crypto" /\ frames' = frames + 1 /\ rResult' = rResult
        /\ nextSeq' = nextSeq /\ backlog' = backlog /\ finWait' = finWait
    BY <1>5, <2>2 DEF OnInit, windowVars, finVars
  <2>6. LineInv'
    BY <1>3, <1>4, <2>3, <2>4, <2>5 DEF LineInv
  <2>7. finWait = <<>> /\ finVerify = {}
    BY <2>2 DEF DeliveryInv
  <2>8. FinInv'
    <3>1. frames' = 1 /\ nextSeq' = 0 /\ Len(finWait') = 0 /\ Len(s2r') = 0 /\ seq' = 0
      BY <1>3, <2>3, <2>4, <2>5, <2>7
    <3>2. frames' - 1 - nextSeq' + Len(finWait') + (Len(s2r') - (seq' - nextSeq')) = 0
      BY <3>1
    <3>3. \A i \in 1 .. Len(finWait') : finWait'[i] = Chunks /\ nextSeq' = Chunks
      BY <3>1
    <3>4. \A g \in finVerify' : /\ g.bytes = Chunks /\ delivered' = Chunks
                                /\ Chunks + 2 <= g.frames /\ g.frames <= frames'
      BY <1>4, <2>7
    <3>5. 0 <= FinsSent'
      BY <1>1, <1>3
    <3>6. frames' > nextSeq'
      BY <3>1
    <3>7. QED
      BY <3>2, <3>3, <3>4, <3>5, <3>6 DEF FinInv
  <2>9. QED
    BY <2>5, <2>6, <2>8
<1>6. CASE OnData
  <2>1. /\ initStage = "ready" /\ initStage' = "ready"
        /\ rResult' = "pending" /\ frames' = frames + 1
        /\ nextSeq' = nextSeq + 1 /\ nextSeq < seq /\ backlog' = {}
        /\ InLine(s2r', nextSeq', seq)
    BY <1>6, OnDataInTurn
  <2>2. finWait' = finWait
    BY <1>6 DEF OnData, finVars
  <2>3. LineInv'
    BY <1>3, <1>4, <2>1 DEF LineInv
  <2>4. finWait = <<>>
    <3>1. nextSeq # Chunks
      BY <1>1, <2>1
    <3>2. ~(1 \in 1 .. Len(finWait))
      BY <3>1 DEF FinInv
    <3>3. QED
      BY <1>1, <3>2
  <2>5. \A i \in 1 .. Len(finWait') : finWait'[i] = Chunks /\ nextSeq' = Chunks
    BY <2>2, <2>4
  <2>6. \A h \in finVerify' : /\ h.bytes = Chunks /\ delivered' = Chunks
                              /\ Chunks + 2 <= h.frames /\ h.frames <= frames'
    <3>1. \A h \in finVerify : h.frames \in Nat
      BY DEF TypeOK, QueuesTyped, Hashed
    <3>2. QED
      BY <1>1, <1>4, <2>1, <3>1 DEF FinInv
  <2>7. /\ frames' > nextSeq'
        /\ frames' - 1 - nextSeq' + Len(finWait') + (Len(s2r') - (seq' - nextSeq')) <= FinsSent'
    BY <1>1, <1>3, <2>1, <2>2 DEF FinInv
  <2>8. FinInv'
    BY <2>5, <2>6, <2>7 DEF FinInv
  <2>9. QED
    BY <2>1, <2>3, <2>8
<1>7. CASE OnFin
  <2>1. /\ Head(s2r).type = "FIN" /\ finWait' = Append(finWait, nextSeq) /\ rResult' = rResult
        /\ initStage' = initStage /\ frames' = frames /\ nextSeq' = nextSeq /\ backlog' = backlog
    BY <1>7 DEF OnFin, windowVars
  <2>2. initStage = "ready"
    <3>1. 1 \in 1 .. Len(s2r) /\ s2r[1].type = "FIN"
      BY <1>1, <1>2, <2>1, SeqSteps
    <3>2. QED
      BY <3>1 DEF DeliveryInv, InFlightHas
  <2>3. nextSeq = seq /\ seq = Chunks /\ InLine(s2r', nextSeq', seq)
    BY <1>1, <1>2, <2>1, <2>2, InLineTaken DEF LineInv
  <2>4. LineInv'
    BY <1>3, <1>4, <2>1, <2>2, <2>3 DEF LineInv
  <2>5. /\ Len(finWait') = Len(finWait) + 1 /\ finWait'[Len(finWait) + 1] = nextSeq
        /\ \A i \in 1 .. Len(finWait) : finWait'[i] = finWait[i]
    BY <1>1, <2>1, SeqSteps
  <2>6. ASSUME NEW i \in 1 .. Len(finWait') PROVE finWait'[i] = Chunks /\ nextSeq' = Chunks
    <3>1. CASE i = Len(finWait) + 1
      BY <2>1, <2>3, <2>5, <3>1
    <3>2. CASE i # Len(finWait) + 1
      <4>1. i \in 1 .. Len(finWait)
        BY <1>1, <2>5, <2>6, <3>2
      <4>2. QED
        BY <2>1, <2>3, <2>5, <4>1 DEF FinInv
    <3>3. QED
      BY <3>1, <3>2
  <2>7. /\ frames' > nextSeq'
        /\ frames' - 1 - nextSeq' + Len(finWait') + (Len(s2r') - (seq' - nextSeq')) <= FinsSent'
    BY <1>1, <1>3, <2>1, <2>2, <2>5 DEF FinInv
  <2>8. \A h \in finVerify' : /\ h.bytes = Chunks /\ delivered' = Chunks
                              /\ Chunks + 2 <= h.frames /\ h.frames <= frames'
    BY <1>4, <2>1 DEF FinInv
  <2>9. FinInv'
    BY <2>6, <2>7, <2>8 DEF FinInv
  <2>10. QED
    BY <2>1, <2>4, <2>9
<1>8. QED
  BY <1>5, <1>6, <1>7 DEF ReceiverHandler, ReceiverIgnores


LEMMA ReceiverStepsInOrder ==
  ASSUME Orderly, TypeOK, DeliveryInv, OrderInv, LineInv, FinInv, rResult = "pending",
         ReceiverStep
  PROVE  LineInv' /\ FinInv' /\ OnlyRetriedFinRejects'
<1>1. /\ nextSeq \in Nat /\ seq \in Nat /\ frames \in Nat /\ s2r \in Seq(SenderFrame)
      /\ tries \in Nat /\ finWait \in Seq(Nat) /\ Len(finWait) \in Nat /\ Len(s2r) \in Nat
      /\ delivered \in Nat /\ delivered <= nextSeq /\ nextSeq <= seq /\ seq <= Chunks
      /\ Chunks \in Nat /\ Total = Chunks
      /\ initStage \in {"none", "crypto", "ready"} /\ FinsSent \in Nat
  BY SizesAreNat DEF TypeOK, CountersTyped, QueuesTyped, StagesTyped, OrderInv, FinsSent, Orderly
<1>2. senderVars' = senderVars /\ s2r' = s2r /\ rOpen' = rOpen
  BY DEF ReceiverStep, InitDone, WriteDone, FinResumes, FinDone
<1>3. /\ sPc' = sPc /\ seq' = seq /\ tries' = tries /\ sOpen' = sOpen /\ FinsSent' = FinsSent
  BY <1>2 DEF senderVars, FinsSent
<1>4. nextSeq' = nextSeq /\ backlog' = backlog /\ sinkOk' = sinkOk
  BY DEF ReceiverStep, InitDone, WriteDone, FinResumes, FinDone, windowVars
<1>5. sinkOk
  BY DEF LineInv
<1>6. CASE InitDone
  <2>1. /\ initStage = "crypto" /\ initStage' = "ready" /\ frames' = frames
        /\ finWait' = finWait /\ finVerify' = finVerify /\ delivered' = delivered
        /\ rResult' = rResult
    BY <1>6 DEF InitDone, windowVars, finVars
  <2>2. s2r = <<>> /\ seq = 0 /\ nextSeq = 0 /\ sPc = "waitReady"
    BY <2>1 DEF LineInv
  <2>3. InLine(<<>>, 0, 0)
    BY <1>1 DEF InLine
  <2>4. LineInv'
    BY <1>2, <1>3, <1>4, <2>1, <2>2, <2>3 DEF LineInv
  <2>5. FinInv'
    BY <1>2, <1>3, <1>4, <2>1 DEF FinInv
  <2>6. QED
    BY <2>1, <2>4, <2>5 DEF OnlyRetriedFinRejects
<1>7. CASE WriteDone
  <2>1. /\ delivered < nextSeq /\ initStage' = initStage /\ frames' = frames
        /\ finWait' = finWait /\ finVerify' = finVerify /\ rResult' = rResult
    BY <1>7 DEF WriteDone, finVars
  <2>2. LineInv'
    BY <1>2, <1>3, <1>4, <2>1 DEF LineInv
  <2>3. finVerify = {}
    BY <1>1, <2>1 DEF FinInv
  <2>4. FinInv'
    BY <1>2, <1>3, <1>4, <2>1, <2>3 DEF FinInv
  <2>5. QED
    BY <2>1, <2>2, <2>4 DEF OnlyRetriedFinRejects
<1>8. CASE FinResumes
  <2>1. /\ finWait # <<>> /\ finWait' = Tail(finWait) /\ delivered >= Head(finWait)
        /\ frames' = frames + 1 /\ rResult' = rResult
        /\ finVerify' = finVerify \cup {[frames |-> frames + 1, bytes |-> delivered]}
        /\ initStage' = initStage /\ delivered' = delivered
    BY <1>5, <1>8 DEF FinResumes, windowVars
  <2>2. /\ Len(finWait) > 0 /\ Head(finWait) = finWait[1] /\ Len(finWait') = Len(finWait) - 1
        /\ \A i \in 1 .. Len(finWait) - 1 : finWait'[i] = finWait[i + 1]
    BY <1>1, <2>1, SeqSteps
  <2>3. nextSeq = Chunks /\ delivered = Chunks /\ initStage = "ready"
    <3>1. finWait[1] = Chunks /\ nextSeq = Chunks
      BY <1>1, <2>2 DEF FinInv
    <3>2. QED
      BY <1>1, <2>1, <2>2, <3>1 DEF DeliveryInv
  <2>4. LineInv'
    BY <1>2, <1>3, <1>4, <2>1, <2>3 DEF LineInv
  <2>5. \A i \in 1 .. Len(finWait') : finWait'[i] = Chunks /\ nextSeq' = Chunks
    <3>1. \A i \in 1 .. Len(finWait') : i + 1 \in 1 .. Len(finWait) /\ i \in 1 .. Len(finWait) - 1
      BY <1>1, <2>2
    <3>2. QED
      BY <1>4, <2>2, <2>3, <3>1 DEF FinInv
  <2>6. frames > nextSeq
        /\ frames - 1 - nextSeq + Len(finWait) + (Len(s2r) - (seq - nextSeq)) <= FinsSent
    BY <2>3 DEF FinInv
  <2>7. frames' > nextSeq'
        /\ frames' - 1 - nextSeq' + Len(finWait') + (Len(s2r') - (seq' - nextSeq')) <= FinsSent'
    BY <1>1, <1>2, <1>3, <1>4, <2>1, <2>2, <2>6
  <2>8. ASSUME NEW h \in finVerify'
        PROVE  /\ h.bytes = Chunks /\ delivered' = Chunks
               /\ Chunks + 2 <= h.frames /\ h.frames <= frames'
    <3>1. CASE h = [frames |-> frames + 1, bytes |-> delivered]
      BY <1>1, <2>1, <2>3, <2>6, <3>1
    <3>2. CASE h \in finVerify
      <4>1. h.frames \in Nat
        BY <3>2 DEF TypeOK, QueuesTyped, Hashed
      <4>2. QED
        BY <1>1, <2>1, <3>2, <4>1 DEF FinInv
    <3>3. QED
      BY <2>1, <2>8, <3>1, <3>2
  <2>9. FinInv'
    BY <2>5, <2>7, <2>8 DEF FinInv
  <2>10. QED
    BY <2>1, <2>4, <2>9 DEF OnlyRetriedFinRejects
<1>9. ASSUME NEW h \in finVerify, FinDone(h)
      PROVE  LineInv' /\ FinInv' /\ OnlyRetriedFinRejects'
  <2>1. /\ initStage' = initStage /\ frames' = frames /\ finWait' = finWait
        /\ delivered' = delivered /\ finVerify' = finVerify \ {h}
    BY <1>9 DEF FinDone, windowVars
  <2>2. /\ h.bytes = Chunks /\ delivered = Chunks /\ Chunks + 2 <= h.frames
        /\ h.frames <= frames /\ initStage = "ready" /\ h.frames \in Nat
    BY <1>9 DEF FinInv, DeliveryInv, TypeOK, QueuesTyped, Hashed
  <2>3. LineInv'
    BY <1>2, <1>3, <1>4, <2>1 DEF LineInv
  <2>4. FinInv'
    BY <1>2, <1>3, <1>4, <2>1 DEF FinInv
  <2>5. ~SignatureMatches(h) => tries > 0
    <3>1. SUFFICES ASSUME ~SignatureMatches(h) PROVE tries > 0
      OBVIOUS
    <3>2. frames >= Chunks + 3
      BY <1>1, <2>2, <3>1 DEF SignatureMatches
    <3>3. /\ frames - 1 - nextSeq + Len(finWait) + (Len(s2r) - (seq - nextSeq)) <= FinsSent
          /\ seq - nextSeq <= Len(s2r) /\ nextSeq = Chunks
      BY <1>1, <2>2 DEF FinInv, LineInv, InLine
    <3>4. FinsSent >= 2
      BY <1>1, <3>2, <3>3
    <3>5. QED
      BY <1>1, <3>4 DEF FinsSent
  <2>6. delivered = TotalBytes
    BY <1>1, <2>2 DEF TotalBytes
  <2>7. \/ Signed /\ HasVerifyKey /\ rResult' = "NC_SIGNATURE_INVALID" /\ ~SignatureMatches(h)
        \/ rResult' = "ok" /\ verified' = (verified \/ (Signed /\ HasVerifyKey))
    BY <1>9, <2>2, <2>6 DEF FinDone, Settle
  <2>8. OnlyRetriedFinRejects'
    BY <1>3, <2>5, <2>7 DEF OnlyRetriedFinRejects
  <2>9. QED
    BY <2>3, <2>4, <2>8
<1>10. QED
  BY <1>6, <1>7, <1>8, <1>9 DEF ReceiverStep

LEMMA RetryNext ==
  ASSUME Orderly, TypeOK, DeliveryInv, OrderInv, RetryInv, [Next]_vars
  PROVE  RetryInv'
<1>1. CASE rResult # "pending"
  <2>1. rResult' = rResult /\ tries \in Nat /\ tries' \in Nat /\ tries' >= tries
        /\ (verified => verified')
    BY <1>1, SettledStays DEF TypeOK, CountersTyped
  <2>2. OnlyRetriedFinRejects
    BY DEF RetryInv
  <2>3. tries > 0 => tries' > 0
    BY <2>1
  <2>4. OnlyRetriedFinRejects'
    BY <1>1, <2>1, <2>2, <2>3 DEF OnlyRetriedFinRejects
  <2>5. QED
    BY <1>1, <2>1, <2>4 DEF RetryInv
<1>2. CASE rResult = "pending"
  <2>1. LineInv /\ FinInv
    BY <1>2 DEF RetryInv
  <2>2. CASE SenderStep \/ SenderHandler
    BY <1>2, <2>1, <2>2, SenderKeepsOrder DEF RetryInv, OnlyRetriedFinRejects
  <2>3. CASE ReceiverHandler
    BY <1>2, <2>1, <2>3, ReceiverTakesInOrder DEF RetryInv, OnlyRetriedFinRejects
  <2>4. CASE ReceiverStep
    BY <1>2, <2>1, <2>4, ReceiverStepsInOrder DEF RetryInv
  <2>5. CASE UNCHANGED vars
    <3>1. /\ sPc' = sPc /\ seq' = seq /\ tries' = tries /\ sOpen' = sOpen /\ rOpen' = rOpen
          /\ initStage' = initStage /\ frames' = frames /\ finWait' = finWait
          /\ delivered' = delivered /\ finVerify' = finVerify /\ nextSeq' = nextSeq
          /\ backlog' = backlog /\ sinkOk' = sinkOk /\ s2r' = s2r /\ rResult' = rResult
      BY <2>5 DEF vars, senderVars, receiverVars, windowVars, finVars
    <3>2. LineInv'
      BY <2>1, <3>1 DEF LineInv
    <3>3. FinInv'
      BY <2>1, <3>1 DEF FinInv, FinsSent
    <3>4. QED
      BY <1>2, <3>1, <3>2, <3>3 DEF RetryInv, OnlyRetriedFinRejects
  <2>6. QED
    BY <2>2, <2>3, <2>4, <2>5, OnlyTheProgramsMove
<1>3. QED
  BY <1>1, <1>2

\* On a transport that keeps and orders its frames, with nobody giving up, the
\* receiver fails for no other reason than a FIN the sender has retried: the
\* second handler hashes a transcript with one frame too many.  Every source,
\* window, credit, number of backlogged chunks and number of retries.
THEOREM OnlyRetriesAreRefused == Orderly => (Spec => []OnlyRetriedFinRejects)
<1> SUFFICES ASSUME Orderly PROVE Spec => []OnlyRetriedFinRejects
  OBVIOUS
<1>1. Init => RetryInv
  BY RetryInit
<1>2. IInv /\ RetryInv /\ [Next]_vars => RetryInv'
  BY RetryNext DEF IInv
<1>3. RetryInv => OnlyRetriedFinRejects
  BY DEF RetryInv
<1>4. QED
  BY <1>1, <1>2, <1>3, StreamInvariant, PTL DEF Spec

============================================================================
