-------------------------- MODULE NoisyAuthProofs --------------------------
(***************************************************************************)
(* What holds of NoisyAuth under either policy, for any number of lost and *)
(* repeated frames and every mix of faults.                                *)
(***************************************************************************)
EXTENDS NoisyAuth, TLAPS

(***************************************************************************)
(* The inductive invariant.                                                *)
(***************************************************************************)

\* The commitment went out in a turn that moved the receiver on, or it was
\* resent by the timer that ended the receiver.
CommitOut == torn["R"] \/ fsm["R"] # "IDLE"

\* What the receiver ever sends: the nonce it drew, a REVEAL only after an
\* OFFER, a confirmation only after its user's.
FromReceiver ==
    {f \in Frame :
        /\ f.type \in {"none", "commit", "reveal", "rcvconfirm"}
        /\ f.type \in {"commit", "reveal"} => f.nonce = 1 /\ nonceR = 1
        /\ f.type = "reveal" => offer = 1
        /\ f.type = "rcvconfirm" => accepted["R"]}

\* What the sender ever sends.
FromSender ==
    {f \in Frame :
        /\ f.type \in {"none", "offer", "rcvconfirm"}
        /\ f.type = "offer" => f.nonce = 1 /\ offer = 1
        /\ f.type = "rcvconfirm" => accepted["S"]}

ForSender   == {f \in FromReceiver : f.type = "commit" => CommitOut}
ForReceiver == {f \in FromSender : f.type = "offer" => fsm["R"] # "IDLE"}

FramesInv ==
    /\ net["S"] \in Seq(ForSender) /\ inbox["S"] \in Seq(ForSender)
    /\ net["R"] \in Seq(FromSender) /\ inbox["R"] \in Seq(ForReceiver)
    /\ lastSent["R"] \in FromReceiver /\ lastSent["S"] \in FromSender

\* Each side draws one nonce, and whatever is bound was drawn before.
NonceInv ==
    /\ nonceR <= 1 /\ seenCommit <= nonceR /\ offer <= seenCommit /\ seenOffer <= offer
    /\ commitStage = "computing" => nonceR = 0
    /\ ~started["R"] => nonceR = 0 /\ commitStage = "none"
    /\ commitStage = "retry" => nonceR = 1
    /\ seenCommit = 1 => CommitOut
    /\ pc["S"] # "idle" => revealed = 1 /\ offer = 1
    /\ pc["R"] # "idle" => seenOffer = 1 /\ pc["R"] # "verify"
    /\ \A r \in Role : sas[r] \in {NoSas, <<1, 1, 1>>}

Waiting(r) == pc[r] \in {"sas", "confirm"} \/ awaiting[r]

\* The state machine stands where each handler expects it.
FsmInv ==
    /\ \A r \in Role : ~started[r] => /\ fsm[r] = "IDLE" /\ timer[r] = "off"
                                     /\ pc[r] = "idle" /\ inbox[r] = <<>>
    /\ \A r \in Role : Waiting(r) => fsm[r] \in {"SAS_CONFIRM"} \cup Terminal
    /\ seenOffer = 0 => fsm["R"] \in {"IDLE", "WAIT_OFFER"}

AcceptInv ==
    /\ \A r \in Role : awaiting[r] \/ done[r] > 0 => accepted[r]
    /\ DoneMeansBothAccepted

IInv == TypeOK /\ FramesInv /\ NonceInv /\ FsmInv /\ AcceptInv /\ HonestPeerNotBlamed

----------------------------------------------------------------------------
(* Sequences and tables. *)

LEMMA QueueOf ==
  ASSUME NEW S, NEW q \in Seq(S)
  PROVE  /\ \A e \in S : Append(q, e) \in Seq(S)
         /\ q # <<>> => /\ Head(q) \in S
                        /\ Tail(q) \in Seq(S)
                        /\ Append(q, Head(q)) \in Seq(S)
  OBVIOUS

LEMMA QueueGrows ==
  ASSUME NEW S, NEW T, S \subseteq T, NEW q \in Seq(S)
  PROVE  q \in Seq(T)
  OBVIOUS

LEMMA Tables ==
    /\ NextState("S", "IDLE", "room_full") = "WAIT_COMMIT"
    /\ NextState("S", "WAIT_COMMIT", "commit") = "WAIT_REVEAL"
    /\ NextState("S", "WAIT_REVEAL", "reveal") = "SAS_CONFIRM"
    /\ NextState("R", "WAIT_OFFER", "offer") = "SAS_CONFIRM"
    /\ \A r \in Role : NextState(r, "SAS_CONFIRM", "rcvconfirm") = "READY"
    /\ \A r \in Role, cur \in Terminal : \A event : NextState(r, cur, event) = cur
    /\ \A cur \in States : Allows("S", cur, "reveal") =>
          /\ cur \in {"WAIT_REVEAL"} \cup Terminal
          /\ NextState("S", cur, "reveal") \in {"SAS_CONFIRM"} \cup Terminal
  BY DEF NextState, Table, Terminal, Allows, Role, States

\* A message that is being handled is one the peer sends.
LEMMA HandledBySender ==
  ASSUME IInv, NEW type, Handling("S", type), Take("S")
  PROVE  /\ Head(inbox["S"]) \in ForSender /\ Head(inbox["S"]).type = type
         /\ inbox'["S"] \in Seq(ForSender) /\ inbox'["R"] = inbox["R"]
         /\ pc["S"] = "idle"
  BY QueueOf DEF IInv, FramesInv, Handling, Take, TypeOK, Role

LEMMA HandledByReceiver ==
  ASSUME IInv, NEW type, Handling("R", type), Take("R")
  PROVE  /\ Head(inbox["R"]) \in ForReceiver /\ Head(inbox["R"]).type = type
         /\ inbox'["R"] \in Seq(ForReceiver) /\ inbox'["S"] = inbox["S"]
         /\ pc["R"] = "idle"
  BY QueueOf DEF IInv, FramesInv, Handling, Take, TypeOK, Role

LEMMA HandledFrames ==
  ASSUME IInv
  PROVE  /\ Handling("S", "commit") => Head(inbox["S"]).nonce = 1 /\ nonceR = 1 /\ CommitOut
         /\ Handling("S", "reveal") => Head(inbox["S"]).nonce = 1 /\ offer = 1
         /\ Handling("R", "offer") => /\ Head(inbox["R"]).nonce = 1 /\ offer = 1
                                     /\ fsm["R"] # "IDLE"
         /\ \A r \in Role : Handling(r, "rcvconfirm") => accepted[Other(r)]
<1>1. /\ inbox["S"] # <<>> => Head(inbox["S"]) \in ForSender
      /\ inbox["R"] # <<>> => Head(inbox["R"]) \in ForReceiver
  BY QueueOf DEF IInv, FramesInv
<1>2. QED
  BY <1>1 DEF Handling, ForSender, ForReceiver, FromSender, FromReceiver, Role, Other

LEMMA TypeInit == Init => TypeOK
<1> SUFFICES ASSUME Init PROVE TypeOK
  OBVIOUS
<1>1. /\ started \in [Role -> BOOLEAN] /\ torn \in [Role -> BOOLEAN] /\ finished \in BOOLEAN
      /\ awaiting \in [Role -> BOOLEAN] /\ accepted \in [Role -> BOOLEAN]
  BY Zenon DEF Init
<1>2. /\ fsm \in [Role -> States] /\ (\A r \in Role : fsm[r] \in StatesOf(r))
      /\ timer \in [Role -> Timeouts \cup {"off"}] /\ failed \in [Role -> SUBSET Codes]
      /\ pc \in [Role -> {"idle", "verify", "sas", "confirm"}]
  BY DEF Init, States, StatesOf
<1>3. inbox \in [Role -> Seq(Frame)] /\ net \in [Role -> Seq(Frame)] /\ lastSent \in [Role -> Frame]
  BY DEF Init, Frame, NoFrame
<1>4. /\ done \in [Role -> Nat] /\ sas \in [Role -> Nat \X Nat \X Nat]
      /\ link \in [Role -> {"connecting", "open", "closed"}]
  BY DEF Init, NoSas
<1>5. QED
  BY <1>1, <1>2, <1>3, <1>4 DEF Init, TypeOK

LEMMA InvInit == Init => IInv
<1> SUFFICES ASSUME Init PROVE IInv
  OBVIOUS
<1>1. TypeOK
  BY TypeInit
<1>2. FramesInv /\ NonceInv
  BY DEF Init, FramesInv, NonceInv, Role, Frame, NoFrame, NoSas, FromReceiver, FromSender
<1>3. FsmInv /\ AcceptInv /\ HonestPeerNotBlamed
  BY DEF Init, FsmInv, AcceptInv, HonestPeerNotBlamed, DoneMeansBothAccepted, Waiting, Role
<1>4. QED
  BY <1>1, <1>2, <1>3 DEF IInv

----------------------------------------------------------------------------
(* The state machines. *)

\* The only moves of the two state machines.
Edge(r, a, b) ==
    /\ a \notin Terminal
    /\ \/ r = "S" /\ b = "ERROR"
       \/ a = "SAS_CONFIRM" /\ b \in {"READY", "MALLORY"}
       \/ <<r, a, b>> \in {<<"S", "IDLE", "WAIT_COMMIT">>, <<"S", "WAIT_COMMIT", "WAIT_REVEAL">>,
                           <<"S", "WAIT_REVEAL", "SAS_CONFIRM">>,
                           <<"R", "IDLE", "WAIT_OFFER">>, <<"R", "WAIT_OFFER", "SAS_CONFIRM">>}

FsmMoves == /\ fsm' \in [Role -> States]
            /\ \A r \in Role : fsm'[r] = fsm[r] \/ Edge(r, fsm[r], fsm'[r])

LEMMA MoveOf ==
  ASSUME TypeOK, NEW r \in Role, NEW v \in States, fsm' = [fsm EXCEPT ![r] = v],
         v = fsm[r] \/ Edge(r, fsm[r], v)
  PROVE  FsmMoves
  BY DEF TypeOK, FsmMoves

LEMMA NoMove == ASSUME TypeOK, fsm' = fsm PROVE FsmMoves
  BY DEF TypeOK, FsmMoves

LEMMA FailMoves ==
  ASSUME TypeOK, NEW r \in Role, NEW cur \in States, NEW code, Fail(r, cur, code),
         cur = fsm[r] \/ Edge(r, fsm[r], cur)
  PROVE  FsmMoves
<1>1. CASE r = "S" /\ cur \notin Terminal
  <2>1. fsm' = [fsm EXCEPT ![r] = "ERROR"]
    BY <1>1 DEF Fail, Stopped
  <2>2. fsm[r] \notin Terminal
    BY <1>1 DEF Edge
  <2>3. QED
    BY <1>1, <2>1, <2>2, MoveOf DEF Edge, States, Terminal
<1>2. CASE ~(r = "S" /\ cur \notin Terminal)
  <2>1. fsm' = [fsm EXCEPT ![r] = cur]
    BY <1>2 DEF Fail, Stopped
  <2>2. QED
    BY <2>1, MoveOf
<1>3. QED
  BY <1>1, <1>2

LEMMA ConfirmedFsm ==
  ASSUME TypeOK, FsmInv, NEW r \in Role, Waiting(r), Advance(r, "rcvconfirm")
  PROVE  FsmMoves
<1>1. fsm[r] \in {"SAS_CONFIRM"} \cup Terminal
  BY DEF FsmInv
<1>2. fsm' = [fsm EXCEPT ![r] = NextState(r, fsm[r], "rcvconfirm")]
  BY DEF Advance, TypeOK
<1>3. CASE fsm[r] = "SAS_CONFIRM"
  <2>1. NextState(r, fsm[r], "rcvconfirm") = "READY"
    BY <1>3, Tables
  <2>2. Edge(r, fsm[r], "READY")
    BY <1>3 DEF Edge, Terminal
  <2>3. QED
    BY <1>2, <2>1, <2>2, MoveOf DEF States, Terminal
<1>4. CASE fsm[r] \in Terminal
  <2>1. NextState(r, fsm[r], "rcvconfirm") = fsm[r]
    BY <1>4, Tables
  <2>2. fsm[r] \in States
    BY DEF TypeOK
  <2>3. QED
    BY <1>2, <2>1, <2>2, MoveOf
<1>5. QED
  BY <1>1, <1>3, <1>4

\* Handlers find the state machine where they expect it: every step follows the
\* tables, and none throws that the code does not guard.
LEMMA FsmStep == IInv /\ [Next]_vars => FsmMoves
<1> SUFFICES ASSUME IInv, [Next]_vars PROVE FsmMoves
  OBVIOUS
<1> USE DEF IInv
<1>1. CASE BindCommit
  <2>1. fsm["S"] = "WAIT_COMMIT" /\ NextState("S", "WAIT_COMMIT", "commit") = "WAIT_REVEAL"
    BY <1>1, Tables DEF BindCommit
  <2>2. \/ fsm' = [fsm EXCEPT !["S"] = "WAIT_REVEAL"]
        \/ Fail("S", "WAIT_REVEAL", "handle_error")
        \/ Fail("S", "WAIT_REVEAL", "peer_id_mismatch")
    BY <1>1, <2>1 DEF BindCommit, SendOr, Advance
  <2>3. Edge("S", "WAIT_COMMIT", "WAIT_REVEAL")
    BY DEF Edge, Terminal
  <2>4. QED
    BY <2>1, <2>2, <2>3, MoveOf, FailMoves DEF Role, States
<1>2. CASE CommitAgain
  <2>1. fsm' = fsm \/ \E code \in Codes : Fail("S", fsm["S"], code)
    BY <1>2 DEF CommitAgain, control, Codes
  <2>2. fsm["S"] \in States
    BY DEF TypeOK, Role
  <2>3. QED
    BY <2>1, <2>2, NoMove, FailMoves DEF Role
<1>3. CASE OnReveal
  BY <1>3, NoMove DEF OnReveal, control
<1>4. CASE Verified
  <2>1. revealed = seenCommit
    BY <1>4 DEF Verified, NonceInv, TypeOK
  <2>2. fsm["S"] \in States
    BY DEF TypeOK, Role
  <2>3. CASE Fail("S", fsm["S"], "handle_error")
    BY <2>2, <2>3, FailMoves DEF Role
  <2>4. CASE Allows("S", fsm["S"], "reveal") /\ Advance("S", "reveal")
    <3>1. fsm' = [fsm EXCEPT !["S"] = NextState("S", fsm["S"], "reveal")]
      BY <2>4 DEF Advance, TypeOK
    <3>2. CASE fsm["S"] = "WAIT_REVEAL"
      <4>1. NextState("S", fsm["S"], "reveal") = "SAS_CONFIRM"
        BY <3>2, Tables
      <4>2. Edge("S", fsm["S"], "SAS_CONFIRM")
        BY <3>2 DEF Edge, Terminal
      <4>3. QED
        BY <3>1, <4>1, <4>2, MoveOf DEF States, Role
    <3>3. CASE fsm["S"] \in Terminal
      <4>1. NextState("S", fsm["S"], "reveal") = fsm["S"]
        BY <3>3, Tables DEF Role
      <4>2. QED
        BY <2>2, <3>1, <4>1, MoveOf DEF Role
    <3>4. QED
      BY <2>2, <2>4, <3>2, <3>3, Tables
  <2>5. QED
    BY <1>4, <2>1, <2>3, <2>4 DEF Verified
<1>5. CASE SendCommit
  <2>1. fsm["R"] \in States /\ fsm["R"] # "WAIT_COMMIT"
    BY DEF TypeOK, Role, StatesOf
  <2>2. fsm' = fsm \/ fsm' = [fsm EXCEPT !["R"] = AfterCommitSent(fsm["R"])]
    BY <1>5 DEF SendCommit
  <2>3. AfterCommitSent(fsm["R"]) = fsm["R"] \/ Edge("R", fsm["R"], AfterCommitSent(fsm["R"]))
    BY <2>1 DEF AfterCommitSent, Edge, Terminal
  <2>4. AfterCommitSent(fsm["R"]) \in States
    BY <2>1 DEF AfterCommitSent, States
  <2>5. QED
    BY <2>2, <2>3, <2>4, NoMove, MoveOf DEF Role
<1>6. CASE BindOffer
  <2>1. fsm["R"] = "WAIT_OFFER"
    BY <1>6, HandledFrames DEF BindOffer, FsmInv
  <2>2. NextState("R", fsm["R"], "offer") = "SAS_CONFIRM"
    BY <2>1, Tables
  <2>3. \/ fsm' = [fsm EXCEPT !["R"] = "SAS_CONFIRM"]
        \/ Fail("R", "SAS_CONFIRM", "handle_error")
    BY <1>6, <2>2 DEF BindOffer, SendOr, Advance
  <2>4. Edge("R", "WAIT_OFFER", "SAS_CONFIRM")
    BY DEF Edge, Terminal
  <2>5. QED
    BY <2>1, <2>3, <2>4, MoveOf, FailMoves DEF Role, States
<1>7. CASE OfferAgain
  <2>1. fsm' = fsm \/ Fail("R", fsm["R"], "offer_conflict")
    BY <1>7 DEF OfferAgain, control
  <2>2. fsm["R"] \in States
    BY DEF TypeOK, Role
  <2>3. QED
    BY <2>1, <2>2, NoMove, FailMoves DEF Role
<1>8. ASSUME NEW r \in Role, ShowSas(r) PROVE FsmMoves
  BY <1>8, NoMove DEF ShowSas, control
<1>9. ASSUME NEW r \in Role, OnRcvConfirm(r) PROVE FsmMoves
  <2>1. fsm' = fsm \/ (Waiting(r) /\ Advance(r, "rcvconfirm"))
    BY <1>9 DEF OnRcvConfirm, Counts, Waiting, control
  <2>2. QED
    BY <2>1, NoMove, ConfirmedFsm
<1>10. ASSUME NEW r \in Role, Start(r) PROVE FsmMoves
  <2>1. CASE r = "S"
    <3>1. fsm["S"] = "IDLE"
      BY <1>10, <2>1 DEF Start, FsmInv
    <3>2. fsm' = [fsm EXCEPT !["S"] = "WAIT_COMMIT"]
      BY <1>10, <2>1, <3>1, Tables DEF Start, Advance
    <3>3. QED
      BY <3>1, <3>2, MoveOf DEF Edge, Terminal, States, Role
  <2>2. CASE r # "S"
    BY <1>10, <2>2, NoMove DEF Start
  <2>3. QED
    BY <2>1, <2>2
<1>11. ASSUME NEW r \in Role, Confirm(r) PROVE FsmMoves
  <2>1. Waiting(r) /\ fsm[r] \in States
    BY <1>11 DEF Confirm, Waiting, TypeOK
  <2>2. \/ fsm' = fsm
        \/ Advance(r, "rcvconfirm")
        \/ Fail(r, fsm[r], "handle_error")
    BY <1>11 DEF Confirm, Confirmed
  <2>3. QED
    BY <2>1, <2>2, NoMove, ConfirmedFsm, FailMoves
<1>12. ASSUME NEW r \in Role, Reject(r) PROVE FsmMoves
  <2>1. fsm[r] \in {"SAS_CONFIRM"} \cup Terminal
    BY <1>12 DEF Reject, FsmInv, Waiting
  <2>2. Stopped(fsm[r], "MALLORY") \in States
    BY <2>1 DEF Stopped, States, Terminal
  <2>3. Stopped(fsm[r], "MALLORY") = fsm[r] \/ Edge(r, fsm[r], Stopped(fsm[r], "MALLORY"))
    BY <2>1 DEF Stopped, Edge, Terminal
  <2>4. QED
    BY <1>12, <2>2, <2>3, FailMoves DEF Reject
<1>13. ASSUME NEW r \in Role, AppClose(r) PROVE FsmMoves
  BY <1>13, NoMove DEF AppClose, control
<1>14. ASSUME NEW r \in Role, Arrive(r) PROVE FsmMoves
  BY <1>14, NoMove DEF Arrive, control
<1>15. ASSUME NEW r \in Role, LinkUp(r) PROVE FsmMoves
  BY <1>15, NoMove DEF LinkUp, control
<1>16. ASSUME NEW r \in Role, LinkDown(r) PROVE FsmMoves
  BY <1>16, NoMove DEF LinkDown, control
<1>17. ASSUME NEW r \in Role, Lose(r) PROVE FsmMoves
  BY <1>17, NoMove DEF Lose, control
<1>18. ASSUME NEW r \in Role, Repeat(r) PROVE FsmMoves
  BY <1>18, NoMove DEF Repeat, control
<1>19. ASSUME NEW r \in Role, Expire(r) PROVE FsmMoves
  <2>1. fsm[r] \in States
    BY DEF TypeOK
  <2>2. QED
    BY <1>19, <2>1, FailMoves DEF Expire
<1>20. CASE UNCHANGED vars
  BY <1>20, NoMove DEF vars, control
<1>21. QED
  BY <1>1, <1>2, <1>3, <1>4, <1>5, <1>6, <1>7, <1>8, <1>9, <1>10, <1>11, <1>12, <1>13, <1>14, <1>15, <1>16, <1>17, <1>18, <1>19, <1>20 DEF Next, Handler, User, Network
----------------------------------------------------------------------------
(* What a step keeps. *)

\* Who writes what.
LEMMA Writers ==
  ASSUME [Next]_vars
  PROVE  /\ SendCommit \/ nonceR' = nonceR
         /\ BindCommit \/ (offer' = offer /\ seenCommit' = seenCommit)
         /\ BindOffer \/ seenOffer' = seenOffer
         /\ accepted' = accepted \/ \E r \in Role : Confirm(r)
         /\ sas' = sas \/ \E r \in Role : ShowSas(r)
<1>1. CASE BindCommit
  BY <1>1 DEF BindCommit, receiverData, verdict, SendOr, Advance, Fail
<1>2. CASE CommitAgain
  BY <1>2 DEF CommitAgain, senderData, receiverData, verdict
<1>3. CASE OnReveal
  BY <1>3 DEF OnReveal, receiverData, verdict
<1>4. CASE Verified
  BY <1>4 DEF Verified, senderData, receiverData, verdict
<1>5. CASE SendCommit
  BY <1>5 DEF SendCommit, senderData, verdict
<1>6. CASE BindOffer
  BY <1>6 DEF BindOffer, senderData, verdict
<1>7. CASE OfferAgain
  BY <1>7 DEF OfferAgain, senderData, receiverData, verdict
<1>8. CASE \E r \in Role : ShowSas(r)
  BY <1>8 DEF ShowSas, senderData, receiverData
<1>9. CASE \E r \in Role : OnRcvConfirm(r)
  BY <1>9 DEF OnRcvConfirm, receiverData
<1>10. CASE \E r \in Role : Start(r)
  BY <1>10 DEF Start, senderData, verdict
<1>11. CASE \E r \in Role : Confirm(r)
  BY <1>11 DEF Confirm, Confirmed, receiverData
<1>12. CASE \E r \in Role : Reject(r)
  BY <1>12 DEF Reject, senderData, receiverData, verdict
<1>13. CASE \E r \in Role : AppClose(r)
  BY <1>13 DEF AppClose, senderData, receiverData, verdict
<1>14. CASE \E r \in Role : Arrive(r)
  BY <1>14 DEF Arrive, senderData, receiverData, verdict
<1>15. CASE \E r \in Role : LinkUp(r)
  BY <1>15 DEF LinkUp, senderData, receiverData, verdict
<1>16. CASE \E r \in Role : LinkDown(r)
  BY <1>16 DEF LinkDown, senderData, receiverData, verdict
<1>17. CASE \E r \in Role : Lose(r)
  BY <1>17 DEF Lose, senderData, receiverData, verdict
<1>18. CASE \E r \in Role : Repeat(r)
  BY <1>18 DEF Repeat, senderData, receiverData, verdict
<1>19. CASE \E r \in Role : Expire(r)
  BY <1>19 DEF Expire, senderData, receiverData, verdict
<1>20. CASE UNCHANGED vars
  BY <1>20 DEF vars, senderData, receiverData, verdict
<1>21. QED
  BY <1>1, <1>2, <1>3, <1>4, <1>5, <1>6, <1>7, <1>8, <1>9, <1>10, <1>11, <1>12, <1>13, <1>14, <1>15, <1>16, <1>17, <1>18, <1>19, <1>20 DEF Next, Handler, User, Network

\* A torn down side stays so, and a frame the receiver could send it still can.
LEMMA TornStep ==
  ASSUME [Next]_vars
  PROVE  torn' = torn \/ \E r \in Role : torn' = [torn EXCEPT ![r] = TRUE]
<1>1. CASE BindCommit
  BY <1>1 DEF BindCommit, Role, Fail, control, Advance, SendOr
<1>2. CASE CommitAgain
  BY <1>2 DEF CommitAgain, Role, Fail, control
<1>3. CASE OnReveal
  BY <1>3 DEF OnReveal, Role, Fail, control
<1>4. CASE Verified
  BY <1>4 DEF Verified, Role, Fail, control, Advance
<1>5. CASE SendCommit
  BY <1>5 DEF SendCommit, Role, Fail, control
<1>6. CASE BindOffer
  BY <1>6 DEF BindOffer, Role, Fail, control, Advance, SendOr
<1>7. CASE OfferAgain
  BY <1>7 DEF OfferAgain, Role, Fail, control
<1>8. CASE \E r \in Role : ShowSas(r)
  BY <1>8 DEF ShowSas, Role, Fail, control
<1>9. CASE \E r \in Role : OnRcvConfirm(r)
  BY <1>9 DEF OnRcvConfirm, Role, Fail, control, Advance
<1>10. CASE \E r \in Role : Start(r)
  BY <1>10 DEF Start, Role, Fail, control, Advance
<1>11. CASE \E r \in Role : Confirm(r)
  BY <1>11 DEF Confirm, Role, Fail, control, Advance, Confirmed
<1>12. CASE \E r \in Role : Reject(r)
  BY <1>12 DEF Reject, Role, Fail, control
<1>13. CASE \E r \in Role : AppClose(r)
  BY <1>13 DEF AppClose, Role, Fail, control
<1>14. CASE \E r \in Role : Arrive(r)
  BY <1>14 DEF Arrive, Role, Fail, control
<1>15. CASE \E r \in Role : LinkUp(r)
  BY <1>15 DEF LinkUp, Role, Fail, control
<1>16. CASE \E r \in Role : LinkDown(r)
  BY <1>16 DEF LinkDown, Role, Fail, control
<1>17. CASE \E r \in Role : Lose(r)
  BY <1>17 DEF Lose, Role, Fail, control
<1>18. CASE \E r \in Role : Repeat(r)
  BY <1>18 DEF Repeat, Role, Fail, control
<1>19. CASE \E r \in Role : Expire(r)
  BY <1>19 DEF Expire, Role, Fail, control
<1>20. CASE UNCHANGED vars
  BY <1>20 DEF vars, control
<1>21. QED
  BY <1>1, <1>2, <1>3, <1>4, <1>5, <1>6, <1>7, <1>8, <1>9, <1>10, <1>11, <1>12, <1>13,
     <1>14, <1>15, <1>16, <1>17, <1>18, <1>19, <1>20 DEF Next, Handler, User, Network

LEMMA Grows ==
  ASSUME IInv, [Next]_vars
  PROVE  /\ nonceR = 1 => nonceR' = 1
         /\ offer = 1 => offer' = 1
         /\ \A r \in Role : accepted[r] => accepted'[r]
         /\ fsm["R"] # "IDLE" => fsm'["R"] # "IDLE"
         /\ CommitOut => CommitOut'
<1>1. nonceR = 1 => nonceR' = 1
  <2>1. SendCommit => nonceR' = nonceR \/ nonceR = 0
    BY DEF SendCommit, IInv, NonceInv
  <2>2. QED
    BY <2>1, Writers
<1>2. offer = 1 => offer' = 1
  <2>1. BindCommit => offer = 0
    BY DEF BindCommit, IInv, NonceInv, TypeOK
  <2>2. QED
    BY <2>1, Writers
<1>3. \A r \in Role : accepted[r] => accepted'[r]
  <2>1. accepted' = accepted \/ \E r \in Role : accepted' = [accepted EXCEPT ![r] = TRUE]
    BY Writers DEF Confirm
  <2>2. accepted \in [Role -> BOOLEAN]
    BY DEF IInv, TypeOK
  <2>3. QED
    BY <2>1, <2>2
<1>4. fsm["R"] # "IDLE" => fsm'["R"] # "IDLE"
  BY FsmStep DEF FsmMoves, Edge, Role, Terminal
<1>5. torn["R"] => torn'["R"]
  BY TornStep DEF IInv, TypeOK, Role
<1>6. QED
  BY <1>1, <1>2, <1>3, <1>4, <1>5 DEF CommitOut

LEMMA FramesGrow ==
  ASSUME IInv, [Next]_vars
  PROVE  /\ FromReceiver \subseteq FromReceiver' /\ FromSender \subseteq FromSender'
         /\ ForSender \subseteq ForSender' /\ ForReceiver \subseteq ForReceiver'
<1>1. FromReceiver \subseteq FromReceiver' /\ FromSender \subseteq FromSender'
  BY Grows DEF FromReceiver, FromSender, Role
<1>2. QED
  BY <1>1, Grows DEF ForSender, ForReceiver

LEMMA OldFrames ==
  ASSUME IInv, [Next]_vars
  PROVE  /\ net["S"] \in Seq(ForSender') /\ inbox["S"] \in Seq(ForSender')
         /\ net["R"] \in Seq(FromSender') /\ inbox["R"] \in Seq(ForReceiver')
         /\ lastSent["R"] \in FromReceiver' /\ lastSent["S"] \in FromSender'
  BY FramesGrow, QueueGrows DEF IInv, FramesInv

LEMMA SentKeeps ==
  ASSUME TypeOK, NEW A, NEW B, net["S"] \in Seq(A), net["R"] \in Seq(B),
         NEW r \in Role, NEW f, r = "S" => f \in B, r = "R" => f \in A
  PROVE  Sent(r, f)["S"] \in Seq(A) /\ Sent(r, f)["R"] \in Seq(B)
<1>1. CASE link[r] = "open"
  <2>1. Sent(r, f) = [net EXCEPT ![Other(r)] = Append(@, f)]
    BY <1>1 DEF Sent
  <2>2. net \in [Role -> Seq(Frame)]
    BY DEF TypeOK
  <2>3. CASE r = "S"
    BY <2>1, <2>2, <2>3, QueueOf DEF Other, Role
  <2>4. CASE r = "R"
    BY <2>1, <2>2, <2>4, QueueOf DEF Other, Role
  <2>5. QED
    BY <2>3, <2>4 DEF Role
<1>2. CASE link[r] # "open"
  BY <1>2 DEF Sent
<1>3. QED
  BY <1>1, <1>2

\* What a handler sends is a frame of its side.
LEMMA CommitFrame ==
  ASSUME IInv, SendCommit
  PROVE  /\ [type |-> "commit", nonce |-> nonceR'] \in FromReceiver'
         /\ SendThrows("R") \/ CommitOut'
<1>1. nonceR' = 1
  BY DEF IInv, NonceInv, SendCommit
<1>2. [type |-> "commit", nonce |-> nonceR'] \in FromReceiver'
  BY <1>1 DEF FromReceiver, Frame
<1>3. ASSUME ~SendThrows("R") PROVE CommitOut'
  <2>1. fsm' = [fsm EXCEPT !["R"] = AfterCommitSent(fsm["R"])]
    BY <1>3 DEF SendCommit
  <2>2. AfterCommitSent(fsm["R"]) # "IDLE"
    BY DEF AfterCommitSent
  <2>3. QED
    BY <2>1, <2>2 DEF CommitOut, IInv, TypeOK, Role
<1>4. QED
  BY <1>2, <1>3

LEMMA OfferFrame ==
  ASSUME IInv, BindCommit, offer' = offer + 1
  PROVE  [type |-> "offer", nonce |-> OfferSent(offer + 1)] \in FromSender'
<1>1. offer = 0
  BY DEF BindCommit, IInv, NonceInv, TypeOK
<1>2. QED
  BY <1>1 DEF OfferSent, FromSender, Frame

LEMMA RevealFrame ==
  ASSUME IInv, BindOffer
  PROVE  [type |-> "reveal", nonce |-> nonceR] \in ForSender'
<1>1. offer = 1 /\ offer' = offer /\ nonceR' = nonceR
  BY HandledFrames DEF BindOffer, senderData
<1>2. nonceR = 1
  BY <1>1 DEF IInv, NonceInv, TypeOK
<1>3. QED
  BY <1>1, <1>2 DEF ForSender, FromReceiver, Frame

LEMMA ConfirmFrame ==
  ASSUME IInv, NEW r \in Role, Confirm(r)
  PROVE  /\ r = "S" => [type |-> "rcvconfirm", nonce |-> 0] \in FromSender'
         /\ r = "R" => [type |-> "rcvconfirm", nonce |-> 0] \in ForSender'
<1>1. accepted'[r]
  BY DEF Confirm, IInv, TypeOK
<1>2. QED
  BY <1>1 DEF FromSender, ForSender, FromReceiver, Frame

\* The timer resends a COMMIT only as it ends the receiver.
LEMMA ExpireFrame ==
  ASSUME IInv, [Next]_vars, NEW r \in Role, Expire(r)
  PROVE  /\ r = "S" => lastSent[r] \in FromSender'
         /\ r = "R" => lastSent[r] \in ForSender'
<1>1. torn'[r]
  BY DEF Expire, Fail, IInv, TypeOK
<1>2. r = "R" => CommitOut'
  BY <1>1 DEF CommitOut
<1>3. QED
  BY <1>2, OldFrames DEF ForSender

LEMMA NetStep ==
  ASSUME IInv, [Next]_vars
  PROVE  net'["S"] \in Seq(ForSender') /\ net'["R"] \in Seq(FromSender')
<1>1. CASE BindCommit
  <2>1. net' = net \/ (offer' = offer + 1 /\ net' = Sent("S", [type |-> "offer", nonce |-> OfferSent(offer + 1)]))
    BY <1>1 DEF BindCommit, SendOr, wire
  <2>2. QED
    BY <1>1, <2>1, OldFrames, OfferFrame, SentKeeps DEF IInv, Role
<1>2. CASE CommitAgain
  BY <1>2, OldFrames DEF CommitAgain, wire
<1>3. CASE OnReveal
  BY <1>3, OldFrames DEF OnReveal, wire
<1>4. CASE Verified
  BY <1>4, OldFrames DEF Verified, wire
<1>5. CASE SendCommit
  <2>1. net' = Sent("R", [type |-> "commit", nonce |-> nonceR'])
    BY <1>5 DEF SendCommit
  <2>2. CASE SendThrows("R")
    BY <2>1, <2>2, OldFrames DEF SendThrows, Sent
  <2>3. CASE ~SendThrows("R")
    <3>1. [type |-> "commit", nonce |-> nonceR'] \in ForSender'
      BY <1>5, <2>3, CommitFrame DEF ForSender
    <3>2. QED
      BY <2>1, <3>1, OldFrames, SentKeeps DEF IInv, Role
  <2>4. QED
    BY <2>2, <2>3
<1>6. CASE BindOffer
  <2>1. net' = Sent("R", [type |-> "reveal", nonce |-> nonceR])
    BY <1>6 DEF BindOffer, SendOr
  <2>2. QED
    BY <1>6, <2>1, OldFrames, RevealFrame, SentKeeps DEF IInv, Role
<1>7. CASE OfferAgain
  BY <1>7, OldFrames DEF OfferAgain, wire
<1>8. CASE \E r \in Role : ShowSas(r)
  BY <1>8, OldFrames DEF ShowSas, wire
<1>9. CASE \E r \in Role : OnRcvConfirm(r)
  BY <1>9, OldFrames DEF OnRcvConfirm, wire
<1>10. CASE \E r \in Role : Start(r)
  BY <1>10, OldFrames DEF Start, wire
<1>11. CASE \E r \in Role : Confirm(r)
  <2>1. PICK r \in Role : Confirm(r)
    BY <1>11
  <2>2. net' = Sent(r, [type |-> "rcvconfirm", nonce |-> 0])
    BY <2>1 DEF Confirm
  <2>3. QED
    BY <2>1, <2>2, OldFrames, ConfirmFrame, SentKeeps DEF IInv
<1>12. CASE \E r \in Role : Reject(r)
  BY <1>12, OldFrames DEF Reject, wire
<1>13. CASE \E r \in Role : AppClose(r)
  BY <1>13, OldFrames DEF AppClose, wire
<1>14. CASE \E r \in Role : Arrive(r)
  <2>1. PICK r \in Role : net[r] # <<>> /\ net' = [net EXCEPT ![r] = Tail(@)]
    BY <1>14 DEF Arrive
  <2>2. net \in [Role -> Seq(Frame)]
    BY DEF IInv, TypeOK
  <2>3. QED
    BY <2>1, <2>2, OldFrames, QueueOf DEF Role
<1>15. CASE \E r \in Role : LinkUp(r)
  BY <1>15, OldFrames DEF LinkUp
<1>16. CASE \E r \in Role : LinkDown(r)
  BY <1>16, OldFrames DEF LinkDown
<1>17. CASE \E r \in Role : Lose(r)
  <2>1. PICK r \in Role : net[r] # <<>> /\ net' = [net EXCEPT ![r] = Tail(@)]
    BY <1>17 DEF Lose
  <2>2. net \in [Role -> Seq(Frame)]
    BY DEF IInv, TypeOK
  <2>3. QED
    BY <2>1, <2>2, OldFrames, QueueOf DEF Role
<1>18. CASE \E r \in Role : Repeat(r)
  <2>1. PICK r \in Role : net[r] # <<>> /\ net' = [net EXCEPT ![r] = Append(@, Head(@))]
    BY <1>18 DEF Repeat
  <2>2. net \in [Role -> Seq(Frame)]
    BY DEF IInv, TypeOK
  <2>3. QED
    BY <2>1, <2>2, OldFrames, QueueOf DEF Role
<1>19. CASE \E r \in Role : Expire(r)
  <2>1. PICK r \in Role : Expire(r)
    BY <1>19
  <2>2. net' = net \/ net' = Sent(r, lastSent[r])
    BY <2>1 DEF Expire
  <2>3. QED
    BY <2>1, <2>2, OldFrames, ExpireFrame, SentKeeps DEF IInv
<1>20. CASE UNCHANGED vars
  BY <1>20, OldFrames DEF vars, wire
<1>21. QED
  BY <1>1, <1>2, <1>3, <1>4, <1>5, <1>6, <1>7, <1>8, <1>9, <1>10, <1>11, <1>12, <1>13,
     <1>14, <1>15, <1>16, <1>17, <1>18, <1>19, <1>20 DEF Next, Handler, User, Network

LEMMA InboxStep ==
  ASSUME IInv, [Next]_vars
  PROVE  inbox'["S"] \in Seq(ForSender') /\ inbox'["R"] \in Seq(ForReceiver')
<1>1. CASE BindCommit
  BY <1>1, OldFrames, QueueOf DEF BindCommit, Handling, Take, IInv, TypeOK, Role
<1>2. CASE CommitAgain
  BY <1>2, OldFrames, QueueOf DEF CommitAgain, Handling, Take, IInv, TypeOK, Role
<1>3. CASE OnReveal
  BY <1>3, OldFrames, QueueOf DEF OnReveal, Handling, Take, IInv, TypeOK, Role
<1>4. CASE Verified
  BY <1>4, OldFrames DEF Verified
<1>5. CASE SendCommit
  BY <1>5, OldFrames DEF SendCommit
<1>6. CASE BindOffer
  BY <1>6, OldFrames, QueueOf DEF BindOffer, Handling, Take, IInv, TypeOK, Role
<1>7. CASE OfferAgain
  BY <1>7, OldFrames, QueueOf DEF OfferAgain, Handling, Take, IInv, TypeOK, Role
<1>8. CASE \E r \in Role : ShowSas(r)
  BY <1>8, OldFrames DEF ShowSas
<1>9. CASE \E r \in Role : OnRcvConfirm(r)
  <2>1. PICK r \in Role : inbox[r] # <<>> /\ inbox' = [inbox EXCEPT ![r] = Tail(@)]
    BY <1>9 DEF OnRcvConfirm, Handling, Take
  <2>2. inbox \in [Role -> Seq(Frame)]
    BY DEF IInv, TypeOK
  <2>3. QED
    BY <2>1, <2>2, OldFrames, QueueOf DEF Role
<1>10. CASE \E r \in Role : Start(r)
  BY <1>10, OldFrames DEF Start
<1>11. CASE \E r \in Role : Confirm(r)
  BY <1>11, OldFrames DEF Confirm
<1>12. CASE \E r \in Role : Reject(r)
  BY <1>12, OldFrames DEF Reject
<1>13. CASE \E r \in Role : AppClose(r)
  BY <1>13, OldFrames DEF AppClose
<1>14. CASE \E r \in Role : Arrive(r)
  <2>1. PICK r \in Role : Arrive(r)
    BY <1>14
  <2>2. net[r] # <<>> /\ inbox \in [Role -> Seq(Frame)]
    BY <2>1 DEF Arrive, IInv, TypeOK
  <2>3. inbox' = inbox \/ (inbox' = [inbox EXCEPT ![r] = Append(@, Head(net[r]))] /\ ~torn[r] /\ started[r])
    BY <2>1 DEF Arrive
  <2>4. Head(net["S"]) \in ForSender' \/ net["S"] = <<>>
    BY OldFrames, QueueOf
  <2>5. torn["R"] \/ net["R"] = <<>> \/ Head(net["R"]) \in ForReceiver'
    <3>1. net["R"] = <<>> \/ Head(net["R"]) \in FromSender
      BY QueueOf DEF IInv, FramesInv
    <3>2. offer = 1 => CommitOut
      BY DEF IInv, NonceInv, TypeOK
    <3>3. QED
      BY <3>1, <3>2, FramesGrow, Grows DEF ForReceiver, FromSender, CommitOut
  <2>6. CASE r = "S"
    <3>1. Append(inbox["S"], Head(net["S"])) \in Seq(ForSender')
      BY <2>2, <2>4, <2>6, OldFrames, QueueOf
    <3>2. QED
      BY <2>2, <2>3, <2>6, <3>1, OldFrames DEF Role
  <2>7. CASE r = "R"
    <3>1. torn["R"] \/ Append(inbox["R"], Head(net["R"])) \in Seq(ForReceiver')
      BY <2>2, <2>5, <2>7, OldFrames, QueueOf
    <3>2. QED
      BY <2>2, <2>3, <2>7, <3>1, OldFrames DEF Role
  <2>8. QED
    BY <2>6, <2>7 DEF Role
<1>15. CASE \E r \in Role : LinkUp(r)
  BY <1>15, OldFrames DEF LinkUp
<1>16. CASE \E r \in Role : LinkDown(r)
  BY <1>16, OldFrames DEF LinkDown
<1>17. CASE \E r \in Role : Lose(r)
  BY <1>17, OldFrames DEF Lose
<1>18. CASE \E r \in Role : Repeat(r)
  BY <1>18, OldFrames DEF Repeat
<1>19. CASE \E r \in Role : Expire(r)
  BY <1>19, OldFrames DEF Expire
<1>20. CASE UNCHANGED vars
  BY <1>20, OldFrames DEF vars
<1>21. QED
  BY <1>1, <1>2, <1>3, <1>4, <1>5, <1>6, <1>7, <1>8, <1>9, <1>10, <1>11, <1>12, <1>13,
     <1>14, <1>15, <1>16, <1>17, <1>18, <1>19, <1>20 DEF Next, Handler, User, Network

LEMMA LastSentStep ==
  ASSUME IInv, [Next]_vars
  PROVE  lastSent'["R"] \in FromReceiver' /\ lastSent'["S"] \in FromSender'
<1>1. CASE BindCommit
  <2>1. \/ lastSent' = lastSent
        \/ /\ offer' = offer + 1
           /\ lastSent' = [lastSent EXCEPT !["S"] = [type |-> "offer", nonce |-> OfferSent(offer + 1)]]
    BY <1>1 DEF BindCommit, SendOr
  <2>2. QED
    BY <1>1, <2>1, OldFrames, OfferFrame DEF IInv, TypeOK, Role
<1>2. CASE CommitAgain
  BY <1>2, OldFrames DEF CommitAgain
<1>3. CASE OnReveal
  BY <1>3, OldFrames DEF OnReveal
<1>4. CASE Verified
  BY <1>4, OldFrames DEF Verified
<1>5. CASE SendCommit
  BY <1>5, OldFrames, CommitFrame DEF SendCommit, IInv, TypeOK, Role
<1>6. CASE BindOffer
  <2>1. lastSent' = [lastSent EXCEPT !["R"] = [type |-> "reveal", nonce |-> nonceR]]
    BY <1>6 DEF BindOffer, SendOr
  <2>2. QED
    BY <1>6, <2>1, OldFrames, RevealFrame DEF IInv, TypeOK, Role, ForSender
<1>7. CASE OfferAgain
  BY <1>7, OldFrames DEF OfferAgain
<1>8. CASE \E r \in Role : ShowSas(r)
  BY <1>8, OldFrames DEF ShowSas
<1>9. CASE \E r \in Role : OnRcvConfirm(r)
  BY <1>9, OldFrames DEF OnRcvConfirm
<1>10. CASE \E r \in Role : Start(r)
  BY <1>10, OldFrames DEF Start
<1>11. CASE \E r \in Role : Confirm(r)
  <2>1. PICK r \in Role : Confirm(r)
    BY <1>11
  <2>2. lastSent' = [lastSent EXCEPT ![r] = [type |-> "rcvconfirm", nonce |-> 0]]
    BY <2>1 DEF Confirm
  <2>3. QED
    BY <2>1, <2>2, OldFrames, ConfirmFrame DEF IInv, TypeOK, Role, ForSender
<1>12. CASE \E r \in Role : Reject(r)
  BY <1>12, OldFrames DEF Reject
<1>13. CASE \E r \in Role : AppClose(r)
  BY <1>13, OldFrames DEF AppClose
<1>14. CASE \E r \in Role : Arrive(r)
  BY <1>14, OldFrames DEF Arrive
<1>15. CASE \E r \in Role : LinkUp(r)
  BY <1>15, OldFrames DEF LinkUp
<1>16. CASE \E r \in Role : LinkDown(r)
  BY <1>16, OldFrames DEF LinkDown
<1>17. CASE \E r \in Role : Lose(r)
  BY <1>17, OldFrames DEF Lose
<1>18. CASE \E r \in Role : Repeat(r)
  BY <1>18, OldFrames DEF Repeat
<1>19. CASE \E r \in Role : Expire(r)
  BY <1>19, OldFrames DEF Expire
<1>20. CASE UNCHANGED vars
  BY <1>20, OldFrames DEF vars
<1>21. QED
  BY <1>1, <1>2, <1>3, <1>4, <1>5, <1>6, <1>7, <1>8, <1>9, <1>10, <1>11, <1>12, <1>13,
     <1>14, <1>15, <1>16, <1>17, <1>18, <1>19, <1>20 DEF Next, Handler, User, Network

LEMMA FramesStep == IInv /\ [Next]_vars => FramesInv'
  BY NetStep, InboxStep, LastSentStep DEF FramesInv

LEMMA NumbersStep ==
  ASSUME IInv, [Next]_vars
  PROVE  /\ nonceR' <= 1 /\ seenCommit' <= nonceR'
         /\ offer' <= seenCommit' /\ seenOffer' <= offer'
         /\ seenCommit' = 1 => CommitOut'
         /\ nonceR' \in Nat /\ seenCommit' \in Nat /\ offer' \in Nat /\ seenOffer' \in Nat
<1> DEFINE Now == /\ nonceR <= 1 /\ seenCommit <= nonceR /\ offer <= seenCommit
                  /\ seenOffer <= offer /\ nonceR \in Nat /\ seenCommit \in Nat
                  /\ offer \in Nat /\ seenOffer \in Nat
<1>1. Now /\ (seenCommit = 1 => CommitOut')
  BY Grows DEF IInv, NonceInv, TypeOK
<1>2. CASE SendCommit
  <2>1. nonceR' = 1 /\ UNCHANGED <<seenCommit, offer, seenOffer>>
    BY <1>2 DEF SendCommit, IInv, NonceInv, senderData
  <2>2. QED
    BY <1>1, <2>1
<1>3. CASE BindCommit
  <2>1. seenCommit = 0 /\ seenCommit' = 1 /\ nonceR = 1 /\ CommitOut
    BY <1>3, HandledFrames DEF BindCommit
  <2>2. UNCHANGED <<nonceR, seenOffer>>
    BY <1>3 DEF BindCommit, receiverData
  <2>3. offer' = offer \/ offer' = offer + 1
    BY <1>3 DEF BindCommit
  <2>4. QED
    BY <1>1, <2>1, <2>2, <2>3, Grows
<1>4. CASE BindOffer
  <2>1. seenOffer' = 1 /\ offer = 1 /\ UNCHANGED <<nonceR, seenCommit, offer>>
    BY <1>4, HandledFrames DEF BindOffer, senderData
  <2>2. QED
    BY <1>1, <2>1
<1>5. CASE ~SendCommit /\ ~BindCommit /\ ~BindOffer
  BY <1>1, <1>5, Writers
<1>6. QED
  BY <1>2, <1>3, <1>4, <1>5

LEMMA StageNow ==
  ASSUME IInv
  PROVE  /\ commitStage = "computing" => nonceR = 0
         /\ ~started["R"] => nonceR = 0 /\ commitStage = "none"
         /\ commitStage = "retry" => nonceR = 1
  BY DEF IInv, NonceInv

LEMMA StageStep ==
  ASSUME IInv, [Next]_vars
  PROVE  /\ commitStage' = "computing" => nonceR' = 0
         /\ ~started'["R"] => nonceR' = 0 /\ commitStage' = "none"
         /\ commitStage' = "retry" => nonceR' = 1
<1>1. CASE BindCommit
  BY <1>1, StageNow DEF BindCommit, receiverData
<1>2. CASE CommitAgain
  BY <1>2, StageNow DEF CommitAgain, receiverData
<1>3. CASE OnReveal
  BY <1>3, StageNow DEF OnReveal, receiverData
<1>4. CASE Verified
  BY <1>4, StageNow DEF Verified, receiverData
<1>5. CASE SendCommit
  <2>1. nonceR' = 1 /\ commitStage' # "computing" /\ started' = started /\ started["R"]
    BY <1>5, StageNow DEF SendCommit
  <2>2. QED
    BY <2>1
<1>6. CASE BindOffer
  BY <1>6, StageNow DEF BindOffer
<1>7. CASE OfferAgain
  BY <1>7, StageNow DEF OfferAgain, receiverData
<1>8. CASE \E r \in Role : ShowSas(r)
  BY <1>8, StageNow DEF ShowSas, receiverData
<1>9. CASE \E r \in Role : OnRcvConfirm(r)
  BY <1>9, StageNow DEF OnRcvConfirm, receiverData
<1>10. CASE \E r \in Role : Start(r)
  <2>1. PICK r \in Role : Start(r)
    BY <1>10
  <2>2. ~started[r] /\ started' = [started EXCEPT ![r] = TRUE] /\ nonceR' = nonceR
    BY <2>1 DEF Start
  <2>3. commitStage' = IF r = "S" THEN commitStage ELSE "computing"
    BY <2>1 DEF Start
  <2>4. started \in [Role -> BOOLEAN]
    BY DEF IInv, TypeOK
  <2>5. QED
    BY <2>2, <2>3, <2>4, StageNow DEF Role
<1>11. CASE \E r \in Role : Confirm(r)
  BY <1>11, StageNow DEF Confirm, receiverData
<1>12. CASE \E r \in Role : Reject(r)
  BY <1>12, StageNow DEF Reject, receiverData
<1>13. CASE \E r \in Role : AppClose(r)
  BY <1>13, StageNow DEF AppClose, receiverData
<1>14. CASE \E r \in Role : Arrive(r)
  BY <1>14, StageNow DEF Arrive, receiverData
<1>15. CASE \E r \in Role : LinkUp(r)
  BY <1>15, StageNow DEF LinkUp, receiverData
<1>16. CASE \E r \in Role : LinkDown(r)
  BY <1>16, StageNow DEF LinkDown, receiverData
<1>17. CASE \E r \in Role : Lose(r)
  BY <1>17, StageNow DEF Lose, receiverData
<1>18. CASE \E r \in Role : Repeat(r)
  BY <1>18, StageNow DEF Repeat, receiverData
<1>19. CASE \E r \in Role : Expire(r)
  BY <1>19, StageNow DEF Expire, receiverData
<1>20. CASE UNCHANGED vars
  BY <1>20, StageNow DEF vars, receiverData
<1>21. QED
  BY <1>1, <1>2, <1>3, <1>4, <1>5, <1>6, <1>7, <1>8, <1>9, <1>10, <1>11, <1>12, <1>13,
     <1>14, <1>15, <1>16, <1>17, <1>18, <1>19, <1>20 DEF Next, Handler, User, Network

LEMMA PcNow ==
  ASSUME IInv
  PROVE  /\ pc \in [Role -> {"idle", "verify", "sas", "confirm"}]
         /\ pc["S"] # "idle" => revealed = 1 /\ offer = 1
         /\ pc["R"] # "idle" => seenOffer = 1 /\ pc["R"] # "verify"
  BY DEF IInv, NonceInv, TypeOK

LEMMA PcStep ==
  ASSUME IInv, [Next]_vars
  PROVE  /\ pc' \in [Role -> {"idle", "verify", "sas", "confirm"}]
         /\ pc'["S"] # "idle" => revealed' = 1 /\ offer' = 1
         /\ pc'["R"] # "idle" => seenOffer' = 1 /\ pc'["R"] # "verify"
<1>1. CASE BindCommit
  <2>1. pc["S"] = "idle" /\ (pc' = pc \/ pc' = [pc EXCEPT !["S"] = "idle"])
    BY <1>1 DEF BindCommit, SendOr, Handling
  <2>2. seenOffer' = seenOffer
    BY <1>1 DEF BindCommit, receiverData
  <2>3. QED
    BY <2>1, <2>2, PcNow DEF Role
<1>2. CASE CommitAgain
  BY <1>2, PcNow DEF CommitAgain, senderData, receiverData
<1>3. CASE OnReveal
  <2>1. revealed' = 1 /\ offer = 1 /\ offer' = offer
    BY <1>3, HandledFrames DEF OnReveal
  <2>2. pc' = [pc EXCEPT !["S"] = "verify"] /\ seenOffer' = seenOffer
    BY <1>3 DEF OnReveal, receiverData
  <2>3. QED
    BY <2>1, <2>2, PcNow DEF Role
<1>4. CASE Verified
  <2>1. pc["S"] # "idle" /\ \E v \in {"idle", "sas"} : pc' = [pc EXCEPT !["S"] = v]
    BY <1>4 DEF Verified
  <2>2. UNCHANGED <<revealed, offer, seenOffer>>
    BY <1>4 DEF Verified, senderData, receiverData
  <2>3. QED
    BY <2>1, <2>2, PcNow DEF Role
<1>5. CASE SendCommit
  BY <1>5, PcNow DEF SendCommit, senderData
<1>6. CASE BindOffer
  <2>1. seenOffer' = 1 /\ \E v \in {"idle", "sas"} : pc' = [pc EXCEPT !["R"] = v]
    BY <1>6, HandledFrames DEF BindOffer, SendOr
  <2>2. UNCHANGED <<revealed, offer>>
    BY <1>6 DEF BindOffer, senderData
  <2>3. QED
    BY <2>1, <2>2, PcNow DEF Role
<1>7. CASE OfferAgain
  BY <1>7, PcNow DEF OfferAgain, senderData, receiverData
<1>8. CASE \E r \in Role : ShowSas(r)
  <2>1. PICK r \in Role : pc[r] # "idle" /\ pc' = [pc EXCEPT ![r] = "confirm"]
    BY <1>8 DEF ShowSas
  <2>2. UNCHANGED <<revealed, offer, seenOffer>>
    BY <1>8 DEF ShowSas, senderData, receiverData
  <2>3. QED
    BY <2>1, <2>2, PcNow DEF Role
<1>9. CASE \E r \in Role : OnRcvConfirm(r)
  BY <1>9, PcNow DEF OnRcvConfirm, senderData, receiverData
<1>10. CASE \E r \in Role : Start(r)
  BY <1>10, PcNow DEF Start, senderData, receiverData
<1>11. CASE \E r \in Role : Confirm(r)
  <2>1. PICK r \in Role : pc[r] # "idle" /\ pc' = [pc EXCEPT ![r] = "idle"]
    BY <1>11 DEF Confirm
  <2>2. UNCHANGED <<revealed, offer, seenOffer>>
    BY <1>11 DEF Confirm, senderData, receiverData
  <2>3. QED
    BY <2>1, <2>2, PcNow DEF Role
<1>12. CASE \E r \in Role : Reject(r)
  <2>1. PICK r \in Role : pc[r] # "idle" /\ pc' = [pc EXCEPT ![r] = "idle"]
    BY <1>12 DEF Reject
  <2>2. UNCHANGED <<revealed, offer, seenOffer>>
    BY <1>12 DEF Reject, senderData, receiverData
  <2>3. QED
    BY <2>1, <2>2, PcNow DEF Role
<1>13. CASE \E r \in Role : AppClose(r)
  BY <1>13, PcNow DEF AppClose, senderData, receiverData
<1>14. CASE \E r \in Role : Arrive(r)
  BY <1>14, PcNow DEF Arrive, senderData, receiverData
<1>15. CASE \E r \in Role : LinkUp(r)
  BY <1>15, PcNow DEF LinkUp, senderData, receiverData
<1>16. CASE \E r \in Role : LinkDown(r)
  BY <1>16, PcNow DEF LinkDown, senderData, receiverData
<1>17. CASE \E r \in Role : Lose(r)
  BY <1>17, PcNow DEF Lose, senderData, receiverData
<1>18. CASE \E r \in Role : Repeat(r)
  BY <1>18, PcNow DEF Repeat, senderData, receiverData
<1>19. CASE \E r \in Role : Expire(r)
  BY <1>19, PcNow DEF Expire, senderData, receiverData
<1>20. CASE UNCHANGED vars
  BY <1>20, PcNow DEF vars, senderData, receiverData
<1>21. QED
  BY <1>1, <1>2, <1>3, <1>4, <1>5, <1>6, <1>7, <1>8, <1>9, <1>10, <1>11, <1>12, <1>13,
     <1>14, <1>15, <1>16, <1>17, <1>18, <1>19, <1>20 DEF Next, Handler, User, Network

\* Whenever a string is shown, all three frames it comes from are the first drawn.
LEMMA SasStep ==
  ASSUME IInv, [Next]_vars
  PROVE  \A r \in Role : sas'[r] \in {NoSas, <<1, 1, 1>>}
<1>1. /\ sas \in [Role -> Nat \X Nat \X Nat]
      /\ \A r \in Role : sas[r] \in {NoSas, <<1, 1, 1>>}
  BY DEF IInv, NonceInv, TypeOK
<1>2. ASSUME NEW r \in Role, ShowSas(r) PROVE sas' = [sas EXCEPT ![r] = <<1, 1, 1>>]
  <2>1. CASE r = "S"
    <3>1. seenCommit = 1 /\ offer = 1 /\ revealed = 1
      BY <1>2, <2>1, SMTT(40) DEF ShowSas, IInv, NonceInv, TypeOK
    <3>2. QED
      BY <1>2, <2>1, <3>1 DEF ShowSas
  <2>2. CASE r = "R"
    <3>1. nonceR = 1 /\ seenOffer = 1
      BY <1>2, <2>2 DEF ShowSas, IInv, NonceInv, TypeOK
    <3>2. QED
      BY <1>2, <2>2, <3>1 DEF ShowSas
  <2>3. QED
    BY <2>1, <2>2 DEF Role
<1>3. QED
  BY <1>1, <1>2, Writers

LEMMA NonceStep == IInv /\ [Next]_vars => NonceInv'
  BY NumbersStep, StageStep, PcStep, SasStep DEF NonceInv

LEMMA FailTouches ==
  ASSUME TypeOK, NEW q \in Role, NEW cur, NEW code, Fail(q, cur, code)
  PROVE  /\ \A r \in Role \ {q} : fsm'[r] = fsm[r] /\ timer'[r] = timer[r]
         /\ q = "R" => fsm'[q] = cur
  BY DEF Fail, ClearTimer, TypeOK

LEMMA AdvanceTouches ==
  ASSUME TypeOK, NEW q \in Role, NEW event, Advance(q, event)
  PROVE  \A r \in Role \ {q} : fsm'[r] = fsm[r]
  BY DEF Advance, TypeOK

LEMMA TimerTouches ==
  ASSUME TypeOK, NEW q \in Role, NEW code, Arm(q, code) \/ ClearTimer(q)
  PROVE  \A r \in Role \ {q} : timer'[r] = timer[r]
  BY DEF Arm, ClearTimer, TypeOK

\* Nothing happens to a side before it exists.
Idle(r) == fsm[r] = "IDLE" /\ timer[r] = "off" /\ pc[r] = "idle" /\ inbox[r] = <<>>

LEMMA IdleNow ==
  ASSUME IInv
  PROVE  /\ \A r \in Role : ~started[r] => Idle(r)
         /\ started \in [Role -> BOOLEAN] /\ inbox \in [Role -> Seq(Frame)]
         /\ pc \in [Role -> {"idle", "verify", "sas", "confirm"}] /\ TypeOK
         /\ ~started["R"] => commitStage = "none"
  BY DEF IInv, FsmInv, Idle, TypeOK, NonceInv


LEMMA IdleStep ==
  ASSUME IInv, [Next]_vars
  PROVE  \A r \in Role : ~started'[r] => Idle(r)'
<1>1. CASE BindCommit
  <2>1. /\ started' = started /\ started["S"]
        /\ inbox' = [inbox EXCEPT !["S"] = Tail(@)] /\ (pc' = pc \/ pc' = [pc EXCEPT !["S"] = "idle"])
    BY <1>1, IdleNow DEF BindCommit, Handling, Take, SendOr, Idle, Role
  <2>2. \/ \E cur, code : Fail("S", cur, code)
        \/ Arm("S", "timeout_wait_reveal") /\ Advance("S", "commit")
    BY <1>1 DEF BindCommit, SendOr
  <2>3. fsm'["R"] = fsm["R"] /\ timer'["R"] = timer["R"]
    BY <2>2, FailTouches, AdvanceTouches, TimerTouches, IdleNow DEF Role
  <2>4. QED
    BY <2>1, <2>3, IdleNow DEF Role, Idle
<1>2. CASE CommitAgain
  <2>1. started' = started /\ started["S"] /\ inbox' = [inbox EXCEPT !["S"] = Tail(@)] /\ pc' = pc
    BY <1>2, IdleNow DEF CommitAgain, Handling, Take, Idle, Role
  <2>2. (fsm' = fsm /\ timer' = timer) \/ \E cur, code : Fail("S", cur, code)
    BY <1>2 DEF CommitAgain, control
  <2>3. fsm'["R"] = fsm["R"] /\ timer'["R"] = timer["R"]
    BY <2>2, FailTouches, IdleNow DEF Role
  <2>4. QED
    BY <2>1, <2>3, IdleNow DEF Role, Idle
<1>3. CASE OnReveal
  <2>1. /\ started' = started /\ started["S"] /\ fsm' = fsm
        /\ inbox' = [inbox EXCEPT !["S"] = Tail(@)] /\ pc' = [pc EXCEPT !["S"] = "verify"]
    BY <1>3, IdleNow DEF OnReveal, Handling, Take, Idle, Role
  <2>2. timer'["R"] = timer["R"]
    BY <1>3, TimerTouches, IdleNow DEF OnReveal, Role
  <2>3. QED
    BY <2>1, <2>2, IdleNow DEF Role, Idle
<1>4. CASE Verified
  <2>1. /\ started' = started /\ started["S"] /\ inbox' = inbox
        /\ \E v \in {"idle", "sas"} : pc' = [pc EXCEPT !["S"] = v]
    BY <1>4, IdleNow DEF Verified, Idle, Role
  <2>2. (Advance("S", "reveal") /\ timer' = timer) \/ \E cur, code : Fail("S", cur, code)
    BY <1>4 DEF Verified
  <2>3. fsm'["R"] = fsm["R"] /\ timer'["R"] = timer["R"]
    BY <2>2, FailTouches, AdvanceTouches, IdleNow DEF Role
  <2>4. QED
    BY <2>1, <2>3, IdleNow DEF Role, Idle
<1>5. CASE SendCommit
  <2>1. /\ started' = started /\ started["R"] /\ inbox' = inbox /\ pc' = pc /\ timer' = timer
        /\ fsm'["S"] = fsm["S"]
    BY <1>5, IdleNow DEF SendCommit, TypeOK, Role
  <2>2. QED
    BY <2>1, IdleNow DEF Role, Idle
<1>6. CASE BindOffer
  <2>1. /\ started' = started /\ started["R"] /\ inbox' = [inbox EXCEPT !["R"] = Tail(@)]
        /\ \E v \in {"idle", "sas"} : pc' = [pc EXCEPT !["R"] = v]
    BY <1>6, IdleNow DEF BindOffer, Handling, Take, SendOr, Idle, Role
  <2>2. (ClearTimer("R") /\ Advance("R", "offer")) \/ \E cur, code : Fail("R", cur, code)
    BY <1>6 DEF BindOffer, SendOr
  <2>3. fsm'["S"] = fsm["S"] /\ timer'["S"] = timer["S"]
    BY <2>2, FailTouches, AdvanceTouches, TimerTouches, IdleNow DEF Role
  <2>4. QED
    BY <2>1, <2>3, IdleNow DEF Role, Idle
<1>7. CASE OfferAgain
  <2>1. started' = started /\ started["R"] /\ inbox' = [inbox EXCEPT !["R"] = Tail(@)] /\ pc' = pc
    BY <1>7, IdleNow DEF OfferAgain, Handling, Take, Idle, Role
  <2>2. (fsm' = fsm /\ timer' = timer) \/ \E cur, code : Fail("R", cur, code)
    BY <1>7 DEF OfferAgain, control
  <2>3. fsm'["S"] = fsm["S"] /\ timer'["S"] = timer["S"]
    BY <2>2, FailTouches, IdleNow DEF Role
  <2>4. QED
    BY <2>1, <2>3, IdleNow DEF Role, Idle
<1>8. CASE \E r \in Role : ShowSas(r)
  <2>1. PICK r \in Role : ShowSas(r)
    BY <1>8
  <2>2. started' = started /\ started[r] /\ inbox' = inbox /\ pc' = [pc EXCEPT ![r] = "confirm"]
    BY <2>1, IdleNow DEF ShowSas, Idle
  <2>3. fsm' = fsm /\ Arm(r, "timeout_wait_sas")
    BY <2>1 DEF ShowSas
  <2>4. \A q \in Role \ {r} : fsm'[q] = fsm[q] /\ timer'[q] = timer[q]
    BY <2>3, TimerTouches, IdleNow
  <2>5. QED
    BY <2>2, <2>4, IdleNow DEF Idle
<1>9. CASE \E r \in Role : OnRcvConfirm(r)
  <2>1. PICK r \in Role : OnRcvConfirm(r)
    BY <1>9
  <2>2. started' = started /\ started[r] /\ pc' = pc /\ inbox' = [inbox EXCEPT ![r] = Tail(@)]
    BY <2>1, IdleNow DEF OnRcvConfirm, Handling, Take, Idle
  <2>3. (fsm' = fsm /\ timer' = timer) \/ (ClearTimer(r) /\ Advance(r, "rcvconfirm"))
    BY <2>1 DEF OnRcvConfirm, control
  <2>4. \A q \in Role \ {r} : fsm'[q] = fsm[q] /\ timer'[q] = timer[q]
    BY <2>3, TimerTouches, AdvanceTouches, IdleNow
  <2>5. QED
    BY <2>2, <2>4, IdleNow DEF Idle
<1>10. CASE \E r \in Role : Start(r)
  <2>1. PICK r \in Role : Start(r)
    BY <1>10
  <2>2. started' = [started EXCEPT ![r] = TRUE] /\ inbox' = inbox /\ pc' = pc
    BY <2>1 DEF Start
  <2>3. Arm(r, "timeout_wait_commit") /\ (fsm' = fsm \/ Advance(r, "room_full"))
    BY <2>1 DEF Start
  <2>4. \A q \in Role \ {r} : fsm'[q] = fsm[q] /\ timer'[q] = timer[q]
    BY <2>3, TimerTouches, AdvanceTouches, IdleNow
  <2>5. QED
    BY <2>2, <2>4, IdleNow DEF Idle
<1>11. CASE \E r \in Role : Confirm(r)
  <2>1. PICK r \in Role : Confirm(r)
    BY <1>11
  <2>2. started' = started /\ started[r] /\ inbox' = inbox /\ pc' = [pc EXCEPT ![r] = "idle"]
    BY <2>1, IdleNow DEF Confirm, Idle
  <2>3. \/ Fail(r, fsm[r], "handle_error")
        \/ Arm(r, "timeout_wait_peer_confirm") /\ fsm' = fsm
        \/ ClearTimer(r) /\ Advance(r, "rcvconfirm")
    BY <2>1 DEF Confirm, Confirmed
  <2>4. \A q \in Role \ {r} : fsm'[q] = fsm[q] /\ timer'[q] = timer[q]
    BY <2>3, FailTouches, TimerTouches, AdvanceTouches, IdleNow
  <2>5. QED
    BY <2>2, <2>4, IdleNow DEF Idle
<1>12. CASE \E r \in Role : Reject(r)
  <2>1. PICK r \in Role : Reject(r)
    BY <1>12
  <2>2. started' = started /\ started[r] /\ inbox' = inbox /\ pc' = [pc EXCEPT ![r] = "idle"]
    BY <2>1, IdleNow DEF Reject, Idle
  <2>3. Fail(r, Stopped(fsm[r], "MALLORY"), "sas_rejected")
    BY <2>1 DEF Reject
  <2>4. \A q \in Role \ {r} : fsm'[q] = fsm[q] /\ timer'[q] = timer[q]
    BY <2>3, FailTouches, IdleNow
  <2>5. QED
    BY <2>2, <2>4, IdleNow DEF Idle
<1>13. CASE \E r \in Role : AppClose(r)
  <2>1. PICK r \in Role : AppClose(r)
    BY <1>13
  <2>2. started' = started /\ started[r] /\ inbox' = inbox /\ pc' = pc
    BY <2>1, IdleNow DEF AppClose
  <2>3. fsm' = fsm /\ ClearTimer(r)
    BY <2>1 DEF AppClose
  <2>4. \A q \in Role \ {r} : fsm'[q] = fsm[q] /\ timer'[q] = timer[q]
    BY <2>3, TimerTouches, IdleNow
  <2>5. QED
    BY <2>2, <2>4, IdleNow DEF Idle
<1>14. CASE \E r \in Role : Arrive(r)
  <2>1. PICK r \in Role : Arrive(r)
    BY <1>14
  <2>2. UNCHANGED <<started, fsm, timer, pc>>
    BY <2>1 DEF Arrive, control
  <2>3. inbox' = inbox \/ (started[r] /\ inbox' = [inbox EXCEPT ![r] = Append(@, Head(net[r]))])
    BY <2>1 DEF Arrive
  <2>4. QED
    BY <2>2, <2>3, IdleNow DEF Idle
<1>15. CASE \E r \in Role : LinkUp(r)
  BY <1>15, IdleNow DEF LinkUp, control, Idle
<1>16. CASE \E r \in Role : LinkDown(r)
  BY <1>16, IdleNow DEF LinkDown, control, Idle
<1>17. CASE \E r \in Role : Lose(r)
  BY <1>17, IdleNow DEF Lose, control, Idle
<1>18. CASE \E r \in Role : Repeat(r)
  BY <1>18, IdleNow DEF Repeat, control, Idle
<1>19. CASE \E r \in Role : Expire(r)
  <2>1. PICK r \in Role : Expire(r)
    BY <1>19
  <2>2. started' = started /\ started[r] /\ inbox' = inbox /\ pc' = pc
    BY <2>1, IdleNow DEF Expire, Idle
  <2>3. Fail(r, fsm[r], timer[r])
    BY <2>1 DEF Expire
  <2>4. \A q \in Role \ {r} : fsm'[q] = fsm[q] /\ timer'[q] = timer[q]
    BY <2>3, FailTouches, IdleNow
  <2>5. QED
    BY <2>2, <2>4, IdleNow DEF Idle
<1>20. CASE UNCHANGED vars
  BY <1>20, IdleNow DEF vars, control, Idle
<1>21. QED
  BY <1>1, <1>2, <1>3, <1>4, <1>5, <1>6, <1>7, <1>8, <1>9, <1>10, <1>11, <1>12, <1>13,
     <1>14, <1>15, <1>16, <1>17, <1>18, <1>19, <1>20 DEF Next, Handler, User, Network

LEMMA WaitingNow ==
  ASSUME IInv
  PROVE  /\ \A r \in Role : Waiting(r) => fsm[r] \in {"SAS_CONFIRM"} \cup Terminal
         /\ pc \in [Role -> {"idle", "verify", "sas", "confirm"}]
         /\ awaiting \in [Role -> BOOLEAN]
         /\ fsm \in [Role -> States]
         /\ seenOffer = 0 => fsm["R"] \in {"IDLE", "WAIT_OFFER"}
  BY DEF IInv, FsmInv, TypeOK

\* A handler starts to wait in the state the user is asked in.
LEMMA NewlyWaiting ==
  ASSUME IInv, [Next]_vars
  PROVE  \A r \in Role : Waiting(r)' => Waiting(r) \/ fsm'[r] \in {"SAS_CONFIRM"} \cup Terminal
<1>1. CASE BindCommit
  <2>1. awaiting' = awaiting /\ (pc' = pc \/ pc' = [pc EXCEPT !["S"] = "idle"])
    BY <1>1 DEF BindCommit, SendOr, verdict
  <2>2. QED
    BY <2>1, WaitingNow DEF Waiting, Role
<1>2. CASE CommitAgain
  BY <1>2, WaitingNow DEF CommitAgain, verdict, Waiting
<1>3. CASE OnReveal
  <2>1. awaiting' = awaiting /\ pc' = [pc EXCEPT !["S"] = "verify"]
    BY <1>3 DEF OnReveal, verdict
  <2>2. QED
    BY <2>1, WaitingNow DEF Waiting, Role
<1>4. CASE Verified
  <2>1. awaiting' = awaiting
    BY <1>4 DEF Verified, verdict
  <2>2. CASE pc' = [pc EXCEPT !["S"] = "idle"]
    BY <2>1, <2>2, WaitingNow DEF Waiting, Role
  <2>3. CASE Allows("S", fsm["S"], "reveal") /\ Advance("S", "reveal") /\ pc' = [pc EXCEPT !["S"] = "sas"]
    <3>1. fsm["S"] \in States
      BY WaitingNow DEF Role
    <3>2. fsm'["S"] \in {"SAS_CONFIRM"} \cup Terminal
      BY <2>3, <3>1, Tables, WaitingNow DEF Advance, Role
    <3>3. QED
      BY <2>1, <2>3, <3>2, WaitingNow DEF Waiting, Role
  <2>4. QED
    BY <1>4, <2>2, <2>3 DEF Verified
<1>5. CASE SendCommit
  BY <1>5, WaitingNow DEF SendCommit, verdict, Waiting
<1>6. CASE BindOffer
  <2>1. awaiting' = awaiting
    BY <1>6 DEF BindOffer, verdict
  <2>2. fsm["R"] = "WAIT_OFFER"
    BY <1>6, HandledFrames, WaitingNow DEF BindOffer
  <2>3. \/ pc' = [pc EXCEPT !["R"] = "idle"]
        \/ Advance("R", "offer") /\ pc' = [pc EXCEPT !["R"] = "sas"]
    BY <1>6 DEF BindOffer, SendOr
  <2>4. Advance("R", "offer") => fsm'["R"] = "SAS_CONFIRM"
    BY <2>2, Tables, WaitingNow DEF Advance, Role
  <2>5. QED
    BY <2>1, <2>3, <2>4, WaitingNow DEF Waiting, Role
<1>7. CASE OfferAgain
  BY <1>7, WaitingNow DEF OfferAgain, verdict, Waiting
<1>8. CASE \E r \in Role : ShowSas(r)
  <2>1. PICK r \in Role : pc[r] = "sas" /\ pc' = [pc EXCEPT ![r] = "confirm"] /\ awaiting' = awaiting
    BY <1>8 DEF ShowSas
  <2>2. QED
    BY <2>1, WaitingNow DEF Waiting
<1>9. CASE \E r \in Role : OnRcvConfirm(r)
  <2>1. pc' = pc /\ (awaiting' = awaiting \/ \E r \in Role : awaiting' = [awaiting EXCEPT ![r] = FALSE])
    BY <1>9 DEF OnRcvConfirm
  <2>2. QED
    BY <2>1, WaitingNow DEF Waiting
<1>10. CASE \E r \in Role : Start(r)
  BY <1>10, WaitingNow DEF Start, verdict, Waiting
<1>11. CASE \E r \in Role : Confirm(r)
  <2>1. PICK r \in Role : Confirm(r)
    BY <1>11
  <2>2. pc[r] = "confirm" /\ pc' = [pc EXCEPT ![r] = "idle"]
    BY <2>1 DEF Confirm
  <2>3. awaiting' = awaiting \/ awaiting' = [awaiting EXCEPT ![r] = TRUE]
    BY <2>1 DEF Confirm, Confirmed
  <2>4. QED
    BY <2>2, <2>3, WaitingNow DEF Waiting
<1>12. CASE \E r \in Role : Reject(r)
  <2>1. PICK r \in Role : pc' = [pc EXCEPT ![r] = "idle"] /\ awaiting' = awaiting
    BY <1>12 DEF Reject, verdict
  <2>2. QED
    BY <2>1, WaitingNow DEF Waiting
<1>13. CASE \E r \in Role : AppClose(r)
  BY <1>13, WaitingNow DEF AppClose, verdict, Waiting
<1>14. CASE \E r \in Role : Arrive(r)
  BY <1>14, WaitingNow DEF Arrive, verdict, Waiting
<1>15. CASE \E r \in Role : LinkUp(r)
  BY <1>15, WaitingNow DEF LinkUp, verdict, Waiting
<1>16. CASE \E r \in Role : LinkDown(r)
  BY <1>16, WaitingNow DEF LinkDown, verdict, Waiting
<1>17. CASE \E r \in Role : Lose(r)
  BY <1>17, WaitingNow DEF Lose, verdict, Waiting
<1>18. CASE \E r \in Role : Repeat(r)
  BY <1>18, WaitingNow DEF Repeat, verdict, Waiting
<1>19. CASE \E r \in Role : Expire(r)
  BY <1>19, WaitingNow DEF Expire, verdict, Waiting
<1>20. CASE UNCHANGED vars
  BY <1>20, WaitingNow DEF vars, verdict, Waiting
<1>21. QED
  BY <1>1, <1>2, <1>3, <1>4, <1>5, <1>6, <1>7, <1>8, <1>9, <1>10, <1>11, <1>12, <1>13,
     <1>14, <1>15, <1>16, <1>17, <1>18, <1>19, <1>20 DEF Next, Handler, User, Network

\* Before an offer is bound only ensureCommitSent moves the receiver.
LEMMA ReceiverMoves ==
  ASSUME IInv, [Next]_vars, seenOffer = 0
  PROVE  BindOffer \/ SendCommit \/ fsm'["R"] = fsm["R"]
<1>1. CASE BindCommit
  <2>1. (\E cur, code : Fail("S", cur, code)) \/ Advance("S", "commit")
    BY <1>1 DEF BindCommit, SendOr
  <2>2. QED
    BY <2>1, FailTouches, AdvanceTouches, IdleNow DEF Role
<1>2. CASE CommitAgain
  <2>1. fsm' = fsm \/ \E cur, code : Fail("S", cur, code)
    BY <1>2 DEF CommitAgain, control
  <2>2. QED
    BY <2>1, FailTouches, AdvanceTouches, IdleNow DEF Role
<1>3. CASE OnReveal
  BY <1>3 DEF OnReveal, control
<1>4. CASE Verified
  <2>1. (\E cur, code : Fail("S", cur, code)) \/ Advance("S", "reveal")
    BY <1>4 DEF Verified
  <2>2. QED
    BY <2>1, FailTouches, AdvanceTouches, IdleNow DEF Role
<1>5. CASE SendCommit
  BY <1>5
<1>6. CASE BindOffer
  BY <1>6
<1>7. CASE OfferAgain
  <2>1. fsm' = fsm \/ Fail("R", fsm["R"], "offer_conflict")
    BY <1>7 DEF OfferAgain, control
  <2>2. QED
    BY <2>1, FailTouches, AdvanceTouches, IdleNow DEF Role
<1>8. CASE \E r \in Role : ShowSas(r)
  BY <1>8 DEF ShowSas, control
<1>9. CASE \E r \in Role : OnRcvConfirm(r)
  <2>1. PICK r \in Role : OnRcvConfirm(r)
    BY <1>9
  <2>2. fsm' = fsm \/ (awaiting[r] /\ Advance(r, "rcvconfirm"))
    BY <2>1 DEF OnRcvConfirm, Counts, control
  <2>3. r = "R" => ~Waiting("R")
    BY WaitingNow DEF Terminal
  <2>4. QED
    BY <2>2, <2>3, FailTouches, AdvanceTouches, IdleNow DEF Role, Waiting
<1>10. CASE \E r \in Role : Start(r)
  <2>1. PICK r \in Role : Start(r)
    BY <1>10
  <2>2. fsm' = fsm \/ (r = "S" /\ Advance(r, "room_full"))
    BY <2>1 DEF Start
  <2>3. QED
    BY <2>2, AdvanceTouches, IdleNow DEF Role
<1>11. CASE \E r \in Role : Confirm(r)
  <2>1. PICK r \in Role : Confirm(r)
    BY <1>11
  <2>2. pc[r] = "confirm" /\ (fsm' = fsm \/ Fail(r, fsm[r], "handle_error") \/ Advance(r, "rcvconfirm"))
    BY <2>1 DEF Confirm, Confirmed
  <2>3. r = "R" => ~Waiting("R")
    BY WaitingNow DEF Terminal
  <2>4. QED
    BY <2>2, <2>3, FailTouches, AdvanceTouches, IdleNow DEF Role, Waiting
<1>12. CASE \E r \in Role : Reject(r)
  <2>1. PICK r \in Role : Reject(r)
    BY <1>12
  <2>2. pc[r] = "confirm" /\ Fail(r, Stopped(fsm[r], "MALLORY"), "sas_rejected")
    BY <2>1 DEF Reject
  <2>3. r = "R" => ~Waiting("R")
    BY WaitingNow DEF Terminal
  <2>4. QED
    BY <2>2, <2>3, FailTouches, AdvanceTouches, IdleNow DEF Role, Waiting
<1>13. CASE \E r \in Role : AppClose(r)
  BY <1>13 DEF AppClose, control
<1>14. CASE \E r \in Role : Arrive(r)
  BY <1>14 DEF Arrive, control
<1>15. CASE \E r \in Role : LinkUp(r)
  BY <1>15 DEF LinkUp, control
<1>16. CASE \E r \in Role : LinkDown(r)
  BY <1>16 DEF LinkDown, control
<1>17. CASE \E r \in Role : Lose(r)
  BY <1>17 DEF Lose, control
<1>18. CASE \E r \in Role : Repeat(r)
  BY <1>18 DEF Repeat, control
<1>19. CASE \E r \in Role : Expire(r)
  <2>1. PICK r \in Role : Fail(r, fsm[r], timer[r])
    BY <1>19 DEF Expire
  <2>2. QED
    BY <2>1, FailTouches, IdleNow DEF Role
<1>20. CASE UNCHANGED vars
  BY <1>20 DEF vars, control
<1>21. QED
  BY <1>1, <1>2, <1>3, <1>4, <1>5, <1>6, <1>7, <1>8, <1>9, <1>10, <1>11, <1>12, <1>13,
     <1>14, <1>15, <1>16, <1>17, <1>18, <1>19, <1>20 DEF Next, Handler, User, Network

LEMMA FsmInvStep == IInv /\ [Next]_vars => FsmInv'
<1> SUFFICES ASSUME IInv, [Next]_vars PROVE FsmInv'
  OBVIOUS
<1>1. \A r \in Role : Waiting(r)' => fsm'[r] \in {"SAS_CONFIRM"} \cup Terminal
  BY NewlyWaiting, WaitingNow, FsmStep DEF FsmMoves, Edge, Terminal
<1>2. ASSUME seenOffer' = 0 PROVE fsm'["R"] \in {"IDLE", "WAIT_OFFER"}
  <2>1. ~BindOffer
    <3>1. BindOffer => seenOffer' = 1
      BY HandledFrames DEF BindOffer
    <3>2. QED
      BY <1>2, <3>1
  <2>2. seenOffer = 0 /\ fsm["R"] \in {"IDLE", "WAIT_OFFER"}
    BY <1>2, <2>1, Writers, WaitingNow
  <2>3. SendCommit => fsm'["R"] \in {"IDLE", "WAIT_OFFER"}
    BY <2>2, WaitingNow DEF SendCommit, AfterCommitSent, Role
  <2>4. QED
    BY <2>1, <2>2, <2>3, ReceiverMoves
<1>3. QED
  BY <1>1, <1>2, IdleStep DEF FsmInv, Idle

LEMMA AcceptNow ==
  ASSUME IInv
  PROVE  /\ \A r \in Role : awaiting[r] \/ done[r] > 0 => accepted[r]
         /\ Policy = "rtc" => \A r \in Role : done[r] > 0 => accepted["S"] /\ accepted["R"]
         /\ awaiting \in [Role -> BOOLEAN] /\ done \in [Role -> Nat]
         /\ accepted \in [Role -> BOOLEAN]
  BY DEF IInv, AcceptInv, DoneMeansBothAccepted, TypeOK

LEMMA AcceptKept ==
  ASSUME IInv, UNCHANGED <<awaiting, done, accepted>>
  PROVE  AcceptInv'
  BY AcceptNow DEF AcceptInv, DoneMeansBothAccepted

LEMMA AcceptStep ==
  ASSUME IInv, [Next]_vars
  PROVE  AcceptInv'
<1>1. CASE BindCommit
  BY <1>1, AcceptKept DEF BindCommit, verdict
<1>2. CASE CommitAgain
  BY <1>2, AcceptKept DEF CommitAgain, verdict
<1>3. CASE OnReveal
  BY <1>3, AcceptKept DEF OnReveal, verdict
<1>4. CASE Verified
  BY <1>4, AcceptKept DEF Verified, verdict
<1>5. CASE SendCommit
  BY <1>5, AcceptKept DEF SendCommit, verdict
<1>6. CASE BindOffer
  BY <1>6, AcceptKept DEF BindOffer, verdict
<1>7. CASE OfferAgain
  BY <1>7, AcceptKept DEF OfferAgain, verdict
<1>8. CASE \E r \in Role : ShowSas(r)
  BY <1>8, AcceptKept DEF ShowSas
<1>9. CASE \E r \in Role : OnRcvConfirm(r)
  <2>1. PICK r \in Role : OnRcvConfirm(r)
    BY <1>9
  <2>2. accepted[Other(r)] /\ accepted' = accepted
    BY <2>1, HandledFrames DEF OnRcvConfirm
  <2>3. CASE Counts(r)
    <3>1. awaiting[r]
      BY <2>3 DEF Counts
    <3>2. accepted["S"] /\ accepted["R"]
      BY <2>2, <3>1, AcceptNow DEF Other, Role
    <3>3. QED
      BY <2>2, <3>2 DEF AcceptInv, DoneMeansBothAccepted, Role
  <2>4. CASE ~Counts(r)
    BY <2>1, <2>4, AcceptKept DEF OnRcvConfirm
  <2>5. QED
    BY <2>3, <2>4
<1>10. CASE \E r \in Role : Start(r)
  BY <1>10, AcceptKept DEF Start, verdict
<1>11. CASE \E r \in Role : Confirm(r)
  <2>1. PICK r \in Role : Confirm(r)
    BY <1>11
  <2>2. accepted' = [accepted EXCEPT ![r] = TRUE]
    BY <2>1 DEF Confirm
  <2>3. \A q \in Role : accepted[q] => accepted'[q]
    BY <2>2, AcceptNow
  <2>4. accepted'[r]
    BY <2>2, AcceptNow
  <2>5. CASE UNCHANGED <<awaiting, done>>
    BY <2>3, <2>5, AcceptNow DEF AcceptInv, DoneMeansBothAccepted, Role
  <2>6. CASE awaiting' = [awaiting EXCEPT ![r] = TRUE] /\ UNCHANGED done
    <3>1. \A q \in Role : awaiting'[q] => awaiting[q] \/ q = r
      BY <2>6, AcceptNow
    <3>2. QED
      BY <2>3, <2>4, <2>6, <3>1, AcceptNow DEF AcceptInv, DoneMeansBothAccepted, Role
  <2>7. CASE Policy = "ws_async" /\ done' = [done EXCEPT ![r] = done[r] + 1] /\ UNCHANGED awaiting
    <3>1. \A q \in Role : done'[q] > 0 => done[q] > 0 \/ q = r
      BY <2>7, AcceptNow
    <3>2. QED
      BY <2>3, <2>4, <2>7, <3>1, AcceptNow DEF AcceptInv, DoneMeansBothAccepted
  <2>8. QED
    BY <2>1, <2>5, <2>6, <2>7 DEF Confirm, Confirmed
<1>12. CASE \E r \in Role : Reject(r)
  BY <1>12, AcceptKept DEF Reject, verdict
<1>13. CASE \E r \in Role : AppClose(r)
  BY <1>13, AcceptKept DEF AppClose, verdict
<1>14. CASE \E r \in Role : Arrive(r)
  BY <1>14, AcceptKept DEF Arrive, verdict
<1>15. CASE \E r \in Role : LinkUp(r)
  BY <1>15, AcceptKept DEF LinkUp, verdict
<1>16. CASE \E r \in Role : LinkDown(r)
  BY <1>16, AcceptKept DEF LinkDown, verdict
<1>17. CASE \E r \in Role : Lose(r)
  BY <1>17, AcceptKept DEF Lose, verdict
<1>18. CASE \E r \in Role : Repeat(r)
  BY <1>18, AcceptKept DEF Repeat, verdict
<1>19. CASE \E r \in Role : Expire(r)
  BY <1>19, AcceptKept DEF Expire, verdict
<1>20. CASE UNCHANGED vars
  BY <1>20, AcceptKept DEF vars, verdict
<1>21. QED
  BY <1>1, <1>2, <1>3, <1>4, <1>5, <1>6, <1>7, <1>8, <1>9, <1>10, <1>11, <1>12, <1>13,
     <1>14, <1>15, <1>16, <1>17, <1>18, <1>19, <1>20 DEF Next, Handler, User, Network

LEMMA BlameNow ==
  ASSUME IInv
  PROVE  /\ HonestPeerNotBlamed /\ failed \in [Role -> SUBSET Codes]
         /\ fsm \in [Role -> States] /\ TypeOK
  BY DEF IInv, TypeOK

LEMMA BlameKept ==
  ASSUME IInv, UNCHANGED failed,
         \A r \in Role : fsm'[r] = "MALLORY" => fsm[r] = "MALLORY"
  PROVE  HonestPeerNotBlamed'
  BY BlameNow DEF HonestPeerNotBlamed, Role

\* An error that does not accuse the peer.
LEMMA FailBlames ==
  ASSUME IInv, NEW r \in Role, NEW cur, NEW code, Fail(r, cur, code),
         code \notin {"commit_mismatch", "commitment_mismatch", "offer_conflict"},
         cur = "MALLORY" => code = "sas_rejected" \/ fsm[r] = "MALLORY"
  PROVE  HonestPeerNotBlamed'
<1>1. failed' = [failed EXCEPT ![r] = failed[r] \cup {code}]
  BY DEF Fail
<1>2. \A q \in Role : failed[q] \subseteq failed'[q] /\ failed'[q] \subseteq failed[q] \cup {code}
  BY <1>1, BlameNow
<1>3. code \in failed'[r]
  BY <1>1, BlameNow
<1>4. \A q \in Role : fsm'[q] = "MALLORY" => fsm[q] = "MALLORY" \/ (q = r /\ cur = "MALLORY")
  BY BlameNow DEF Fail, Stopped
<1>5. QED
  BY <1>2, <1>3, <1>4, BlameNow DEF HonestPeerNotBlamed, Role

LEMMA AdvanceBlames ==
  ASSUME IInv, NEW r \in Role, NEW event, Advance(r, event),
         NextState(r, fsm[r], event) = "MALLORY" => fsm[r] = "MALLORY"
  PROVE  HonestPeerNotBlamed'
  BY BlameNow, BlameKept DEF Advance

LEMMA ConfirmedBlames ==
  ASSUME IInv, NEW r \in Role, Waiting(r), Advance(r, "rcvconfirm")
  PROVE  HonestPeerNotBlamed'
<1>1. fsm[r] \in {"SAS_CONFIRM"} \cup Terminal
  BY WaitingNow
<1>2. NextState(r, fsm[r], "rcvconfirm") = "MALLORY" => fsm[r] = "MALLORY"
  BY <1>1, Tables
<1>3. QED
  BY <1>2, AdvanceBlames

LEMMA TimerCode == ASSUME IInv, NEW r \in Role, timer[r] # "off"
  PROVE timer[r] \in Timeouts
  BY DEF IInv, TypeOK

LEMMA BlameStep ==
  ASSUME IInv, [Next]_vars
  PROVE  HonestPeerNotBlamed'
<1>1. CASE BindCommit
  <2>1. fsm["S"] = "WAIT_COMMIT" /\ NextState("S", "WAIT_COMMIT", "commit") = "WAIT_REVEAL"
    BY <1>1, Tables DEF BindCommit
  <2>2. \/ Advance("S", "commit")
        \/ Fail("S", "WAIT_REVEAL", "handle_error")
        \/ Fail("S", "WAIT_REVEAL", "peer_id_mismatch")
    BY <1>1, <2>1 DEF BindCommit, SendOr
  <2>3. QED
    BY <2>1, <2>2, AdvanceBlames, FailBlames DEF Role
<1>2. CASE CommitAgain
  <2>1. Head(inbox["S"]).nonce = 1 /\ seenCommit \in 0..1
    BY <1>2, HandledFrames DEF CommitAgain, IInv, NonceInv, TypeOK
  <2>2. (UNCHANGED <<fsm, failed>>) \/ Fail("S", fsm["S"], "unexpected_commit")
    BY <1>2, <2>1 DEF CommitAgain, SameCommit, control
  <2>3. QED
    BY <2>2, BlameKept, FailBlames DEF Role
<1>3. CASE OnReveal
  BY <1>3, BlameKept DEF OnReveal, control
<1>4. CASE Verified
  <2>1. revealed = seenCommit /\ fsm["S"] \in States
    BY <1>4, BlameNow DEF Verified, IInv, NonceInv, TypeOK, Role
  <2>2. \/ Fail("S", fsm["S"], "handle_error")
        \/ Allows("S", fsm["S"], "reveal") /\ Advance("S", "reveal")
    BY <1>4, <2>1 DEF Verified
  <2>3. Allows("S", fsm["S"], "reveal") => (NextState("S", fsm["S"], "reveal") = "MALLORY" => fsm["S"] = "MALLORY")
    BY <2>1, Tables DEF Role
  <2>4. QED
    BY <2>2, <2>3, AdvanceBlames, FailBlames DEF Role
<1>5. CASE SendCommit
  <2>1. failed' = failed /\ (fsm' = fsm \/ fsm' = [fsm EXCEPT !["R"] = AfterCommitSent(fsm["R"])])
    BY <1>5 DEF SendCommit
  <2>2. AfterCommitSent(fsm["R"]) = "MALLORY" => fsm["R"] = "MALLORY"
    BY DEF AfterCommitSent
  <2>3. QED
    BY <2>1, <2>2, BlameNow, BlameKept DEF Role
<1>6. CASE BindOffer
  <2>1. NextState("R", fsm["R"], "offer") = "SAS_CONFIRM"
    BY <1>6, HandledFrames, WaitingNow, Tables DEF BindOffer
  <2>2. Advance("R", "offer") \/ Fail("R", "SAS_CONFIRM", "handle_error")
    BY <1>6, <2>1 DEF BindOffer, SendOr
  <2>3. QED
    BY <2>1, <2>2, AdvanceBlames, FailBlames DEF Role
<1>7. CASE OfferAgain
  <2>1. Head(inbox["R"]).nonce = 1 /\ seenOffer = 1
    BY <1>7, HandledFrames DEF OfferAgain, IInv, NonceInv, TypeOK
  <2>2. QED
    BY <1>7, <2>1, BlameKept DEF OfferAgain, control
<1>8. CASE \E r \in Role : ShowSas(r)
  BY <1>8, BlameKept DEF ShowSas, control
<1>9. CASE \E r \in Role : OnRcvConfirm(r)
  <2>1. PICK r \in Role : (UNCHANGED <<fsm, failed>>) \/ (Waiting(r) /\ Advance(r, "rcvconfirm"))
    BY <1>9 DEF OnRcvConfirm, Counts, Waiting, control
  <2>2. QED
    BY <2>1, BlameKept, ConfirmedBlames
<1>10. CASE \E r \in Role : Start(r)
  <2>1. PICK r \in Role : Start(r)
    BY <1>10
  <2>2. CASE r = "S"
    <3>1. NextState("S", fsm["S"], "room_full") = "WAIT_COMMIT"
      BY <2>1, <2>2, IdleNow, Tables DEF Start, Idle, Role
    <3>2. QED
      BY <2>1, <2>2, <3>1, AdvanceBlames DEF Start
  <2>3. CASE r # "S"
    BY <2>1, <2>3, BlameKept DEF Start
  <2>4. QED
    BY <2>2, <2>3
<1>11. CASE \E r \in Role : Confirm(r)
  <2>1. PICK r \in Role : Confirm(r)
    BY <1>11
  <2>2. /\ Waiting(r)
        /\ (UNCHANGED <<fsm, failed>>) \/ Fail(r, fsm[r], "handle_error") \/ Advance(r, "rcvconfirm")
    BY <2>1 DEF Confirm, Confirmed, Waiting
  <2>3. QED
    BY <2>2, BlameKept, FailBlames, ConfirmedBlames
<1>12. CASE \E r \in Role : Reject(r)
  <2>1. PICK r \in Role : Fail(r, Stopped(fsm[r], "MALLORY"), "sas_rejected")
    BY <1>12 DEF Reject
  <2>2. QED
    BY <2>1, FailBlames
<1>13. CASE \E r \in Role : AppClose(r)
  BY <1>13, BlameKept DEF AppClose, control
<1>14. CASE \E r \in Role : Arrive(r)
  BY <1>14, BlameKept DEF Arrive, control
<1>15. CASE \E r \in Role : LinkUp(r)
  BY <1>15, BlameKept DEF LinkUp, control
<1>16. CASE \E r \in Role : LinkDown(r)
  BY <1>16, BlameKept DEF LinkDown, control
<1>17. CASE \E r \in Role : Lose(r)
  BY <1>17, BlameKept DEF Lose, control
<1>18. CASE \E r \in Role : Repeat(r)
  BY <1>18, BlameKept DEF Repeat, control
<1>19. CASE \E r \in Role : Expire(r)
  <2>1. PICK r \in Role : timer[r] # "off" /\ Fail(r, fsm[r], timer[r])
    BY <1>19 DEF Expire
  <2>2. timer[r] \notin {"commit_mismatch", "commitment_mismatch", "offer_conflict"}
    BY <2>1, TimerCode DEF Timeouts
  <2>3. QED
    BY <2>1, <2>2, FailBlames
<1>20. CASE UNCHANGED vars
  BY <1>20, BlameKept DEF vars, control
<1>21. QED
  BY <1>1, <1>2, <1>3, <1>4, <1>5, <1>6, <1>7, <1>8, <1>9, <1>10, <1>11, <1>12, <1>13,
     <1>14, <1>15, <1>16, <1>17, <1>18, <1>19, <1>20 DEF Next, Handler, User, Network

LEMMA TypeNow ==
  ASSUME IInv
  PROVE  /\ started \in [Role -> BOOLEAN] /\ torn \in [Role -> BOOLEAN]
         /\ awaiting \in [Role -> BOOLEAN] /\ accepted \in [Role -> BOOLEAN]
         /\ finished \in BOOLEAN /\ done \in [Role -> Nat]
         /\ sas \in [Role -> Nat \X Nat \X Nat]
         /\ timer \in [Role -> Timeouts \cup {"off"}] /\ failed \in [Role -> SUBSET Codes]
         /\ inbox \in [Role -> Seq(Frame)] /\ net \in [Role -> Seq(Frame)]
         /\ lastSent \in [Role -> Frame]
         /\ link \in [Role -> {"connecting", "open", "closed"}]
         /\ lost \in Nat /\ dups \in Nat /\ revealed \in Nat
         /\ commitStage \in {"none", "computing", "retry", "sent"}
  BY DEF IInv, TypeOK

LEMMA FlagSet ==
  ASSUME NEW f \in [Role -> BOOLEAN], NEW r \in Role, NEW v \in BOOLEAN
  PROVE  [f EXCEPT ![r] = v] \in [Role -> BOOLEAN]
  BY Zenon

LEMMA FailTypes ==
  ASSUME IInv, NEW r \in Role, NEW cur, NEW code \in Codes, Fail(r, cur, code)
  PROVE  timer' \in [Role -> Timeouts \cup {"off"}] /\ failed' \in [Role -> SUBSET Codes]
  BY TypeNow DEF Fail, ClearTimer

LEMMA TimerTypes ==
  ASSUME IInv, NEW r \in Role, NEW code \in Timeouts, Arm(r, code) \/ ClearTimer(r)
  PROVE  timer' \in [Role -> Timeouts \cup {"off"}]
  BY TypeNow, ZenonT(40) DEF Arm, Armed, ClearTimer

LEMMA ControlTypes ==
  ASSUME IInv, [Next]_vars
  PROVE  timer' \in [Role -> Timeouts \cup {"off"}] /\ failed' \in [Role -> SUBSET Codes]
<1>1. CASE BindCommit
  <2>1. \/ Fail("S", "WAIT_REVEAL", "peer_id_mismatch")
        \/ Fail("S", NextState("S", fsm["S"], "commit"), "handle_error")
        \/ Arm("S", "timeout_wait_reveal") /\ failed' = failed
    BY <1>1 DEF BindCommit, SendOr, Advance
  <2>2. QED
    BY <2>1, FailTypes, TimerTypes, TypeNow DEF Codes, Timeouts, Role
<1>2. CASE CommitAgain
  <2>1. \/ UNCHANGED <<timer, failed>>
        \/ \E code \in {"unexpected_commit", "commit_mismatch"} : Fail("S", fsm["S"], code)
    BY <1>2 DEF CommitAgain, control
  <2>2. QED
    BY <2>1, FailTypes, TimerTypes, TypeNow DEF Codes, Timeouts, Role
<1>3. CASE OnReveal
  <2>1. ClearTimer("S") /\ failed' = failed
    BY <1>3 DEF OnReveal
  <2>2. QED
    BY <2>1, FailTypes, TimerTypes, TypeNow DEF Codes, Timeouts, Role
<1>4. CASE Verified
  <2>1. \/ UNCHANGED <<timer, failed>>
        \/ Fail("S", Stopped(fsm["S"], "MALLORY"), "commitment_mismatch")
        \/ Fail("S", fsm["S"], "handle_error")
    BY <1>4 DEF Verified, Advance
  <2>2. QED
    BY <2>1, FailTypes, TimerTypes, TypeNow DEF Codes, Timeouts, Role
<1>5. CASE SendCommit
  BY <1>5, TypeNow DEF SendCommit, control
<1>6. CASE BindOffer
  <2>1. \/ Fail("R", NextState("R", fsm["R"], "offer"), "handle_error")
        \/ ClearTimer("R") /\ failed' = failed
    BY <1>6 DEF BindOffer, SendOr, Advance
  <2>2. QED
    BY <2>1, FailTypes, TimerTypes, TypeNow DEF Codes, Timeouts, Role
<1>7. CASE OfferAgain
  <2>1. UNCHANGED <<timer, failed>> \/ Fail("R", fsm["R"], "offer_conflict")
    BY <1>7 DEF OfferAgain, control
  <2>2. QED
    BY <2>1, FailTypes, TimerTypes, TypeNow DEF Codes, Timeouts, Role
<1>8. CASE \E r \in Role : ShowSas(r)
  <2>1. \E r \in Role : Arm(r, "timeout_wait_sas") /\ failed' = failed
    BY <1>8 DEF ShowSas
  <2>2. QED
    BY <2>1, FailTypes, TimerTypes, TypeNow DEF Codes, Timeouts, Role
<1>9. CASE \E r \in Role : OnRcvConfirm(r)
  <2>1. UNCHANGED <<timer, failed>> \/ \E r \in Role : ClearTimer(r) /\ failed' = failed
    BY <1>9 DEF OnRcvConfirm, Advance, control
  <2>2. QED
    BY <2>1, FailTypes, TimerTypes, TypeNow DEF Codes, Timeouts, Role
<1>10. CASE \E r \in Role : Start(r)
  <2>1. \E r \in Role : Arm(r, "timeout_wait_commit") /\ failed' = failed
    BY <1>10 DEF Start, Advance
  <2>2. QED
    BY <2>1, FailTypes, TimerTypes, TypeNow DEF Codes, Timeouts, Role
<1>11. CASE \E r \in Role : Confirm(r)
  <2>1. PICK r \in Role : Confirm(r)
    BY <1>11
  <2>2. \/ Fail(r, fsm[r], "handle_error")
        \/ Arm(r, "timeout_wait_peer_confirm") /\ failed' = failed
        \/ ClearTimer(r) /\ failed' = failed
    BY <2>1 DEF Confirm, Confirmed, Advance
  <2>3. QED
    BY <2>2, FailTypes, TimerTypes, TypeNow DEF Codes, Timeouts
<1>12. CASE \E r \in Role : Reject(r)
  <2>1. \E r \in Role : Fail(r, Stopped(fsm[r], "MALLORY"), "sas_rejected")
    BY <1>12 DEF Reject
  <2>2. QED
    BY <2>1, FailTypes, TimerTypes, TypeNow DEF Codes, Timeouts, Role
<1>13. CASE \E r \in Role : AppClose(r)
  <2>1. \E r \in Role : ClearTimer(r) /\ failed' = failed
    BY <1>13 DEF AppClose
  <2>2. QED
    BY <2>1, FailTypes, TimerTypes, TypeNow DEF Codes, Timeouts, Role
<1>14. CASE \E r \in Role : Arrive(r)
  BY <1>14, TypeNow DEF Arrive, control
<1>15. CASE \E r \in Role : LinkUp(r)
  BY <1>15, TypeNow DEF LinkUp, control
<1>16. CASE \E r \in Role : LinkDown(r)
  BY <1>16, TypeNow DEF LinkDown, control
<1>17. CASE \E r \in Role : Lose(r)
  BY <1>17, TypeNow DEF Lose, control
<1>18. CASE \E r \in Role : Repeat(r)
  BY <1>18, TypeNow DEF Repeat, control
<1>19. CASE \E r \in Role : Expire(r)
  <2>1. PICK r \in Role : timer[r] # "off" /\ Fail(r, fsm[r], timer[r])
    BY <1>19 DEF Expire
  <2>2. timer[r] \in Codes
    BY <2>1, TimerCode DEF Codes
  <2>3. QED
    BY <2>1, <2>2, FailTypes
<1>20. CASE UNCHANGED vars
  BY <1>20, TypeNow DEF vars, control
<1>21. QED
  BY <1>1, <1>2, <1>3, <1>4, <1>5, <1>6, <1>7, <1>8, <1>9, <1>10, <1>11, <1>12, <1>13,
     <1>14, <1>15, <1>16, <1>17, <1>18, <1>19, <1>20 DEF Next, Handler, User, Network

LEMMA VerdictTypes ==
  ASSUME IInv, [Next]_vars
  PROVE  /\ started' \in [Role -> BOOLEAN] /\ awaiting' \in [Role -> BOOLEAN]
         /\ finished' \in BOOLEAN /\ done' \in [Role -> Nat]
<1>1. CASE BindCommit
  BY <1>1, TypeNow DEF BindCommit, verdict, senderData
<1>2. CASE CommitAgain
  BY <1>2, TypeNow DEF CommitAgain, verdict, senderData
<1>3. CASE OnReveal
  BY <1>3, TypeNow DEF OnReveal, verdict, senderData
<1>4. CASE Verified
  BY <1>4, TypeNow DEF Verified, verdict, senderData
<1>5. CASE SendCommit
  BY <1>5, TypeNow DEF SendCommit, verdict, senderData
<1>6. CASE BindOffer
  BY <1>6, TypeNow DEF BindOffer, verdict, senderData
<1>7. CASE OfferAgain
  BY <1>7, TypeNow DEF OfferAgain, verdict, senderData
<1>8. CASE \E r \in Role : ShowSas(r)
  BY <1>8, TypeNow DEF ShowSas, verdict, senderData
<1>9. CASE \E r \in Role : OnRcvConfirm(r)
  <2>1. PICK r \in Role :
           \/ /\ awaiting' = [awaiting EXCEPT ![r] = FALSE] /\ done' = [done EXCEPT ![r] = done[r] + 1]
              /\ finished' = (finished \/ r = "S")
           \/ UNCHANGED <<awaiting, done, finished>>
    BY <1>9 DEF OnRcvConfirm
  <2>2. started' = started
    BY <1>9 DEF OnRcvConfirm
  <2>3. done' \in [Role -> Nat]
    <3>1. done' = done \/ done' = [done EXCEPT ![r] = done[r] + 1]
      BY <2>1, Zenon
    <3>2. done \in [Role -> Nat]
      BY TypeNow
    <3>3. QED
      BY <3>1, <3>2
  <2>4. awaiting' \in [Role -> BOOLEAN] /\ finished' \in BOOLEAN
    BY <2>1, FlagSet, TypeNow, Zenon
  <2>5. QED
    BY <2>2, <2>3, <2>4, TypeNow
<1>10. CASE \E r \in Role : Start(r)
  <2>1. PICK r \in Role : started' = [started EXCEPT ![r] = TRUE]
    BY <1>10 DEF Start
  <2>2. UNCHANGED <<awaiting, done, finished>>
    BY <1>10 DEF Start, verdict, senderData
  <2>3. started' \in [Role -> BOOLEAN]
    BY <2>1, FlagSet, TypeNow, Zenon
  <2>4. QED
    BY <2>2, <2>3, TypeNow
<1>11. CASE \E r \in Role : Confirm(r)
  <2>1. PICK r \in Role :
           /\ awaiting' = awaiting \/ awaiting' = [awaiting EXCEPT ![r] = TRUE]
           /\ done' = done \/ done' = [done EXCEPT ![r] = done[r] + 1]
           /\ finished' = finished \/ finished' = (finished \/ r = "S")
    BY <1>11 DEF Confirm, Confirmed
  <2>2. started' = started
    BY <1>11 DEF Confirm
  <2>3. done' \in [Role -> Nat]
    <3>1. done' = done \/ done' = [done EXCEPT ![r] = done[r] + 1]
      BY <2>1, Zenon
    <3>2. done \in [Role -> Nat]
      BY TypeNow
    <3>3. QED
      BY <3>1, <3>2
  <2>4. awaiting' \in [Role -> BOOLEAN] /\ finished' \in BOOLEAN
    BY <2>1, FlagSet, TypeNow, Zenon
  <2>5. QED
    BY <2>2, <2>3, <2>4, TypeNow
<1>12. CASE \E r \in Role : Reject(r)
  BY <1>12, TypeNow DEF Reject, verdict, senderData
<1>13. CASE \E r \in Role : AppClose(r)
  BY <1>13, TypeNow DEF AppClose, verdict, senderData
<1>14. CASE \E r \in Role : Arrive(r)
  BY <1>14, TypeNow DEF Arrive, verdict, senderData
<1>15. CASE \E r \in Role : LinkUp(r)
  BY <1>15, TypeNow DEF LinkUp, verdict, senderData
<1>16. CASE \E r \in Role : LinkDown(r)
  BY <1>16, TypeNow DEF LinkDown, verdict, senderData
<1>17. CASE \E r \in Role : Lose(r)
  BY <1>17, TypeNow DEF Lose, verdict, senderData
<1>18. CASE \E r \in Role : Repeat(r)
  BY <1>18, TypeNow DEF Repeat, verdict, senderData
<1>19. CASE \E r \in Role : Expire(r)
  BY <1>19, TypeNow DEF Expire, verdict, senderData
<1>20. CASE UNCHANGED vars
  BY <1>20, TypeNow DEF vars, verdict, senderData
<1>21. QED
  BY <1>1, <1>2, <1>3, <1>4, <1>5, <1>6, <1>7, <1>8, <1>9, <1>10, <1>11, <1>12, <1>13,
     <1>14, <1>15, <1>16, <1>17, <1>18, <1>19, <1>20 DEF Next, Handler, User, Network

LEMMA SentTypes ==
  ASSUME IInv, NEW r \in Role, NEW f \in Frame
  PROVE  Sent(r, f) \in [Role -> Seq(Frame)]
<1>1. Other(r) \in Role /\ net \in [Role -> Seq(Frame)]
  BY TypeNow DEF Other, Role
<1>2. QED
  BY <1>1 DEF Sent

LEMMA NonceOfHead ==
  ASSUME IInv, NEW r \in Role, inbox[r] # <<>>
  PROVE  Head(inbox[r]).nonce \in Nat
<1>1. inbox[r] \in Seq(Frame)
  BY TypeNow
<1>2. Head(inbox[r]) \in Frame
  BY <1>1, QueueOf
<1>3. QED
  BY <1>2 DEF Frame

LEMMA QueueTypes ==
  ASSUME IInv, [Next]_vars
  PROVE  /\ inbox' \in [Role -> Seq(Frame)] /\ net' \in [Role -> Seq(Frame)]
         /\ lastSent' \in [Role -> Frame]
<1>1. CASE BindCommit
  <2>1. \E f \in Frame :
           /\ net' = net \/ net' = Sent("S", f)
           /\ lastSent' = lastSent \/ lastSent' = [lastSent EXCEPT !["S"] = f]
    <3>1. OfferSent(offer + 1) \in Nat
      BY DEF OfferSent, IInv, TypeOK
    <3>2. [type |-> "offer", nonce |-> OfferSent(offer + 1)] \in Frame
      BY <3>1 DEF Frame
    <3>3. QED
      BY <1>1, <3>2 DEF BindCommit, SendOr, wire
  <2>2. inbox["S"] # <<>> /\ inbox' = [inbox EXCEPT !["S"] = Tail(@)]
    BY <1>1 DEF BindCommit, Handling, Take
  <2>3. net' \in [Role -> Seq(Frame)] /\ lastSent' \in [Role -> Frame]
    <3>1. PICK f \in Frame :
             /\ net' = net \/ net' = Sent("S", f)
             /\ lastSent' = lastSent \/ lastSent' = [lastSent EXCEPT !["S"] = f]
      BY <2>1
    <3>2. net' \in [Role -> Seq(Frame)]
      <4>1. "S" \in Role
        BY DEF Role
      <4>2. Sent("S", f) \in [Role -> Seq(Frame)] /\ net \in [Role -> Seq(Frame)]
        BY <4>1, SentTypes, TypeNow
      <4>3. QED
        BY <3>1, <4>2, Zenon
    <3>3. lastSent' \in [Role -> Frame]
      BY <3>1, TypeNow, ZenonT(40)
    <3>4. QED
      BY <3>2, <3>3
  <2>4. QED
    BY <2>2, <2>3, TypeNow DEF Role
<1>2. CASE CommitAgain
  <2>1. net' = net /\ lastSent' = lastSent
    BY <1>2 DEF CommitAgain, wire
  <2>2. inbox["S"] # <<>> /\ inbox' = [inbox EXCEPT !["S"] = Tail(@)]
    BY <1>2 DEF CommitAgain, Handling, Take
  <2>3. QED
    BY <2>1, <2>2, TypeNow DEF Role
<1>3. CASE OnReveal
  <2>1. net' = net /\ lastSent' = lastSent
    BY <1>3 DEF OnReveal, wire
  <2>2. inbox["S"] # <<>> /\ inbox' = [inbox EXCEPT !["S"] = Tail(@)]
    BY <1>3 DEF OnReveal, Handling, Take
  <2>3. QED
    BY <2>1, <2>2, TypeNow DEF Role
<1>4. CASE Verified
  BY <1>4, TypeNow DEF Verified, wire
<1>5. CASE SendCommit
  <2>1. [type |-> "commit", nonce |-> nonceR'] \in Frame
    BY <1>5, CommitFrame DEF FromReceiver
  <2>2. /\ net' = Sent("R", [type |-> "commit", nonce |-> nonceR'])
        /\ lastSent' = [lastSent EXCEPT !["R"] = [type |-> "commit", nonce |-> nonceR']]
        /\ inbox' = inbox
    BY <1>5 DEF SendCommit
  <2>3. net' \in [Role -> Seq(Frame)]
    BY <2>1, <2>2, SentTypes DEF Role
  <2>4. QED
    BY <2>1, <2>2, <2>3, TypeNow DEF Role
<1>6. CASE BindOffer
  <2>1. [type |-> "reveal", nonce |-> nonceR] \in Frame
    BY DEF Frame, IInv, TypeOK
  <2>2. /\ net' = Sent("R", [type |-> "reveal", nonce |-> nonceR])
        /\ lastSent' = [lastSent EXCEPT !["R"] = [type |-> "reveal", nonce |-> nonceR]]
    BY <1>6 DEF BindOffer, SendOr
  <2>3. inbox["R"] # <<>> /\ inbox' = [inbox EXCEPT !["R"] = Tail(@)]
    BY <1>6 DEF BindOffer, Handling, Take
  <2>4. net' \in [Role -> Seq(Frame)]
    BY <2>1, <2>2, SentTypes DEF Role
  <2>5. inbox' \in [Role -> Seq(Frame)]
    BY <2>3, TypeNow DEF Role
  <2>6. lastSent' \in [Role -> Frame]
    BY <2>1, <2>2, TypeNow
  <2>7. QED
    BY <2>4, <2>5, <2>6
<1>7. CASE OfferAgain
  <2>1. net' = net /\ lastSent' = lastSent
    BY <1>7 DEF OfferAgain, wire
  <2>2. inbox["R"] # <<>> /\ inbox' = [inbox EXCEPT !["R"] = Tail(@)]
    BY <1>7 DEF OfferAgain, Handling, Take
  <2>3. QED
    BY <2>1, <2>2, TypeNow DEF Role
<1>8. CASE \E r \in Role : ShowSas(r)
  BY <1>8, TypeNow DEF ShowSas, wire
<1>9. CASE \E r \in Role : OnRcvConfirm(r)
  <2>1. net' = net /\ lastSent' = lastSent
    BY <1>9 DEF OnRcvConfirm, wire
  <2>2. PICK r \in Role : inbox[r] # <<>> /\ inbox' = [inbox EXCEPT ![r] = Tail(@)]
    BY <1>9 DEF OnRcvConfirm, Handling, Take
  <2>3. QED
    BY <2>1, <2>2, TypeNow
<1>10. CASE \E r \in Role : Start(r)
  BY <1>10, TypeNow DEF Start, wire
<1>11. CASE \E r \in Role : Confirm(r)
  <2>1. PICK r \in Role : Confirm(r)
    BY <1>11
  <2>2. [type |-> "rcvconfirm", nonce |-> 0] \in Frame
    BY DEF Frame
  <2>3. /\ net' = Sent(r, [type |-> "rcvconfirm", nonce |-> 0])
        /\ lastSent' = [lastSent EXCEPT ![r] = [type |-> "rcvconfirm", nonce |-> 0]]
        /\ inbox' = inbox
    BY <2>1 DEF Confirm
  <2>4. net' \in [Role -> Seq(Frame)]
    BY <2>2, <2>3, SentTypes
  <2>5. QED
    BY <2>2, <2>3, <2>4, TypeNow
<1>12. CASE \E r \in Role : Reject(r)
  BY <1>12, TypeNow DEF Reject, wire
<1>13. CASE \E r \in Role : AppClose(r)
  BY <1>13, TypeNow DEF AppClose, wire
<1>14. CASE \E r \in Role : Arrive(r)
  <2>1. PICK r \in Role :
           /\ net[r] # <<>> /\ net' = [net EXCEPT ![r] = Tail(@)] /\ lastSent' = lastSent
           /\ inbox' = inbox \/ inbox' = [inbox EXCEPT ![r] = Append(@, Head(net[r]))]
    BY <1>14 DEF Arrive
  <2>2. Head(net[r]) \in Frame
    BY <2>1, TypeNow
  <2>3. Append(inbox[r], Head(net[r])) \in Seq(Frame)
    BY <2>2, TypeNow
  <2>4. net' \in [Role -> Seq(Frame)]
    BY <2>1, TypeNow
  <2>5. inbox' \in [Role -> Seq(Frame)]
    BY <2>1, <2>3, TypeNow
  <2>6. QED
    BY <2>1, <2>4, <2>5, TypeNow
<1>15. CASE \E r \in Role : LinkUp(r)
  BY <1>15, TypeNow DEF LinkUp
<1>16. CASE \E r \in Role : LinkDown(r)
  BY <1>16, TypeNow DEF LinkDown
<1>17. CASE \E r \in Role : Lose(r)
  <2>1. PICK r \in Role : net[r] # <<>> /\ net' = [net EXCEPT ![r] = Tail(@)]
    BY <1>17 DEF Lose
  <2>2. inbox' = inbox /\ lastSent' = lastSent
    BY <1>17 DEF Lose
  <2>3. QED
    BY <2>1, <2>2, QueueOf, TypeNow
<1>18. CASE \E r \in Role : Repeat(r)
  <2>1. PICK r \in Role : net[r] # <<>> /\ net' = [net EXCEPT ![r] = Append(@, Head(@))]
    BY <1>18 DEF Repeat
  <2>2. inbox' = inbox /\ lastSent' = lastSent
    BY <1>18 DEF Repeat
  <2>3. QED
    BY <2>1, <2>2, QueueOf, TypeNow
<1>19. CASE \E r \in Role : Expire(r)
  <2>1. PICK r \in Role : /\ net' = net \/ net' = Sent(r, lastSent[r])
                          /\ inbox' = inbox /\ lastSent' = lastSent
    BY <1>19 DEF Expire
  <2>2. lastSent[r] \in Frame
    BY TypeNow
  <2>3. net' \in [Role -> Seq(Frame)]
    BY <2>1, <2>2, SentTypes, TypeNow
  <2>4. QED
    BY <2>1, <2>3, TypeNow
<1>20. CASE UNCHANGED vars
  BY <1>20, TypeNow DEF vars, wire
<1>21. QED
  BY <1>1, <1>2, <1>3, <1>4, <1>5, <1>6, <1>7, <1>8, <1>9, <1>10, <1>11, <1>12, <1>13,
     <1>14, <1>15, <1>16, <1>17, <1>18, <1>19, <1>20 DEF Next, Handler, User, Network

LEMMA DataTypes ==
  ASSUME IInv, [Next]_vars
  PROVE  /\ link' \in [Role -> {"connecting", "open", "closed"}]
         /\ lost' \in Nat /\ dups' \in Nat /\ revealed' \in Nat
         /\ commitStage' \in {"none", "computing", "retry", "sent"}
<1>1. CASE BindCommit
  <2>1. UNCHANGED <<link, lost, dups, revealed, commitStage>>
    BY <1>1 DEF BindCommit, SendOr, wire, receiverData
  <2>2. QED
    BY <2>1, TypeNow
<1>2. CASE CommitAgain
  BY <1>2, TypeNow DEF CommitAgain, wire, senderData, receiverData
<1>3. CASE OnReveal
  <2>1. revealed' \in Nat
    BY <1>3, NonceOfHead DEF OnReveal, Handling, Role
  <2>2. QED
    BY <1>3, <2>1, TypeNow DEF OnReveal, wire, receiverData
<1>4. CASE Verified
  BY <1>4, TypeNow DEF Verified, wire, senderData, receiverData
<1>5. CASE SendCommit
  BY <1>5, TypeNow DEF SendCommit, wire, senderData, receiverData
<1>6. CASE BindOffer
  BY <1>6, TypeNow DEF BindOffer, wire, senderData, receiverData, SendOr
<1>7. CASE OfferAgain
  BY <1>7, TypeNow DEF OfferAgain, wire, senderData, receiverData
<1>8. CASE \E r \in Role : ShowSas(r)
  BY <1>8, TypeNow DEF ShowSas, wire, senderData, receiverData
<1>9. CASE \E r \in Role : OnRcvConfirm(r)
  BY <1>9, TypeNow DEF OnRcvConfirm, wire, senderData, receiverData
<1>10. CASE \E r \in Role : Start(r)
  BY <1>10, TypeNow DEF Start, wire, senderData, receiverData
<1>11. CASE \E r \in Role : Confirm(r)
  BY <1>11, TypeNow DEF Confirm, wire, senderData, receiverData
<1>12. CASE \E r \in Role : Reject(r)
  <2>1. PICK r \in Role : \E v \in {"open", "closed"} : link' = [link EXCEPT ![r] = v]
    BY <1>12 DEF Reject
  <2>2. UNCHANGED <<lost, dups, revealed, commitStage>>
    BY <1>12 DEF Reject, senderData, receiverData
  <2>3. QED
    BY <2>1, <2>2, TypeNow
<1>13. CASE \E r \in Role : AppClose(r)
  BY <1>13, TypeNow DEF AppClose, wire, senderData, receiverData
<1>14. CASE \E r \in Role : Arrive(r)
  BY <1>14, TypeNow DEF Arrive, wire, senderData, receiverData
<1>15. CASE \E r \in Role : LinkUp(r)
  <2>1. PICK r \in Role : \E v \in {"open", "closed"} : link' = [link EXCEPT ![r] = v]
    BY <1>15 DEF LinkUp
  <2>2. UNCHANGED <<lost, dups, revealed, commitStage>>
    BY <1>15 DEF LinkUp, senderData, receiverData
  <2>3. QED
    BY <2>1, <2>2, TypeNow
<1>16. CASE \E r \in Role : LinkDown(r)
  <2>1. PICK r \in Role : \E v \in {"open", "closed"} : link' = [link EXCEPT ![r] = v]
    BY <1>16 DEF LinkDown
  <2>2. UNCHANGED <<lost, dups, revealed, commitStage>>
    BY <1>16 DEF LinkDown, senderData, receiverData
  <2>3. QED
    BY <2>1, <2>2, TypeNow
<1>17. CASE \E r \in Role : Lose(r)
  BY <1>17, TypeNow DEF Lose, wire, senderData, receiverData
<1>18. CASE \E r \in Role : Repeat(r)
  BY <1>18, TypeNow, SMTT(40) DEF Repeat, wire, senderData, receiverData
<1>19. CASE \E r \in Role : Expire(r)
  BY <1>19, TypeNow DEF Expire, wire, senderData, receiverData
<1>20. CASE UNCHANGED vars
  BY <1>20, TypeNow DEF vars, wire, senderData, receiverData
<1>21. QED
  BY <1>1, <1>2, <1>3, <1>4, <1>5, <1>6, <1>7, <1>8, <1>9, <1>10, <1>11, <1>12, <1>13,
     <1>14, <1>15, <1>16, <1>17, <1>18, <1>19, <1>20 DEF Next, Handler, User, Network

LEMMA TypeStep == IInv /\ [Next]_vars => TypeOK'
<1> SUFFICES ASSUME IInv, [Next]_vars PROVE TypeOK'
  OBVIOUS
<1>1. fsm' \in [Role -> States] /\ \A r \in Role : fsm'[r] \in StatesOf(r)
  <2>1. \A r \in Role : fsm[r] \in StatesOf(r)
    BY DEF IInv, TypeOK
  <2>2. QED
    BY <2>1, FsmStep DEF FsmMoves, Edge, StatesOf, Terminal
<1>2. torn' \in [Role -> BOOLEAN]
  BY TornStep, TypeNow, FlagSet, Zenon
<1>3. accepted' \in [Role -> BOOLEAN]
  <2>1. accepted' = accepted \/ \E r \in Role : accepted' = [accepted EXCEPT ![r] = TRUE]
    BY Writers DEF Confirm
  <2>2. QED
    BY <2>1, TypeNow, FlagSet, Zenon
<1>4. sas' \in [Role -> Nat \X Nat \X Nat]
  <2>1. sas' = sas \/ \E r \in Role : \E v : sas' = [sas EXCEPT ![r] = v]
    BY Writers DEF ShowSas
  <2>2. {NoSas, <<1, 1, 1>>} \subseteq Nat \X Nat \X Nat
    BY DEF NoSas
  <2>3. \A r \in Role : sas'[r] \in Nat \X Nat \X Nat
    BY SasStep, <2>2
  <2>4. sas \in [Role -> Nat \X Nat \X Nat]
    BY TypeNow
  <2>5. QED
    BY <2>1, <2>3, <2>4
<1>5. QED
  BY <1>1, <1>2, <1>3, <1>4, ControlTypes, VerdictTypes, QueueTypes, DataTypes, PcStep,
     NumbersStep DEF TypeOK

----------------------------------------------------------------------------
(* Theorems. *)

LEMMA InvStep == IInv /\ [Next]_vars => IInv'
  BY TypeStep, FramesStep, NonceStep, FsmInvStep, AcceptStep, BlameStep DEF IInv

\* The inductive invariant holds in every reachable state.
THEOREM AuthInvariant == Spec => []IInv
  BY InvInit, InvStep, PTL DEF Spec

\* Every variable of the handshake stays in its type.
THEOREM TypeCorrect == Spec => []TypeOK
<1>1. IInv => TypeOK
  BY DEF IInv
<1>2. QED
  BY <1>1, AuthInvariant, PTL

\* Under either policy, whatever is lost, repeated, resent or retried, the two
\* users never compare different strings.
THEOREM SasAgreement == Spec => []SasAgrees
<1>1. IInv => SasAgrees
  BY DEF IInv, NonceInv, SasAgrees, Role
<1>2. QED
  BY <1>1, AuthInvariant, PTL

\* Over a data channel no side is done before both users accepted.
THEOREM BothAccepted == Spec => []DoneMeansBothAccepted
<1>1. IInv => DoneMeansBothAccepted
  BY DEF IInv, AcceptInv
<1>2. QED
  BY <1>1, AuthInvariant, PTL

\* No repetition, resend or retry of an honest peer is taken for an attack.
THEOREM HonestPeer == Spec => []HonestPeerNotBlamed
<1>1. IInv => HonestPeerNotBlamed
  BY DEF IInv
<1>2. QED
  BY <1>1, AuthInvariant, PTL


----------------------------------------------------------------------------
(* Nothing follows onDone over a data channel. *)

\* A channel that keeps the order of its frames and repeats none.
InSequence == Policy = "rtc" /\ MaxDup = 0

Has(q, type) == \E i \in 1 .. Len(q) : q[i].type = type

RevealsFirst(q) ==
    \A i, j \in 1 .. Len(q) : q[i].type = "rcvconfirm" /\ q[j].type = "reveal" => j < i

\* No REVEAL follows the receiver's confirmation: n is in flight to the sender, b
\* chained behind its handler, d says whether it is done.
Settled(n, b, d) ==
    /\ RevealsFirst(n) /\ RevealsFirst(b)
    /\ Has(b, "rcvconfirm") => ~Has(n, "reveal")
    /\ d => ~Has(b, "reveal") /\ ~Has(n, "reveal")

BoundInv ==
    /\ accepted["R"] => seenOffer = 1 /\ lastSent["R"].type # "reveal"
    /\ accepted["S"] => seenCommit = 1

\* A side that is done has no timer, no handler and nothing left to handle but
\* repeated confirmations.
FinalInv ==
    /\ BoundInv
    /\ Settled(net["S"], inbox["S"], done["S"] > 0)
    /\ \A r \in Role : done[r] > 0 => started[r] /\ timer[r] = "off" /\ pc[r] = "idle"


LEMMA EndsOf ==
  ASSUME NEW q \in Seq(Frame)
  PROVE  /\ \A f \in Frame : /\ Append(q, f) \in Seq(Frame) /\ Len(Append(q, f)) = Len(q) + 1
                             /\ Append(q, f)[Len(q) + 1] = f
                             /\ \A i \in 1 .. Len(q) : Append(q, f)[i] = q[i]
         /\ q # <<>> => /\ Len(q) > 0 /\ Head(q) = q[1] /\ Head(q) \in Frame
                        /\ Tail(q) \in Seq(Frame) /\ Len(Tail(q)) = Len(q) - 1
                        /\ \A i \in 1 .. Len(q) - 1 : Tail(q)[i] = q[i + 1]
OBVIOUS

LEMMA HasGrows ==
  ASSUME NEW q \in Seq(Frame), NEW f \in Frame, NEW type
  PROVE  Has(Append(q, f), type) <=> Has(q, type) \/ f.type = type
<1>1. Len(q) \in Nat
  OBVIOUS
<1>2. ASSUME Has(Append(q, f), type) PROVE Has(q, type) \/ f.type = type
  <2>1. PICK i \in 1 .. Len(q) + 1 : Append(q, f)[i].type = type
    BY <1>2, EndsOf DEF Has
  <2>2. CASE i = Len(q) + 1
    BY <2>1, <2>2, EndsOf
  <2>3. CASE i # Len(q) + 1
    <3>1. i \in 1 .. Len(q)
      BY <1>1, <2>3
    <3>2. QED
      BY <2>1, <3>1, EndsOf DEF Has
  <2>4. QED
    BY <2>2, <2>3
<1>3. ASSUME f.type = type PROVE Has(Append(q, f), type)
  <2>1. Len(q) + 1 \in 1 .. Len(Append(q, f))
    BY <1>1, EndsOf
  <2>2. QED
    BY <1>3, <2>1, EndsOf DEF Has
<1>4. ASSUME Has(q, type) PROVE Has(Append(q, f), type)
  <2>1. PICK i \in 1 .. Len(q) : q[i].type = type
    BY <1>4 DEF Has
  <2>2. i \in 1 .. Len(Append(q, f)) /\ Append(q, f)[i] = q[i]
    BY <1>1, <2>1, EndsOf
  <2>3. QED
    BY <2>1, <2>2 DEF Has
<1>5. QED
  BY <1>2, <1>3, <1>4

LEMMA HasShrinks ==
  ASSUME NEW q \in Seq(Frame), q # <<>>, NEW type
  PROVE  /\ Has(Tail(q), type) => Has(q, type)
         /\ Head(q).type = type => Has(q, type)
<1>1. Len(q) \in Nat /\ Len(q) > 0
  BY EndsOf
<1>2. ASSUME NEW i \in 1 .. Len(Tail(q)), Tail(q)[i].type = type PROVE Has(q, type)
  <2>1. i \in 1 .. Len(q) - 1 /\ i + 1 \in 1 .. Len(q) /\ Tail(q)[i] = q[i + 1]
    BY <1>1, EndsOf
  <2>2. QED
    BY <1>2, <2>1 DEF Has
<1>3. Head(q).type = type => Has(q, type)
  <2>1. 1 \in 1 .. Len(q)
    BY <1>1
  <2>2. QED
    BY <2>1, EndsOf DEF Has
<1>4. QED
  BY <1>2, <1>3 DEF Has

LEMMA RevealsFirstGrows ==
  ASSUME NEW q \in Seq(Frame), NEW f \in Frame, RevealsFirst(q),
         f.type = "reveal" => ~Has(q, "rcvconfirm")
  PROVE  RevealsFirst(Append(q, f))
<1>1. Len(q) \in Nat
  OBVIOUS
<1> DEFINE p == Append(q, f)
<1>2. /\ Len(p) = Len(q) + 1 /\ p[Len(q) + 1] = f
      /\ \A i \in 1 .. Len(q) : p[i] = q[i]
  BY EndsOf
<1> HIDE DEF p
<1>3. ASSUME NEW i \in 1 .. Len(p), NEW j \in 1 .. Len(p),
             p[i].type = "rcvconfirm", p[j].type = "reveal"
      PROVE  j < i
  <2>1. i \in 1 .. Len(q) \/ i = Len(q) + 1
    BY <1>1, <1>2
  <2>2. j \in 1 .. Len(q) \/ j = Len(q) + 1
    BY <1>1, <1>2
  <2>3. CASE i \in 1 .. Len(q) /\ j \in 1 .. Len(q)
    BY <1>2, <1>3, <2>3 DEF RevealsFirst
  <2>4. CASE i \in 1 .. Len(q) /\ j = Len(q) + 1
    BY <1>2, <1>3, <2>4 DEF Has
  <2>5. CASE i = Len(q) + 1 /\ j \in 1 .. Len(q)
    BY <1>1, <2>5
  <2>6. CASE i = Len(q) + 1 /\ j = Len(q) + 1
    BY <1>3, <2>6
  <2>7. QED
    BY <2>1, <2>2, <2>3, <2>4, <2>5, <2>6
<1>4. RevealsFirst(p)
  BY <1>3 DEF RevealsFirst
<1>5. QED
  BY <1>4 DEF p

LEMMA RevealsFirstShrinks ==
  ASSUME NEW q \in Seq(Frame), q # <<>>, RevealsFirst(q)
  PROVE  /\ RevealsFirst(Tail(q))
         /\ Head(q).type = "rcvconfirm" => ~Has(Tail(q), "reveal")
<1>1. /\ Len(q) \in Nat /\ Len(q) > 0 /\ Len(Tail(q)) = Len(q) - 1 /\ Head(q) = q[1]
      /\ \A i \in 1 .. Len(q) - 1 : i + 1 \in 1 .. Len(q) /\ Tail(q)[i] = q[i + 1]
      /\ 1 \in 1 .. Len(q)
  BY EndsOf
<1>2. ASSUME NEW i \in 1 .. Len(Tail(q)), NEW j \in 1 .. Len(Tail(q)),
             Tail(q)[i].type = "rcvconfirm", Tail(q)[j].type = "reveal"
      PROVE  j < i
  <2>1. q[i + 1].type = "rcvconfirm" /\ q[j + 1].type = "reveal"
        /\ i + 1 \in 1 .. Len(q) /\ j + 1 \in 1 .. Len(q)
    BY <1>1, <1>2
  <2>2. j + 1 < i + 1
    BY <2>1 DEF RevealsFirst
  <2>3. QED
    BY <2>2
<1>3. ASSUME Head(q).type = "rcvconfirm", NEW i \in 1 .. Len(Tail(q)), Tail(q)[i].type = "reveal"
      PROVE  FALSE
  <2>1. q[1].type = "rcvconfirm" /\ q[i + 1].type = "reveal" /\ i + 1 \in 1 .. Len(q)
    BY <1>1, <1>3
  <2>2. i + 1 < 1
    BY <1>1, <2>1 DEF RevealsFirst
  <2>3. QED
    BY <1>1, <2>2
<1>4. QED
  BY <1>2, <1>3 DEF RevealsFirst, Has

\* What a step may do to the frames on their way to the sender's handler.
LEMMA SettledSteps ==
  ASSUME NEW n \in Seq(Frame), NEW b \in Seq(Frame), NEW d \in BOOLEAN, Settled(n, b, d)
  PROVE  /\ \A f \in Frame :
              \/ f.type # "reveal"
              \/ ~Has(n, "rcvconfirm") /\ ~Has(b, "rcvconfirm") /\ ~d
              => Settled(Append(n, f), b, d)
         /\ n # <<>> => Settled(Tail(n), b, d) /\ Settled(Tail(n), Append(b, Head(n)), d)
         /\ b # <<>> => /\ Settled(n, Tail(b), d)
                        /\ Head(b).type = "rcvconfirm" => Settled(n, Tail(b), TRUE)
<1>1. ASSUME NEW f \in Frame,
             f.type # "reveal" \/ (~Has(n, "rcvconfirm") /\ ~Has(b, "rcvconfirm") /\ ~d)
      PROVE  Settled(Append(n, f), b, d)
  <2>1. RevealsFirst(Append(n, f))
    BY <1>1, RevealsFirstGrows DEF Settled
  <2>2. Has(Append(n, f), "reveal") <=> Has(n, "reveal") \/ f.type = "reveal"
    BY HasGrows
  <2>3. QED
    BY <1>1, <2>1, <2>2 DEF Settled
<1>2. ASSUME n # <<>>
      PROVE  Settled(Tail(n), b, d) /\ Settled(Tail(n), Append(b, Head(n)), d)
  <2>1. /\ RevealsFirst(Tail(n)) /\ (Has(Tail(n), "reveal") => Has(n, "reveal"))
        /\ Head(n) \in Frame /\ Tail(n) \in Seq(Frame)
        /\ Head(n).type = "rcvconfirm" => ~Has(Tail(n), "reveal")
        /\ Head(n).type = "reveal" => Has(n, "reveal")
    BY <1>2, RevealsFirstShrinks, HasShrinks, EndsOf DEF Settled
  <2>2. Settled(Tail(n), b, d)
    BY <2>1 DEF Settled
  <2>3. RevealsFirst(Append(b, Head(n)))
    BY <2>1, RevealsFirstGrows DEF Settled
  <2>4. \A type : Has(Append(b, Head(n)), type) <=> Has(b, type) \/ Head(n).type = type
    BY <2>1, HasGrows
  <2>5. QED
    BY <2>1, <2>2, <2>3, <2>4 DEF Settled
<1>3. ASSUME b # <<>>
      PROVE  /\ Settled(n, Tail(b), d)
             /\ Head(b).type = "rcvconfirm" => Settled(n, Tail(b), TRUE)
  <2>1. /\ RevealsFirst(Tail(b)) /\ \A type : (Has(Tail(b), type) => Has(b, type))
        /\ Head(b).type = "rcvconfirm" => ~Has(Tail(b), "reveal") /\ Has(b, "rcvconfirm")
    BY <1>3, RevealsFirstShrinks, HasShrinks DEF Settled
  <2>2. QED
    BY <2>1 DEF Settled
<1>4. QED
  BY <1>1, <1>2, <1>3


LEMMA FinalNow ==
  ASSUME IInv, FinalInv, InSequence, NEW r \in Role, done[r] > 0
  PROVE  /\ started[r] /\ timer[r] = "off" /\ pc[r] = "idle"
         /\ seenOffer = 1 /\ seenCommit = 1 /\ accepted["S"] /\ accepted["R"]
         /\ r = "S" => ~Handling("S", "reveal")
<1>1. started[r] /\ timer[r] = "off" /\ pc[r] = "idle"
  BY DEF FinalInv
<1>2. accepted["S"] /\ accepted["R"]
  BY DEF IInv, AcceptInv, DoneMeansBothAccepted, InSequence
<1>3. seenOffer = 1 /\ seenCommit = 1
  BY <1>2 DEF FinalInv, BoundInv
<1>4. ASSUME r = "S", Handling("S", "reveal") PROVE FALSE
  <2>1. inbox["S"] \in Seq(Frame) /\ inbox["S"] # <<>> /\ Head(inbox["S"]).type = "reveal"
    BY <1>4, TypeNow DEF Handling, Role
  <2>2. Has(inbox["S"], "reveal")
    BY <2>1, HasShrinks
  <2>3. QED
    BY <1>4, <2>2 DEF FinalInv, Settled
<1>5. QED
  BY <1>1, <1>2, <1>3, <1>4

\* A side that a step leaves as it is.
Spared(r) == /\ failed'[r] = failed[r] /\ timer'[r] = timer[r]
             /\ pc'[r] = pc[r] /\ started'[r] = started[r]

LEMMA FailSpares ==
  ASSUME IInv, NEW q \in Role, NEW r \in Role, q # r, NEW cur, NEW code, Fail(q, cur, code)
  PROVE  failed'[r] = failed[r] /\ timer'[r] = timer[r]
  BY TypeNow DEF Fail, ClearTimer

LEMMA TimerSpares ==
  ASSUME IInv, NEW q \in Role, NEW r \in Role, q # r, NEW code, Arm(q, code) \/ ClearTimer(q)
  PROVE  timer'[r] = timer[r]
  BY TypeNow DEF Arm, ClearTimer

LEMMA PcSpares ==
  ASSUME IInv, NEW q \in Role, NEW r \in Role, q # r, NEW v,
         pc' = pc \/ pc' = [pc EXCEPT ![q] = v]
  PROVE  pc'[r] = pc[r]
  BY IdleNow

\* Nothing a side does, or that is done to it, moves it once it is done.
LEMMA DoneIsSpared ==
  ASSUME IInv, FinalInv, InSequence, [Next]_vars, NEW r \in Role, done[r] > 0
  PROVE  Spared(r) \/ (OnRcvConfirm(r) /\ failed' = failed /\ pc' = pc /\ started' = started
                       /\ timer'[r] = "off")
<1>1. CASE BindCommit
  <2>1. r # "S" /\ "S" \in Role
    BY <1>1, FinalNow DEF BindCommit, Role
  <2>2. /\ started' = started
        /\ pc' = pc \/ pc' = [pc EXCEPT !["S"] = "idle"]
        /\ \/ \E cur, code : Fail("S", cur, code)
           \/ Arm("S", "timeout_wait_reveal") /\ failed' = failed
    BY <1>1 DEF BindCommit, SendOr, Advance
  <2>3. QED
    BY <2>1, <2>2, FailSpares, TimerSpares, PcSpares DEF Spared
<1>2. CASE CommitAgain
  <2>1. Head(inbox["S"]).nonce = 1
    BY <1>2, HandledFrames DEF CommitAgain
  <2>2. /\ started' = started /\ pc' = pc
        /\ \/ r # "S" /\ \E cur, code : Fail("S", cur, code)
           \/ failed' = failed /\ timer' = timer
    BY <1>2, <2>1, FinalNow DEF CommitAgain, SameCommit, control
  <2>3. QED
    BY <2>2, FailSpares DEF Spared, Role
<1>3. CASE OnReveal
  <2>1. r # "S" /\ "S" \in Role
    BY <1>3, FinalNow DEF OnReveal, Role
  <2>2. /\ started' = started /\ failed' = failed /\ ClearTimer("S")
        /\ pc' = [pc EXCEPT !["S"] = "verify"]
    BY <1>3 DEF OnReveal
  <2>3. QED
    BY <2>1, <2>2, TimerSpares, PcSpares DEF Spared
<1>4. CASE Verified
  <2>1. r # "S" /\ "S" \in Role
    BY <1>4, FinalNow DEF Verified, Role
  <2>2. /\ started' = started
        /\ pc' = [pc EXCEPT !["S"] = "idle"] \/ pc' = [pc EXCEPT !["S"] = "sas"]
        /\ \/ \E cur, code : Fail("S", cur, code)
           \/ failed' = failed /\ timer' = timer
    BY <1>4 DEF Verified, Advance
  <2>3. QED
    BY <2>1, <2>2, FailSpares, PcSpares DEF Spared
<1>5. CASE SendCommit
  BY <1>5 DEF SendCommit, Spared
<1>6. CASE BindOffer
  <2>1. r # "R" /\ "R" \in Role
    BY <1>6, FinalNow DEF BindOffer, Role
  <2>2. /\ started' = started
        /\ pc' = [pc EXCEPT !["R"] = "idle"] \/ pc' = [pc EXCEPT !["R"] = "sas"]
        /\ \/ \E cur, code : Fail("R", cur, code)
           \/ ClearTimer("R") /\ failed' = failed
    BY <1>6 DEF BindOffer, SendOr, Advance
  <2>3. QED
    BY <2>1, <2>2, FailSpares, TimerSpares, PcSpares DEF Spared
<1>7. CASE OfferAgain
  <2>1. Head(inbox["R"]).nonce = 1
    BY <1>7, HandledFrames DEF OfferAgain
  <2>2. seenOffer = 1
    BY FinalNow
  <2>3. failed' = failed /\ timer' = timer /\ pc' = pc /\ started' = started
    BY <1>7, <2>1, <2>2 DEF OfferAgain, control
  <2>4. QED
    BY <2>3 DEF Spared
<1>8. ASSUME NEW q \in Role, ShowSas(q) PROVE Spared(r)
  <2>1. r # q
    BY <1>8, FinalNow DEF ShowSas
  <2>2. /\ started' = started /\ failed' = failed /\ Arm(q, "timeout_wait_sas")
        /\ pc' = [pc EXCEPT ![q] = "confirm"]
    BY <1>8 DEF ShowSas
  <2>3. QED
    BY <2>1, <2>2, TimerSpares, PcSpares DEF Spared
<1>9. ASSUME NEW q \in Role, OnRcvConfirm(q)
      PROVE  Spared(r) \/ (OnRcvConfirm(r) /\ failed' = failed /\ pc' = pc /\ started' = started
                           /\ timer'[r] = "off")
  <2>1. /\ failed' = failed /\ pc' = pc /\ started' = started
        /\ timer' = timer \/ ClearTimer(q)
    BY <1>9 DEF OnRcvConfirm, Advance, control
  <2>2. CASE q = r
    <3>1. ClearTimer(r) => timer'[r] = "off"
      BY TypeNow DEF ClearTimer
    <3>2. timer[r] = "off"
      BY FinalNow
    <3>3. QED
      BY <1>9, <2>1, <2>2, <3>1, <3>2
  <2>3. CASE q # r
    BY <2>1, <2>3, TimerSpares DEF Spared
  <2>4. QED
    BY <2>2, <2>3
<1>10. ASSUME NEW q \in Role, Start(q) PROVE Spared(r)
  <2>1. r # q
    BY <1>10, FinalNow DEF Start
  <2>2. /\ started' = [started EXCEPT ![q] = TRUE] /\ Arm(q, "timeout_wait_commit")
        /\ failed' = failed /\ pc' = pc
    BY <1>10 DEF Start, Advance
  <2>3. started'[r] = started[r]
    BY <2>1, <2>2, IdleNow
  <2>4. QED
    BY <2>1, <2>2, <2>3, TimerSpares DEF Spared
<1>11. ASSUME NEW q \in Role, Confirm(q) PROVE Spared(r)
  <2>1. r # q
    BY <1>11, FinalNow DEF Confirm
  <2>2. /\ started' = started /\ pc' = [pc EXCEPT ![q] = "idle"]
        /\ \/ \E cur, code : Fail(q, cur, code)
           \/ (Arm(q, "timeout_wait_peer_confirm") \/ ClearTimer(q)) /\ failed' = failed
    BY <1>11 DEF Confirm, Confirmed, Advance
  <2>3. QED
    BY <2>1, <2>2, FailSpares, TimerSpares, PcSpares DEF Spared
<1>12. ASSUME NEW q \in Role, Reject(q) PROVE Spared(r)
  <2>1. r # q
    BY <1>12, FinalNow DEF Reject
  <2>2. /\ started' = started /\ pc' = [pc EXCEPT ![q] = "idle"]
        /\ \E cur, code : Fail(q, cur, code)
    BY <1>12 DEF Reject
  <2>3. QED
    BY <2>1, <2>2, FailSpares, PcSpares DEF Spared
<1>13. ASSUME NEW q \in Role, AppClose(q) PROVE Spared(r)
  <2>1. started' = started /\ pc' = pc /\ failed' = failed /\ ClearTimer(q)
    BY <1>13 DEF AppClose
  <2>2. timer'[q] = "off"
    BY <2>1, TypeNow DEF ClearTimer
  <2>3. QED
    BY <2>1, <2>2, TimerSpares, FinalNow DEF Spared
<1>14. CASE Network
  BY <1>14 DEF Network, Arrive, LinkUp, LinkDown, Lose, Repeat, control, Spared
<1>15. ASSUME NEW q \in Role, Expire(q) PROVE Spared(r)
  <2>1. r # q
    BY <1>15, FinalNow DEF Expire
  <2>2. started' = started /\ pc' = pc /\ \E cur, code : Fail(q, cur, code)
    BY <1>15 DEF Expire
  <2>3. QED
    BY <2>1, <2>2, FailSpares DEF Spared
<1>16. CASE UNCHANGED vars
  BY <1>16 DEF vars, control, Spared
<1>17. QED
  BY <1>1, <1>2, <1>3, <1>4, <1>5, <1>6, <1>7, <1>8, <1>9, <1>10, <1>11, <1>12, <1>13,
     <1>14, <1>15, <1>16 DEF Next, Handler, User


LEMMA LastSentMoves ==
  ASSUME IInv, [Next]_vars
  PROVE  \/ lastSent'["R"] = lastSent["R"]
         \/ lastSent'["R"].type = "commit"
         \/ BindOffer
         \/ lastSent'["R"].type = "rcvconfirm" /\ Confirm("R")
<1> USE TypeNow DEF Role
<1>1. CASE BindCommit
  BY <1>1 DEF BindCommit, SendOr
<1>2. CASE CommitAgain
  BY <1>2 DEF CommitAgain
<1>3. CASE OnReveal
  BY <1>3 DEF OnReveal
<1>4. CASE Verified
  BY <1>4 DEF Verified
<1>5. CASE SendCommit
  <2>1. lastSent' = [lastSent EXCEPT !["R"] = [type |-> "commit", nonce |-> nonceR']]
    BY <1>5 DEF SendCommit
  <2>2. QED
    BY <2>1
<1>6. CASE BindOffer
  BY <1>6
<1>7. CASE OfferAgain
  BY <1>7 DEF OfferAgain
<1>8. CASE \E q \in Role : ShowSas(q)
  BY <1>8 DEF ShowSas
<1>9. CASE \E q \in Role : OnRcvConfirm(q)
  BY <1>9 DEF OnRcvConfirm
<1>10. CASE \E q \in Role : Start(q)
  BY <1>10 DEF Start
<1>11. ASSUME NEW q \in Role, Confirm(q)
       PROVE  \/ lastSent'["R"] = lastSent["R"]
              \/ lastSent'["R"].type = "rcvconfirm" /\ Confirm("R")
  <2>1. lastSent' = [lastSent EXCEPT ![q] = [type |-> "rcvconfirm", nonce |-> 0]]
    BY <1>11 DEF Confirm
  <2>2. QED
    BY <1>11, <2>1
<1>12. CASE \E q \in Role : Reject(q)
  BY <1>12 DEF Reject
<1>13. CASE \E q \in Role : AppClose(q)
  BY <1>13 DEF AppClose
<1>14. CASE Network
  BY <1>14 DEF Network, Arrive, LinkUp, LinkDown, Lose, Repeat
<1>15. CASE \E q \in Role : Expire(q)
  BY <1>15 DEF Expire
<1>16. CASE UNCHANGED vars
  BY <1>16 DEF vars
<1>17. QED
  BY <1>1, <1>2, <1>3, <1>4, <1>5, <1>6, <1>7, <1>8, <1>9, <1>10, <1>11, <1>12, <1>13,
     <1>14, <1>15, <1>16 DEF Next, Handler, User

\* What was bound stays bound, and a user confirms only what was.
LEMMA BoundStep ==
  ASSUME IInv, BoundInv, [Next]_vars
  PROVE  BoundInv'
<1>1. /\ accepted \in [Role -> BOOLEAN] /\ seenCommit \in Nat /\ offer \in Nat
      /\ seenCommit <= nonceR /\ nonceR <= 1 /\ nonceR \in Nat /\ offer <= seenCommit
  BY DEF IInv, TypeOK, NonceInv
<1>2. \A r \in Role : accepted'[r] => accepted[r] \/ Confirm(r)
  <2>1. accepted' = accepted \/ \E q \in Role : Confirm(q) /\ accepted' = [accepted EXCEPT ![q] = TRUE]
    BY Writers DEF Confirm
  <2>2. QED
    BY <1>1, <2>1
<1>3. Confirm("R") => seenOffer = 1 /\ ~BindOffer
  <2>1. Confirm("R") => pc["R"] = "confirm"
    BY DEF Confirm
  <2>2. BindOffer => pc["R"] = "idle"
    BY DEF BindOffer, Handling
  <2>3. QED
    BY <2>1, <2>2, PcNow
<1>4. Confirm("S") => seenCommit = 1
  <2>1. Confirm("S") => pc["S"] = "confirm"
    BY DEF Confirm
  <2>2. QED
    BY <1>1, <2>1, PcNow
<1>5. ASSUME accepted'["R"] PROVE seenOffer' = 1 /\ lastSent'["R"].type # "reveal"
  <2>1. accepted["R"] \/ Confirm("R")
    BY <1>2, <1>5 DEF Role
  <2>2. seenOffer = 1 /\ ~BindOffer
    <3>1. BindOffer => seenOffer = 0
      BY DEF BindOffer
    <3>2. QED
      BY <1>3, <2>1, <3>1 DEF BoundInv
  <2>3. seenOffer' = 1
    BY <2>2, Writers
  <2>4. CASE Confirm("R")
    <3>1. lastSent' = [lastSent EXCEPT !["R"] = [type |-> "rcvconfirm", nonce |-> 0]]
      BY <2>4 DEF Confirm
    <3>2. QED
      BY <2>3, <3>1, TypeNow DEF Role
  <2>5. CASE ~Confirm("R")
    BY <2>1, <2>2, <2>3, <2>5, LastSentMoves DEF BoundInv
  <2>6. QED
    BY <2>4, <2>5
<1>6. ASSUME accepted'["S"] PROVE seenCommit' = 1
  <2>1. accepted["S"] \/ Confirm("S")
    BY <1>2, <1>6 DEF Role
  <2>2. seenCommit = 1
    BY <1>4, <2>1 DEF BoundInv
  <2>3. QED
    BY <2>2, Writers DEF BindCommit
<1>7. QED
  BY <1>5, <1>6 DEF BoundInv


LEMMA SentToSender ==
  ASSUME IInv, NEW r \in Role, NEW f
  PROVE  \/ Sent(r, f)["S"] = net["S"]
         \/ r = "R" /\ Sent(r, f)["S"] = Append(net["S"], f)
  BY TypeNow DEF Sent, Other, Role

LEMMA TakenBySender ==
  ASSUME IInv
  PROVE  /\ Take("S") => inbox'["S"] = Tail(inbox["S"])
         /\ Take("R") => inbox'["S"] = inbox["S"]
  BY TypeNow DEF Take, Role

\* The four things that happen to the frames for the sender.
Untouched == net'["S"] = net["S"] /\ inbox'["S"] = inbox["S"]
Enters    == /\ inbox'["S"] = inbox["S"]
             /\ \E f \in Frame : /\ net'["S"] = Append(net["S"], f)
                                 /\ f.type # "reveal" \/ ~accepted["R"]
Leaves    == /\ net["S"] # <<>> /\ net'["S"] = Tail(net["S"])
             /\ inbox'["S"] \in {inbox["S"], Append(inbox["S"], Head(net["S"]))}
Handled   == inbox["S"] # <<>> /\ net'["S"] = net["S"] /\ inbox'["S"] = Tail(inbox["S"])

LEMMA LineMoves ==
  ASSUME IInv, BoundInv, InSequence, [Next]_vars
  PROVE  Untouched \/ Enters \/ Leaves \/ Handled
<1> USE DEF Untouched, Handled
<1>0. "S" \in Role /\ "R" \in Role /\ "R" # "S"
  BY DEF Role
<1>1. CASE BindCommit
  <2>1. /\ Handling("S", "commit") /\ Take("S")
        /\ \/ net' = net
           \/ net' = Sent("S", [type |-> "offer", nonce |-> OfferSent(offer + 1)])
    BY <1>1 DEF BindCommit, SendOr, wire
  <2>2. inbox["S"] # <<>> /\ inbox'["S"] = Tail(inbox["S"])
    BY <2>1, TakenBySender DEF Handling
  <2>3. QED
    BY <1>0, <2>1, <2>2, SentToSender
<1>2. CASE CommitAgain
  BY <1>2, TakenBySender DEF CommitAgain, Handling, wire
<1>3. CASE OnReveal
  BY <1>3, TakenBySender DEF OnReveal, Handling, wire
<1>4. CASE Verified
  BY <1>4 DEF Verified, wire
<1>5. CASE SendCommit
  <2>1. inbox' = inbox /\ net' = Sent("R", [type |-> "commit", nonce |-> nonceR'])
    BY <1>5 DEF SendCommit
  <2>2. [type |-> "commit", nonce |-> nonceR'] \in Frame
    BY NumbersStep DEF Frame
  <2>3. QED
    BY <1>0, <2>1, <2>2, SentToSender DEF Enters
<1>6. CASE BindOffer
  <2>1. /\ Take("R") /\ net' = Sent("R", [type |-> "reveal", nonce |-> nonceR]) /\ seenOffer = 0
    BY <1>6 DEF BindOffer, SendOr
  <2>2. [type |-> "reveal", nonce |-> nonceR] \in Frame /\ ~accepted["R"]
    BY <2>1 DEF Frame, BoundInv, IInv, TypeOK
  <2>3. QED
    BY <1>0, <2>1, <2>2, SentToSender, TakenBySender DEF Enters
<1>7. CASE OfferAgain
  BY <1>7, TakenBySender DEF OfferAgain, wire
<1>8. CASE \E q \in Role : ShowSas(q)
  BY <1>8 DEF ShowSas, wire
<1>9. ASSUME NEW q \in Role, OnRcvConfirm(q) PROVE Untouched \/ Handled
  <2>1. Take(q) /\ inbox[q] # <<>> /\ net' = net
    BY <1>9 DEF OnRcvConfirm, Handling, wire
  <2>2. q = "S" \/ q = "R"
    BY DEF Role
  <2>3. QED
    BY <2>1, <2>2, TakenBySender
<1>10. CASE \E q \in Role : Start(q)
  BY <1>10 DEF Start, wire
<1>11. ASSUME NEW q \in Role, Confirm(q) PROVE Untouched \/ Enters
  <2>1. inbox' = inbox /\ net' = Sent(q, [type |-> "rcvconfirm", nonce |-> 0])
    BY <1>11 DEF Confirm
  <2>2. [type |-> "rcvconfirm", nonce |-> 0] \in Frame
    BY DEF Frame
  <2>3. QED
    BY <2>1, <2>2, SentToSender DEF Enters
<1>12. CASE \E q \in Role : Reject(q)
  BY <1>12 DEF Reject
<1>13. CASE \E q \in Role : AppClose(q)
  BY <1>13 DEF AppClose, wire
<1>14. ASSUME NEW q \in Role, Arrive(q) PROVE Untouched \/ Leaves
  <2>1. /\ net[q] # <<>> /\ net' = [net EXCEPT ![q] = Tail(@)]
        /\ inbox' = inbox \/ inbox' = [inbox EXCEPT ![q] = Append(@, Head(net[q]))]
    BY <1>14 DEF Arrive
  <2>2. CASE q = "S"
    BY <1>0, <2>1, <2>2, TypeNow DEF Leaves
  <2>3. CASE q # "S"
    BY <1>0, <2>1, <2>3, TypeNow
  <2>4. QED
    BY <2>2, <2>3
<1>15. CASE \E q \in Role : LinkUp(q) \/ LinkDown(q)
  BY <1>15 DEF LinkUp, LinkDown
<1>16. ASSUME NEW q \in Role, Lose(q) PROVE Untouched \/ Leaves
  <2>1. net[q] # <<>> /\ net' = [net EXCEPT ![q] = Tail(@)] /\ inbox' = inbox
    BY <1>16 DEF Lose
  <2>2. QED
    BY <1>0, <2>1, TypeNow DEF Leaves
<1>17. ~\E q \in Role : Repeat(q)
  BY TypeNow DEF Repeat, InSequence
<1>18. ASSUME NEW q \in Role, Expire(q) PROVE Untouched \/ Enters
  <2>1. inbox' = inbox /\ (net' = net \/ net' = Sent(q, lastSent[q]))
    BY <1>18 DEF Expire
  <2>2. lastSent["R"] \in Frame /\ (lastSent["R"].type # "reveal" \/ ~accepted["R"])
    BY <1>0, TypeNow DEF BoundInv
  <2>3. QED
    BY <2>1, <2>2, SentToSender DEF Enters
<1>19. CASE UNCHANGED vars
  BY <1>19 DEF vars, wire
<1>20. QED
  BY <1>1, <1>2, <1>3, <1>4, <1>5, <1>6, <1>7, <1>8, <1>9, <1>10, <1>11, <1>12, <1>13,
     <1>14, <1>15, <1>16, <1>17, <1>18, <1>19 DEF Next, Handler, User, Network

\* Over a data channel only the peer's confirmation makes a side done.
LEMMA DoneMoves ==
  ASSUME IInv, InSequence, [Next]_vars
  PROVE  \A r \in Role : done'[r] = done[r] \/ (OnRcvConfirm(r) /\ Counts(r))
<1>1. CASE \E q \in Role : OnRcvConfirm(q)
  <2>1. PICK q \in Role : OnRcvConfirm(q)
    BY <1>1
  <2>2. done' = done \/ (Counts(q) /\ done' = [done EXCEPT ![q] = done[q] + 1])
    BY <2>1 DEF OnRcvConfirm
  <2>3. QED
    BY <2>1, <2>2, TypeNow
<1>2. CASE \E q \in Role : Confirm(q)
  BY <1>2 DEF Confirm, Confirmed, InSequence
<1>3. CASE BindCommit \/ CommitAgain \/ OnReveal \/ Verified
  BY <1>3 DEF BindCommit, CommitAgain, OnReveal, Verified, verdict
<1>4. CASE SendCommit \/ BindOffer \/ OfferAgain
  BY <1>4 DEF SendCommit, BindOffer, OfferAgain, verdict
<1>5. CASE \E q \in Role : ShowSas(q) \/ Start(q) \/ Reject(q) \/ AppClose(q) \/ Expire(q)
  BY <1>5 DEF ShowSas, Start, Reject, AppClose, Expire, verdict
<1>6. CASE Network
  BY <1>6 DEF Network, Arrive, LinkUp, LinkDown, Lose, Repeat, verdict
<1>7. CASE UNCHANGED vars
  BY <1>7 DEF vars, verdict
<1>8. QED
  BY <1>1, <1>2, <1>3, <1>4, <1>5, <1>6, <1>7 DEF Next, Handler, User

LEMMA FinalInit == Init => FinalInv
<1> SUFFICES ASSUME Init PROVE FinalInv
  OBVIOUS
<1>1. BoundInv
  BY DEF Init, BoundInv, Role
<1>2. Settled(net["S"], inbox["S"], done["S"] > 0)
  BY DEF Init, Settled, RevealsFirst, Has, Role
<1>3. \A r \in Role : ~(done[r] > 0)
  BY DEF Init
<1>4. QED
  BY <1>1, <1>2, <1>3 DEF FinalInv

LEMMA FinalStep ==
  ASSUME IInv, FinalInv, InSequence, [Next]_vars
  PROVE  FinalInv'
<1> DEFINE n == net["S"]
           b == inbox["S"]
           d == done["S"] > 0
<1>1. BoundInv /\ BoundInv' /\ Settled(n, b, d)
  BY BoundStep DEF FinalInv
<1>2. n \in Seq(Frame) /\ b \in Seq(Frame) /\ d \in BOOLEAN /\ "S" \in Role
  BY TypeNow DEF Role
<1>3. ~accepted["R"] => ~Has(n, "rcvconfirm") /\ ~Has(b, "rcvconfirm") /\ ~d
  <2>1. n \in Seq(ForSender) /\ b \in Seq(ForSender)
    BY DEF IInv, FramesInv
  <2>2. \A f \in ForSender : f.type = "rcvconfirm" => accepted["R"]
    BY DEF ForSender, FromReceiver
  <2>3. \A q \in Seq(ForSender) : \A i \in 1 .. Len(q) : q[i] \in ForSender
    OBVIOUS
  <2>4. ~accepted["R"] => ~Has(n, "rcvconfirm") /\ ~Has(b, "rcvconfirm")
    BY <2>1, <2>2, <2>3 DEF Has
  <2>5. d => accepted["R"]
    BY AcceptNow DEF InSequence, Role
  <2>6. QED
    BY <2>4, <2>5
<1> HIDE DEF n, b, d
<1>4. ASSUME ~(OnRcvConfirm("S") /\ Counts("S"))
      PROVE  Settled(net'["S"], inbox'["S"], done'["S"] > 0)
  <2>1. done'["S"] = done["S"]
    BY <1>2, <1>4, DoneMoves
  <2>2. Settled(net'["S"], inbox'["S"], d)
    <3>1. CASE Untouched
      BY <1>1, <3>1 DEF Untouched, n, b
    <3>2. CASE Enters
      BY <1>1, <1>2, <1>3, <3>2, SettledSteps DEF Enters, n, b
    <3>3. CASE Leaves
      BY <1>1, <1>2, <3>3, SettledSteps DEF Leaves, n, b
    <3>4. CASE Handled
      BY <1>1, <1>2, <3>4, SettledSteps DEF Handled, n, b
    <3>5. QED
      BY <1>1, <3>1, <3>2, <3>3, <3>4, LineMoves
  <2>3. QED
    BY <2>1, <2>2 DEF d, Settled
<1>5. ASSUME OnRcvConfirm("S"), Counts("S")
      PROVE  Settled(net'["S"], inbox'["S"], done'["S"] > 0)
  <2>1. /\ b # <<>> /\ Head(b).type = "rcvconfirm" /\ Take("S")
        /\ net'["S"] = n
    BY <1>5 DEF OnRcvConfirm, Handling, wire, n, b
  <2>2. inbox'["S"] = Tail(b)
    BY <2>1, TakenBySender DEF b
  <2>3. Settled(n, Tail(b), TRUE)
    BY <1>1, <1>2, <2>1, SettledSteps
  <2>4. QED
    BY <2>1, <2>2, <2>3 DEF Settled
<1>6. Settled(net'["S"], inbox'["S"], done'["S"] > 0)
  BY <1>4, <1>5
<1>7. ASSUME NEW r \in Role, done'[r] > 0
      PROVE  started'[r] /\ timer'[r] = "off" /\ pc'[r] = "idle"
  <2>1. CASE done[r] > 0
    BY <2>1, DoneIsSpared, FinalNow DEF Spared
  <2>2. CASE ~(done[r] > 0)
    <3>1. OnRcvConfirm(r) /\ Counts(r)
      BY <1>7, <2>2, DoneMoves
    <3>2. /\ pc[r] = "idle" /\ pc' = pc /\ started' = started /\ ClearTimer(r)
          /\ inbox[r] # <<>>
      BY <3>1 DEF OnRcvConfirm, Handling
    <3>3. started[r] /\ timer'[r] = "off"
      BY <3>2, IdleNow, TypeNow DEF Idle, ClearTimer
    <3>4. QED
      BY <3>2, <3>3
  <2>3. QED
    BY <2>1, <2>2
<1>8. QED
  BY <1>1, <1>6, <1>7 DEF FinalInv

\* Over a data channel, which keeps the order of its frames and repeats none,
\* nothing a side is still told or does after onDone calls its onError, whatever
\* was lost and whenever links break and users answer.
THEOREM NothingAfterDone == InSequence => (Spec => ReadyIsFinal)
<1> SUFFICES ASSUME InSequence PROVE Spec => ReadyIsFinal
  OBVIOUS
<1>1. IInv /\ FinalInv /\ [Next]_vars => FinalInv'
  BY FinalStep
<1>2. IInv /\ FinalInv /\ [Next]_vars => [\A r \in Role : done[r] > 0 => failed'[r] = failed[r]]_vars
  <2> SUFFICES ASSUME IInv, FinalInv, [Next]_vars, NEW r \in Role, done[r] > 0
               PROVE  failed'[r] = failed[r]
    OBVIOUS
  <2>1. QED
    BY DoneIsSpared DEF Spared
<1>3. QED
  BY <1>1, <1>2, FinalInit, AuthInvariant, PTL DEF Spec, ReadyIsFinal

============================================================================
