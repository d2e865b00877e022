----------------------------- MODULE NoisyAuth -----------------------------
(***************************************************************************)
(* packages/noisyauth: the authentication by a short string the two users  *)
(* compare, between createAuthSender ("S") and createAuthReceiver ("R"),   *)
(*                                                                         *)
(*    R: COMMIT -> S: OFFER -> R: REVEAL -> both: RCVCONFIRM.              *)
(*                                                                         *)
(* Each side handles its messages one at a time (the promise chain q, here *)
(* inbox), but a handler awaits the crypto and the user (pc), and the      *)
(* phase timer, close() and the transport go on meanwhile.  Teardown ends  *)
(* the subscription only: what q already holds is still handled, and a     *)
(* handler that awaits still resumes.                                      *)
(*                                                                         *)
(* A nonce is the number of its draw, and a frame carries the number its   *)
(* payload was made from; hashing and encoding are injective.              *)
(***************************************************************************)
EXTENDS Integers, Sequences, FiniteSets

CONSTANTS
    Policy,    \* session.policy: "rtc" or "ws_async"
    MaxLose,   \* bound: frames the transport may lose
    MaxDup,    \* bound: frames the transport may deliver again
    Faults     \* which of the faults below can happen

FaultKinds == {"reject", "appClose", "linkDown", "lateLink", "wrongPeer"}

ASSUME PolicyIsKnown  == Policy \in {"rtc", "ws_async"}
ASSUME BoundsAreNat   == MaxLose \in Nat /\ MaxDup \in Nat
ASSUME FaultsAreKnown == Faults \subseteq FaultKinds

Role == {"S", "R"}
Other(r) == IF r = "S" THEN "R" ELSE "S"

VARIABLES
    \* per role
    started,     \* the session object exists and is subscribed
    fsm,         \* SenderFsm / ReceiverFsm state
    timer,       \* the code the phase timer would fail with, or "off"
    torn,        \* scope.teardown ran
    failed,      \* codes onError was called with
    pc,          \* where the message handler stands
    inbox,       \* messages chained behind the handler
    lastSent,    \* what the timer resends when it expires
    awaiting,    \* waitingPeerConfirm
    done,        \* calls of onDone
    accepted,    \* history: the user confirmed the SAS
    sas,         \* the SAS last shown: the nonces it was computed from
    \* sender
    seenCommit,  \* nonce behind the commitment bound, 0 = none
    offer,       \* draws of nonceS, the last is in myOffer
    revealed,    \* nonce of the REVEAL in hand
    finished,
    \* receiver
    commitStage, \* ensureCommitSent: computing, waiting to retry, sent
    nonceR,      \* draws of nonceR, the last is in sentCommit
    seenOffer,   \* nonce of the offer bound, 0 = none
    \* transport
    link, net, lost, dups

control      == <<fsm, timer, torn, failed>>
verdict      == <<awaiting, done, accepted, sas>>
senderData   == <<seenCommit, offer, revealed, finished>>
receiverData == <<commitStage, nonceR, seenOffer>>
wire         == <<link, net, lost, dups>>
vars == <<started, control, pc, inbox, lastSent, verdict, senderData, receiverData, wire>>

Terminal == {"READY", "ERROR", "MALLORY"}
States   == {"IDLE", "WAIT_COMMIT", "WAIT_OFFER", "WAIT_REVEAL", "SAS_CONFIRM"} \cup Terminal
Timeouts == {"timeout_wait_commit", "timeout_wait_reveal", "timeout_wait_sas",
             "timeout_wait_peer_confirm"}
Codes    == Timeouts \cup {"handle_error", "unexpected_commit", "commit_mismatch",
             "peer_id_mismatch", "commitment_mismatch", "offer_conflict", "sas_rejected"}
Frame    == [type : {"none", "commit", "offer", "reveal", "rcvconfirm"}, nonce : Nat]
NoFrame  == [type |-> "none", nonce |-> 0]
NoSas    == <<0, 0, 0>>

Init ==
    /\ started = [r \in Role |-> FALSE]
    /\ fsm = [r \in Role |-> "IDLE"] /\ timer = [r \in Role |-> "off"]
    /\ torn = [r \in Role |-> FALSE] /\ failed = [r \in Role |-> {}]
    /\ pc = [r \in Role |-> "idle"] /\ inbox = [r \in Role |-> <<>>]
    /\ lastSent = [r \in Role |-> NoFrame]
    /\ awaiting = [r \in Role |-> FALSE] /\ done = [r \in Role |-> 0]
    /\ accepted = [r \in Role |-> FALSE] /\ sas = [r \in Role |-> NoSas]
    /\ seenCommit = 0 /\ offer = 0 /\ revealed = 0 /\ finished = FALSE
    /\ commitStage = "none" /\ nonceR = 0 /\ seenOffer = 0
    /\ link \in [Role -> IF "lateLink" \in Faults THEN {"connecting", "open"} ELSE {"open"}]
    /\ net = [r \in Role |-> <<>>] /\ lost = 0 /\ dups = 0

----------------------------------------------------------------------------
(* States and timers. *)

Table(r) ==
    IF r = "S"
      THEN [IDLE        |-> [room_full |-> "WAIT_COMMIT"],
            WAIT_COMMIT |-> [commit |-> "WAIT_REVEAL"],
            WAIT_REVEAL |-> [reveal |-> "SAS_CONFIRM"],
            SAS_CONFIRM |-> [rcvconfirm |-> "READY"]]
      ELSE [IDLE        |-> [room_full |-> "WAIT_COMMIT"],
            WAIT_COMMIT |-> [commit |-> "WAIT_OFFER"],
            WAIT_OFFER  |-> [offer |-> "SAS_CONFIRM"],
            SAS_CONFIRM |-> [rcvconfirm |-> "READY"]]

\* nextState throws on an event its table does not list; terminal states
\* absorb every event, errors included.
Allows(r, cur, event) ==
    cur \in Terminal \/ (cur \in DOMAIN Table(r) /\ event \in DOMAIN Table(r)[cur])

NextState(r, cur, event) == IF cur \in Terminal THEN cur ELSE Table(r)[cur][event]
Stopped(cur, state) == IF cur \in Terminal THEN cur ELSE state

\* timer.arm: a phase whose timeout is 0 gets no timer.
Armed(code) ==
    IF Policy = "rtc" \/ code \in {"timeout_wait_sas", "timeout_wait_peer_confirm"}
      THEN code ELSE "off"

Arm(r, code) == timer' = [timer EXCEPT ![r] = Armed(code)]
ClearTimer(r) == timer' = [timer EXCEPT ![r] = "off"]

\* fail(): only the sender moves its state machine, and onError is called each
\* time; the teardown it ends with happens once.
Fail(r, cur, code) ==
    /\ ClearTimer(r)
    /\ fsm' = [fsm EXCEPT ![r] = IF r = "S" THEN Stopped(cur, "ERROR") ELSE cur]
    /\ failed' = [failed EXCEPT ![r] = @ \cup {code}]
    /\ torn' = [torn EXCEPT ![r] = TRUE]

Advance(r, event) ==
    /\ fsm' = [fsm EXCEPT ![r] = NextState(r, @, event)]
    /\ UNCHANGED <<failed, torn>>

----------------------------------------------------------------------------
(* The transport. *)

Handling(r, type) == pc[r] = "idle" /\ inbox[r] # <<>> /\ Head(inbox[r]).type = type
Take(r) == inbox' = [inbox EXCEPT ![r] = Tail(@)]

\* An idle handler takes the next message in a microtask, before the event loop
\* of its side turns to a timer, a socket or the user.
Quiet(r) == pc[r] = "idle" => inbox[r] = <<>>

\* An RTC channel that is not open throws; a mailbox queues while offline (link
\* stays open) and drops silently once closed.
SendThrows(r) == Policy = "rtc" /\ link[r] # "open"

Sent(r, frame) ==
    IF link[r] = "open" THEN [net EXCEPT ![Other(r)] = Append(@, frame)] ELSE net

\* The handler of r ends its synchronous part with RC.send(frame) and, when that
\* threw, with the rejection of its promise.
SendOr(r, frame, event, sentOk) ==
    /\ lastSent' = [lastSent EXCEPT ![r] = frame]
    /\ net' = Sent(r, frame)
    /\ \/ ~SendThrows(r) /\ sentOk
       \/ /\ SendThrows(r)
          /\ Fail(r, NextState(r, fsm[r], event), "handle_error")
          /\ pc' = [pc EXCEPT ![r] = "idle"]
    /\ UNCHANGED <<link, lost, dups>>

\* Mutant: what arrives before the first listener is dropped.
ArriveUnheard(r) ==
    /\ Quiet(r) /\ link[r] = "open" /\ net[r] # <<>>
    /\ net' = [net EXCEPT ![r] = Tail(@)]
    /\ inbox' = IF started[r] /\ ~torn[r]
                  THEN [inbox EXCEPT ![r] = Append(@, Head(net[r]))] ELSE inbox
    /\ UNCHANGED <<started, control, pc, lastSent, verdict, senderData, receiverData,
                   link, lost, dups>>

\* A message reaches q while the side is subscribed.  Before that a data channel
\* drops it and a mailbox keeps it.
Arrive(r) ==
    /\ Quiet(r) /\ link[r] = "open" /\ net[r] # <<>>
    /\ Policy = "ws_async" => started[r]
    /\ net' = [net EXCEPT ![r] = Tail(@)]
    /\ inbox' = IF started[r] /\ ~torn[r]
                  THEN [inbox EXCEPT ![r] = Append(@, Head(net[r]))] ELSE inbox
    /\ UNCHANGED <<started, control, pc, lastSent, verdict, senderData, receiverData,
                   link, lost, dups>>

LinkUp(r) ==
    /\ link[r] = "connecting"
    /\ link' = [link EXCEPT ![r] = "open"]
    /\ UNCHANGED <<started, control, pc, inbox, lastSent, verdict, senderData, receiverData,
                   net, lost, dups>>

\* Neither side listens for the close of its transport: onDown has no handler.
LinkDown(r) ==
    /\ Policy = "rtc" /\ Quiet(r) /\ link[r] = "open"
    /\ "linkDown" \in Faults \/ link[Other(r)] = "closed"
    /\ link' = [link EXCEPT ![r] = "closed"]
    /\ UNCHANGED <<started, control, pc, inbox, lastSent, verdict, senderData, receiverData,
                   net, lost, dups>>

Lose(r) ==
    /\ lost < MaxLose /\ lost' = lost + 1
    /\ net[r] # <<>> /\ net' = [net EXCEPT ![r] = Tail(@)]
    /\ UNCHANGED <<started, control, pc, inbox, lastSent, verdict, senderData, receiverData,
                   link, dups>>

\* A mailbox that resumes delivers again what it delivered before the flap.
Repeat(r) ==
    /\ dups < MaxDup /\ dups' = dups + 1
    /\ net[r] # <<>> /\ net' = [net EXCEPT ![r] = Append(@, Head(@))]
    /\ UNCHANGED <<started, control, pc, inbox, lastSent, verdict, senderData, receiverData,
                   link, lost>>

----------------------------------------------------------------------------
(* Both sides. *)

\* The kick-off runs in the microtask after construction, before any message.
Start(r) ==
    /\ ~started[r] /\ started' = [started EXCEPT ![r] = TRUE]
    /\ Arm(r, "timeout_wait_commit")
    /\ IF r = "S"
         THEN Advance(r, "room_full") /\ UNCHANGED commitStage
         ELSE commitStage' = "computing" /\ UNCHANGED <<fsm, failed, torn>>
    /\ UNCHANGED <<pc, inbox, lastSent, verdict, senderData, nonceR, seenOffer, wire>>

\* computeSASFromFrames resolved: show the string and wait for the user.
ShowSas(r) ==
    /\ pc[r] = "sas"
    /\ pc' = [pc EXCEPT ![r] = "confirm"]
    /\ sas' = [sas EXCEPT ![r] = IF r = "S" THEN <<seenCommit, offer, revealed>>
                                            ELSE <<nonceR, seenOffer, nonceR>>]
    /\ Arm(r, "timeout_wait_sas")
    /\ UNCHANGED <<started, fsm, torn, failed, inbox, lastSent, awaiting, done, accepted,
                   senderData, receiverData, wire>>

\* waitConfirm resolved with false: rejected, and the transport is closed.
Reject(r) ==
    /\ "reject" \in Faults /\ pc[r] = "confirm"
    /\ Fail(r, Stopped(fsm[r], "MALLORY"), "sas_rejected")
    /\ link' = [link EXCEPT ![r] = "closed"]
    /\ pc' = [pc EXCEPT ![r] = "idle"]
    /\ UNCHANGED <<started, inbox, lastSent, verdict, senderData, receiverData, net, lost, dups>>

\* Mutant: READY as soon as the own confirmation is sent, under either policy.
ConfirmedAtOnce(r) ==
    /\ ClearTimer(r)
    /\ Advance(r, "rcvconfirm")
    /\ done' = [done EXCEPT ![r] = @ + 1]
    /\ finished' = (finished \/ r = "S")
    /\ UNCHANGED awaiting

\* waitConfirm resolved with true.  The handler does not look at the scope: it
\* goes on after a timeout or a close.
Confirmed(r) ==
    \/ /\ Policy = "rtc"
       /\ Arm(r, "timeout_wait_peer_confirm")
       /\ awaiting' = [awaiting EXCEPT ![r] = TRUE]
       /\ UNCHANGED <<fsm, failed, torn, done, finished>>
    \/ /\ Policy = "ws_async"
       /\ ClearTimer(r)
       /\ Advance(r, "rcvconfirm")
       /\ done' = [done EXCEPT ![r] = @ + 1]
       /\ finished' = (finished \/ r = "S")
       /\ UNCHANGED awaiting

Confirm(r) ==
    /\ pc[r] = "confirm"
    /\ accepted' = [accepted EXCEPT ![r] = TRUE]
    /\ lastSent' = [lastSent EXCEPT ![r] = [type |-> "rcvconfirm", nonce |-> 0]]
    /\ net' = Sent(r, [type |-> "rcvconfirm", nonce |-> 0])
    /\ pc' = [pc EXCEPT ![r] = "idle"]
    /\ IF SendThrows(r)
         THEN Fail(r, fsm[r], "handle_error") /\ UNCHANGED <<awaiting, done, finished>>
         ELSE Confirmed(r)
    /\ UNCHANGED <<started, inbox, sas, seenCommit, offer, revealed, receiverData,
                   link, lost, dups>>

\* The own RCVCONFIRM was sent and nothing is settled yet.
Counts(r) == awaiting[r] /\ (r = "S" => ~finished)

\* Mutant: the timer of the peer's confirmation is left running.
OnRcvConfirmTimed(r) ==
    /\ Handling(r, "rcvconfirm") /\ Take(r)
    /\ Counts(r)
    /\ awaiting' = [awaiting EXCEPT ![r] = FALSE]
    /\ done' = [done EXCEPT ![r] = @ + 1]
    /\ finished' = (finished \/ r = "S")
    /\ Advance(r, "rcvconfirm")
    /\ UNCHANGED <<started, timer, pc, lastSent, accepted, sas, seenCommit, offer, revealed,
                   receiverData, wire>>

\* The peer's RCVCONFIRM counts only after the own one was sent; on the sender
\* onDone comes before the transition.
OnRcvConfirm(r) ==
    /\ Handling(r, "rcvconfirm") /\ Take(r)
    /\ IF Counts(r)
         THEN /\ ClearTimer(r)
              /\ awaiting' = [awaiting EXCEPT ![r] = FALSE]
              /\ done' = [done EXCEPT ![r] = @ + 1]
              /\ finished' = (finished \/ r = "S")
              /\ Advance(r, "rcvconfirm")
         ELSE UNCHANGED <<control, awaiting, done, finished>>
    /\ UNCHANGED <<started, pc, lastSent, accepted, sas, seenCommit, offer, revealed,
                   receiverData, wire>>

\* The phase timer fires: resend, whatever the outcome, and fail.
Expire(r) ==
    /\ Quiet(r) /\ timer[r] # "off"
    /\ net' = IF lastSent[r] # NoFrame /\ (r = "S" => ~finished)
                THEN Sent(r, lastSent[r]) ELSE net
    /\ Fail(r, fsm[r], timer[r])
    /\ UNCHANGED <<started, pc, inbox, lastSent, verdict, senderData, receiverData,
                   link, lost, dups>>

\* close(): teardown without onError, and the state machine stays where it is.
AppClose(r) ==
    /\ "appClose" \in Faults /\ started[r] /\ ~torn[r] /\ Quiet(r)
    /\ torn' = [torn EXCEPT ![r] = TRUE]
    /\ ClearTimer(r)
    /\ UNCHANGED <<started, fsm, failed, pc, inbox, lastSent, verdict, senderData,
                   receiverData, wire>>

----------------------------------------------------------------------------
(* The sender. *)

\* Mutant: the offer sent and the offer kept are made separately.
OfferMadeTwice(n) == n + 1

\* The offer sent is the one kept in myOffer.
OfferSent(n) == n

\* The first commitment is bound and answered with the offer.
BindCommit ==
    /\ Handling("S", "commit") /\ Take("S")
    /\ seenCommit = 0 /\ fsm["S"] = "WAIT_COMMIT"
    /\ seenCommit' = Head(inbox["S"]).nonce
    /\ \/ /\ "wrongPeer" \in Faults
          /\ Fail("S", "WAIT_REVEAL", "peer_id_mismatch")
          /\ UNCHANGED <<offer, pc, lastSent, wire>>
       \/ /\ offer' = offer + 1
          /\ SendOr("S", [type |-> "offer", nonce |-> OfferSent(offer + 1)], "commit",
                    /\ Arm("S", "timeout_wait_reveal")
                    /\ Advance("S", "commit")
                    /\ UNCHANGED pc)
    /\ UNCHANGED <<started, verdict, revealed, finished, receiverData>>

\* Mutant: frames are compared by identity.
SameFrame(n) == FALSE

SameCommit(n) == seenCommit = n

\* Any other COMMIT: a repetition is ignored, a different one is fatal.
CommitAgain ==
    /\ Handling("S", "commit") /\ Take("S")
    /\ \/ /\ seenCommit = 0 /\ fsm["S"] # "WAIT_COMMIT"
          /\ Fail("S", fsm["S"], "unexpected_commit")
       \/ /\ seenCommit # 0 /\ ~SameCommit(Head(inbox["S"]).nonce)
          /\ Fail("S", fsm["S"], "commit_mismatch")
       \/ /\ seenCommit # 0 /\ SameCommit(Head(inbox["S"]).nonce)
          /\ UNCHANGED control
    /\ UNCHANGED <<started, pc, lastSent, verdict, senderData, receiverData, wire>>

OnReveal ==
    /\ Handling("S", "reveal") /\ Take("S")
    /\ ClearTimer("S")
    /\ revealed' = Head(inbox["S"]).nonce
    /\ pc' = [pc EXCEPT !["S"] = "verify"]
    /\ UNCHANGED <<started, fsm, torn, failed, lastSent, verdict, seenCommit, offer, finished,
                   receiverData, wire>>

\* verifyCommitment resolved.
Verified ==
    /\ pc["S"] = "verify"
    /\ \/ /\ revealed # seenCommit
          /\ Fail("S", Stopped(fsm["S"], "MALLORY"), "commitment_mismatch")
          /\ pc' = [pc EXCEPT !["S"] = "idle"]
       \/ /\ revealed = seenCommit /\ ~Allows("S", fsm["S"], "reveal")
          /\ Fail("S", fsm["S"], "handle_error")
          /\ pc' = [pc EXCEPT !["S"] = "idle"]
       \/ /\ revealed = seenCommit /\ Allows("S", fsm["S"], "reveal")
          /\ Advance("S", "reveal")
          /\ pc' = [pc EXCEPT !["S"] = "sas"]
          /\ UNCHANGED timer
    /\ UNCHANGED <<started, inbox, lastSent, verdict, senderData, receiverData, wire>>

----------------------------------------------------------------------------
(* The receiver. *)

\* Mutant: roomFull() without the commit() that follows it.
AfterRoomFull(cur) == IF cur = "IDLE" THEN "WAIT_COMMIT" ELSE cur

\* roomFull() and commit() in one turn.
AfterCommitSent(cur) == IF cur \in {"IDLE", "WAIT_COMMIT"} THEN "WAIT_OFFER" ELSE cur

\* ensureCommitSent: the commitment is computed once; a send that throws is
\* tried again until the scope is torn down.
SendCommit ==
    /\ Quiet("R") /\ commitStage \in {"computing", "retry"}
    /\ nonceR' = IF commitStage = "computing" THEN nonceR + 1 ELSE nonceR
    /\ lastSent' = [lastSent EXCEPT !["R"] = [type |-> "commit", nonce |-> nonceR']]
    /\ net' = Sent("R", [type |-> "commit", nonce |-> nonceR'])
    /\ IF SendThrows("R")
         THEN /\ commitStage' = IF torn["R"] THEN "none" ELSE "retry"
              /\ UNCHANGED fsm
         ELSE /\ commitStage' = "sent"
              /\ fsm' = [fsm EXCEPT !["R"] = AfterCommitSent(@)]
    /\ UNCHANGED <<started, timer, torn, failed, pc, inbox, verdict, senderData, seenOffer,
                   link, lost, dups>>

\* The first offer is bound and the nonce revealed.
BindOffer ==
    /\ Handling("R", "offer") /\ Take("R")
    /\ seenOffer = 0
    /\ seenOffer' = Head(inbox["R"]).nonce
    /\ SendOr("R", [type |-> "reveal", nonce |-> nonceR], "offer",
              /\ ClearTimer("R")
              /\ Advance("R", "offer")
              /\ pc' = [pc EXCEPT !["R"] = "sas"])
    /\ UNCHANGED <<started, verdict, senderData, commitStage, nonceR>>

\* Mutant: the timer is cleared before the repetition is recognised.
OfferAgainClearing ==
    /\ Handling("R", "offer") /\ Take("R")
    /\ seenOffer = Head(inbox["R"]).nonce
    /\ ClearTimer("R")
    /\ UNCHANGED <<started, fsm, torn, failed, pc, lastSent, verdict, senderData,
                   receiverData, wire>>

OfferAgain ==
    /\ Handling("R", "offer") /\ Take("R")
    /\ seenOffer # 0
    /\ IF seenOffer # Head(inbox["R"]).nonce
         THEN Fail("R", fsm["R"], "offer_conflict")
         ELSE UNCHANGED control
    /\ UNCHANGED <<started, pc, lastSent, verdict, senderData, receiverData, wire>>

----------------------------------------------------------------------------

Handler ==
    \/ BindCommit \/ CommitAgain \/ OnReveal \/ Verified
    \/ SendCommit \/ BindOffer \/ OfferAgain
    \/ \E r \in Role : ShowSas(r) \/ OnRcvConfirm(r)

User == \E r \in Role : Start(r) \/ Confirm(r) \/ Reject(r) \/ AppClose(r)

Network == \E r \in Role : Arrive(r) \/ LinkUp(r) \/ LinkDown(r) \/ Lose(r) \/ Repeat(r)

Next == Handler \/ User \/ Network \/ \E r \in Role : Expire(r)

Spec == Init /\ [][Next]_vars

\* The event loop runs handlers, an open link delivers and a timer that stays
\* armed fires.  Users may never answer, and nothing makes a link come up.
FairSpec ==
    /\ Spec
    /\ WF_vars(Handler)
    /\ \A r \in Role : WF_vars(Arrive(r)) /\ WF_vars(Expire(r))

----------------------------------------------------------------------------
(* Properties. *)

StatesOf(r) ==
    IF r = "S" THEN {"IDLE", "WAIT_COMMIT", "WAIT_REVEAL", "SAS_CONFIRM"} \cup Terminal
               ELSE {"IDLE", "WAIT_OFFER", "SAS_CONFIRM", "READY", "MALLORY"}

\* Every variable stays in its type.  The receiver passes through WAIT_COMMIT
\* within one turn, and fail() never moves it to ERROR.
TypeOK ==
    /\ started \in [Role -> BOOLEAN] /\ torn \in [Role -> BOOLEAN]
    /\ fsm \in [Role -> States] /\ \A r \in Role : fsm[r] \in StatesOf(r)
    /\ timer \in [Role -> Timeouts \cup {"off"}]
    /\ failed \in [Role -> SUBSET Codes]
    /\ pc \in [Role -> {"idle", "verify", "sas", "confirm"}]
    /\ inbox \in [Role -> Seq(Frame)] /\ net \in [Role -> Seq(Frame)]
    /\ lastSent \in [Role -> Frame]
    /\ awaiting \in [Role -> BOOLEAN] /\ accepted \in [Role -> BOOLEAN]
    /\ done \in [Role -> Nat] /\ sas \in [Role -> Nat \X Nat \X Nat]
    /\ seenCommit \in Nat /\ offer \in Nat /\ revealed \in Nat /\ finished \in BOOLEAN
    /\ commitStage \in {"none", "computing", "retry", "sent"}
    /\ nonceR \in Nat /\ seenOffer \in Nat
    /\ link \in [Role -> {"connecting", "open", "closed"}]
    /\ lost \in Nat /\ dups \in Nat

\* The two users compare strings computed from the same commitment, offer and
\* reveal, whatever was lost, delivered again, resent or retried.
SasAgrees == sas["S"] # NoSas /\ sas["R"] # NoSas => sas["S"] = sas["R"]

\* Over a data channel neither side calls onDone before both users accepted.
DoneMeansBothAccepted ==
    Policy = "rtc" => \A r \in Role : done[r] > 0 => accepted["S"] /\ accepted["R"]

\* Repetitions, resends and retries of an honest peer are never taken for an
\* attack, and only the own user's rejection leads to MALLORY.
HonestPeerNotBlamed ==
    /\ failed["S"] \cap {"commit_mismatch", "commitment_mismatch"} = {}
    /\ "offer_conflict" \notin failed["R"]
    /\ \A r \in Role : fsm[r] = "MALLORY" => "sas_rejected" \in failed[r]

\* Over a data channel a side that has called onDone never fails afterwards.
ReadyIsFinal == [][\A r \in Role : done[r] > 0 => failed'[r] = failed[r]]_vars

\* Over a data channel a session never hangs: done, failed or closed, whatever
\* the link loses and even if the users never answer.
EverySideSettles == \A r \in Role : started[r] ~> (done[r] > 0 \/ torn[r])

\* Through a mailbox the sides may start in any order and at any time apart:
\* both users get to see the string, unless one side was closed.
BothReachSas ==
    (\A r \in Role : started[r])
       ~> \/ sas["S"] # NoSas /\ sas["R"] # NoSas
          \/ \E r \in Role : torn[r]

============================================================================
