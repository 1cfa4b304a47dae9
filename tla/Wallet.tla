------------------------------- MODULE Wallet -------------------------------
(***************************************************************************)
(* WalletService, the Cobrana webhook and what they need of Cobrana:       *)
(* adjustWallet, initiateTopUp, handleCobrana / handleChargePaid, as       *)
(* concurrent handler calls over the tables of WalletStore.                *)
(*                                                                         *)
(* Unlike the orders code, these transactions read the wallet with a plain *)
(* SELECT and later write the balance they computed from it.  The UPDATE   *)
(* waits while the row is locked by somebody else; what follows it up to   *)
(* the commit waits for nobody, so UPDATE, ledger INSERT and COMMIT are    *)
(* one step.  The top-up that initiateTopUp call t inserts is named t.     *)
(***************************************************************************)
EXTENDS WalletStore

CONSTANTS
    Adjusts,            \* admin wallet adjustments
    TopUpOwner,         \* the user who makes initiateTopUp call t
    Deliveries,         \* deliveries of Cobrana's charge.paid webhook
    Stale,              \* deliveries whose signature is not accepted
    AdjustAmounts,      \* amounts an admin may type
    TopUpAmounts,       \* amounts a user may top up
    Profiles,           \* what a user's profile row may look like
    MayFail             \* the calls that may be cut short

VARIABLES
    topUps,             \* wallet_top_ups
    topUpLock,          \* the call whose open transaction locked the top-up
    charges,            \* Cobrana: the charge that names the top-up
    acked,              \* Cobrana: paid events answered with 200
    pc,                 \* where each call is
    ctx                 \* what each call holds in its local variables

topUpVars == <<topUps, topUpLock, charges, acked>>
vars == <<balance, ledger, walletLock, topUps, topUpLock, charges, acked, pc, ctx>>

WalletCalls == Adjusts \cup TopUps \cup Deliveries

ASSUME WalletCallsAssumption ==
    /\ WalletCalls \subseteq Calls
    /\ Adjusts \cap (TopUps \cup Deliveries) = {}
    /\ TopUps \cap Deliveries = {}
    /\ TopUpOwner \in [TopUps -> Users]
    /\ Stale \subseteq Deliveries
    /\ AdjustAmounts \subseteq Nat
    /\ TopUpAmounts \subseteq Nat

(* A row of wallet_top_ups; UNUSED before it is inserted. "chargeId" is    *)
(* cobranaChargeId being set.                                              *)
TopUpRow == [status : {"UNUSED", "PENDING", "PAID"}, amount : Nat, chargeId : BOOLEAN]

NewTopUp(status, amount) == [status |-> status, amount |-> amount, chargeId |-> FALSE]

Ctx ==
    [user : Users, type : {"CREDIT", "DEBIT"}, amount : Nat, balance : Int]
    \cup [topUp : TopUps, balance : Int] \cup {None}

CallPoints ==
    {"idle", "done", "failed", "adjust.write", "topup.charge", "topup.save",
     "paid.mark", "paid.write"}

TypeOK ==
    /\ WalletTypeOK
    /\ topUps \in [TopUps -> TopUpRow]
    /\ topUpLock \in [TopUps -> Calls \cup {None}]
    /\ charges \in [TopUps -> {"NONE", "LIVE", "PAID"}]
    /\ acked \subseteq TopUps
    /\ pc \in [WalletCalls -> CallPoints]
    /\ ctx \in [WalletCalls -> Ctx]

Init ==
    /\ WalletInit
    /\ topUps = [t \in TopUps |-> NewTopUp("UNUSED", 0)]
    /\ topUpLock = [t \in TopUps |-> None]
    /\ charges = [t \in TopUps |-> "NONE"]
    /\ acked = {}
    /\ pc = [c \in WalletCalls |-> "idle"]
    /\ ctx = [c \in WalletCalls |-> None]

-----------------------------------------------------------------------------
TopUpFree(t) == topUpLock[t] = None

Ended(c) == pc[c] \in {"done", "failed"}

Goto(c, point) == pc' = [pc EXCEPT ![c] = point]

Finish(c) ==
    /\ Goto(c, "done")
    /\ ctx' = [ctx EXCEPT ![c] = None]

-----------------------------------------------------------------------------
(* adjustWallet *)

(* SELECT the wallet, without a lock. *)
AdjustRead(a) ==
    /\ pc[a] = "idle"
    /\ \E u \in Users, type \in {"CREDIT", "DEBIT"}, amount \in AdjustAmounts :
          ctx' = [ctx EXCEPT ![a] =
                     [user |-> u, type |-> type, amount |-> amount, balance |-> balance[u]]]
    /\ Goto(a, "adjust.write")
    /\ UNCHANGED <<walletVars, topUpVars>>

ResultingBalance(seen, type, amount) ==
    IF type = "CREDIT" THEN seen + amount ELSE seen - amount

(* UPDATE the wallet to the balance computed from what was read, INSERT    *)
(* the ledger row, COMMIT.  A debit may leave the balance below zero.      *)
AdjustWriteUnlogged(a) ==           \* variant: the ledger INSERT is lost
    LET x == ctx[a] IN
    /\ pc[a] = "adjust.write"
    /\ WalletFree(x.user)
    /\ balance' = [balance EXCEPT ![x.user] = ResultingBalance(x.balance, x.type, x.amount)]
    /\ Finish(a)
    /\ UNCHANGED <<ledger, walletLock, topUpVars>>

AdjustWrite(a) ==
    LET x == ctx[a] IN
    /\ pc[a] = "adjust.write"
    /\ WalletFree(x.user)
    /\ Post(Row(a, x.user, x.type, x.amount, ResultingBalance(x.balance, x.type, x.amount)))
    /\ Finish(a)
    /\ UNCHANGED <<walletLock, topUpVars>>

-----------------------------------------------------------------------------
(* initiateTopUp *)

ProfileCompleteForTopUp(profile) ==
    /\ profile.documentNumber
    /\ profile.name
    /\ profile.documentType = "RUC" \/ profile.lastname

(* The profile is checked and the PENDING top-up is inserted. *)
TopUpBegin(t) ==
    /\ pc[t] = "idle"
    /\ \E p \in Profiles, amount \in TopUpAmounts :
          IF ProfileCompleteForTopUp(p)
          THEN /\ topUps' = [topUps EXCEPT ![t] = NewTopUp("PENDING", amount)]
               /\ Goto(t, "topup.charge")
          ELSE Goto(t, "done") /\ UNCHANGED topUps
    /\ UNCHANGED <<walletVars, topUpLock, charges, acked, ctx>>

(* How POST /charges may end: the charge exists and the answer says so; it *)
(* exists but the answer is lost, an error or later than 30 s; or it was   *)
(* refused.                                                                *)
ChargeOutcomes == {r \in [created : BOOLEAN, answered : BOOLEAN] : r.answered => r.created}

(* The call to Cobrana, keyed by the top-up.  A failed one, or an answer   *)
(* without payment link or code, is an error to the user that leaves the   *)
(* row PENDING, and a charge that was created live.                        *)
TopUpCharge(t) ==
    /\ pc[t] = "topup.charge"
    /\ \E r \in ChargeOutcomes :
          /\ charges' = IF r.created THEN [charges EXCEPT ![t] = "LIVE"] ELSE charges
          /\ Goto(t, IF r.answered THEN "topup.save" ELSE "done")
    /\ UNCHANGED <<walletVars, topUps, topUpLock, acked, ctx>>

(* UPDATE of the charge's id, code and link: no other column. *)
TopUpSaveStatus(t) ==               \* variant: Cobrana's status is stored too
    /\ pc[t] = "topup.save"
    /\ TopUpFree(t)
    /\ topUps' = [topUps EXCEPT ![t] = [@ EXCEPT !.chargeId = TRUE, !.status = charges[t]]]
    /\ Goto(t, "done")
    /\ UNCHANGED <<walletVars, topUpLock, charges, acked, ctx>>

TopUpSaveStale(t) ==                \* variant: the row is saved as it was inserted
    /\ pc[t] = "topup.save"
    /\ TopUpFree(t)
    /\ topUps' = [topUps EXCEPT ![t] = [@ EXCEPT !.chargeId = TRUE, !.status = "PENDING"]]
    /\ Goto(t, "done")
    /\ UNCHANGED <<walletVars, topUpLock, charges, acked, ctx>>

TopUpSave(t) ==
    /\ pc[t] = "topup.save"
    /\ TopUpFree(t)
    /\ topUps' = [topUps EXCEPT ![t] = [@ EXCEPT !.chargeId = TRUE]]
    /\ Goto(t, "done")
    /\ UNCHANGED <<walletVars, topUpLock, charges, acked, ctx>>

-----------------------------------------------------------------------------
(* The customer pays a live charge; Cobrana then delivers charge.paid      *)
(* until an answer is a 200, possibly while an earlier delivery still runs.*)
CustomerPays(t) ==
    /\ charges[t] = "LIVE"
    /\ charges' = [charges EXCEPT ![t] = "PAID"]
    /\ UNCHANGED <<walletVars, topUps, topUpLock, acked, pc, ctx>>

AlreadyPaid(t) == topUps[t].status = "PAID"

(* verifyWebhookSignature: malformed, more than 300 s old or not ours.     *)
SignatureAccepted(d) == d \notin Stale

(* What delivery d holds: its top-up and the balance it has read.          *)
Working(d, t, seen) == ctx' = [ctx EXCEPT ![d] = [topUp |-> t, balance |-> seen]]

DeliverAnyEvent(d) ==               \* variant: the event's type is not looked at
    /\ pc[d] = "idle"
    /\ \E t \in TopUps :
          /\ charges[t] \in {"LIVE", "PAID"} /\ t \notin acked
          /\ IF SignatureAccepted(d) /\ ~AlreadyPaid(t)
             THEN /\ Working(d, t, 0)
                  /\ Goto(d, "paid.mark")
                  /\ UNCHANGED acked
             ELSE /\ acked' = acked \cup {t}
                  /\ IF SignatureAccepted(d)
                     THEN Finish(d)
                     ELSE Working(d, t, 0) /\ Goto(d, "failed")
    /\ UNCHANGED <<walletVars, topUps, topUpLock, charges>>

DeliverByChargeId(d) ==             \* variant: the top-up is looked up by its charge id
    /\ pc[d] = "idle"
    /\ \E t \in TopUps :
          /\ charges[t] = "PAID" /\ t \notin acked
          /\ IF SignatureAccepted(d) /\ ~AlreadyPaid(t) /\ topUps[t].chargeId
             THEN /\ Working(d, t, 0)
                  /\ Goto(d, "paid.mark")
                  /\ UNCHANGED acked
             ELSE /\ acked' = acked \cup {t}
                  /\ IF SignatureAccepted(d)
                     THEN Finish(d)
                     ELSE Working(d, t, 0) /\ Goto(d, "failed")
    /\ UNCHANGED <<walletVars, topUps, topUpLock, charges>>

(* handleCobrana and the first read of handleChargePaid, which is outside  *)
(* its transaction.  A refused signature is answered "received: false",    *)
(* but with HTTP 200: like a failing handleChargePaid it ends the delivery *)
(* as "failed" although Cobrana has its acknowledgement.                   *)
Deliver(d) ==
    /\ pc[d] = "idle"
    /\ \E t \in TopUps :
          /\ charges[t] = "PAID" /\ t \notin acked
          /\ IF SignatureAccepted(d) /\ ~AlreadyPaid(t)
             THEN /\ Working(d, t, 0)
                  /\ Goto(d, "paid.mark")
                  /\ UNCHANGED acked
             ELSE /\ acked' = acked \cup {t}
                  /\ IF SignatureAccepted(d)
                     THEN Finish(d)
                     ELSE Working(d, t, 0) /\ Goto(d, "failed")
    /\ UNCHANGED <<walletVars, topUps, topUpLock, charges>>

(* UPDATE the top-up (it keeps the row locked and does not look at the     *)
(* status again: the same event id violates no index), SELECT the wallet   *)
(* without a lock.                                                         *)
PaidMarkCommits(d) ==               \* variant: PAID is committed before the credit
    LET t == ctx[d].topUp IN
    /\ pc[d] = "paid.mark"
    /\ TopUpFree(t)
    /\ topUps' = [topUps EXCEPT ![t] = [@ EXCEPT !.status = "PAID"]]
    /\ Working(d, t, balance[TopUpOwner[t]])
    /\ Goto(d, "paid.write")
    /\ UNCHANGED <<walletVars, topUpLock, charges, acked>>

PaidMark(d) ==
    LET t == ctx[d].topUp IN
    /\ pc[d] = "paid.mark"
    /\ TopUpFree(t)
    /\ topUpLock' = [topUpLock EXCEPT ![t] = d]
    /\ Working(d, t, balance[TopUpOwner[t]])
    /\ Goto(d, "paid.write")
    /\ UNCHANGED <<walletVars, topUps, charges, acked>>

CreditRow(d) ==
    LET t == ctx[d].topUp
        amount == topUps[t].amount
    IN  [Row(d, TopUpOwner[t], "CREDIT", amount, ctx[d].balance + amount)
            EXCEPT !.topUp = t]

(* UPDATE the wallet, INSERT the ledger row, COMMIT with the top-up PAID.  *)
PaidWriteKeepsLock(d) ==            \* variant: the transaction is never ended
    LET t == ctx[d].topUp IN
    /\ pc[d] = "paid.write"
    /\ WalletFree(TopUpOwner[t])
    /\ Post(CreditRow(d))
    /\ topUps' = [topUps EXCEPT ![t] = [@ EXCEPT !.status = "PAID"]]
    /\ acked' = acked \cup {t}
    /\ Finish(d)
    /\ UNCHANGED <<walletLock, topUpLock, charges>>

PaidWrite(d) ==
    LET t == ctx[d].topUp IN
    /\ pc[d] = "paid.write"
    /\ WalletFree(TopUpOwner[t])
    /\ Post(CreditRow(d))
    /\ topUps' = [topUps EXCEPT ![t] = [@ EXCEPT !.status = "PAID"]]
    /\ topUpLock' = Released(topUpLock, d)
    /\ acked' = acked \cup {t}
    /\ Finish(d)
    /\ UNCHANGED <<walletLock, charges>>

-----------------------------------------------------------------------------
(* A call is cut short and its transaction rolls back.  handleCobrana      *)
(* swallows the error of handleChargePaid and still answers 200, unless    *)
(* the whole process went down.                                            *)
Fail(c) ==
    /\ c \in MayFail
    /\ pc[c] # "idle" /\ ~Ended(c)
    /\ topUpLock' = Released(topUpLock, c)
    /\ \/ c \in Deliveries /\ acked' = acked \cup {ctx[c].topUp}
       \/ UNCHANGED acked
    /\ Goto(c, "failed")
    /\ UNCHANGED <<walletVars, topUps, charges, ctx>>

Step(c) ==
    \/ c \in Adjusts /\ AdjustWrite(c)
    \/ c \in TopUps /\ (TopUpCharge(c) \/ TopUpSave(c))
    \/ c \in Deliveries /\ (PaidMark(c) \/ PaidWrite(c))

Arrive(c) ==
    \/ c \in Adjusts /\ AdjustRead(c)
    \/ c \in TopUps /\ TopUpBegin(c)
    \/ c \in Deliveries /\ Deliver(c)

(* No request is waiting for anything.                                     *)
AtRest == \A c \in WalletCalls : pc[c] = "idle" \/ Ended(c)

(* Every request has been answered and Cobrana has nothing to deliver.     *)
Terminating ==
    /\ AtRest
    /\ \A c \in WalletCalls \ Deliveries : Ended(c)
    /\ \A t \in TopUps : charges[t] # "LIVE"
    /\ \A t \in TopUps :
          charges[t] = "PAID" /\ t \notin acked => \A d \in Deliveries : Ended(d)
    /\ UNCHANGED vars

Next ==
    \/ \E c \in WalletCalls : Arrive(c) \/ Step(c) \/ Fail(c)
    \/ \E t \in TopUps : CustomerPays(t)
    \/ Terminating

Spec == Init /\ [][Next]_vars

(* Node runs every started handler to its end, PostgreSQL grants row locks *)
(* in order, and Cobrana goes on delivering an event until it gets a 200.  *)
Fairness ==
    /\ \A c \in WalletCalls : WF_vars(Step(c))
    /\ \A d \in Deliveries : WF_vars(Deliver(d))

FairSpec == Spec /\ Fairness

-----------------------------------------------------------------------------
(* Properties *)

Credited(t) == \E row \in ledger : row.topUp = t

(* A top-up is PAID exactly when its credit is in the ledger: the two are  *)
(* one commit, and no failure or repeated delivery separates them          *)
(* (handleChargePaid).                                                     *)
PaidIsCredited == \A t \in TopUps : AlreadyPaid(t) <=> Credited(t)

(* Every credit of a top-up is for a charge that was really paid, of the   *)
(* amount and for the user of the stored top-up.                           *)
NoCreditWithoutPayment ==
    \A row \in ledger :
        row.topUp # NoTopUp =>
            /\ charges[row.topUp] = "PAID"
            /\ row.type = "CREDIT" /\ row.amount = topUps[row.topUp].amount
            /\ row.user = TopUpOwner[row.topUp]

(* A PAID top-up stays PAID and keeps its amount: the late UPDATE of       *)
(* initiateTopUp, racing the payment it started, takes nothing back.       *)
PaidStays ==
    [][\A t \in TopUps :
          AlreadyPaid(t) => AlreadyPaid(t)' /\ topUps'[t].amount = topUps[t].amount]_vars

(* Every request that was started ends: the wallet always comes to rest.   *)
CallsFinish == []<>AtRest

(* A paid charge ends up credited, even when the backend never got to save *)
(* the charge's id, unless a delivery of it failed or was refused (which   *)
(* Cobrana is told was received) or Cobrana has given up.                  *)
DeliveryLost(t) == \E d \in Deliveries : pc[d] = "failed" /\ ctx[d].topUp = t

GivenUp == \A d \in Deliveries : Ended(d)

PaymentArrives ==
    \A t \in TopUps :
        (charges[t] = "PAID") ~> (Credited(t) \/ DeliveryLost(t) \/ GivenUp)

(* What the answer "Evento ya procesado" promises: one Cobrana event is    *)
(* credited at most once.                                                  *)
EventCreditedOnce ==
    \A r1, r2 \in ledger : r1.topUp = r2.topUp /\ r1.topUp # NoTopUp => r1 = r2
=============================================================================
