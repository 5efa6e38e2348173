------------------------------ MODULE AgentCall ------------------------------
(***************************************************************************)
(* `m402 call` (agent/src/commands/call.ts): pays for a service and claims   *)
(* the resource, keeping a record of each payment in the state file so that  *)
(* a later call can resume it.  One command runs at a time (OperationLock);  *)
(* it can fail or be killed between any two steps, after which only the      *)
(* state file, the chain and the gateway remember anything.                  *)
(***************************************************************************)
EXTENDS Naturals, Sequences, FiniteSets

CONSTANTS
    Services,    \* the services called, each with its vault and its URL
    Secrets,     \* receipt secrets, drawn at random; bound of the model: one per payment
    NoSecret,    \* what stands for the secret while none is drawn
    MaxRetries,  \* length of the retry ladder of claimResource
    Fresh        \* the values the --fresh flag may take, a subset of BOOLEAN

ASSUME SecretsAssumption == NoSecret \notin Secrets
ASSUME RetriesAssumption == MaxRetries \in Nat
ASSUME FreshAssumption == Fresh \subseteq BOOLEAN

VARIABLES
    payments,   \* the state file: payment records, oldest first
    pc,         \* the step the running command is at, or how the last one ended
    call,       \* what the running command knows: service, --fresh, secret, attempts
    mempool,    \* submitted pay transactions that are in no block yet
    receipts,   \* ledger: receipts of the vault
    rejected,   \* pay transactions that were included and failed
    consumed,   \* receipts the gateway has consumed
    fresh       \* history: secrets of payments made with --fresh

chain == <<mempool, receipts, rejected>>
vars  == <<payments, pc, call, chain, consumed, fresh>>

-----------------------------------------------------------------------------
Ended   == {"idle", "already-used", "not-observed", "unknown-outcome"}
Paying  == {"paying", "prepared", "submitted", "watching", "unmarked"}
Running == Paying \cup {"lookup", "claiming", "granted", "claimed"}
Open    == {"prepared", "pending", "confirmed"}
Payment == [service : Services, secret : Secrets, status : Open \cup {"claimed", "failed"}]

\* A receipt, and the transaction that inserts it, is a secret and its service.
deriveReceipt(secret, service) == <<secret, service>>
Mine == deriveReceipt(call.secret, call.service)

Recorded == {payments[i].secret : i \in DOMAIN payments}

\* findUnclaimedPayment: the newest record of the service that is not settled.
\* Mutant: the record of a confirmed payment is not looked for.
UnclaimedUnconfirmed(service) ==
    {i \in DOMAIN payments :
        payments[i].service = service /\ payments[i].status \in Open \ {"confirmed"}}
Unclaimed(service) ==
    {i \in DOMAIN payments : payments[i].service = service /\ payments[i].status \in Open}
Newest(indices) == {i \in indices : \A j \in indices : j <= i}

\* updatePaymentStatus and markPaymentSubmitted: one write of the whole file.
WithStatus(status) ==
    [i \in DOMAIN payments |->
        IF payments[i].secret = call.secret
        THEN [payments[i] EXCEPT !.status = status] ELSE payments[i]]

\* The catch clause of callCommand: only a transaction the chain rejected makes the
\* payment failed. Mutant: any error does.
AfterErrorFailed == IF pc \in Paying THEN WithStatus("failed") ELSE payments
AfterError == payments

\* The retry ladder of claimResource. Mutant: one step more than the ladder has.
RetriesLeftOneMore == call.attempt <= MaxRetries
RetriesLeft == call.attempt < MaxRetries

\* What recordPayment writes. Mutant: the record is written once the transaction is sent.
PreparedLater(secret) == payments
Prepared(secret) ==
    Append(payments, [service |-> call.service, secret |-> secret, status |-> "prepared"])

\* What is left of the command in memory when its process ends: which service it was for.
Forgotten == [call EXCEPT !.fresh = FALSE, !.secret = NoSecret, !.attempt = 0]

Init ==
    /\ payments = <<>>
    /\ pc = "idle"
    /\ call \in [service : Services, fresh : {FALSE}, secret : {NoSecret}, attempt : {0}]
    /\ mempool = {} /\ receipts = {} /\ rejected = {}
    /\ consumed = {} /\ fresh = {}

-----------------------------------------------------------------------------
(* The command. *)

\* Answered 402, the command takes the lock and looks for a payment to resume. Without
\* one it will pay; bound of the model: it starts so only while a secret is left.
Start(service, bypass) ==
    LET found == IF bypass THEN {} ELSE Unclaimed(service) IN
    /\ pc \in Ended
    /\ \/ /\ found = {}
          /\ Secrets \ Recorded # {}
          /\ pc' = "paying"
          /\ call' = [service |-> service, fresh |-> bypass, secret |-> NoSecret, attempt |-> 0]
       \/ \E i \in Newest(found) :
              /\ pc' = IF payments[i].status = "prepared" THEN "lookup" ELSE "claiming"
              /\ call' = [service |-> service, fresh |-> bypass,
                          secret |-> payments[i].secret, attempt |-> 0]
    /\ UNCHANGED <<payments, chain, consumed, fresh>>

\* hasReceipt, answered by an indexer that may lag behind the chain.
LookupFound ==
    /\ pc = "lookup"
    /\ Mine \in receipts
    /\ pc' = "claiming"
    /\ UNCHANGED <<payments, call, chain, consumed, fresh>>

LookupMissed ==
    /\ pc = "lookup"
    /\ pc' = "unknown-outcome"
    /\ call' = Forgotten
    /\ UNCHANGED <<payments, chain, consumed, fresh>>

\* payFor draws the secret and onPrepared records it before anything is submitted.
Prepare(secret) ==
    /\ pc = "paying"
    /\ secret \notin Recorded
    /\ pc' = "prepared"
    /\ call' = [call EXCEPT !.secret = secret]
    /\ payments' = Prepared(secret)
    /\ fresh' = IF call.fresh THEN fresh \cup {secret} ELSE fresh
    /\ UNCHANGED <<chain, consumed>>

Submit ==
    /\ pc = "prepared"
    /\ pc' = "submitted"
    /\ mempool' = mempool \cup {Mine}
    /\ UNCHANGED <<payments, call, receipts, rejected, consumed, fresh>>

\* onSubmitted; an error in it is kept until the transaction is final.
Mark ==
    /\ pc = "submitted"
    /\ \/ pc' = "watching" /\ payments' = WithStatus("pending")
       \/ pc' = "unmarked" /\ UNCHANGED payments
    /\ UNCHANGED <<call, chain, consumed, fresh>>

\* watchForTxData returns success: the payment is confirmed and claimed next, or the
\* kept error is thrown.
Confirmed ==
    /\ pc \in {"watching", "unmarked"}
    /\ Mine \in receipts
    /\ \/ pc = "watching" /\ pc' = "claiming" /\ payments' = WithStatus("confirmed") /\ UNCHANGED call
       \/ pc = "unmarked" /\ pc' = "idle" /\ payments' = AfterError /\ call' = Forgotten
    /\ UNCHANGED <<chain, consumed, fresh>>

\* ... or a failed transaction: CallTxFailedError.
Failed ==
    /\ pc \in {"watching", "unmarked"}
    /\ Mine \in rejected
    /\ pc' = "idle"
    /\ payments' = WithStatus("failed")
    /\ call' = Forgotten
    /\ UNCHANGED <<chain, consumed, fresh>>

\* The gateway has seen the receipt, consumes it and calls the service.
Granted ==
    /\ pc = "claiming"
    /\ Mine \in receipts \ consumed
    /\ pc' = "granted"
    /\ consumed' = consumed \cup {Mine}
    /\ UNCHANGED <<payments, call, chain, fresh>>

\* 503 payment-pending: the receipt is not there, or not seen by the gateway yet.
NotObserved ==
    /\ pc = "claiming"
    /\ Mine \notin consumed
    /\ IF RetriesLeft
       THEN call' = [call EXCEPT !.attempt = @ + 1] /\ UNCHANGED pc
       ELSE pc' = "not-observed" /\ call' = Forgotten
    /\ UNCHANGED <<payments, chain, consumed, fresh>>

\* 402 receipt-already-used, which ends the command.
AlreadyUsed ==
    /\ pc = "claiming"
    /\ Mine \in consumed
    /\ pc' = "already-used"
    /\ call' = Forgotten
    /\ UNCHANGED <<payments, chain, consumed, fresh>>

\* The 200 response arrives and the payment is recorded as claimed ...
Claim ==
    /\ pc = "granted"
    /\ pc' = "claimed"
    /\ payments' = WithStatus("claimed")
    /\ UNCHANGED <<call, chain, consumed, fresh>>

\* ... then the body is read and printed.
PrintResource ==
    /\ pc = "claimed"
    /\ pc' = "idle"
    /\ call' = Forgotten
    /\ UNCHANGED <<payments, chain, consumed, fresh>>

\* Any other error: an unreachable proof server or gateway, a refused submission, a
\* response that is lost or is not ok, a timeout, a state file that cannot be written.
Throw ==
    /\ pc \in Running
    /\ pc' = "idle"
    /\ payments' = AfterError
    /\ call' = Forgotten
    /\ UNCHANGED <<chain, consumed, fresh>>

Crash ==
    /\ pc \in Running
    /\ pc' = "idle"
    /\ call' = Forgotten
    /\ UNCHANGED <<payments, chain, consumed, fresh>>

-----------------------------------------------------------------------------
\* A block includes a transaction, which succeeds or fails.
Include(tx) ==
    /\ tx \in mempool
    /\ mempool' = mempool \ {tx}
    /\ \/ receipts' = receipts \cup {tx} /\ UNCHANGED rejected
       \/ rejected' = rejected \cup {tx} /\ UNCHANGED receipts
    /\ UNCHANGED <<payments, pc, call, consumed, fresh>>

Proceed ==
    \/ LookupFound \/ LookupMissed \/ Submit \/ Mark \/ Confirmed \/ Failed
    \/ Granted \/ NotObserved \/ AlreadyUsed \/ Claim \/ PrintResource
    \/ \E secret \in Secrets : Prepare(secret)

Next ==
    \/ \E service \in Services, bypass \in Fresh : Start(service, bypass)
    \/ Proceed \/ Throw \/ Crash
    \/ \E tx \in mempool : Include(tx)

Spec == Init /\ [][Next]_vars

\* A command goes on, a submitted transaction becomes final, the user calls each service
\* again and again, and no indexer lags behind forever for a service.
FairSpec ==
    /\ Spec
    /\ WF_vars(Proceed)
    /\ WF_vars(\E tx \in mempool : Include(tx))
    /\ \A service \in Services :
           /\ SF_vars(Start(service, FALSE))
           /\ SF_vars(call.service = service /\ LookupFound)
           /\ SF_vars(call.service = service /\ Granted)

-----------------------------------------------------------------------------
Submitted == mempool \cup receipts \cup rejected

\* The records, the command and the sets of receipts have the types of the code's.
TypeOK ==
    /\ payments \in Seq(Payment)
    /\ pc \in Ended \cup Running
    /\ call \in [service : Services, fresh : BOOLEAN, secret : Secrets \cup {NoSecret},
                 attempt : 0..MaxRetries]
    /\ Submitted \subseteq Secrets \X Services
    /\ consumed \subseteq receipts
    /\ fresh \subseteq Secrets

\* The secret of every transaction that may reach the chain is in the state file, with
\* the service it pays for: no crash loses paid money (agent/README.md: "before
\* transaction construction starts").
SecretDurable ==
    \A tx \in Submitted : \E i \in DOMAIN payments :
        deriveReceipt(payments[i].secret, payments[i].service) = tx

\* A payment that can still be redeemed: on its way or on the ledger, and not consumed.
Live(payment) ==
    LET receipt == deriveReceipt(payment.secret, payment.service)
    IN  receipt \in (mempool \cup receipts) \ consumed

\* Without --fresh a service is not paid again while an earlier payment can still be
\* redeemed, whatever errors and crashes came between: resuming replaces paying twice.
PaysOnce ==
    \A i, j \in DOMAIN payments :
        i < j /\ payments[i].service = payments[j].service /\ payments[j].secret \notin fresh
            => ~Live(payments[i])

\* The status of a record never runs ahead of the chain and the gateway: confirmed
\* means paid, claimed means redeemed, failed means it can never be redeemed.
StatusTruthful ==
    \A i \in DOMAIN payments :
        LET receipt == deriveReceipt(payments[i].secret, payments[i].service) IN
        /\ payments[i].status = "confirmed" => receipt \in receipts
        /\ payments[i].status = "claimed" => receipt \in consumed
        /\ payments[i].status = "failed" => receipt \in rejected

\* A user who keeps calling redeems every payment that reached the ledger, unless
\* --fresh has put a newer payment before it, which may stay open for good.
EveryPaymentRedeemed ==
    \A secret \in Secrets, service \in Services :
        LET receipt == deriveReceipt(secret, service)
        IN  receipt \in receipts ~> receipt \in consumed \/ fresh # {}
=============================================================================
