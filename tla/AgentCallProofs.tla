--------------------------- MODULE AgentCallProofs ---------------------------
(***************************************************************************)
(* However often calls fail or are killed, the secret of every payment is in *)
(* the state file, its status tells the truth, and a service is not paid     *)
(* twice. The argument: a plain call pays only when every older record of    *)
(* the service is settled, settled records are never written again, and      *)
(* what they record cannot be undone by the chain or the gateway.            *)
(***************************************************************************)
EXTENDS AgentCall, SequenceTheorems, TLAPS

Statuses == Open \cup {"claimed", "failed"}

\* A secret is recorded once.
Distinct == \A i, j \in DOMAIN payments : payments[i].secret = payments[j].secret => i = j

\* Whatever is older than a payment made without --fresh is settled.
Ordered ==
    \A i, j \in DOMAIN payments :
        i < j /\ payments[i].service = payments[j].service /\ payments[j].secret \notin fresh
            => payments[i].status \notin Open

\* While a command works on a payment, its record is there and not settled.
Working == Running \ {"paying", "claimed"}
Current ==
    pc \in Working =>
        \E i \in DOMAIN payments : /\ payments[i].secret = call.secret
                                   /\ payments[i].service = call.service
                                   /\ payments[i].status \in Open

\* What the command has found out stays true until it acts on it.
Known ==
    /\ pc = "paying" /\ ~call.fresh => Unclaimed(call.service) = {}
    /\ pc = "prepared" => Mine \notin Submitted
    /\ pc \in {"granted", "claimed"} => Mine \in consumed

\* A transaction is in one place.
OnePlace == /\ mempool \cap (receipts \cup rejected) = {}
            /\ receipts \cap rejected = {}

File == Distinct /\ Ordered
Inv  == /\ TypeOK /\ File /\ Current /\ Known
        /\ OnePlace /\ SecretDurable /\ StatusTruthful

-----------------------------------------------------------------------------
\* The state file as a function, which is all the proofs need of the sequence.
LEMMA FileFunction ==
    ASSUME TypeOK
    PROVE  /\ Len(payments) \in Nat
           /\ DOMAIN payments = 1..Len(payments)
           /\ payments \in [1..Len(payments) -> Payment]
  BY LenProperties DEF TypeOK

\* A command that ended has forgotten its payment.
LEMMA ForgottenType ==
    ASSUME TypeOK
    PROVE  Forgotten \in [service : Services, fresh : BOOLEAN, secret : Secrets \cup {NoSecret},
                          attempt : 0..MaxRetries]
<1>1. 0 \in 0..MaxRetries
  BY RetriesAssumption
<1>2. QED
  BY <1>1 DEF TypeOK, Forgotten

\* Writing a status keeps the records but for the status of the running payment.
LEMMA WithStatusWrites ==
    ASSUME TypeOK, NEW status \in Statuses, payments' = WithStatus(status)
    PROVE  /\ payments' \in Seq(Payment)
           /\ DOMAIN payments' = DOMAIN payments
           /\ \A i \in DOMAIN payments :
                  /\ payments'[i].secret = payments[i].secret
                  /\ payments'[i].service = payments[i].service
                  /\ payments'[i].status =
                         IF payments[i].secret = call.secret THEN status ELSE payments[i].status
<1> DEFINE n == Len(payments)
           rec(i) == IF payments[i].secret = call.secret
                     THEN [payments[i] EXCEPT !.status = status] ELSE payments[i]
<1>1. n \in Nat /\ payments \in [1..n -> Payment] /\ DOMAIN payments = 1..n
  BY FileFunction
<1>2. payments' = [i \in 1..n |-> rec(i)]
  BY <1>1 DEF WithStatus
<1>3. \A i \in 1..n : rec(i) \in Payment
  BY <1>1 DEF Payment, Statuses
<1>4. \A i \in 1..n :
         /\ rec(i).secret = payments[i].secret
         /\ rec(i).service = payments[i].service
         /\ rec(i).status = IF payments[i].secret = call.secret
                            THEN status ELSE payments[i].status
  BY <1>1 DEF Payment
<1> HIDE DEF rec
<1>5. payments' \in Seq(Payment) /\ DOMAIN payments' = 1..n
  BY <1>1, <1>2, <1>3
<1>6. QED
  BY <1>1, <1>2, <1>4, <1>5

\* Recording a payment adds one record.
LEMMA PreparedAppends ==
    ASSUME TypeOK, NEW secret \in Secrets, payments' = Prepared(secret)
    PROVE  /\ payments' \in Seq(Payment)
           /\ Len(payments) \in Nat
           /\ DOMAIN payments = 1..Len(payments)
           /\ DOMAIN payments' = 1..(Len(payments) + 1)
           /\ \A i \in 1..Len(payments) : payments'[i] = payments[i]
           /\ payments'[Len(payments) + 1] =
                  [service |-> call.service, secret |-> secret, status |-> "prepared"]
  BY LenProperties, AppendProperties DEF TypeOK, Prepared, Payment, Open

\* The start state is right.
LEMMA InitInv == Init => Inv
<1> SUFFICES ASSUME Init PROVE Inv
  OBVIOUS
<1>1. TypeOK
  <2>1. call \in [service : Services, fresh : BOOLEAN, secret : Secrets \cup {NoSecret},
                  attempt : 0..MaxRetries]
    <3>1. {0} \subseteq 0..MaxRetries /\ {FALSE} \subseteq BOOLEAN
      BY RetriesAssumption
    <3>2. QED
      BY <3>1 DEF Init
  <2>2. payments \in Seq(Payment)
    BY DEF Init
  <2>3. QED
    BY <2>1, <2>2 DEF Init, TypeOK, Submitted, Ended
<1>2. File /\ SecretDurable /\ StatusTruthful /\ OnePlace
  BY DEF Init, File, Distinct, Ordered, SecretDurable, StatusTruthful, OnePlace, Submitted
<1>3. Current /\ Known
  BY DEF Init, Current, Known, Working, Running, Paying
<1>4. QED
  BY <1>1, <1>2, <1>3 DEF Inv

\* A command that starts pays only if no record of the service is open, or resumes one.
LEMMA StepStart ==
    ASSUME Inv, NEW service \in Services, NEW bypass \in Fresh, Start(service, bypass)
    PROVE  Inv'
<1> DEFINE found == IF bypass THEN {} ELSE Unclaimed(service)
<1> USE FreshAssumption, RetriesAssumption, SecretsAssumption
<1>1. UNCHANGED <<payments, fresh, chain, consumed>>
  BY DEF Start
<1>2. /\ call'.service = service /\ call'.fresh = bypass
      /\ call' \in [service : Services, fresh : BOOLEAN, secret : Secrets \cup {NoSecret},
                    attempt : 0..MaxRetries]
      /\ \/ pc' = "paying" /\ found = {}
         \/ /\ pc' \in {"lookup", "claiming"}
            /\ \E i \in Unclaimed(service) : call'.secret = payments[i].secret
  <2>1. ASSUME found = {}, pc' = "paying",
               call' = [service |-> service, fresh |-> bypass,
                        secret |-> NoSecret, attempt |-> 0]
        PROVE  /\ call'.service = service /\ call'.fresh = bypass
               /\ call' \in [service : Services, fresh : BOOLEAN,
                             secret : Secrets \cup {NoSecret}, attempt : 0..MaxRetries]
    BY <2>1
  <2>2. ASSUME NEW i \in Newest(found),
               pc' = IF payments[i].status = "prepared" THEN "lookup" ELSE "claiming",
               call' = [service |-> service, fresh |-> bypass,
                        secret |-> payments[i].secret, attempt |-> 0]
        PROVE  /\ call'.service = service /\ call'.fresh = bypass
               /\ call' \in [service : Services, fresh : BOOLEAN,
                             secret : Secrets \cup {NoSecret}, attempt : 0..MaxRetries]
               /\ pc' \in {"lookup", "claiming"}
               /\ \E j \in Unclaimed(service) : call'.secret = payments[j].secret
    <3>1. i \in Unclaimed(service)
      BY DEF Newest
    <3>2. payments[i] \in Payment
      BY <3>1, FileFunction DEF Unclaimed, Inv
    <3>3. QED
      BY <2>2, <3>1, <3>2 DEF Payment
  <2>3. QED
    BY <2>1, <2>2 DEF Start
<1>3. TypeOK'
  BY <1>1, <1>2 DEF Inv, TypeOK, chain, Submitted, Ended, Running, Paying
<1>4. File'
  BY <1>1 DEF Inv, File, Distinct, Ordered
<1>5. Current'
  BY <1>1, <1>2 DEF Current, Unclaimed, Working, Running, Paying
<1>6. Known'
  BY <1>1, <1>2 DEF Known, Unclaimed
<1>7. OnePlace' /\ SecretDurable' /\ StatusTruthful'
  BY <1>1 DEF Inv, OnePlace, SecretDurable, StatusTruthful, chain, Submitted
<1>8. QED
  BY <1>3, <1>4, <1>5, <1>6, <1>7 DEF Inv

\* The record of a new payment is added when all older ones of the service are settled,
\* or the payment was made with --fresh.
LEMMA StepPrepare == ASSUME Inv, NEW secret \in Secrets, Prepare(secret) PROVE Inv'
<1> DEFINE n == Len(payments)
<1>1. /\ pc = "paying" /\ secret \notin Recorded /\ pc' = "prepared"
      /\ call' = [call EXCEPT !.secret = secret] /\ payments' = Prepared(secret)
      /\ fresh' = IF call.fresh THEN fresh \cup {secret} ELSE fresh
      /\ UNCHANGED <<mempool, receipts, rejected, consumed>>
  BY DEF Prepare, chain
<1>2. /\ payments' \in Seq(Payment) /\ n \in Nat
      /\ DOMAIN payments = 1..n /\ DOMAIN payments' = 1..(n + 1)
      /\ \A i \in 1..n : payments'[i] = payments[i]
      /\ payments'[n + 1] =
             [service |-> call.service, secret |-> secret, status |-> "prepared"]
  BY <1>1, PreparedAppends DEF Inv
<1>3. /\ call' \in [service : Services, fresh : BOOLEAN, secret : Secrets \cup {NoSecret},
                    attempt : 0..MaxRetries]
      /\ call'.secret = secret /\ call'.service = call.service /\ call'.fresh = call.fresh
  BY <1>1 DEF Inv, TypeOK
<1>4. \A i \in 1..n : payments[i].secret # secret
  BY <1>1, <1>2 DEF Recorded
<1>5. TypeOK'
  BY <1>1, <1>2, <1>3 DEF Inv, TypeOK, Submitted, Running, Paying
<1>6. Distinct'
  BY <1>2, <1>4 DEF Inv, File, Distinct
<1>7. Ordered'
  <2>1. SUFFICES ASSUME NEW i \in 1..(n + 1), NEW j \in 1..(n + 1), i < j,
                        payments'[i].service = payments'[j].service,
                        payments'[j].secret \notin fresh'
                 PROVE  payments'[i].status \notin Open
    BY <1>2 DEF Ordered
  <2>2. i \in 1..n
    BY <1>2, <2>1
  <2>3. CASE j \in 1..n
    BY <1>1, <1>2, <2>1, <2>2, <2>3 DEF Inv, File, Ordered
  <2>4. CASE j = n + 1
    <3>1. ~call.fresh
      BY <1>1, <1>2, <2>1, <2>4
    <3>2. Unclaimed(call.service) = {}
      BY <1>1, <3>1 DEF Inv, Known
    <3>3. payments[i].service = call.service
      BY <1>2, <2>1, <2>2, <2>4
    <3>4. QED
      BY <1>2, <2>2, <3>2, <3>3 DEF Unclaimed
  <2>5. QED
    BY <1>2, <2>3, <2>4
<1>8. Current'
  BY <1>2, <1>3 DEF Current, Open
<1>9. deriveReceipt(secret, call.service) \notin Submitted
  BY <1>2, <1>4 DEF Inv, SecretDurable, deriveReceipt
<1>10. Known'
  BY <1>1, <1>3, <1>9 DEF Known, Mine, Submitted
<1>11. OnePlace'
  BY <1>1 DEF Inv, OnePlace
<1>12. SecretDurable'
  BY <1>1, <1>2 DEF Inv, SecretDurable, Submitted
<1>13. StatusTruthful'
  BY <1>1, <1>2 DEF Inv, StatusTruthful
<1>14. QED
  BY <1>5, <1>6, <1>7, <1>8, <1>10, <1>11, <1>12, <1>13 DEF Inv, File

\* Writing a status that is true keeps the invariant, if the command ends or the record
\* stays open.
LEMMA StepStatus ==
    ASSUME Inv, pc \in Working, NEW status \in Statuses, payments' = WithStatus(status),
           UNCHANGED <<chain, consumed, fresh>>,
           status = "confirmed" => Mine \in receipts,
           status = "claimed" => Mine \in consumed,
           status = "failed" => Mine \in rejected,
           \/ pc' = "idle" /\ call' = Forgotten
           \/ pc' = "claimed" /\ Mine \in consumed /\ UNCHANGED call
           \/ pc' \in {"watching", "claiming"} /\ status \in Open /\ UNCHANGED call
    PROVE  Inv'
<1>1. /\ payments' \in Seq(Payment) /\ DOMAIN payments' = DOMAIN payments
      /\ \A i \in DOMAIN payments :
             /\ payments'[i].secret = payments[i].secret
             /\ payments'[i].service = payments[i].service
             /\ payments'[i].status =
                    IF payments[i].secret = call.secret THEN status ELSE payments[i].status
  BY WithStatusWrites DEF Inv
<1>2. PICK c \in DOMAIN payments : /\ payments[c].secret = call.secret
                                   /\ payments[c].service = call.service
                                   /\ payments[c].status \in Open
  BY DEF Inv, Current
<1>3. \A i \in DOMAIN payments : i # c => payments[i].secret # call.secret
  BY <1>2 DEF Inv, File, Distinct
<1>4. TypeOK'
  BY <1>1, ForgottenType DEF Inv, TypeOK, chain, Submitted, Ended, Running, Paying
<1>5. Distinct'
  BY <1>1 DEF Inv, File, Distinct
<1>6. Ordered'
  <2>1. SUFFICES ASSUME NEW i \in DOMAIN payments, NEW j \in DOMAIN payments, i < j,
                        payments[i].service = payments[j].service,
                        payments[j].secret \notin fresh
                 PROVE  payments'[i].status \notin Open
    BY <1>1 DEF Ordered
  <2>2. payments[i].status \notin Open
    BY <2>1 DEF Inv, File, Ordered
  <2>3. QED
    BY <1>1, <1>2, <1>3, <2>2
<1>7. Current'
  BY <1>1, <1>2 DEF Current, Working, Running, Paying
<1>8. Known'
  BY DEF Known, Mine
<1>9. OnePlace'
  BY DEF Inv, OnePlace, chain
<1>10. SecretDurable'
  BY <1>1 DEF Inv, SecretDurable, Submitted, chain
<1>11. StatusTruthful'
  <2>1. SUFFICES ASSUME NEW i \in DOMAIN payments
                 PROVE  LET receipt == deriveReceipt(payments'[i].secret, payments'[i].service)
                        IN  /\ payments'[i].status = "confirmed" => receipt \in receipts
                            /\ payments'[i].status = "claimed" => receipt \in consumed
                            /\ payments'[i].status = "failed" => receipt \in rejected
    BY <1>1 DEF StatusTruthful, chain
  <2>2. CASE i = c
    BY <1>1, <1>2, <2>2 DEF Mine
  <2>3. CASE i # c
    BY <1>1, <1>3, <2>3 DEF Inv, StatusTruthful
  <2>4. QED
    BY <2>2, <2>3
<1>12. QED
  BY <1>4, <1>5, <1>6, <1>7, <1>8, <1>9, <1>10, <1>11 DEF Inv, File

\* The chain and the gateway only ever add to what the records claim of them.
LEMMA StepOutside ==
    ASSUME Inv,
           \/ Submit
           \/ Granted
           \/ \E tx \in mempool : Include(tx)
    PROVE  Inv'
<1>1. File'
  BY DEF Submit, Granted, Include, Inv, File, Distinct, Ordered
<1>2. CASE Submit
  <2>1. \E i \in DOMAIN payments : payments[i].secret = call.secret
                                   /\ payments[i].service = call.service
    BY <1>2 DEF Submit, Inv, Current, Working, Running, Paying
  <2>2. Mine \in Secrets \X Services
    BY <2>1, FileFunction DEF Mine, deriveReceipt, Inv, Payment
  <2>3. TypeOK'
    BY <1>2, <2>2 DEF Submit, Inv, TypeOK, Submitted, Running, Paying
  <2>4. Current' /\ Known'
    BY <1>2 DEF Submit, Inv, Current, Known, Working, Running, Paying
  <2>5. OnePlace'
    BY <1>2 DEF Submit, Inv, Known, OnePlace, Submitted
  <2>6. SecretDurable'
    BY <1>2, <2>1 DEF Submit, Inv, SecretDurable, Submitted, Mine
  <2>7. StatusTruthful'
    BY <1>2 DEF Submit, Inv, StatusTruthful
  <2>8. QED
    BY <1>1, <2>3, <2>4, <2>5, <2>6, <2>7 DEF Inv
<1>3. CASE Granted
  <2>1. TypeOK'
    BY <1>3 DEF Granted, Inv, TypeOK, Submitted, chain, Running
  <2>2. Current' /\ Known'
    BY <1>3 DEF Granted, Inv, Current, Known, Working, Running, Paying, Mine
  <2>3. OnePlace' /\ SecretDurable' /\ StatusTruthful'
    BY <1>3 DEF Granted, Inv, OnePlace, SecretDurable, StatusTruthful, Submitted, chain
  <2>4. QED
    BY <1>1, <2>1, <2>2, <2>3 DEF Inv
<1>4. ASSUME NEW tx \in mempool, Include(tx) PROVE Inv'
  <2>1. /\ UNCHANGED <<payments, pc, call, consumed, fresh>>
        /\ mempool' = mempool \ {tx}
        /\ receipts \subseteq receipts' /\ rejected \subseteq rejected'
        /\ Submitted' = Submitted
    BY <1>4 DEF Include, Submitted
  <2>2. TypeOK'
    BY <2>1 DEF Inv, TypeOK
  <2>3. Current' /\ Known'
    BY <2>1 DEF Inv, Current, Known, Mine, Unclaimed
  <2>4. OnePlace'
    BY <1>4 DEF Include, Inv, OnePlace
  <2>5. SecretDurable' /\ StatusTruthful'
    BY <2>1 DEF Inv, SecretDurable, StatusTruthful
  <2>6. QED
    BY <1>1, <2>2, <2>3, <2>4, <2>5 DEF Inv
<1>5. QED
  BY <1>2, <1>3, <1>4

\* The other steps move the command, count an attempt or end it.
LEMMA StepCommand ==
    ASSUME Inv,
           UNCHANGED <<payments, chain, consumed, fresh>>,
           \/ pc' \in Ended /\ call' = Forgotten
           \/ pc = "lookup" /\ pc' = "claiming" /\ UNCHANGED call
           \/ pc = "submitted" /\ pc' = "unmarked" /\ UNCHANGED call
           \/ /\ pc = "claiming" /\ UNCHANGED pc
              /\ call' = [call EXCEPT !.attempt = @ + 1] /\ call.attempt < MaxRetries
    PROVE  Inv'
<1> DEFINE Type(c) == c \in [service : Services, fresh : BOOLEAN,
                             secret : Secrets \cup {NoSecret}, attempt : 0..MaxRetries]
<1>1. /\ Type(call')
      /\ pc' \notin Ended => call'.secret = call.secret /\ call'.service = call.service
  <2>1. Type(call) /\ Type(Forgotten)
    BY ForgottenType DEF Inv, TypeOK
  <2>2. ASSUME call' = [call EXCEPT !.attempt = @ + 1], call.attempt < MaxRetries
        PROVE  Type(call') /\ call'.secret = call.secret /\ call'.service = call.service
    BY <2>1, <2>2, RetriesAssumption
  <2>3. QED
    BY <2>1, <2>2
<1>2. TypeOK'
  BY <1>1 DEF Inv, TypeOK, Submitted, chain, Ended, Running, Paying
<1>3. File' /\ OnePlace' /\ SecretDurable' /\ StatusTruthful'
  BY DEF Inv, File, Distinct, Ordered, OnePlace, SecretDurable, StatusTruthful, Submitted, chain
<1>4. Current'
  BY <1>1 DEF Inv, Current, Working, Running, Paying, Ended
<1>5. Known'
  BY DEF Inv, Known, Ended
<1>6. QED
  BY <1>2, <1>3, <1>4, <1>5 DEF Inv

\* Every step keeps the invariant.
LEMMA StepInv == Inv /\ [Next]_vars => Inv'
<1> SUFFICES ASSUME Inv, [Next]_vars PROVE Inv'
  OBVIOUS
<1>1. ASSUME NEW service \in Services, NEW bypass \in Fresh, Start(service, bypass) PROVE Inv'
  BY <1>1, StepStart
<1>2. ASSUME NEW secret \in Secrets, Prepare(secret) PROVE Inv'
  BY <1>2, StepPrepare
<1>3. CASE Submit \/ Granted \/ \E tx \in mempool : Include(tx)
  BY <1>3, StepOutside
<1>4. CASE LookupFound \/ LookupMissed \/ NotObserved \/ AlreadyUsed
  BY <1>4, StepCommand DEF LookupFound, LookupMissed, NotObserved, RetriesLeft, AlreadyUsed,
                           Ended, chain
<1>5. CASE Throw \/ Crash
  BY <1>5, StepCommand DEF Throw, Crash, AfterError, Ended, chain
<1>6. CASE PrintResource
  BY <1>6, StepCommand DEF PrintResource, Ended, chain
<1>7. CASE Mark
  <2>1. CASE pc' = "watching" /\ payments' = WithStatus("pending")
    BY <1>7, <2>1, StepStatus DEF Mark, Working, Running, Paying, Statuses, Open
  <2>2. CASE pc' = "unmarked" /\ UNCHANGED payments
    BY <1>7, <2>2, StepCommand DEF Mark, chain
  <2>3. QED
    BY <1>7, <2>1, <2>2 DEF Mark
<1>8. CASE Confirmed
  <2>1. CASE pc' = "claiming" /\ payments' = WithStatus("confirmed")
    BY <1>8, <2>1, StepStatus DEF Confirmed, Working, Running, Paying, Statuses, Open
  <2>2. CASE pc' = "idle" /\ payments' = AfterError
    BY <1>8, <2>2, StepCommand DEF Confirmed, AfterError, Ended, chain
  <2>3. QED
    BY <1>8, <2>1, <2>2 DEF Confirmed
<1>9. CASE Failed
  BY <1>9, StepStatus DEF Failed, Working, Running, Paying, Statuses, Open
<1>10. CASE Claim
  BY <1>10, StepStatus DEF Claim, Working, Running, Paying, Statuses, Open, Inv, Known
<1>11. CASE UNCHANGED vars
  BY <1>11 DEF vars, chain, Inv, TypeOK, File, Distinct, Ordered, Current, Known, OnePlace,
               SecretDurable, StatusTruthful, Mine, Submitted, Unclaimed
<1>12. QED
  BY <1>1, <1>2, <1>3, <1>4, <1>5, <1>6, <1>7, <1>8, <1>9, <1>10, <1>11 DEF Next, Proceed

\* Every reachable state satisfies the invariant.
LEMMA Invariance == Spec => []Inv
  BY InitInv, StepInv, PTL DEF Spec

-----------------------------------------------------------------------------
\* The state file, the command and the receipts keep their types.
THEOREM TypeCorrect == Spec => []TypeOK
<1>1. Inv => TypeOK
  BY DEF Inv
<1>2. QED
  BY <1>1, Invariance, PTL

\* The secret of every submitted payment is in the state file (payFor's onPrepared).
THEOREM SecretsDurable == Spec => []SecretDurable
<1>1. Inv => SecretDurable
  BY DEF Inv
<1>2. QED
  BY <1>1, Invariance, PTL

\* The status of a record tells the truth (callCommand's updatePaymentStatus calls).
THEOREM StatusesTruthful == Spec => []StatusTruthful
<1>1. Inv => StatusTruthful
  BY DEF Inv
<1>2. QED
  BY <1>1, Invariance, PTL

\* A plain call never pays again for what an earlier payment can still redeem.
THEOREM NeverPaysTwice == Spec => []PaysOnce
<1>1. ASSUME Inv PROVE PaysOnce
  <2>1. SUFFICES ASSUME NEW i \in DOMAIN payments, NEW j \in DOMAIN payments, i < j,
                        payments[i].service = payments[j].service,
                        payments[j].secret \notin fresh
                 PROVE  ~Live(payments[i])
    BY DEF PaysOnce
  <2>2. payments[i].status \in {"claimed", "failed"}
    BY <1>1, <2>1, FileFunction DEF Inv, File, Ordered, Payment
  <2>3. QED
    BY <1>1, <2>2 DEF Inv, StatusTruthful, OnePlace, Live
<1>2. QED
  BY <1>1, Invariance, PTL
=============================================================================
