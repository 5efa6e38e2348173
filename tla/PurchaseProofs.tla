---------------------------- MODULE PurchaseProofs ----------------------------
(***************************************************************************)
(* Theorems about purchases from the web app, for every number of clicks,   *)
(* services, connections and retries.                                      *)
(***************************************************************************)
EXTENDS WebPurchase, FiniteSetTheorems, FunctionTheorems, TLAPS

\* A step of one purchase.
OwnStep(r) ==
    \/ Click(r) \/ Connected(r) \/ payForService(r) \/ submit(r)
    \/ Land(r) \/ Finalized(r) \/ NotFinalized(r)
    \/ ClaimGranted(r) \/ ClaimPending(r) \/ ClaimRefused(r) \/ LandClosed(r)

\* A step of the screen, the wallet context, the tab or the indexer.
Background ==
    \/ \E id \in Sids \cup {None} : Navigate(id)
    \/ Loaded \/ connect \/ disconnect \/ Close
    \/ \E receipt \in receipts : Observe(receipt)

\* Next, regrouped for the case analysis of the proofs below.
LEMMA NextCases == ASSUME Next PROVE Background \/ \E r \in Runs : OwnStep(r)
  BY DEF Next, Claim, Background, OwnStep

\* What is left of a purchase when the screen changes under it, or the tab is closed.
Kept(p, q) ==
    /\ q.id = p.id /\ q.requirements = p.requirements /\ q.session = p.session
    /\ q.used = p.used /\ q.paid = p.paid /\ q.attempt = p.attempt
    /\ q.mounted \in BOOLEAN
    /\ q.pc = p.pc \/ (p.pc \in Active /\ q.pc = "closed")

-----------------------------------------------------------------------------
(* Types *)

\* Everything starts empty.
LEMMA InitType == Init => TypeOK
<1>1. Init => run \in [Runs -> Purchases]
  BY PurchaseAssumption DEF Init, Purchases, RunStates
<1>2. Init => connects \in 0..MaxConnects /\ session \in 0..connects
  BY PurchaseAssumption DEF Init
<1>3. Init => screen \in Screens /\ pending \in [0..MaxConnects -> Runs \cup {None}]
  BY DEF Init, Screens
<1>4. QED
  BY <1>1, <1>2, <1>3 DEF Init, TypeOK

\* A purchase that is kept is well typed.
LEMMA KeptType ==
    ASSUME NEW p \in Purchases, NEW mounted \in BOOLEAN
    PROVE  /\ [p EXCEPT !.mounted = mounted] \in Purchases
           /\ Kept(p, [p EXCEPT !.mounted = mounted])
           /\ [p EXCEPT !.pc = IF @ \in Active THEN "closed" ELSE @, !.mounted = mounted] \in Purchases
           /\ Kept(p, [p EXCEPT !.pc = IF @ \in Active THEN "closed" ELSE @, !.mounted = mounted])
  BY DEF Purchases, RunStates, Active, Ends, Kept

\* The screen, the wallet and the indexer leave purchases as they are but for the mark of
\* their screen, and the chain and the table too.
LEMMA BackgroundStep ==
    ASSUME TypeOK, Background
    PROVE  /\ run' \in [Runs -> Purchases]
           /\ \A r \in Runs : Kept(run[r], run'[r])
           /\ UNCHANGED <<receipts, consumed>>
           /\ seen \subseteq seen' /\ seen' \subseteq receipts
<1>0. \A r \in Runs : run[r] \in Purchases /\ Kept(run[r], run[r])
  BY KeptType DEF TypeOK, Kept, Purchases, RunStates
<1>1. ASSUME NEW id \in Sids \cup {None}, Navigate(id)
      PROVE  run' \in [Runs -> Purchases] /\ \A r \in Runs : Kept(run[r], run'[r])
  BY <1>0, <1>1, KeptType DEF Navigate, TypeOK
<1>2. ASSUME Close
      PROVE  run' \in [Runs -> Purchases] /\ \A r \in Runs : Kept(run[r], run'[r])
  BY <1>0, <1>2, KeptType DEF Close
<1>3. ASSUME UNCHANGED run
      PROVE  run' \in [Runs -> Purchases] /\ \A r \in Runs : Kept(run[r], run'[r])
  BY <1>0, <1>3 DEF TypeOK
<1>4. QED
  BY <1>1, <1>2, <1>3
     DEF Background, Navigate, Loaded, connect, Connects, disconnect, Close, Observe, chain, TypeOK

\* Where a purchase is once it has claimed.
Claimed == {"claiming"} \cup Ends

\* The steps of a purchase, as what becomes of its record.
LEMMA OwnRecord ==
    ASSUME TypeOK, NEW r \in Runs, OwnStep(r)
    PROVE  \E q \in Purchases :
               /\ run' = [run EXCEPT ![r] = q]
               /\ q.pc # "unused"
               /\ run[r].pc # "unused" => q.id = run[r].id /\ q.requirements = run[r].requirements
               /\ run[r].used # q.used => run[r].pc = "calling"
               /\ run[r].paid => q.paid
               /\ run[r].pc \in Claimed => q.pc \in Claimed
<1>0. run[r] \in Purchases
  BY DEF TypeOK
<1> DEFINE Ok(q) == /\ q \in Purchases /\ run' = [run EXCEPT ![r] = q]
                    /\ q.pc # "unused"
                    /\ run[r].pc # "unused" => q.id = run[r].id /\ q.requirements = run[r].requirements
                    /\ run[r].used # q.used => run[r].pc = "calling"
                    /\ run[r].paid => q.paid
                    /\ run[r].pc \in Claimed => q.pc \in Claimed
<1>1. ASSUME Click(r) PROVE \E q \in Purchases : Ok(q)
  <2> DEFINE q == [run[r] EXCEPT !.pc = IF session = 0 THEN "connecting" ELSE "paying",
                     !.id = screen.id, !.requirements = screen.requirements,
                     !.session = session, !.mounted = TRUE]
  <2>1. /\ screen.id \in Sids /\ screen.requirements \in Sids /\ session \in 0..MaxConnects
        /\ run[r].pc = "unused"
    BY <1>1, PurchaseAssumption DEF Click, Is, TypeOK, Screens
  <2>2. q \in Purchases /\ q.pc # "unused" /\ q.used = run[r].used /\ q.paid = run[r].paid
    BY <1>0, <2>1 DEF Purchases, RunStates, Active, Ends
  <2>3. run' = [run EXCEPT ![r] = q]
    BY <1>1 DEF Click
  <2> HIDE DEF q
  <2>4. Ok(q)
    BY <2>1, <2>2, <2>3 DEF Claimed, Ends
  <2>5. QED
    BY <2>4
<1>2. ASSUME NEW pc \in {"calling", "claiming"} \cup Ends, run[r].pc \in Active, Becomes(r, pc),
             pc = "calling" => Is(r, "paying"),
             pc = "claiming" => Is(r, "confirming"),
             pc \in {"done", "gave-up"} => Is(r, "claiming")
      PROVE  \E q \in Purchases : Ok(q)
  <2> DEFINE q == [run[r] EXCEPT !.pc = pc]
  <2>1. q \in Purchases /\ q.pc = pc /\ q.id = run[r].id /\ q.requirements = run[r].requirements
        /\ q.used = run[r].used /\ q.paid = run[r].paid
    BY <1>0, <1>2 DEF Purchases, RunStates, Active, Ends, Is
  <2>2. run' = [run EXCEPT ![r] = q] /\ pc # "unused"
    BY <1>2 DEF Becomes, Ends
  <2> HIDE DEF q
  <2>3. Ok(q)
    BY <1>2, <2>1, <2>2 DEF Claimed, Ends, Is
  <2>4. QED
    BY <2>3
<1>3. ASSUME Is(r, "connecting"), NEW s \in 0..MaxConnects,
             run' = [run EXCEPT ![r].pc = "paying", ![r].session = s]
      PROVE  \E q \in Purchases : Ok(q)
  <2> DEFINE q == [run[r] EXCEPT !.pc = "paying", !.session = s]
  <2>1. q \in Purchases /\ q.pc = "paying" /\ q.id = run[r].id /\ q.requirements = run[r].requirements
        /\ q.used = run[r].used /\ q.paid = run[r].paid
    BY <1>0, <1>3 DEF Purchases, RunStates, Active, Ends, Is
  <2>2. run' = [run EXCEPT ![r] = q]
    BY <1>3
  <2> HIDE DEF q
  <2>3. Ok(q)
    BY <1>3, <2>1, <2>2 DEF Claimed, Ends, Is
  <2>4. QED
    BY <2>3
<1>4. ASSUME Is(r, "calling"), NEW secret \in Runs,
             run' = [run EXCEPT ![r].pc = "confirming", ![r].used = secret]
      PROVE  \E q \in Purchases : Ok(q)
  <2> DEFINE q == [run[r] EXCEPT !.pc = "confirming", !.used = secret]
  <2>1. q \in Purchases /\ q.pc = "confirming" /\ q.id = run[r].id
        /\ q.requirements = run[r].requirements /\ q.paid = run[r].paid
    BY <1>0, <1>4 DEF Purchases, RunStates, Active, Ends, Is
  <2>2. run' = [run EXCEPT ![r] = q]
    BY <1>4
  <2> HIDE DEF q
  <2>3. Ok(q)
    BY <1>4, <2>1, <2>2 DEF Claimed, Ends, Is
  <2>4. QED
    BY <2>3
<1>5. ASSUME Is(r, "confirming") \/ (Is(r, "closed") /\ run[r].used # None),
             run' = [run EXCEPT ![r].paid = TRUE]
      PROVE  \E q \in Purchases : Ok(q)
  <2> DEFINE q == [run[r] EXCEPT !.paid = TRUE]
  <2>1. q \in Purchases /\ q.pc = run[r].pc /\ q.id = run[r].id /\ q.paid
        /\ q.requirements = run[r].requirements /\ q.used = run[r].used /\ run[r].pc # "unused"
    BY <1>0, <1>5 DEF Purchases, RunStates, Active, Ends, Is
  <2>2. run' = [run EXCEPT ![r] = q]
    BY <1>5
  <2> HIDE DEF q
  <2>3. Ok(q)
    BY <2>1, <2>2
  <2>4. QED
    BY <2>3
<1>6. ASSUME Is(r, "claiming"), run[r].attempt < MaxRetries,
             run' = [run EXCEPT ![r].attempt = @ + 1]
      PROVE  \E q \in Purchases : Ok(q)
  <2> DEFINE q == [run[r] EXCEPT !.attempt = @ + 1]
  <2>1. q \in Purchases /\ q.pc = run[r].pc /\ q.id = run[r].id /\ q.paid = run[r].paid
        /\ q.requirements = run[r].requirements /\ q.used = run[r].used /\ run[r].pc # "unused"
    BY <1>0, <1>6, PurchaseAssumption DEF Purchases, RunStates, Active, Ends, Is
  <2>2. run' = [run EXCEPT ![r] = q]
    BY <1>6
  <2> HIDE DEF q
  <2>3. Ok(q)
    BY <2>1, <2>2
  <2>4. QED
    BY <2>3
<1> HIDE DEF Ok
<1>7. ASSUME Connected(r) PROVE \E q \in Purchases : Ok(q)
  <2>1. CASE Becomes(r, "failed")
    BY <1>2, <1>7, <2>1 DEF Connected, Is, Active, Ends
  <2>2. ASSUME Connects, run' = [run EXCEPT ![r].pc = "paying", ![r].session = connects']
        PROVE  \E q \in Purchases : Ok(q)
    <3>1. connects + 1 \in 0..MaxConnects
      BY <2>2, PurchaseAssumption DEF Connects, TypeOK
    <3>2. QED
      BY <1>3, <1>7, <2>2, <3>1 DEF Connected, Connects
  <2>3. QED
    BY <1>7, <2>1, <2>2 DEF Connected
<1>8. ASSUME submit(r) PROVE \E q \in Purchases : Ok(q)
  <2>1. CASE Becomes(r, "failed")
    BY <1>2, <1>8, <2>1 DEF submit, Is, Active, Ends
  <2>2. pending[run[r].session] \in Runs \cup {None}
    BY <1>0 DEF TypeOK, Purchases, RunStates
  <2>3. QED
    BY <1>4, <1>8, <2>1, <2>2 DEF submit
<1>9. ASSUME payForService(r) \/ Finalized(r) \/ NotFinalized(r) \/ ClaimPending(r)
      PROVE  \E q \in Purchases : Ok(q)
  BY <1>2, <1>9 DEF payForService, Finalized, NotFinalized, ClaimPending, Is, Active, Ends
<1>10. ASSUME Land(r) \/ LandClosed(r) PROVE \E q \in Purchases : Ok(q)
  BY <1>5, <1>10 DEF Land, LandClosed
<1>11. ASSUME ClaimGranted(r) \/ ClaimRefused(r) PROVE \E q \in Purchases : Ok(q)
  BY <1>2, <1>6, <1>11 DEF ClaimGranted, ClaimRefused, Retry, Is, Active, Ends
<1>12. \E q \in Purchases : Ok(q)
  BY <1>1, <1>7, <1>8, <1>9, <1>10, <1>11 DEF OwnStep
<1>13. QED
  BY <1>12 DEF Ok

\* The steps of a purchase keep the rest well typed: secrets are put into its own
\* connection's private state, receipts are of a witness's secret and a loaded service.
LEMMA OwnType == ASSUME TypeOK, NEW r \in Runs, OwnStep(r) PROVE TypeOK'
<1>1. /\ run[r] \in Purchases /\ run' \in [Runs -> Purchases]
      /\ screen' \in Screens
  <2>1. UNCHANGED screen
    BY DEF OwnStep, Click, Connected, payForService, submit, Land, Finalized, NotFinalized,
           ClaimGranted, ClaimPending, ClaimRefused, LandClosed
  <2>2. QED
    BY <2>1, OwnRecord DEF TypeOK
<1>2. connects' \in 0..MaxConnects /\ session' \in 0..connects'
  <2>1. CASE Connected(r)
    BY <2>1, PurchaseAssumption DEF Connected, Connects, TypeOK
  <2>2. CASE UNCHANGED <<connects, session>>
    BY <2>2 DEF TypeOK
  <2>3. QED
    BY <2>1, <2>2
       DEF OwnStep, Click, payForService, submit, Land, Finalized, NotFinalized,
           ClaimGranted, ClaimPending, ClaimRefused, LandClosed, wallet
<1>3. pending' \in [0..MaxConnects -> Runs \cup {None}]
  <2>1. CASE payForService(r) \/ Finalized(r)
    BY <2>1 DEF payForService, Finalized, TypeOK
  <2>2. CASE UNCHANGED pending
    BY <2>2 DEF TypeOK
  <2>3. QED
    BY <2>1, <2>2
       DEF OwnStep, Click, Connected, submit, Land, NotFinalized,
           ClaimGranted, ClaimPending, ClaimRefused, LandClosed
<1>4. receipts' \subseteq Runs \X Sids /\ seen' \subseteq receipts' /\ consumed' \subseteq seen'
  <2>1. CASE Land(r) \/ LandClosed(r)
    <3>1. run[r].used \in Runs /\ run[r].requirements \in Sids
      BY <1>1, <2>1, PurchaseAssumption
         DEF Land, LandClosed, Is, Purchases, RunStates
    <3>2. QED
      BY <2>1, <3>1 DEF Land, LandClosed, Receipt, deriveReceipt, TypeOK
  <2>2. CASE ClaimGranted(r)
    BY <2>2 DEF ClaimGranted, TypeOK
  <2>3. CASE UNCHANGED <<receipts, seen, consumed>>
    BY <2>3 DEF TypeOK
  <2>4. QED
    BY <2>1, <2>2, <2>3
       DEF OwnStep, Click, Connected, payForService, submit, Finalized, NotFinalized,
           ClaimPending, ClaimRefused, chain
<1>5. QED
  BY <1>1, <1>2, <1>3, <1>4 DEF TypeOK

\* Neither do the screen, the wallet, the tab and the indexer.
LEMMA BackgroundType == ASSUME TypeOK, Background PROVE TypeOK'
<1>1. screen' \in Screens
  <2>1. ASSUME NEW id \in Sids \cup {None}, Navigate(id) PROVE screen' \in Screens
    BY <2>1 DEF Navigate, Screens, TypeOK
  <2>2. CASE Loaded
    BY <2>2 DEF Loaded, Screens, TypeOK
  <2>3. CASE Close
    BY <2>3 DEF Close, Screens
  <2>4. CASE UNCHANGED screen
    BY <2>4 DEF TypeOK
  <2>5. QED
    BY <2>1, <2>2, <2>3, <2>4 DEF Background, connect, disconnect, Observe
<1>2. connects' \in 0..MaxConnects /\ session' \in 0..connects'
  <2>1. CASE connect
    BY <2>1, PurchaseAssumption DEF connect, Connects, TypeOK
  <2>2. CASE UNCHANGED connects /\ (session' = 0 \/ UNCHANGED session)
    BY <2>2, PurchaseAssumption DEF TypeOK
  <2>3. QED
    BY <2>1, <2>2 DEF Background, Navigate, Loaded, disconnect, Close, Observe, wallet
<1>3. pending' \in [0..MaxConnects -> Runs \cup {None}]
  BY DEF Background, Navigate, Loaded, connect, disconnect, Close, Observe, TypeOK
<1>4. QED
  BY <1>1, <1>2, <1>3, BackgroundStep DEF TypeOK

\* Stuttering leaves everything as it is.
LEMMA NextType == TypeOK /\ [Next]_vars => TypeOK'
<1>1. TypeOK /\ UNCHANGED vars => TypeOK'
  BY DEF TypeOK, vars
<1>2. QED
  BY <1>1, NextCases, OwnType, BackgroundType

\* Every behaviour is well typed: no purchase claims before its transaction is sent, none
\* is paid before its witness has returned a secret, and the gateway has consumed what its
\* indexer reported of what is on the chain.
THEOREM TypeCorrect == Spec => []TypeOK
  BY InitType, NextType, PTL DEF Spec

-----------------------------------------------------------------------------
(* The invariant: what every receipt, every consumed row and every retry is *)
(* evidence of.                                                            *)

\* A receipt was paid by a purchase whose witness returned its secret and which had
\* loaded the requirements of its service.
Bought ==
    \A receipt \in receipts : \E q \in Runs :
        run[q].paid /\ run[q].used = receipt[1] /\ run[q].requirements = receipt[2]

\* A delivery consumed the purchase's own secret for the service that was clicked.
Consumes == \A r \in Runs : Is(r, "done") => Mine(r) \in consumed

\* Nothing is consumed but by a purchase that claimed it.
Claims ==
    \A receipt \in consumed :
        /\ receipt[1] \in Runs
        /\ run[receipt[1]].pc \in Claimed
        /\ receipt[2] = run[receipt[1]].id

\* A 402 to a claim says that the purchase's secret is on the chain for another service, or
\* that the service has been called already; with a delivery still to come, the former.
Refused(p) == p.pc = "gave-up" \/ (p.pc = "claiming" /\ p.attempt > 0)
DoneLate(p) == p.pc = "done" /\ p.attempt > 0
Misplaced ==
    \A r \in Runs :
        /\ Refused(run[r]) => Elsewhere(r) \cap receipts # {} \/ Mine(r) \in consumed
        /\ DoneLate(run[r]) => Elsewhere(r) \cap receipts # {}

PurchaseInv == TypeOK /\ Bought /\ Consumes /\ Claims /\ Misplaced

\* Only a grant delivers, and only a 402 is a retry or gives up.
LEMMA OwnEnds ==
    ASSUME TypeOK, NEW r \in Runs, OwnStep(r)
    PROVE  /\ run'[r].pc = "done" =>
                  (ClaimGranted(r) /\ run'[r].attempt = run[r].attempt) \/ Is(r, "done")
           /\ Refused(run'[r]) =>
                  /\ run[r].pc # "unused"
                  /\ Refused(run[r]) \/ ClaimRefused(r) \/ ClaimGranted(r)
<1>1. run \in [Runs -> Purchases] /\ run[r] \in Purchases
  BY DEF TypeOK
<1>2. \A pc : Becomes(r, pc) => run'[r].pc = pc /\ run'[r].attempt = run[r].attempt
  BY <1>1 DEF Becomes, Purchases, RunStates
<1>3. CASE Click(r)
  BY <1>1, <1>3 DEF Click, Purchases, RunStates, Refused
<1>4. CASE Connected(r)
  BY <1>1, <1>2, <1>4 DEF Connected, Purchases, RunStates, Refused
<1>5. CASE submit(r)
  BY <1>1, <1>2, <1>5 DEF submit, Purchases, RunStates, Refused
<1>6. CASE payForService(r) \/ NotFinalized(r) \/ ClaimPending(r)
  BY <1>2, <1>6 DEF payForService, NotFinalized, ClaimPending, Refused
<1>7. CASE Land(r) \/ LandClosed(r)
  BY <1>1, <1>7 DEF Land, LandClosed, Is, Purchases, RunStates, Refused
<1>8. CASE Finalized(r)
  <2>1. ~(run[r].attempt > 0) /\ run'[r].attempt = run[r].attempt /\ run'[r].pc = "claiming"
    BY <1>1, <1>2, <1>8 DEF Finalized, Is, Purchases, Ends
  <2>2. QED
    BY <2>1 DEF Refused
<1>9. CASE ClaimGranted(r) \/ ClaimRefused(r)
  <2>1. run[r].pc = "claiming"
    BY <1>9 DEF ClaimGranted, ClaimRefused, Is
  <2>2. Retry(r) => run'[r].pc # "done"
    BY <1>1, <1>2, <2>1 DEF Retry, Purchases, RunStates
  <2>3. CASE Retry(r)
    BY <1>9, <2>1, <2>2, <2>3
  <2>4. CASE ClaimGranted(r) /\ (Becomes(r, "done") \/ Becomes(r, "failed"))
    BY <1>2, <2>1, <2>4 DEF Refused
  <2>5. QED
    BY <1>9, <2>3, <2>4 DEF ClaimGranted, ClaimRefused
<1>10. QED
  BY <1>3, <1>4, <1>5, <1>6, <1>7, <1>8, <1>9 DEF OwnStep

\* There are no receipts and no purchases.
LEMMA InitInv == Init => PurchaseInv
  BY InitType
     DEF Init, PurchaseInv, Bought, Consumes, Claims, Misplaced, Refused, DoneLate, Is

\* A purchase that is kept, or closed, is no new delivery and no new retry.
LEMMA BackgroundInv == ASSUME PurchaseInv, Background PROVE PurchaseInv'
<1>1. /\ TypeOK' /\ receipts' = receipts /\ consumed' = consumed
      /\ \A r \in Runs : Kept(run[r], run'[r])
  BY BackgroundType, BackgroundStep DEF PurchaseInv
<1>2. Bought'
  BY <1>1 DEF PurchaseInv, Bought, Kept
<1>3. Consumes'
  BY <1>1 DEF PurchaseInv, Consumes, Kept, Is, Mine, deriveReceipt
<1>4. Claims'
  BY <1>1 DEF PurchaseInv, Claims, Kept, Claimed, Ends
<1>5. Misplaced'
  <2>1. ASSUME NEW r \in Runs
        PROVE  /\ Refused(run'[r]) => Elsewhere(r)' \cap receipts' # {} \/ Mine(r)' \in consumed'
               /\ DoneLate(run'[r]) => Elsewhere(r)' \cap receipts' # {}
    <3>1. Elsewhere(r)' = Elsewhere(r) /\ Mine(r)' = Mine(r)
      BY <1>1 DEF Elsewhere, Mine, deriveReceipt, Kept
    <3>2. Refused(run'[r]) => Refused(run[r])
      BY <1>1 DEF Refused, Kept
    <3>3. DoneLate(run'[r]) => DoneLate(run[r])
      BY <1>1 DEF DoneLate, Kept
    <3>4. QED
      BY <1>1, <3>1, <3>2, <3>3 DEF PurchaseInv, Misplaced
  <2>2. QED
    BY <2>1 DEF Misplaced
<1>6. QED
  BY <1>1, <1>2, <1>3, <1>4, <1>5 DEF PurchaseInv

\* Receipts come with the payment that brings them, and paying purchases keep theirs.
LEMMA OwnBought == ASSUME PurchaseInv, NEW r \in Runs, OwnStep(r) PROVE Bought'
<1>1. PICK q \in Purchases :
          /\ run' = [run EXCEPT ![r] = q]
          /\ run[r].pc # "unused" => q.id = run[r].id /\ q.requirements = run[r].requirements
          /\ run[r].used # q.used => run[r].pc = "calling"
          /\ run[r].paid => q.paid
  BY OwnRecord DEF PurchaseInv
<1>2. run[r] \in Purchases /\ run \in [Runs -> Purchases]
  BY DEF PurchaseInv, TypeOK
<1>3. run[r].paid => q.paid /\ q.used = run[r].used /\ q.requirements = run[r].requirements
  BY <1>1, <1>2 DEF Purchases
<1>4. \A receipt \in receipts : \E p \in Runs :
          run'[p].paid /\ run'[p].used = receipt[1] /\ run'[p].requirements = receipt[2]
  BY <1>1, <1>2, <1>3 DEF PurchaseInv, Bought
<1>5. CASE Land(r) \/ LandClosed(r)
  <2>1. run' = [run EXCEPT ![r].paid = TRUE] /\ receipts' = receipts \cup {Receipt(r)}
    BY <1>5 DEF Land, LandClosed
  <2>2. run'[r].paid /\ run'[r].used = run[r].used /\ run'[r].requirements = run[r].requirements
    BY <1>2, <2>1 DEF Purchases, RunStates
  <2>3. QED
    BY <1>4, <2>1, <2>2 DEF Bought, Receipt, deriveReceipt
<1>6. CASE UNCHANGED receipts
  BY <1>4, <1>6 DEF Bought
<1>7. QED
  BY <1>5, <1>6
     DEF OwnStep, Click, Connected, payForService, submit, Finalized, NotFinalized,
         ClaimGranted, ClaimPending, ClaimRefused, chain

\* Only a grant consumes or delivers, and a purchase that claimed stays one that did.
LEMMA OwnConsumes ==
    ASSUME PurchaseInv, NEW r \in Runs, OwnStep(r)
    PROVE  Consumes' /\ Claims'
<1>1. PICK q \in Purchases :
          /\ run' = [run EXCEPT ![r] = q]
          /\ run[r].pc # "unused" => q.id = run[r].id /\ q.requirements = run[r].requirements
          /\ run[r].pc \in Claimed => q.pc \in Claimed
  BY OwnRecord DEF PurchaseInv
<1>2. /\ run[r] \in Purchases /\ run \in [Runs -> Purchases]
      /\ \A p \in Runs \ {r} : run'[p] = run[p]
      /\ run'[r] = q
  BY <1>1 DEF PurchaseInv, TypeOK
<1>3. "unused" \notin Claimed
  BY DEF Claimed, Ends
<1>4. \A receipt \in consumed :
          receipt[1] \in Runs /\ run'[receipt[1]].pc \in Claimed
            /\ receipt[2] = run'[receipt[1]].id
  BY <1>1, <1>2, <1>3 DEF PurchaseInv, Claims
<1>5. CASE ClaimGranted(r)
  <2>1. run[r].pc = "claiming" /\ consumed' = consumed \cup {<<r, run[r].id>>}
    BY <1>5 DEF ClaimGranted, Is, Mine, deriveReceipt
  <2>2. q.pc \in Claimed /\ q.id = run[r].id
    BY <1>1, <2>1 DEF Claimed
  <2>3. Claims'
    BY <1>2, <1>4, <2>1, <2>2 DEF Claims
  <2>4. Consumes'
    BY <1>2, <2>1, <2>2 DEF PurchaseInv, Consumes, Is, Mine, deriveReceipt
  <2>5. QED
    BY <2>3, <2>4
<1>6. CASE UNCHANGED consumed /\ (q.pc = "done" => Is(r, "done"))
  <2>1. Claims'
    BY <1>4, <1>6 DEF Claims
  <2>2. Consumes'
    BY <1>1, <1>2, <1>6 DEF PurchaseInv, Consumes, Is, Mine, deriveReceipt
  <2>3. QED
    BY <2>1, <2>2
<1>7. ASSUME ~ClaimGranted(r) PROVE UNCHANGED consumed /\ (q.pc = "done" => Is(r, "done"))
  <2>1. UNCHANGED consumed
    BY <1>7
       DEF OwnStep, Click, Connected, payForService, submit, Land, Finalized, NotFinalized,
           ClaimPending, ClaimRefused, LandClosed, chain
  <2>2. run'[r].pc = "done" => Is(r, "done")
    BY <1>7, OwnEnds DEF PurchaseInv
  <2>3. QED
    BY <1>2, <2>1, <2>2
<1>8. QED
  BY <1>5, <1>6, <1>7

\* A claim is told 402 of a receipt elsewhere, or after its own was consumed, and after that
\* it is not granted any more.
LEMMA OwnMisplaced == ASSUME PurchaseInv, NEW r \in Runs, OwnStep(r) PROVE Misplaced'
<1>1. PICK q \in Purchases :
          /\ run' = [run EXCEPT ![r] = q]
          /\ run[r].pc # "unused" => q.id = run[r].id /\ q.requirements = run[r].requirements
  BY OwnRecord DEF PurchaseInv
<1>2. /\ run[r] \in Purchases /\ run \in [Runs -> Purchases]
      /\ \A p \in Runs \ {r} : run'[p] = run[p]
      /\ run'[r] = q
  BY <1>1 DEF PurchaseInv, TypeOK
<1>3. receipts \subseteq receipts' /\ seen \subseteq receipts /\ consumed \subseteq consumed'
  BY DEF OwnStep, Click, Connected, payForService, submit, Land, Finalized, NotFinalized,
         ClaimGranted, ClaimPending, ClaimRefused, LandClosed, chain, PurchaseInv, TypeOK
<1>4. ASSUME NEW p \in Runs \ {r}
      PROVE  /\ Refused(run'[p]) => Elsewhere(p)' \cap receipts' # {} \/ Mine(p)' \in consumed'
             /\ DoneLate(run'[p]) => Elsewhere(p)' \cap receipts' # {}
  <2>1. Elsewhere(p)' = Elsewhere(p) /\ Mine(p)' = Mine(p)
    BY <1>2 DEF Elsewhere, Mine, deriveReceipt
  <2>2. QED
    BY <1>2, <1>3, <2>1 DEF PurchaseInv, Misplaced
<1>5. run[r].pc # "unused" => Elsewhere(r)' = Elsewhere(r) /\ Mine(r)' = Mine(r)
  BY <1>1, <1>2 DEF Elsewhere, Mine, deriveReceipt
<1>6. Refused(q) => Elsewhere(r)' \cap receipts' # {} \/ Mine(r)' \in consumed'
  <2>1. SUFFICES ASSUME Refused(q)
                 PROVE  Elsewhere(r)' \cap receipts' # {} \/ Mine(r)' \in consumed'
    OBVIOUS
  <2>2. run[r].pc # "unused" /\ (Refused(run[r]) \/ ClaimRefused(r) \/ ClaimGranted(r))
    BY <1>2, <2>1, OwnEnds DEF PurchaseInv
  <2>3. CASE Refused(run[r])
    BY <1>3, <1>5, <2>2, <2>3 DEF PurchaseInv, Misplaced
  <2>4. CASE ClaimRefused(r)
    BY <1>3, <1>5, <2>2, <2>4 DEF ClaimRefused
  <2>5. CASE ClaimGranted(r)
    BY <1>5, <2>2, <2>5 DEF ClaimGranted
  <2>6. QED
    BY <2>2, <2>3, <2>4, <2>5
<1>7. DoneLate(q) => Elsewhere(r)' \cap receipts' # {}
  <2>1. SUFFICES ASSUME DoneLate(q) PROVE Elsewhere(r)' \cap receipts' # {}
    OBVIOUS
  <2>2. CASE ClaimGranted(r) /\ q.attempt = run[r].attempt
    <3>1. run[r].pc = "claiming" /\ Mine(r) \notin consumed
      BY <2>2 DEF ClaimGranted, Is
    <3>2. Refused(run[r])
      BY <2>1, <2>2, <3>1 DEF Refused, DoneLate
    <3>3. QED
      BY <1>3, <1>5, <3>1, <3>2 DEF PurchaseInv, Misplaced
  <2>3. ~Is(r, "done")
    BY DEF OwnStep, Click, Connected, payForService, submit, Land, Finalized, NotFinalized,
           ClaimGranted, ClaimPending, ClaimRefused, LandClosed, Is
  <2>4. QED
    BY <1>2, <2>1, <2>2, <2>3, OwnEnds DEF DoneLate, PurchaseInv
<1>8. QED
  BY <1>2, <1>4, <1>6, <1>7 DEF Misplaced

\* The invariant is inductive.
LEMMA NextInv == PurchaseInv /\ [Next]_vars => PurchaseInv'
<1>1. ASSUME PurchaseInv, NEW r \in Runs, OwnStep(r) PROVE PurchaseInv'
  BY <1>1, OwnType, OwnBought, OwnConsumes, OwnMisplaced DEF PurchaseInv
<1>2. ASSUME PurchaseInv, UNCHANGED vars PROVE PurchaseInv'
  <2>1. TypeOK'
    BY <1>2, NextType DEF PurchaseInv
  <2>2. QED
    BY <1>2, <2>1
       DEF PurchaseInv, vars, Bought, Consumes, Claims, Misplaced, Is, Mine, Elsewhere
<1>3. QED
  BY <1>1, <1>2, NextCases, BackgroundInv

\* It holds throughout.
LEMMA InvCorrect == Spec => []PurchaseInv
  BY InitInv, NextInv, PTL DEF Spec

-----------------------------------------------------------------------------
(* The theorems *)

\* A delivered purchase has a paying one that used its secret for its service.
LEMMA DonePaid ==
    ASSUME PurchaseInv, NEW r \in Runs, Is(r, "done")
    PROVE  \E q \in Runs : run[q].paid /\ run[q].used = r /\ run[q].requirements = run[r].id
  BY DEF PurchaseInv, TypeOK, Bought, Consumes, Mine, deriveReceipt

\* A receipt elsewhere has a paying purchase that used the secret for another service.
LEMMA MisplacedPaid ==
    ASSUME PurchaseInv, NEW r \in Runs, Elsewhere(r) \cap receipts # {}
    PROVE  \E q \in Runs : run[q].paid /\ run[q].used = r /\ run[q].requirements # run[r].id
  BY DEF PurchaseInv, Bought, Elsewhere, deriveReceipt

\* Deliveries are at most the payments: each has a payment with its own secret, so that no
\* two share one.
LEMMA PaidInv == PurchaseInv => DeliveriesPaid
<1> SUFFICES ASSUME PurchaseInv, NEW sid \in Sids
             PROVE  Cardinality({r \in Runs : Is(r, "done") /\ run[r].id = sid})
                      <= Cardinality({r \in Runs : run[r].paid /\ run[r].requirements = sid})
  BY DEF DeliveriesPaid
<1> DEFINE S == {r \in Runs : Is(r, "done") /\ run[r].id = sid}
           T == {r \in Runs : run[r].paid /\ run[r].requirements = sid}
           f == [r \in S |-> CHOOSE q \in T : run[q].used = r]
<1>1. \A r \in S : \E q \in T : run[q].used = r
  BY DonePaid
<1>2. f \in [S -> T] /\ \A r \in S : run[f[r]].used = r
  BY <1>1
<1>3. \A a, b \in S : f[a] = f[b] => a = b
  BY <1>2
<1>4. IsFiniteSet(T)
  BY PurchaseAssumption, FS_Subset
<1> HIDE DEF S, T, f
<1>5. f \in Injection(S, T)
  BY <1>2, <1>3, Fun_IsInj
<1>6. Cardinality(S) <= Cardinality(T)
  BY <1>4, <1>5, FS_Injection
<1>7. QED
  BY <1>6 DEF S, T

\* Whatever is clicked, however the purchases share a private state, a service is
\* delivered at most as often as it was paid for from this tab (DeliveriesPaid).
THEOREM DeliveriesArePaid == Spec => []DeliveriesPaid
  BY InvCorrect, PaidInv, PTL

\* A claim that was retried after a 402 delivers only if another purchase was made with
\* its secret: waiting for the indexer never helps (RetriesAreVain).
THEOREM RetriesNeverHelp == Spec => []RetriesAreVain
<1>1. PurchaseInv => RetriesAreVain
  <2> SUFFICES ASSUME PurchaseInv, NEW r \in Runs, Is(r, "done"), run[r].attempt > 0
               PROVE  \E q \in Runs \ {r} : run[q].used = r
    BY DEF RetriesAreVain
  <2>1. PICK p \in Runs : run[p].used = r /\ run[p].requirements = run[r].id
    BY DonePaid
  <2>2. PICK q \in Runs : run[q].used = r /\ run[q].requirements # run[r].id
    BY MisplacedPaid DEF PurchaseInv, Misplaced, DoneLate, Is
  <2>3. QED
    BY <2>1, <2>2
<1>2. QED
  BY <1>1, InvCorrect, PTL

\* A payment that is over without a delivery was given up with its tab or by an error, was
\* answered by the service, shared a secret, or was made for the service shown before
\* (LossExplained).
THEOREM LossesAreExplained == Spec => []LossExplained
<1>1. PurchaseInv => LossExplained
  <2> SUFFICES ASSUME PurchaseInv, NEW r \in Runs, run[r].pc \in Ends \ {"done"},
                      run[r].pc \notin {"closed", "failed"},
                      run[r].used = r, run[r].requirements = run[r].id
               PROVE  Receipt(r) \in consumed \/ \E q \in Runs \ {r} : run[q].used = r
    BY DEF LossExplained
  <2>1. Refused(run[r]) /\ Receipt(r) = Mine(r)
    BY DEF Ends, Refused, Receipt, Mine
  <2>2. CASE Elsewhere(r) \cap receipts # {}
    BY <2>2, MisplacedPaid
  <2>3. QED
    BY <2>1, <2>2 DEF PurchaseInv, Misplaced
<1>2. QED
  BY <1>1, InvCorrect, PTL
=============================================================================
