---------------------------- MODULE GatewayProofs ----------------------------
(***************************************************************************)
(* Theorems about the gateway for every number of concurrent requests and   *)
(* every set of services and secrets; and about the health probe and the    *)
(* relay behind it, for every set of origins, relay services, chains and    *)
(* requests, and every setting of the timers.                               *)
(***************************************************************************)
EXTENDS Gateway, Upstream, FiniteSetTheorems, TLAPS

\* A step of one request, its slot and what it was chosen with.
RequestStep ==
    \/ \E s \in Slots, secret \in Secrets, sid \in ServiceIds :
           UnknownService(s, secret, sid) \/ Unpaid(s, secret, sid) \/ Verify(s, secret, sid)
    \/ \E s \in Slots, seen \in history : Confirm(s, seen) \/ WrongService(s, seen)
    \/ \E s \in Slots : Probed(s) \/ Timeout(s) \/ Dispatched(s)

\* Next, regrouped for the case analysis of the proofs below.
LEMMA NextCases ==
    ASSUME Next
    PROVE  \/ \E receipt \in Receipts : Pay(receipt)
           \/ \E sid \in ServiceIds : insert(sid)
           \/ RequestStep
           \/ Crash
  BY DEF Next, Arrive, Progress, RequestStep

-----------------------------------------------------------------------------
(* Types *)

\* The gateway starts in a state of the right type.
LEMMA InitType == Init => TypeOK
  BY DEF Init, TypeOK, Requests, Steps, Replies

\* Answering and starting a request keep the requests well typed.
LEMMA RequestType ==
    ASSUME TypeOK, NEW s \in Slots, NEW pc \in Steps, NEW target \in Receipts,
           NEW candidates \in SUBSET Receipts, NEW reply \in Replies
    PROVE  /\ Starts(s, target, pc, candidates, reply) => request' \in [Slots -> Requests]
           /\ Answer(s, reply) => request' \in [Slots -> Requests]
  BY DEF TypeOK, Starts, Answer, Requests, Steps

\* Every action keeps the types.
LEMMA NextType == TypeOK /\ [Next]_vars => TypeOK'
<1> SUFFICES ASSUME TypeOK, [Next]_vars PROVE TypeOK'
  OBVIOUS
<1>1. CASE UNCHANGED vars
  BY <1>1 DEF TypeOK, vars
<1>2. ASSUME NEW receipt \in Receipts, Pay(receipt) PROVE TypeOK'
  BY <1>2 DEF TypeOK, Pay
<1>3. ASSUME NEW sid \in ServiceIds, insert(sid) PROVE TypeOK'
  BY <1>3 DEF TypeOK, insert
<1>4. ASSUME NEW s \in Slots, NEW secret \in Secrets, NEW sid \in ServiceIds,
             UnknownService(s, secret, sid) \/ Unpaid(s, secret, sid) \/ Verify(s, secret, sid)
      PROVE  TypeOK'
  <2>1. deriveReceipt(secret, sid) \in Receipts
    BY DEF deriveReceipt, Receipts
  <2>2. Candidates(secret, sid) \in SUBSET Receipts
    BY DEF Candidates, deriveReceipt, Receipts, TypeOK
  <2>3. request' \in [Slots -> Requests]
    BY <1>4, <2>1, <2>2, RequestType
       DEF UnknownService, Unpaid, Verify, Steps, Replies
  <2>4. QED
    BY <1>4, <2>3 DEF UnknownService, Unpaid, Verify, Starts, TypeOK
<1>5. ASSUME NEW s \in Slots, NEW seen \in history, Confirm(s, seen) PROVE TypeOK'
  <2>1. request[s].target \in Receipts
    BY DEF TypeOK, Requests
  <2>2. request' \in [Slots -> Requests]
    BY <1>5 DEF Confirm, markConsumed, TypeOK, Requests, Steps
  <2>3. QED
    BY <1>5, <2>1, <2>2 DEF Confirm, markConsumed, TypeOK
<1>6. ASSUME NEW s \in Slots, NEW seen \in history, WrongService(s, seen) PROVE TypeOK'
  <2>1. request' \in [Slots -> Requests]
    BY <1>6, RequestType DEF WrongService, Answer, TypeOK, Requests, Steps, Replies
  <2>2. QED
    BY <1>6, <2>1 DEF WrongService, TypeOK
<1>7. ASSUME NEW s \in Slots, Probed(s) \/ Timeout(s) \/ Dispatched(s) PROVE TypeOK'
  <2>1. request[s].target \in Receipts
    BY DEF TypeOK, Requests
  <2>2. request' \in [Slots -> Requests]
    BY <1>7 DEF Probed, Timeout, Dispatched, Answer, TypeOK, Requests, Steps, Replies
  <2>3. QED
    BY <1>7, <2>1, <2>2 DEF Probed, Timeout, Dispatched, TypeOK
<1>8. CASE Crash
  <2>1. ASSUME NEW s \in Slots
        PROVE  [request[s] EXCEPT !.pc = "idle", !.reply = "none", !.candidates = {}] \in Requests
    <3>1. request[s] \in Requests
      BY DEF TypeOK
    <3>2. QED
      BY <3>1 DEF Requests, Steps, Replies
  <2>2. request' \in [Slots -> Requests]
    BY <1>8, <2>1 DEF Crash
  <2>3. QED
    BY <1>8, <2>2 DEF Crash, TypeOK
<1>9. QED
  BY <1>1, <1>2, <1>3, <1>4, <1>5, <1>6, <1>7, <1>8, NextCases DEF RequestStep

\* The types hold in every behaviour, for any number of concurrent requests.
THEOREM TypeCorrect == Spec => []TypeOK
  BY InitType, NextType, PTL DEF Spec

-----------------------------------------------------------------------------
(* Grants *)

\* What a step does to the requests: each slot's request is what it was, has been
\* started, or moved one step further.
LEMMA SlotStep ==
    ASSUME TypeOK, [Next]_vars, NEW t \in Slots
    PROVE  \/ request'[t] = request[t]
           \/ request'[t].pc \in {"idle", "probing", "verifying"}
           \/ /\ request'[t].pc = "dispatching"
              /\ request'[t].target = request[t].target
              /\ request[t].target \in consumed'
<1>1. CASE UNCHANGED request
  BY <1>1
<1>2. ASSUME NEW s \in Slots, NEW secret \in Secrets, NEW sid \in ServiceIds,
             UnknownService(s, secret, sid) \/ Unpaid(s, secret, sid) \/ Verify(s, secret, sid)
      PROVE  request'[t] = request[t] \/ request'[t].pc \in {"idle", "probing", "verifying"}
  BY <1>2 DEF UnknownService, Unpaid, Verify, Starts, TypeOK
<1>3. ASSUME NEW s \in Slots, NEW seen \in history, Confirm(s, seen)
      PROVE  \/ request'[t] = request[t]
             \/ /\ request'[t].pc = "dispatching"
                /\ request'[t].target = request[t].target
                /\ request[t].target \in consumed'
  BY <1>3 DEF Confirm, markConsumed, TypeOK, Requests
<1>4. ASSUME NEW s \in Slots, NEW reply, Answer(s, reply)
      PROVE  request'[t] = request[t] \/ request'[t].pc = "idle"
  BY <1>4 DEF Answer, TypeOK, Requests
<1>5. ASSUME NEW s \in Slots, Probed(s) \/ Timeout(s) \/ Dispatched(s)
      PROVE  request'[t] = request[t] \/ request'[t].pc = "idle"
  BY <1>4, <1>5 DEF Probed, Timeout, Dispatched
<1>6. ASSUME NEW s \in Slots, NEW seen \in history, WrongService(s, seen)
      PROVE  request'[t] = request[t] \/ request'[t].pc = "idle"
  BY <1>4, <1>6 DEF WrongService
<1>7. CASE Crash
  BY <1>7 DEF Crash, TypeOK, Requests
<1>8. CASE \E receipt \in Receipts : Pay(receipt)
  BY <1>8 DEF Pay
<1>9. CASE \E sid \in ServiceIds : insert(sid)
  BY <1>9 DEF insert
<1>10. QED
  BY <1>1, <1>2, <1>3, <1>5, <1>6, <1>7, <1>8, <1>9, NextCases DEF RequestStep, vars

\* A confirmation changes the tables, a dispatch the services that answered, and a
\* payment the chain; no other action touches the three.
LEMMA TableStep ==
    ASSUME TypeOK, [Next]_vars
    PROVE  /\ receipts \subseteq receipts' /\ consumed \subseteq consumed'
           /\ \/ UNCHANGED <<consumed, grants, served>>
              \/ \E s \in Slots, seen \in history : Confirm(s, seen)
              \/ \E s \in Slots : Dispatched(s)
<1>1. CASE UNCHANGED vars
  BY <1>1 DEF vars
<1>2. CASE \E receipt \in Receipts : Pay(receipt)
  BY <1>2 DEF Pay
<1>3. CASE \E sid \in ServiceIds : insert(sid)
  BY <1>3 DEF insert
<1>4. CASE RequestStep
  BY <1>4 DEF RequestStep, UnknownService, Unpaid, Verify, Starts, Confirm, markConsumed, WrongService,
              Probed, Timeout, Dispatched
<1>5. CASE Crash
  BY <1>5 DEF Crash
<1>6. QED
  BY <1>1, <1>2, <1>3, <1>4, <1>5, NextCases

\* No step breaks the correspondence between grants and consumed receipts.
LEMMA NextGranted == TypeOK /\ ConsumedIsGranted /\ [Next]_vars => ConsumedIsGranted'
<1> SUFFICES ASSUME TypeOK, ConsumedIsGranted, [Next]_vars PROVE ConsumedIsGranted'
  OBVIOUS
<1> DEFINE Tables == /\ consumed = {r \in Receipts : grants[r] > 0}
                     /\ consumed \subseteq receipts
                     /\ served \subseteq consumed
<1>1. \A s \in Slots : request'[s].pc = "dispatching" => request'[s].target \in consumed'
  <2> TAKE s \in Slots
  <2>1. request[s].pc = "dispatching" => request[s].target \in consumed'
    BY TableStep DEF ConsumedIsGranted
  <2>2. QED
    BY <2>1, SlotStep
<1>2. CASE UNCHANGED <<consumed, grants, served>>
  <2>1. Tables'
    BY <1>2, TableStep DEF ConsumedIsGranted
  <2>2. QED
    BY <1>1, <2>1 DEF ConsumedIsGranted
<1>3. ASSUME NEW s \in Slots, NEW seen \in history, Confirm(s, seen)
      PROVE  ConsumedIsGranted'
  <2>1. PICK r \in Receipts : r = request[s].target
    BY DEF TypeOK, Requests
  <2>2. r \in receipts
    BY <1>3, <2>1 DEF Confirm, markConsumed, TypeOK
  <2>3. /\ grants' = [grants EXCEPT ![r] = @ + 1]
        /\ consumed' = consumed \cup {r}
        /\ UNCHANGED <<receipts, served>>
    BY <1>3, <2>1 DEF Confirm, markConsumed
  <2>4. ASSUME NEW q \in Receipts
        PROVE  grants'[q] > 0 <=> grants[q] > 0 \/ q = r
    BY <2>3 DEF TypeOK
  <2>5. Tables'
    BY <2>2, <2>3, <2>4 DEF ConsumedIsGranted
  <2>6. QED
    BY <1>1, <2>5 DEF ConsumedIsGranted
<1>4. ASSUME NEW s \in Slots, Dispatched(s) PROVE ConsumedIsGranted'
  <2>1. request[s].target \in consumed
    BY <1>4 DEF Dispatched, ConsumedIsGranted
  <2>2. Tables'
    BY <1>4, <2>1 DEF Dispatched, ConsumedIsGranted
  <2>3. QED
    BY <1>1, <2>2 DEF ConsumedIsGranted
<1>5. QED
  BY <1>2, <1>3, <1>4, TableStep

\* Only paid receipts are granted, and every granted one is remembered.
THEOREM GrantsPaid == Spec => []ConsumedIsGranted
<1>1. Init => ConsumedIsGranted
  BY DEF Init, ConsumedIsGranted
<1>2. QED
  BY <1>1, NextGranted, TypeCorrect, PTL DEF Spec

-----------------------------------------------------------------------------
(* The bound on redemptions *)

\* The requests waiting for a receipt are finitely many, and at most all of them.
LEMMA WaitingFinite ==
    ASSUME NEW r
    PROVE  /\ IsFiniteSet(Waiting(r)) /\ Cardinality(Waiting(r)) \in Nat
           /\ Cardinality(Waiting(r)) <= Cardinality(Slots)
           /\ Cardinality(Slots) \in Nat
  BY SlotsAssumption, FS_Subset, FS_CardinalityType DEF Waiting

\* A request only starts to wait for a receipt that is not consumed.
LEMMA WaitingStep ==
    ASSUME TypeOK, [Next]_vars, NEW r \in consumed
    PROVE  Waiting(r)' \subseteq Waiting(r)
<1> SUFFICES ASSUME NEW t \in Slots, request'[t].pc = "verifying", request'[t].target = r
             PROVE  request'[t] = request[t]
  BY DEF Waiting
<1>1. CASE UNCHANGED request
  BY <1>1
<1>2. ASSUME NEW s \in Slots, NEW secret \in Secrets, NEW sid \in ServiceIds,
             UnknownService(s, secret, sid) \/ Unpaid(s, secret, sid) \/ Verify(s, secret, sid)
      PROVE  request'[t] = request[t]
  BY <1>2 DEF UnknownService, Unpaid, Verify, Starts, TypeOK, isConsumed
<1>3. ASSUME NEW s \in Slots, NEW seen \in history, Confirm(s, seen)
      PROVE  request'[t] = request[t]
  BY <1>3 DEF Confirm, markConsumed, TypeOK, Requests
<1>4. ASSUME NEW s \in Slots, NEW reply, Answer(s, reply) PROVE request'[t] = request[t]
  BY <1>4 DEF Answer, TypeOK, Requests
<1>5. ASSUME NEW s \in Slots, Probed(s) \/ Timeout(s) \/ Dispatched(s)
      PROVE  request'[t] = request[t]
  BY <1>4, <1>5 DEF Probed, Timeout, Dispatched
<1>6. ASSUME NEW s \in Slots, NEW seen \in history, WrongService(s, seen)
      PROVE  request'[t] = request[t]
  BY <1>4, <1>6 DEF WrongService
<1>7. CASE Crash
  BY <1>7 DEF Crash, TypeOK, Requests
<1>8. CASE (\E receipt \in Receipts : Pay(receipt)) \/ (\E sid \in ServiceIds : insert(sid))
  BY <1>8 DEF Pay, insert
<1>9. QED
  BY <1>1, <1>2, <1>3, <1>5, <1>6, <1>7, <1>8, NextCases DEF RequestStep, vars

\* A confirmation uses up one waiting request for each grant.
LEMMA ConfirmBounded ==
    ASSUME TypeOK, GrantsBounded, NEW s \in Slots, NEW seen \in history, Confirm(s, seen),
           NEW r \in Receipts, r = request[s].target
    PROVE  grants'[r] + Cardinality(Waiting(r)') <= Cardinality(Slots)
<1>1. Waiting(r)' = Waiting(r) \ {s} /\ s \in Waiting(r)
  BY DEF Confirm, markConsumed, Waiting, TypeOK, Requests
<1>2. Cardinality(Waiting(r) \ {s}) = Cardinality(Waiting(r)) - 1
  BY <1>1, FS_RemoveElement, WaitingFinite
<1>3. grants'[r] = grants[r] + 1 /\ grants[r] \in Nat
  BY DEF Confirm, markConsumed, TypeOK
<1>4. grants[r] + Cardinality(Waiting(r)) <= Cardinality(Slots)
  <2>1. CASE grants[r] = 0
    BY <2>1, WaitingFinite
  <2>2. CASE grants[r] > 0
    BY <2>2 DEF GrantsBounded
  <2>3. QED
    BY <1>3, <2>1, <2>2
<1>5. QED
  BY <1>1, <1>2, <1>3, <1>4, WaitingFinite

\* No step takes a receipt past the bound.
LEMMA NextBounded ==
    TypeOK /\ ConsumedIsGranted /\ GrantsBounded /\ [Next]_vars => GrantsBounded'
<1> SUFFICES ASSUME TypeOK, ConsumedIsGranted, GrantsBounded, [Next]_vars,
                    NEW r \in Receipts, grants'[r] > 0
             PROVE  grants'[r] + Cardinality(Waiting(r)') <= Cardinality(Slots)
  BY DEF GrantsBounded, Waiting
<1>1. CASE grants'[r] = grants[r]
  <2>1. r \in consumed
    BY <1>1 DEF ConsumedIsGranted
  <2>2. Cardinality(Waiting(r)') <= Cardinality(Waiting(r))
    BY <2>1, WaitingStep, WaitingFinite, FS_Subset
  <2>3. Cardinality(Waiting(r)') \in Nat
    BY <2>1, WaitingStep, WaitingFinite, FS_Subset, FS_CardinalityType
  <2>4. QED
    BY <1>1, <2>2, <2>3, WaitingFinite DEF GrantsBounded, TypeOK
<1>2. ASSUME NEW s \in Slots, NEW seen \in history, Confirm(s, seen), r = request[s].target
      PROVE  grants'[r] + Cardinality(Waiting(r)') <= Cardinality(Slots)
  BY <1>2, ConfirmBounded
<1>3. ASSUME NEW s \in Slots, NEW seen \in history, Confirm(s, seen), r # request[s].target
      PROVE  grants'[r] = grants[r]
  BY <1>3 DEF Confirm, markConsumed, TypeOK
<1>4. ASSUME NEW s \in Slots, Dispatched(s) PROVE grants'[r] = grants[r]
  BY <1>4 DEF Dispatched
<1>5. QED
  BY <1>1, <1>2, <1>3, <1>4, TableStep

\* One payment is let through at most as often as requests can be in progress together.
THEOREM RedemptionsBounded == Spec => []GrantsBounded
<1>1. Init => GrantsBounded
  BY DEF Init, GrantsBounded
<1>2. QED
  BY <1>1, NextBounded, TypeCorrect, GrantsPaid, PTL DEF Spec

-----------------------------------------------------------------------------
(* The answer wrong-service *)

\* Both the registry and the chain only grow, so what was another service's paid
\* receipt stays one.
LEMMA OthersGrow ==
    ASSUME [Next]_vars, NEW secret, NEW sid
    PROVE  Candidates(secret, sid) \subseteq Candidates(secret, sid)'
<1>1. registry \subseteq registry'
  <2>1. CASE UNCHANGED vars
    BY <2>1 DEF vars
  <2>2. CASE (\E receipt \in Receipts : Pay(receipt)) \/ (\E id \in ServiceIds : insert(id))
    BY <2>2 DEF Pay, insert
  <2>3. CASE RequestStep \/ Crash
    BY <2>3 DEF RequestStep, UnknownService, Unpaid, Verify, Starts, Confirm, markConsumed,
                WrongService, Probed, Timeout, Dispatched, Crash
  <2>4. QED
    BY <2>1, <2>2, <2>3, NextCases
<1>2. QED
  BY <1>1 DEF Candidates

\* What the sound-answer invariant says of one slot.
Sound(t) ==
    LET others == Candidates(request[t].target[1], request[t].target[2]) IN
    /\ request[t].candidates \subseteq others
    /\ request[t].reply = "wrong-service" => others \cap receipts # {}

\* No step makes the answer of a slot unsound.
LEMMA NextSound ==
    ASSUME TypeOK, [Next]_vars, NEW t \in Slots, Sound(t)
    PROVE  Sound(t)'
<1>1. ASSUME request'[t].target = request[t].target,
             request'[t].candidates \subseteq request[t].candidates,
             request'[t].reply \in {request[t].reply, "none"}
      PROVE  Sound(t)'
  BY <1>1, OthersGrow, TableStep DEF Sound
<1>2. CASE UNCHANGED request
  BY <1>1, <1>2
<1>3. ASSUME request'[t].candidates = {}, request'[t].reply # "wrong-service"
      PROVE  Sound(t)'
  BY <1>3 DEF Sound
<1>4. ASSUME NEW s \in Slots, NEW secret \in Secrets, NEW sid \in ServiceIds,
             UnknownService(s, secret, sid) \/ Unpaid(s, secret, sid)
      PROVE  Sound(t)'
  <2>1. CASE t = s
    BY <1>3, <1>4, <2>1 DEF UnknownService, Unpaid, Starts, TypeOK
  <2>2. CASE t # s
    BY <1>1, <1>4, <2>2 DEF UnknownService, Unpaid, Starts, TypeOK
  <2>3. QED
    BY <2>1, <2>2
<1>5. ASSUME NEW s \in Slots, NEW secret \in Secrets, NEW sid \in ServiceIds,
             Verify(s, secret, sid)
      PROVE  Sound(t)'
  <2>1. CASE t = s /\ isConsumed(deriveReceipt(secret, sid))
    BY <1>3, <1>5, <2>1 DEF Verify, Starts, TypeOK
  <2>2. CASE t = s /\ ~isConsumed(deriveReceipt(secret, sid))
    <3>1. /\ request'[t].target = <<secret, sid>>
          /\ request'[t].candidates = Candidates(secret, sid)
          /\ request'[t].reply = "none"
      BY <1>5, <2>2 DEF Verify, Starts, TypeOK, deriveReceipt
    <3>2. Candidates(secret, sid) \subseteq Candidates(secret, sid)'
      BY OthersGrow
    <3>3. QED
      BY <3>1, <3>2 DEF Sound
  <2>3. CASE t # s
    BY <1>1, <1>5, <2>3 DEF Verify, Starts, TypeOK
  <2>4. QED
    BY <2>1, <2>2, <2>3
<1>6. ASSUME NEW s \in Slots, NEW seen \in history, Confirm(s, seen) PROVE Sound(t)'
  BY <1>1, <1>6 DEF Confirm, markConsumed, TypeOK, Requests
<1>7. ASSUME NEW s \in Slots, NEW reply, Answer(s, reply), reply # "wrong-service"
      PROVE  Sound(t)'
  <2>1. CASE t = s
    BY <1>3, <1>7, <2>1 DEF Answer, TypeOK, Requests
  <2>2. CASE t # s
    BY <1>1, <1>7, <2>2 DEF Answer, TypeOK, Requests
  <2>3. QED
    BY <2>1, <2>2
<1>8. ASSUME NEW s \in Slots, Probed(s) \/ Timeout(s) \/ Dispatched(s) PROVE Sound(t)'
  BY <1>7, <1>8 DEF Probed, Timeout, Dispatched
<1>9. ASSUME NEW s \in Slots, NEW seen \in history, WrongService(s, seen) PROVE Sound(t)'
  <2>1. CASE t = s
    <3>1. PICK r \in request[t].candidates : r \in receipts
      BY <1>9, <2>1 DEF WrongService, TypeOK
    <3>2. /\ request'[t].target = request[t].target
          /\ request'[t].candidates = {}
          /\ receipts' = receipts
      BY <1>9, <2>1 DEF WrongService, Answer, TypeOK, Requests
    <3>3. QED
      BY <3>1, <3>2, OthersGrow DEF Sound
  <2>2. CASE t # s
    BY <1>1, <1>9, <2>2 DEF WrongService, Answer, TypeOK, Requests
  <2>3. QED
    BY <2>1, <2>2
<1>10. CASE Crash
  BY <1>3, <1>10 DEF Crash, TypeOK, Requests
<1>11. CASE (\E receipt \in Receipts : Pay(receipt)) \/ (\E sid \in ServiceIds : insert(sid))
  BY <1>2, <1>11 DEF Pay, insert
<1>12. QED
  BY <1>2, <1>4, <1>5, <1>6, <1>8, <1>9, <1>10, <1>11, NextCases DEF RequestStep, vars

\* Nobody is told wrong-service whose secret paid for no other registered service.
THEOREM WrongServiceIsSound == Spec => []WrongServiceSound
<1>1. WrongServiceSound <=> \A t \in Slots : Sound(t)
  BY DEF WrongServiceSound, Sound
<1>2. Init => WrongServiceSound
  BY DEF Init, WrongServiceSound
<1>3. TypeOK /\ WrongServiceSound /\ [Next]_vars => WrongServiceSound'
  BY <1>1, NextSound DEF WrongServiceSound, Sound
<1>4. QED
  BY <1>2, <1>3, TypeCorrect, PTL DEF Spec

-----------------------------------------------------------------------------
(* Upstream                                                                 *)

\* A step of one request.
Serve(s) ==
    \/ \E o \in Origins : probeOrigin(s, o) \/ dispatchOrigin(s, o)
    \/ \E r \in RelayServices : dispatchRelay(s, r)
    \/ \E offer, other \in Offers : PaymentRequired(s, {offer, other})
    \/ HeadAnswered(s) \/ ProbeEnded(s) \/ Proxied(s) \/ Relayed(s)

\* Next, regrouped for the case analysis of the proofs below.
LEMMA UpstreamCases ==
    ASSUME UpstreamNext
    PROVE  \/ Tick \/ Restart
           \/ \E o \in Origins : GoesDown(o) \/ ComesUp(o)
           \/ \E s \in Tasks : Serve(s)
  BY DEF UpstreamNext, Serve

-----------------------------------------------------------------------------
(* Types *)

\* The gateway starts in a state of the right type.
LEMMA UpstreamInitType == UpstreamInit => UpstreamTypeOK
  BY UpstreamAssumption DEF UpstreamInit, UpstreamTypeOK, TaskStates

\* What a request knows, by its step.
LEMMA RequestFields ==
    ASSUME NEW q \in TaskStates
    PROVE  /\ q.pc \in {"probing", "probed"} => q.service \in Origins /\ q.started \in Nat
           /\ q.pc \in {"probed", "answered"} => q.healthy \in BOOLEAN
           /\ q.pc = "answered" => q.service \in Origins /\ q.at \in Nat
           /\ q.pc \in {"relaying", "paying"} => q.service \in RelayServices
  BY DEF TaskStates, Idle

\* A request stays well typed through each of its steps.
LEMMA ServeType ==
    ASSUME UpstreamTypeOK, NEW s \in Tasks, Serve(s)
    PROVE  /\ task' \in [Tasks -> TaskStates]
           /\ cache' \in [Origins -> {None} \cup [healthy : BOOLEAN, expiresAt : Nat]]
           /\ calls' \in [RelayServices -> 0..MaxCalls] /\ signed' \in [Chains -> Nat]
<1>0. task[s] \in TaskStates
  BY DEF UpstreamTypeOK
<1>1. ASSUME NEW o \in Origins, probeOrigin(s, o)
      PROVE  task' \in [Tasks -> TaskStates]
  <2>1. CASE Cached(o)
    <3>1. cache[o].healthy \in BOOLEAN
      BY <2>1 DEF Cached, UpstreamTypeOK
    <3>2. Answered(o, cache[o].healthy) \in TaskStates
      BY <3>1 DEF Answered, TaskStates, UpstreamTypeOK
    <3>3. QED
      BY <1>1, <2>1, <3>2 DEF probeOrigin, Reply, UpstreamTypeOK
  <2>2. CASE ~Cached(o)
    <3>1. [pc |-> "probing", service |-> o, started |-> now] \in TaskStates
      BY DEF TaskStates, UpstreamTypeOK
    <3>2. QED
      BY <1>1, <2>2, <3>1 DEF probeOrigin, Reply, UpstreamTypeOK
  <2>3. QED
    BY <2>1, <2>2
<1>2. ASSUME NEW o \in Origins, dispatchOrigin(s, o)
      PROVE  task' \in [Tasks -> TaskStates]
  BY <1>2 DEF dispatchOrigin, Reply, TaskStates, UpstreamTypeOK
<1>3. ASSUME NEW r \in RelayServices, dispatchRelay(s, r)
      PROVE  task' \in [Tasks -> TaskStates] /\ calls' \in [RelayServices -> 0..MaxCalls]
  <2>1. calls' \in [RelayServices -> 0..MaxCalls]
    BY <1>3, UpstreamAssumption DEF dispatchRelay, UpstreamTypeOK
  <2>2. task' \in [Tasks -> TaskStates]
    BY <1>3 DEF dispatchRelay, Reply, TaskStates, UpstreamTypeOK
  <2>3. QED
    BY <2>1, <2>2
<1>4. ASSUME NEW offers, PaymentRequired(s, offers)
      PROVE  task' \in [Tasks -> TaskStates] /\ signed' \in [Chains -> Nat]
  <2>1. PICK offer \in Payable(task[s].service, offers) :
            signed' = [signed EXCEPT ![offer.chain] = @ + offer.amount]
    BY <1>4 DEF PaymentRequired
  <2>2. task[s].service \in RelayServices
    BY <1>0, <1>4, RequestFields DEF PaymentRequired
  <2>3. offer.amount \in Nat /\ offer.chain \in Chains
    BY <2>2, UpstreamAssumption DEF Payable, maxPaymentPolicy
  <2>4. signed' \in [Chains -> Nat]
    BY <2>1, <2>3 DEF UpstreamTypeOK
  <2>5. [pc |-> "paying", service |-> task[s].service] \in TaskStates
    BY <2>2 DEF TaskStates
  <2>6. QED
    BY <1>4, <2>4, <2>5 DEF PaymentRequired, Reply, UpstreamTypeOK
<1>5. ASSUME HeadAnswered(s)
      PROVE  task' \in [Tasks -> TaskStates]
  <2>1. task[s].service \in Origins /\ task[s].started \in Nat
    BY <1>0, <1>5, RequestFields DEF HeadAnswered
  <2>2. [pc |-> "probed", service |-> task[s].service, started |-> task[s].started,
         healthy |-> task[s].service \in up] \in TaskStates
    BY <2>1 DEF TaskStates
  <2>3. QED
    BY <1>5, <2>2 DEF HeadAnswered, Reply, UpstreamTypeOK
<1>6. ASSUME ProbeEnded(s)
      PROVE  /\ task' \in [Tasks -> TaskStates]
             /\ cache' \in [Origins -> {None} \cup [healthy : BOOLEAN, expiresAt : Nat]]
  <2>1. /\ task[s].service \in Origins /\ task[s].started \in Nat
        /\ task[s].pc = "probed" => task[s].healthy \in BOOLEAN
    BY <1>0, <1>6, RequestFields DEF ProbeEnded
  <2>2. PICK healthy \in BOOLEAN :
            /\ cache' = [cache EXCEPT ![task[s].service] = Entry(task[s].started, healthy)]
            /\ Reply(s, Answered(task[s].service, healthy))
    BY <1>6, <2>1 DEF ProbeEnded
  <2>3. Entry(task[s].started, healthy) \in [healthy : BOOLEAN, expiresAt : Nat]
    BY <2>1, UpstreamAssumption DEF Entry
  <2>4. Answered(task[s].service, healthy) \in TaskStates
    BY <2>1 DEF Answered, TaskStates, UpstreamTypeOK
  <2>5. QED
    BY <2>2, <2>3, <2>4 DEF Reply, UpstreamTypeOK
<1>7. ASSUME Proxied(s) \/ Relayed(s)
      PROVE  task' \in [Tasks -> TaskStates]
  BY <1>7 DEF Proxied, Relayed, Reply, TaskStates, UpstreamTypeOK
<1>8. QED
  BY <1>1, <1>2, <1>3, <1>4, <1>5, <1>6, <1>7
     DEF Serve, UpstreamTypeOK, probeOrigin, dispatchOrigin, dispatchRelay, PaymentRequired,
         HeadAnswered, ProbeEnded, Proxied, Relayed

\* Every action keeps the types.
LEMMA UpstreamNextType == UpstreamTypeOK /\ [UpstreamNext]_upstreamVars => UpstreamTypeOK'
<1> SUFFICES ASSUME UpstreamTypeOK, [UpstreamNext]_upstreamVars PROVE UpstreamTypeOK'
  OBVIOUS
<1>1. CASE UNCHANGED upstreamVars
  BY <1>1 DEF UpstreamTypeOK, upstreamVars
<1>2. CASE Tick
  BY <1>2 DEF UpstreamTypeOK, Tick
<1>3. CASE Restart
  BY <1>3 DEF UpstreamTypeOK, Restart, TaskStates, world
<1>4. ASSUME NEW o \in Origins, GoesDown(o) \/ ComesUp(o) PROVE UpstreamTypeOK'
  BY <1>4 DEF UpstreamTypeOK, GoesDown, ComesUp
<1>5. ASSUME NEW s \in Tasks, Serve(s) PROVE UpstreamTypeOK'
  <2>1. UNCHANGED world
    BY <1>5 DEF Serve, probeOrigin, dispatchOrigin, dispatchRelay, PaymentRequired,
                HeadAnswered, ProbeEnded, Proxied, Relayed
  <2>2. QED
    BY <1>5, <2>1, ServeType DEF UpstreamTypeOK, world
<1>6. QED
  BY <1>1, <1>2, <1>3, <1>4, <1>5, UpstreamCases

\* The types hold in every behaviour.
THEOREM UpstreamTypeCorrect == UpstreamSpec => []UpstreamTypeOK
  BY UpstreamInitType, UpstreamNextType, PTL DEF UpstreamSpec
-----------------------------------------------------------------------------
(* The probe *)

\* The clock agrees with the origins, the cache and the probes: an origin that is up has
\* just been up, and what is taken for healthy was up when its probe started or later.
Clocked ==
    /\ \A o \in Origins : lastUp[o] <= now /\ (o \in up => lastUp[o] = now)
    /\ \A o \in Origins :
           cache[o] # None /\ cache[o].healthy => lastUp[o] >= cache[o].expiresAt - Ttl

\* A probe in progress is not older than its timer, and its answer not older than itself.
Punctual(s) ==
    LET q == task[s] IN
    /\ q.pc \in {"probing", "probed"} => q.started <= now /\ now <= q.started + ProbeTimeout
    /\ q.pc = "probed" /\ q.healthy => lastUp[q.service] >= q.started

\* What HealthyRecently says of one request.
Recent(s) ==
    LET q == task[s] IN
    q.pc = "answered" /\ q.healthy => lastUp[q.service] >= q.at - Ttl

ProbeInv == Clocked /\ \A s \in Tasks : Punctual(s) /\ Recent(s)

\* Origins are only ever seen up later.
LEMMA LastUpGrows ==
    ASSUME UpstreamTypeOK, Clocked, [UpstreamNext]_upstreamVars, NEW o \in Origins
    PROVE  lastUp'[o] >= lastUp[o] /\ lastUp'[o] \in Int
<1>1. CASE Tick
  BY <1>1 DEF Tick, UpstreamTypeOK, Clocked
<1>2. ASSUME NEW other \in Origins, ComesUp(other)
      PROVE  lastUp'[o] >= lastUp[o] /\ lastUp'[o] \in Int
  BY <1>2 DEF ComesUp, UpstreamTypeOK, Clocked
<1>3. CASE UNCHANGED lastUp
  BY <1>3 DEF UpstreamTypeOK
<1>4. QED
  BY <1>1, <1>2, <1>3, UpstreamCases
     DEF upstreamVars, world, GoesDown, Restart, Serve, probeOrigin, dispatchOrigin,
         dispatchRelay, PaymentRequired, HeadAnswered, ProbeEnded, Proxied, Relayed

\* An entry of the cache is a cached answer of the origin's, not older than its timer.
LEMMA EntrySound ==
    ASSUME UpstreamTypeOK, ProbeInv, NEW s \in Tasks, ProbeEnded(s)
    PROVE  /\ Clocked'
           /\ Punctual(s)' /\ Recent(s)'
<1> DEFINE o == task[s].service
<1>1. /\ task[s] \in TaskStates
      /\ o \in Origins /\ task[s].started \in Nat
      /\ task[s].started <= now /\ now <= task[s].started + ProbeTimeout
  BY RequestFields DEF ProbeEnded, UpstreamTypeOK, ProbeInv, Punctual
<1>2. PICK healthy \in BOOLEAN :
          /\ cache' = [cache EXCEPT ![o] = Entry(task[s].started, healthy)]
          /\ task' = [task EXCEPT ![s] = Answered(o, healthy)]
          /\ healthy => lastUp[o] >= task[s].started
  BY <1>1, RequestFields DEF ProbeEnded, Reply, ProbeInv, Punctual
<1>3. UNCHANGED <<now, up, lastUp>>
  BY DEF ProbeEnded, world
<1>4. Clocked'
  <2>1. ASSUME NEW x \in Origins, cache'[x] # None, cache'[x].healthy
        PROVE  lastUp'[x] >= cache'[x].expiresAt - Ttl
    BY <1>1, <1>2, <1>3, <2>1, UpstreamAssumption DEF Entry, UpstreamTypeOK, ProbeInv, Clocked
  <2>2. QED
    BY <1>3, <2>1 DEF ProbeInv, Clocked
<1>5. task'[s] = [pc |-> "answered", service |-> o, healthy |-> healthy, at |-> now]
  BY <1>2 DEF Answered, UpstreamTypeOK
<1>6. healthy => lastUp[o] >= now - Ttl
  BY <1>1, <1>2, UpstreamAssumption DEF UpstreamTypeOK
<1>7. QED
  BY <1>3, <1>4, <1>5, <1>6 DEF Punctual, Recent

\* A step of another request, of an origin or of the clock leaves a request sound.
LEMMA Untouched ==
    ASSUME UpstreamTypeOK, ProbeInv, [UpstreamNext]_upstreamVars, NEW t \in Tasks,
           task'[t] = task[t], now' = now
    PROVE  Punctual(t)' /\ Recent(t)'
<1>1. task[t] \in TaskStates
  BY DEF UpstreamTypeOK
<1>2. ASSUME NEW o \in Origins PROVE lastUp'[o] >= lastUp[o] /\ lastUp'[o] \in Int
  BY LastUpGrows DEF ProbeInv
<1>3. Punctual(t)'
  BY <1>1, <1>2, RequestFields DEF ProbeInv, Punctual, UpstreamTypeOK
<1>4. Recent(t)'
  BY <1>1, <1>2, RequestFields, UpstreamAssumption DEF ProbeInv, Recent, UpstreamTypeOK
<1>5. QED
  BY <1>3, <1>4

\* A step that starts, answers or ends a request leaves it sound.
LEMMA ServeSound ==
    ASSUME UpstreamTypeOK, ProbeInv, NEW s \in Tasks, Serve(s)
    PROVE  Punctual(s)' /\ Recent(s)'
<1>0. task[s] \in TaskStates
  BY DEF UpstreamTypeOK
<1>1. ASSUME NEW o \in Origins, probeOrigin(s, o), Cached(o) PROVE Punctual(s)' /\ Recent(s)'
  <2>1. /\ task'[s] = [pc |-> "answered", service |-> o, healthy |-> cache[o].healthy,
                          at |-> now]
        /\ UNCHANGED lastUp
    BY <1>1 DEF probeOrigin, Reply, Answered, UpstreamTypeOK, world
  <2>2. cache[o].healthy => lastUp[o] >= now - Ttl
    <3>1. cache[o] \in [healthy : BOOLEAN, expiresAt : Nat] /\ cache[o] # None
      BY <1>1 DEF Cached, UpstreamTypeOK
    <3>2. QED
      BY <1>1, <3>1, UpstreamAssumption DEF Cached, ProbeInv, Clocked, UpstreamTypeOK
  <2>3. QED
    BY <2>1, <2>2 DEF Punctual, Recent
<1>2. ASSUME NEW o \in Origins, probeOrigin(s, o), ~Cached(o) PROVE Punctual(s)' /\ Recent(s)'
  <2>1. /\ task'[s] = [pc |-> "probing", service |-> o, started |-> now]
        /\ UNCHANGED now
    BY <1>2 DEF probeOrigin, Reply, UpstreamTypeOK, world
  <2>2. QED
    BY <2>1, UpstreamAssumption DEF Punctual, Recent, UpstreamTypeOK
<1>3. ASSUME HeadAnswered(s) PROVE Punctual(s)' /\ Recent(s)'
  <2>1. /\ task'[s] = [pc |-> "probed", service |-> task[s].service,
                          started |-> task[s].started,
                          healthy |-> task[s].service \in up]
        /\ UNCHANGED <<now, lastUp>>
    BY <1>3 DEF HeadAnswered, Reply, UpstreamTypeOK, world
  <2>2. /\ task[s].service \in Origins
        /\ task[s].started <= now /\ now <= task[s].started + ProbeTimeout
    BY <1>0, <1>3, RequestFields DEF HeadAnswered, ProbeInv, Punctual
  <2>3. task[s].service \in up => lastUp[task[s].service] = now
    BY <2>2 DEF ProbeInv, Clocked
  <2>4. PICK healthy : healthy = (task[s].service \in up)
    OBVIOUS
  <2>5. task'[s] = [pc |-> "probed", service |-> task[s].service,
                       started |-> task[s].started, healthy |-> healthy]
    BY <2>1, <2>4
  <2>6. healthy => lastUp[task[s].service] >= task[s].started
    BY <1>0, <1>3, <2>2, <2>3, <2>4, RequestFields DEF HeadAnswered, UpstreamTypeOK
  <2>7. QED
    BY <2>1, <2>2, <2>5, <2>6 DEF Punctual, Recent
<1>4. ASSUME NEW pc \in {"idle", "proxying", "relaying", "paying"}, task'[s].pc = pc
      PROVE  Punctual(s)' /\ Recent(s)'
  BY <1>4 DEF Punctual, Recent
<1>5. CASE ProbeEnded(s)
  BY <1>5, EntrySound
<1>6. ASSUME NEW o \in Origins, dispatchOrigin(s, o) PROVE task'[s].pc = "proxying"
  BY <1>6 DEF dispatchOrigin, Reply, UpstreamTypeOK
<1>7. ASSUME NEW r \in RelayServices, dispatchRelay(s, r)
      PROVE  task'[s].pc \in {"idle", "relaying"}
  BY <1>7 DEF dispatchRelay, Reply, Idle, UpstreamTypeOK
<1>8. ASSUME NEW offers, PaymentRequired(s, offers) PROVE task'[s].pc = "paying"
  BY <1>8 DEF PaymentRequired, Reply, UpstreamTypeOK
<1>9. ASSUME Proxied(s) \/ Relayed(s) PROVE task'[s].pc = "idle"
  BY <1>9 DEF Proxied, Relayed, Reply, Idle, UpstreamTypeOK
<1>10. QED
  BY <1>1, <1>2, <1>3, <1>4, <1>5, <1>6, <1>7, <1>8, <1>9 DEF Serve

\* The clock does not pass a timer that is due.
LEMMA TickSound == UpstreamTypeOK /\ ProbeInv /\ Tick => ProbeInv'
<1> SUFFICES ASSUME UpstreamTypeOK, ProbeInv, Tick PROVE ProbeInv'
  OBVIOUS
<1>1. Clocked'
  <2>1. \A o \in Origins : lastUp'[o] <= now' /\ (o \in up' => lastUp'[o] = now')
    BY DEF Tick, ProbeInv, Clocked, UpstreamTypeOK
  <2>2. ASSUME NEW o \in Origins, cache'[o] # None, cache'[o].healthy
        PROVE  lastUp'[o] >= cache'[o].expiresAt - Ttl
    <3>1. lastUp[o] >= cache[o].expiresAt - Ttl /\ cache'[o] = cache[o]
      BY <2>2 DEF Tick, ProbeInv, Clocked
    <3>2. cache[o].expiresAt \in Nat
      BY <2>2, <3>1 DEF UpstreamTypeOK
    <3>3. lastUp'[o] >= lastUp[o] /\ lastUp[o] \in Int /\ lastUp'[o] \in Int
      BY DEF Tick, ProbeInv, Clocked, UpstreamTypeOK
    <3>4. QED
      BY <3>1, <3>2, <3>3, UpstreamAssumption
  <2>3. QED
    BY <2>1, <2>2 DEF Clocked
<1>2. ASSUME NEW s \in Tasks PROVE Punctual(s)' /\ Recent(s)'
  <2>1. task[s] \in TaskStates /\ task'[s] = task[s]
    BY DEF UpstreamTypeOK, Tick
  <2>2. ASSUME NEW o \in Origins PROVE lastUp'[o] >= lastUp[o] /\ lastUp'[o] \in Int
    BY LastUpGrows DEF UpstreamNext, ProbeInv
  <2>3. task[s].pc \in {"probing", "probed"} =>
            task[s].started <= now' /\ now' <= task[s].started + ProbeTimeout
    BY <2>1, RequestFields, UpstreamAssumption
       DEF Tick, Due, Timed, Timer, ProbeInv, Punctual, UpstreamTypeOK
  <2>4. Punctual(s)'
    BY <2>1, <2>2, <2>3, RequestFields DEF ProbeInv, Punctual, UpstreamTypeOK
  <2>5. Recent(s)'
    BY <2>1, <2>2, RequestFields, UpstreamAssumption DEF ProbeInv, Recent, UpstreamTypeOK
  <2>6. QED
    BY <2>4, <2>5
<1>3. QED
  BY <1>1, <1>2 DEF ProbeInv

\* No step breaks the probe's invariant.
LEMMA NextProbe == UpstreamTypeOK /\ ProbeInv /\ [UpstreamNext]_upstreamVars => ProbeInv'
<1> SUFFICES ASSUME UpstreamTypeOK, ProbeInv, [UpstreamNext]_upstreamVars PROVE ProbeInv'
  OBVIOUS
<1>1. CASE Tick
  BY <1>1, TickSound
<1>2. ASSUME NEW s \in Tasks, Serve(s) PROVE ProbeInv'
  <2>1. UNCHANGED world
    BY <1>2 DEF Serve, probeOrigin, dispatchOrigin, dispatchRelay, PaymentRequired,
                HeadAnswered, ProbeEnded, Proxied, Relayed
  <2>2. Clocked'
    <3>1. CASE ProbeEnded(s)
      BY <3>1, EntrySound
    <3>2. CASE UNCHANGED cache
      BY <2>1, <3>2 DEF ProbeInv, Clocked, world
    <3>3. QED
      BY <1>2, <3>1, <3>2 DEF Serve, probeOrigin, dispatchOrigin, dispatchRelay,
                              PaymentRequired, HeadAnswered, Proxied, Relayed
  <2>3. ASSUME NEW t \in Tasks, t # s PROVE task'[t] = task[t]
    BY <1>2, <2>3 DEF Serve, probeOrigin, dispatchOrigin, dispatchRelay, PaymentRequired,
                      HeadAnswered, ProbeEnded, Proxied, Relayed, Reply, UpstreamTypeOK
  <2>4. QED
    BY <1>2, <2>1, <2>2, <2>3, ServeSound, Untouched DEF ProbeInv, world
<1>3. ASSUME NEW o \in Origins, GoesDown(o) \/ ComesUp(o) PROVE ProbeInv'
  <2>1. ASSUME NEW x \in Origins PROVE lastUp'[x] >= lastUp[x] /\ lastUp'[x] \in Int
    BY LastUpGrows DEF ProbeInv
  <2>2. Clocked'
    <3>1. \A x \in Origins : lastUp'[x] <= now' /\ (x \in up' => lastUp'[x] = now')
      BY <1>3 DEF GoesDown, ComesUp, ProbeInv, Clocked, UpstreamTypeOK
    <3>2. ASSUME NEW x \in Origins, cache'[x] # None, cache'[x].healthy
          PROVE  lastUp'[x] >= cache'[x].expiresAt - Ttl
      <4>1. lastUp[x] >= cache[x].expiresAt - Ttl /\ cache'[x] = cache[x]
        BY <1>3, <3>2 DEF GoesDown, ComesUp, ProbeInv, Clocked
      <4>2. cache[x].expiresAt \in Nat /\ lastUp[x] \in Int
        BY <3>2, <4>1 DEF UpstreamTypeOK
      <4>3. QED
        BY <2>1, <4>1, <4>2, UpstreamAssumption
    <3>3. QED
      BY <3>1, <3>2 DEF Clocked
  <2>3. UNCHANGED <<now, task>>
    BY <1>3 DEF GoesDown, ComesUp
  <2>4. QED
    BY <2>2, <2>3, Untouched DEF ProbeInv
<1>4. CASE Restart
  BY <1>4 DEF Restart, ProbeInv, Clocked, Punctual, Recent, Idle, world
<1>5. CASE UNCHANGED upstreamVars
  BY <1>5 DEF upstreamVars, ProbeInv, Clocked, Punctual, Recent
<1>6. QED
  BY <1>1, <1>2, <1>3, <1>4, <1>5, UpstreamCases

\* However many probes overlap and whatever the timers are set to, "healthy" is at most
\* as old as the cache's lifetime.
THEOREM HealthIsRecent == UpstreamSpec => []HealthyRecently
<1>1. UpstreamInit => ProbeInv
  BY UpstreamAssumption DEF UpstreamInit, ProbeInv, Clocked, Punctual, Recent, Idle
<1>2. ProbeInv => HealthyRecently
  BY DEF ProbeInv, Recent, HealthyRecently
<1>3. QED
  BY <1>1, <1>2, NextProbe, UpstreamTypeCorrect, PTL DEF UpstreamSpec
-----------------------------------------------------------------------------
(* The relayer's loss *)

\* The calls of the chain's services that have not paid yet.
Pending(chain) ==
    {s \in Tasks : task[s].pc = "relaying" /\ ChainOf[task[s].service] = chain}

\* What was paid, and what may still be paid, is covered by the calls made.
Covered(chain) ==
    signed[chain] + MaxPayment * Cardinality(Pending(chain))
        <= MaxPayment * Cardinality(Calls(chain))

\* Nothing happens on a chain that is not wired up.
Spared(chain) == chain \notin Wired => signed[chain] = 0 /\ Pending(chain) = {}

LossInv == \A chain \in Chains : Covered(chain) /\ Spared(chain)

\* Products of natural numbers, one factor larger.
LEMMA Products ==
    ASSUME NEW m \in Nat, NEW a \in Nat, NEW b \in Nat
    PROVE  /\ m * a \in Nat /\ m * (a + 1) = m * a + m
           /\ a <= b => m * a <= m * b
<1>1. m * a \in Nat /\ m * (a + 1) = m * a + m
  OBVIOUS
<1>2. ASSUME a <= b PROVE m * a <= m * b
  <2>1. PICK d \in Nat : b = a + d
    BY <1>2
  <2>2. m * b = m * a + m * d
    BY <2>1
  <2>3. QED
    BY <2>2
<1>3. QED
  BY <1>1, <1>2

\* Calls and requests are finitely many.
LEMMA CallsFinite ==
    ASSUME NEW chain
    PROVE  /\ IsFiniteSet(Calls(chain)) /\ Cardinality(Calls(chain)) \in Nat
           /\ IsFiniteSet(Pending(chain)) /\ Cardinality(Pending(chain)) \in Nat
<1>1. IsFiniteSet(1..MaxCalls)
  BY FS_Interval, UpstreamAssumption
<1>2. IsFiniteSet(RelayServices \X (1..MaxCalls))
  BY <1>1, FS_Product, UpstreamAssumption
<1>3. Calls(chain) \subseteq RelayServices \X (1..MaxCalls) /\ Pending(chain) \subseteq Tasks
  BY DEF Calls, Pending
<1>4. QED
  BY <1>2, <1>3, FS_Subset, FS_CardinalityType, UpstreamAssumption

\* A step that neither pays nor starts a call leaves a chain covered.
LEMMA Quiet ==
    ASSUME UpstreamTypeOK, LossInv, NEW chain \in Chains,
           Pending(chain)' \subseteq Pending(chain),
           signed'[chain] = signed[chain], Calls(chain)' = Calls(chain)
    PROVE  Covered(chain)' /\ Spared(chain)'
<1> DEFINE p == Cardinality(Pending(chain))
           q == Cardinality(Pending(chain)')
<1>1. p \in Nat /\ q \in Nat /\ q <= p
  BY CallsFinite, FS_Subset, FS_CardinalityType
<1>2. MaxPayment * q \in Nat /\ MaxPayment * p \in Nat /\ MaxPayment * q <= MaxPayment * p
  BY <1>1, Products, UpstreamAssumption
<1>3. MaxPayment * Cardinality(Calls(chain)) \in Nat
  BY CallsFinite, Products, UpstreamAssumption
<1>4. signed[chain] \in Nat
  BY DEF UpstreamTypeOK
<1> HIDE DEF p, q
<1>5. signed[chain] + MaxPayment * q <= MaxPayment * Cardinality(Calls(chain))
  <2>1. signed[chain] + MaxPayment * p <= MaxPayment * Cardinality(Calls(chain))
    BY DEF LossInv, Covered, p
  <2>2. QED
    BY <1>2, <1>3, <1>4, <2>1
<1>6. Covered(chain)'
  BY <1>5 DEF Covered, q
<1>7. Spared(chain)'
  BY DEF LossInv, Spared
<1>8. QED
  BY <1>6, <1>7

\* A call is counted when it starts to wait for the answer.
LEMMA RelayCovered ==
    ASSUME UpstreamTypeOK, LossInv, NEW s \in Tasks, NEW r \in RelayServices,
           dispatchRelay(s, r),
           NEW chain \in Chains
    PROVE  Covered(chain)' /\ Spared(chain)'
<1>1. /\ signed' = signed
      /\ calls' = [calls EXCEPT ![r] = @ + 1] /\ calls[r] \in Nat /\ calls[r] < MaxCalls
      /\ task' = [task EXCEPT ![s] = IF ChainOf[r] \in Wired /\ keyFile
                                            THEN [pc |-> "relaying", service |-> r] ELSE Idle]
  BY UpstreamAssumption DEF dispatchRelay, Reply, UpstreamTypeOK
<1>2. ASSUME NEW t \in Tasks, t \in Pending(chain)', t \notin Pending(chain)
      PROVE  t = s /\ ChainOf[r] = chain /\ chain \in Wired
  BY <1>1, <1>2 DEF Pending, Idle, UpstreamTypeOK
<1>3. CASE ChainOf[r] # chain
  <2>1. Pending(chain)' \subseteq Pending(chain)
    BY <1>2, <1>3 DEF Pending
  <2>2. Calls(chain)' = Calls(chain)
    BY <1>1, <1>3 DEF Calls, UpstreamTypeOK
  <2>3. QED
    BY <1>1, <2>1, <2>2, Quiet
<1>4. CASE ChainOf[r] = chain
  <2> DEFINE call == <<r, calls[r] + 1>>
  <2>1. Calls(chain)' = Calls(chain) \cup {call} /\ call \notin Calls(chain)
    <3>1. call \in RelayServices \X (1..MaxCalls)
      BY <1>1, UpstreamAssumption
    <3>2. ASSUME NEW c \in RelayServices \X (1..MaxCalls), c[1] = r
          PROVE  c[2] <= calls'[r] <=> c[2] <= calls[r] \/ c = call
      <4>1. c = <<r, c[2]>> /\ c[2] \in Nat
        BY <3>2
      <4>2. calls'[r] = calls[r] + 1
        BY <1>1 DEF UpstreamTypeOK
      <4>3. QED
        BY <1>1, <4>1, <4>2
    <3>3. ASSUME NEW c \in RelayServices \X (1..MaxCalls), c[1] # r
          PROVE  calls'[c[1]] = calls[c[1]]
      BY <1>1, <3>3 DEF UpstreamTypeOK
    <3>4. QED
      BY <1>1, <1>4, <3>1, <3>2, <3>3 DEF Calls
  <2>2. Cardinality(Calls(chain)') = Cardinality(Calls(chain)) + 1
    BY <2>1, CallsFinite, FS_AddElement
  <2>3. /\ Cardinality(Pending(chain)') \in Nat
        /\ Cardinality(Pending(chain)') <= Cardinality(Pending(chain)) + 1
    <3>1. Pending(chain)' \subseteq Pending(chain) \cup {s}
      BY <1>2 DEF Pending
    <3>2. /\ IsFiniteSet(Pending(chain) \cup {s})
          /\ Cardinality(Pending(chain) \cup {s}) <= Cardinality(Pending(chain)) + 1
          /\ Cardinality(Pending(chain) \cup {s}) \in Nat
      <4>1. s \notin Pending(chain)
        BY DEF dispatchRelay, Pending
      <4>2. /\ IsFiniteSet(Pending(chain) \cup {s})
            /\ Cardinality(Pending(chain) \cup {s}) = Cardinality(Pending(chain)) + 1
        BY <4>1, CallsFinite, FS_AddElement
      <4>3. QED
        BY <4>2, CallsFinite
    <3>3. QED
      BY <3>1, <3>2, CallsFinite, FS_Subset, FS_CardinalityType
  <2>4. Covered(chain)'
    <3> DEFINE p == Cardinality(Pending(chain))
               q == Cardinality(Pending(chain)')
               n == Cardinality(Calls(chain))
    <3>1. p \in Nat /\ n \in Nat /\ q \in Nat /\ q <= p + 1
      BY <2>3, CallsFinite
    <3>2. signed[chain] + MaxPayment * p <= MaxPayment * n /\ signed[chain] \in Nat
      BY DEF LossInv, Covered, UpstreamTypeOK
    <3>3. Cardinality(Calls(chain)') = n + 1
      BY <2>2
    <3> HIDE DEF p, q, n
    <3>4. MaxPayment * q <= MaxPayment * p + MaxPayment
      BY <3>1, Products, UpstreamAssumption
    <3>5. signed[chain] + MaxPayment * q <= MaxPayment * (n + 1)
      BY <3>1, <3>2, <3>4, Products, UpstreamAssumption
    <3>6. QED
      BY <1>1, <3>3, <3>5 DEF Covered, q
  <2>5. Spared(chain)'
    BY <1>1, <1>2 DEF LossInv, Spared, Pending
  <2>6. QED
    BY <2>4, <2>5
<1>5. QED
  BY <1>3, <1>4

\* A payment takes the place of the call it was due to.
LEMMA PaymentCovered ==
    ASSUME UpstreamTypeOK, LossInv, NEW s \in Tasks, NEW offers, PaymentRequired(s, offers),
           NEW chain \in Chains
    PROVE  Covered(chain)' /\ Spared(chain)'
<1> DEFINE r == task[s].service
<1>1. r \in RelayServices /\ task[s].pc = "relaying"
  BY RequestFields DEF PaymentRequired, UpstreamTypeOK
<1>2. PICK offer \in Payable(r, offers) :
          signed' = [signed EXCEPT ![offer.chain] = @ + offer.amount]
  BY DEF PaymentRequired
<1>3. offer.chain = ChainOf[r] /\ offer.amount \in 0..MaxPayment
  BY <1>2 DEF Payable, maxPaymentPolicy
<1>4. /\ task' = [task EXCEPT ![s] = [pc |-> "paying", service |-> r]]
      /\ UNCHANGED calls
  BY DEF PaymentRequired, Reply
<1>5. Calls(chain)' = Calls(chain)
  BY <1>4 DEF Calls
<1>6. Pending(chain)' = Pending(chain) \ {s}
  BY <1>4 DEF Pending, UpstreamTypeOK
<1>7. CASE ChainOf[r] # chain
  <2>1. signed'[chain] = signed[chain]
    BY <1>2, <1>3, <1>7 DEF UpstreamTypeOK
  <2>2. QED
    BY <1>5, <1>6, <2>1, Quiet
<1>8. CASE ChainOf[r] = chain
  <2> DEFINE p == Cardinality(Pending(chain))
             n == Cardinality(Calls(chain))
  <2>1. s \in Pending(chain)
    BY <1>1, <1>8 DEF Pending
  <2>2. Cardinality(Pending(chain)') = p - 1 /\ p \in Nat /\ n \in Nat /\ p - 1 \in Nat
    <3>1. Cardinality(Pending(chain) \ {s}) = p - 1
      BY <2>1, CallsFinite, FS_RemoveElement
    <3>2. Cardinality(Pending(chain) \ {s}) \in Nat
      BY CallsFinite, FS_Subset, FS_CardinalityType
    <3>3. QED
      BY <1>6, <3>1, <3>2, CallsFinite
  <2>3. signed'[chain] <= signed[chain] + MaxPayment /\ signed'[chain] \in Nat
    BY <1>2, <1>3, <1>8, UpstreamAssumption DEF UpstreamTypeOK
  <2>4. signed[chain] + MaxPayment * p <= MaxPayment * n /\ signed[chain] \in Nat
    BY DEF LossInv, Covered, UpstreamTypeOK
  <2>5. signed'[chain] + MaxPayment * (p - 1) <= MaxPayment * n
    <3> HIDE DEF p, n
    <3>1. MaxPayment * ((p - 1) + 1) = MaxPayment * (p - 1) + MaxPayment
      BY <2>2, Products, UpstreamAssumption
    <3>2. (p - 1) + 1 = p
      BY <2>2
    <3>3. MaxPayment * (p - 1) \in Nat /\ MaxPayment * n \in Nat
      BY <2>2, Products, UpstreamAssumption
    <3>4. QED
      BY <2>3, <2>4, <3>1, <3>2, <3>3, UpstreamAssumption
  <2>6. Covered(chain)'
    BY <1>5, <2>2, <2>5 DEF Covered
  <2>7. Spared(chain)'
    BY <2>1 DEF LossInv, Spared
  <2>8. QED
    BY <2>6, <2>7
<1>9. QED
  BY <1>7, <1>8

\* No step breaks the bound.
LEMMA NextLoss == UpstreamTypeOK /\ LossInv /\ [UpstreamNext]_upstreamVars => LossInv'
<1> SUFFICES ASSUME UpstreamTypeOK, LossInv, [UpstreamNext]_upstreamVars, NEW chain \in Chains
             PROVE  Covered(chain)' /\ Spared(chain)'
  BY DEF LossInv
<1>1. ASSUME UNCHANGED <<signed, calls>>,
             \A t \in Tasks : task'[t] = task[t] \/ task'[t].pc # "relaying"
      PROVE  Covered(chain)' /\ Spared(chain)'
  <2>1. Pending(chain)' \subseteq Pending(chain)
    BY <1>1 DEF Pending
  <2>2. Calls(chain)' = Calls(chain)
    BY <1>1 DEF Calls
  <2>3. QED
    BY <1>1, <2>1, <2>2, Quiet
<1>2. ASSUME NEW s \in Tasks, NEW r \in RelayServices, dispatchRelay(s, r)
      PROVE  Covered(chain)' /\ Spared(chain)'
  BY <1>2, RelayCovered
<1>3. ASSUME NEW s \in Tasks, NEW offers, PaymentRequired(s, offers)
      PROVE  Covered(chain)' /\ Spared(chain)'
  BY <1>3, PaymentCovered
<1>4. ASSUME NEW s \in Tasks, NEW q, Reply(s, q), q.pc # "relaying", UNCHANGED <<signed, calls>>
      PROVE  Covered(chain)' /\ Spared(chain)'
  <2>1. \A t \in Tasks : task'[t] = task[t] \/ task'[t].pc # "relaying"
    BY <1>4 DEF Reply, UpstreamTypeOK
  <2>2. QED
    BY <1>1, <1>4, <2>1
<1>5. ASSUME NEW s \in Tasks, NEW o \in Origins, probeOrigin(s, o)
      PROVE  Covered(chain)' /\ Spared(chain)'
  BY <1>4, <1>5 DEF probeOrigin, Answered
<1>6. ASSUME NEW s \in Tasks, NEW o \in Origins, dispatchOrigin(s, o)
      PROVE  Covered(chain)' /\ Spared(chain)'
  BY <1>4, <1>6 DEF dispatchOrigin
<1>7. ASSUME NEW s \in Tasks, HeadAnswered(s) PROVE Covered(chain)' /\ Spared(chain)'
  BY <1>4, <1>7 DEF HeadAnswered
<1>8. ASSUME NEW s \in Tasks, ProbeEnded(s) PROVE Covered(chain)' /\ Spared(chain)'
  <2>1. PICK healthy : Reply(s, Answered(task[s].service, healthy))
    BY <1>8 DEF ProbeEnded
  <2>2. QED
    BY <1>4, <1>8, <2>1 DEF ProbeEnded, Answered
<1>9. ASSUME NEW s \in Tasks, Proxied(s) \/ Relayed(s) PROVE Covered(chain)' /\ Spared(chain)'
  BY <1>4, <1>9 DEF Proxied, Relayed, Idle
<1>10. CASE UNCHANGED <<signed, calls, task>>
  BY <1>1, <1>10
<1>11. CASE Restart
  BY <1>1, <1>11 DEF Restart, Idle
<1>12. QED
  BY <1>2, <1>3, <1>5, <1>6, <1>7, <1>8, <1>9, <1>10, <1>11, UpstreamCases
     DEF Serve, upstreamVars, Tick, GoesDown, ComesUp

\* The relayer never loses more than the cap for each call it was asked to make.
THEOREM LossIsBounded == UpstreamSpec => []RelayerLossBounded
<1>1. UpstreamInit => LossInv
  <2> SUFFICES ASSUME UpstreamInit, NEW chain \in Chains PROVE Covered(chain) /\ Spared(chain)
    BY DEF LossInv
  <2>1. Pending(chain) = {} /\ signed[chain] = 0
    BY DEF UpstreamInit, Pending, Idle
  <2>2. Cardinality(Pending(chain)) = 0
    BY <2>1, FS_EmptySet
  <2>3. MaxPayment * Cardinality(Calls(chain)) \in Nat
    BY CallsFinite, Products, UpstreamAssumption
  <2>4. QED
    BY <2>1, <2>2, <2>3, UpstreamAssumption DEF Covered, Spared
<1>2. UpstreamTypeOK /\ LossInv => RelayerLossBounded
  <2> SUFFICES ASSUME UpstreamTypeOK, LossInv, NEW chain \in Chains
               PROVE  /\ signed[chain] <= MaxPayment * Cardinality(Calls(chain))
                      /\ chain \notin Wired => signed[chain] = 0
    BY DEF RelayerLossBounded
  <2>1. /\ MaxPayment * Cardinality(Pending(chain)) \in Nat
        /\ MaxPayment * Cardinality(Calls(chain)) \in Nat
    BY CallsFinite, Products, UpstreamAssumption
  <2>2. QED
    BY <2>1 DEF LossInv, Covered, Spared, UpstreamTypeOK
<1>3. QED
  BY <1>1, <1>2, NextLoss, UpstreamTypeCorrect, PTL DEF UpstreamSpec
=============================================================================
