------------------------------- MODULE Upstream -------------------------------
(***************************************************************************)
(* What stands behind the gateway's routes: the probe of an origin, with    *)
(* its cache (health.ts), the proxied request to an origin and the relayed   *)
(* call that the gateway's own USDC pays for (dispatch.ts).                 *)
(*                                                                         *)
(* Time passes between the steps of requests that run at the same time.     *)
(* Timers fire when they are due.                                           *)
(***************************************************************************)
EXTENDS Integers, FiniteSets

CONSTANTS
    Tasks,            \* the requests that can be in progress at the same time
    Origins, RelayServices,  \* the services of each type
    ChainOf,          \* the chain each relay service declares
    Wired,            \* CHAINS_BY_EIP155_ID
    Chains,           \* the chains an external service may ask to be paid on
    Amounts,          \* the amounts it may ask
    MaxPayment,       \* createRelayDispatcher's cap
    Ttl, ProbeTimeout, OriginTimeout,  \* the timers, in units of the clock
    MaxTime,          \* bound of the model: the clock
    MaxCalls,         \* bound of the model: calls to each relay service
    None, Garbage     \* no amount, and one that is not a number

ASSUME UpstreamAssumption ==
    /\ ChainOf \in [RelayServices -> Chains] /\ Wired \subseteq Chains
    /\ Amounts \subseteq Nat /\ MaxPayment \in Nat
    /\ None \notin Amounts \cup Tasks /\ Garbage \notin Amounts
    /\ {Ttl, ProbeTimeout, OriginTimeout, MaxTime, MaxCalls} \subseteq Nat
    /\ ProbeTimeout <= Ttl
    /\ IsFiniteSet(Tasks) /\ IsFiniteSet(RelayServices)

VARIABLES
    now,       \* Date.now()
    up,        \* the origins that answer below 500
    lastUp,    \* history: when each origin last did
    cache,     \* probeOrigin's cache: [healthy, expiresAt] of an origin, or None
    task,      \* what each request is at
    keyFile,   \* the relayer's key can be read
    calls,     \* history: relayed calls of each service
    signed     \* history: USDC the relayer signed away on each chain

upstreamVars == <<now, up, lastUp, cache, task, keyFile, calls, signed>>
world == <<now, up, lastUp, keyFile>>

-----------------------------------------------------------------------------

Idle == [pc |-> "idle"]
Offers == [chain : Chains, amount : Amounts \cup {None, Garbage}]
Timer(pc) == IF pc \in {"probing", "probed"} THEN ProbeTimeout ELSE OriginTimeout
Timed == {"probing", "probed", "proxying"}

UpstreamInit ==
    /\ now = 0
    /\ up \in SUBSET Origins
    /\ lastUp = [o \in Origins |-> IF o \in up THEN 0 ELSE 0 - MaxTime - Ttl]
    /\ cache = [o \in Origins |-> None]
    /\ task = [s \in Tasks |-> Idle]
    /\ keyFile \in BOOLEAN
    /\ calls = [r \in RelayServices |-> 0]
    /\ signed = [chain \in Chains |-> 0]

Due(s) == task[s].pc \in Timed /\ now >= task[s].started + Timer(task[s].pc)

Tick ==
    /\ now < MaxTime /\ \A s \in Tasks : ~Due(s)
    /\ now' = now + 1
    /\ lastUp' = [o \in Origins |-> IF o \in up THEN now' ELSE lastUp[o]]
    /\ UNCHANGED <<up, cache, task, keyFile, calls, signed>>

GoesDown(o) ==
    /\ o \in up
    /\ up' = up \ {o}
    /\ UNCHANGED <<now, lastUp, cache, task, keyFile, calls, signed>>
ComesUp(o) ==
    /\ o \notin up
    /\ up' = up \cup {o}
    /\ lastUp' = [lastUp EXCEPT ![o] = now]
    /\ UNCHANGED <<now, cache, task, keyFile, calls, signed>>

-----------------------------------------------------------------------------
(* probeOrigin                                                              *)

Reply(s, fields) == task' = [task EXCEPT ![s] = fields]
Answered(o, healthy) == [pc |-> "answered", service |-> o, healthy |-> healthy, at |-> now]

Cached(o) == cache[o] # None /\ cache[o].expiresAt > now
probeOrigin(s, o) ==
    /\ task[s].pc \in {"idle", "answered"}
    /\ Reply(s, IF Cached(o) THEN Answered(o, cache[o].healthy)
                ELSE [pc |-> "probing", service |-> o, started |-> now])
    /\ UNCHANGED <<world, cache, calls, signed>>

\* The origin answers the HEAD request.
HeadAnswered(s) ==
    /\ task[s].pc = "probing"
    /\ Reply(s, [pc |-> "probed", service |-> task[s].service,
                 started |-> task[s].started, healthy |-> task[s].service \in up])
    /\ UNCHANGED <<world, cache, calls, signed>>

\* The entry counts from the time before the request.
\* Mutant: it counts from the answer's arrival.
EntryFromArrival(started, healthy) == [healthy |-> healthy, expiresAt |-> now + Ttl]
Entry(started, healthy) == [healthy |-> healthy, expiresAt |-> started + Ttl]

\* The answer arrives, or the request fails or is aborted.
ProbeEnded(s) ==
    /\ task[s].pc \in {"probing", "probed"}
    /\ \E healthy \in (IF task[s].pc = "probed" THEN {task[s].healthy, FALSE}
                       ELSE {FALSE}) :
           /\ cache' = [cache EXCEPT ![task[s].service] = Entry(task[s].started, healthy)]
           /\ Reply(s, Answered(task[s].service, healthy))
    /\ UNCHANGED <<world, calls, signed>>

-----------------------------------------------------------------------------
(* dispatchOrigin: answered with whatever status, or 504.                    *)

dispatchOrigin(s, o) ==
    /\ task[s].pc \in {"idle", "answered"}
    /\ Reply(s, [pc |-> "proxying", service |-> o, started |-> now])
    /\ UNCHANGED <<world, cache, calls, signed>>

Proxied(s) ==
    /\ task[s].pc = "proxying"
    /\ Reply(s, Idle)
    /\ UNCHANGED <<world, cache, calls, signed>>

-----------------------------------------------------------------------------
(* dispatchRelay                                                            *)

\* A chain nobody wired up or an unreadable key: a throw, before anything is paid.
dispatchRelay(s, r) ==
    /\ task[s].pc \in {"idle", "answered"} /\ calls[r] < MaxCalls
    /\ calls' = [calls EXCEPT ![r] = @ + 1]
    /\ Reply(s, IF ChainOf[r] \in Wired /\ keyFile
                THEN [pc |-> "relaying", service |-> r] ELSE Idle)
    /\ UNCHANGED <<world, cache, signed>>

\* The offers that may be paid. Mutant: the amount is not compared.
maxPaymentPolicyUncapped(offers) == {offer \in offers : offer.amount \in Nat}
maxPaymentPolicy(offers) == {offer \in offers : offer.amount \in 0..MaxPayment}
\* Those the client can sign: it holds a key for the chain the service declares only.
Payable(r, offers) == {offer \in maxPaymentPolicy(offers) : offer.chain = ChainOf[r]}

\* The external service asks to be paid; the client signs one of the offers that are left
\* and sends the request again, once.
PaymentRequired(s, offers) ==
    LET r == task[s].service IN
    /\ task[s].pc = "relaying"
    /\ \E offer \in Payable(r, offers) :
           signed' = [signed EXCEPT ![offer.chain] = @ + offer.amount]
    /\ Reply(s, [pc |-> "paying", service |-> r])
    /\ UNCHANGED <<world, cache, calls>>

\* An answer of any status; no offer that can be paid, or a failure: 502.
Relayed(s) ==
    /\ task[s].pc \in {"relaying", "paying"}
    /\ Reply(s, Idle)
    /\ UNCHANGED <<world, cache, calls, signed>>

\* The process restarts: the cache is gone, the requests are cut off.
Restart ==
    /\ cache' = [o \in Origins |-> None]
    /\ task' = [s \in Tasks |-> Idle]
    /\ UNCHANGED <<world, calls, signed>>

UpstreamNext ==
    \/ Tick \/ Restart
    \/ \E o \in Origins : GoesDown(o) \/ ComesUp(o)
    \/ \E s \in Tasks :
           \/ \E o \in Origins : probeOrigin(s, o) \/ dispatchOrigin(s, o)
           \/ \E r \in RelayServices : dispatchRelay(s, r)
           \/ \E offer, other \in Offers : PaymentRequired(s, {offer, other})
           \/ HeadAnswered(s) \/ ProbeEnded(s) \/ Proxied(s) \/ Relayed(s)

UpstreamSpec == UpstreamInit /\ [][UpstreamNext]_upstreamVars

-----------------------------------------------------------------------------
\* A request knows what its step needs, and no more.
TaskStates ==
    {Idle}
    \cup [pc : {"probing"}, service : Origins, started : Nat]
    \cup [pc : {"probed"}, service : Origins, started : Nat, healthy : BOOLEAN]
    \cup [pc : {"answered"}, service : Origins, healthy : BOOLEAN, at : Nat]
    \cup [pc : {"proxying"}, service : Origins, started : Nat]
    \cup [pc : {"relaying", "paying"}, service : RelayServices]

\* Times are natural numbers, and what was signed is an amount on a chain.
UpstreamTypeOK ==
    /\ now \in Nat /\ up \subseteq Origins /\ lastUp \in [Origins -> Int]
    /\ cache \in [Origins -> {None} \cup [healthy : BOOLEAN, expiresAt : Nat]]
    /\ task \in [Tasks -> TaskStates]
    /\ keyFile \in BOOLEAN
    /\ calls \in [RelayServices -> 0..MaxCalls] /\ signed \in [Chains -> Nat]

\* Nobody is asked to pay for an origin that has been down for longer than the cache's
\* lifetime: however long the probes take and however they overtake each other, "healthy"
\* is an answer of the origin's own from the last Ttl.
HealthyRecently ==
    \A s \in Tasks : task[s].pc = "answered" =>
        (task[s].healthy => lastUp[task[s].service] >= task[s].at - Ttl)

\* What the relayer can lose: on each chain at most the cap for every call of a service
\* that declared the chain, and nothing on chains that are not wired up, whatever the
\* external services ask and however often they fail after being paid.
Calls(chain) ==
    {call \in RelayServices \X (1..MaxCalls) :
        ChainOf[call[1]] = chain /\ call[2] <= calls[call[1]]}
RelayerLossBounded ==
    \A chain \in Chains :
        /\ signed[chain] <= MaxPayment * Cardinality(Calls(chain))
        /\ chain \notin Wired => signed[chain] = 0
=============================================================================
