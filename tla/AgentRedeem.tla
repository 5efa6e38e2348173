----------------------------- MODULE AgentRedeem -----------------------------
(***************************************************************************)
(* `m402 redeem` (agent/src/commands/redeem.ts): submits a redeem            *)
(* transaction and keeps a record of it in the state file, which is read by  *)
(* later commands before they submit another.  The file is the network's, the *)
(* vault is the command's (--vault), so it holds records of several vaults.  *)
(* One command runs at a time (OperationLock); it can fail or be killed       *)
(* between any two steps.                                                    *)
(***************************************************************************)
EXTENDS Naturals, Sequences, FiniteSets

CONSTANTS
    Ids,    \* the random ids of redeems; bound of the model: one per redeem
    Vaults  \* the vaults the wallet holds credit of, each a token of its own

VARIABLES
    redeems,    \* the state file: redeem records, oldest first
    pc,         \* the step the running command is at, or how the last one ended
    id,         \* the redeem the running command has recorded
    mempool,    \* submitted redeem transactions that are in no block yet
    paid,       \* redeem transactions that succeeded: NIGHT went to the wallet
    rejected    \* redeem transactions that were included and failed

chain == <<mempool, paid, rejected>>
vars  == <<redeems, pc, id, chain>>

-----------------------------------------------------------------------------
Ended   == {"idle", "refused"}
Running == {"prepared", "submitted", "watching", "unmarked"}
Redeem  == [id : Ids, vault : Vaults,
            status : {"prepared", "pending", "confirmed", "failed"}]

Recorded == {redeems[i].id : i \in DOMAIN redeems}

\* findUnresolvedRedeem looks at the records of one vault. Mutant: a record without a
\* transaction is not looked for.
UnresolvedPending(vault) ==
    {i \in DOMAIN redeems : redeems[i].vault = vault /\ redeems[i].status = "pending"}
Unresolved(vault) ==
    {i \in DOMAIN redeems :
        redeems[i].vault = vault /\ redeems[i].status \in {"prepared", "pending"}}

\* updateRedeemStatus and markRedeemSubmitted: one write of the whole file.
WithStatus(status) ==
    [i \in DOMAIN redeems |->
        IF redeems[i].id = id THEN [redeems[i] EXCEPT !.status = status] ELSE redeems[i]]

\* What recordRedeem writes. Mutant: the record is left for later.
PreparedLater(new, vault) == redeems
Prepared(new, vault) ==
    Append(redeems, [id |-> new, vault |-> vault, status |-> "prepared"])

\* The catch clause of redeemCommand. Mutant: any error makes the redeem failed.
AfterErrorFailed == WithStatus("failed")
AfterError == redeems

Init ==
    /\ redeems = <<>>
    /\ pc = "idle"
    /\ id \in Ids
    /\ mempool = {} /\ paid = {} /\ rejected = {}

-----------------------------------------------------------------------------
\* Under the lock: an earlier redeem of the vault in an unresolved state refuses this one;
\* otherwise it is recorded, before the proof server, the vault and the wallet are looked at.
Start(new, vault) ==
    /\ pc \in Ended
    /\ \/ /\ Unresolved(vault) # {}
          /\ pc' = "refused"
          /\ UNCHANGED <<redeems, id>>
       \/ /\ Unresolved(vault) = {}
          /\ new \notin Recorded
          /\ pc' = "prepared"
          /\ id' = new
          /\ redeems' = Prepared(new, vault)
    /\ UNCHANGED chain

Submit ==
    /\ pc = "prepared"
    /\ pc' = "submitted"
    /\ mempool' = mempool \cup {id}
    /\ UNCHANGED <<redeems, id, paid, rejected>>

\* onSubmitted; an error in it is kept until the transaction is final.
Mark ==
    /\ pc = "submitted"
    /\ \/ pc' = "watching" /\ redeems' = WithStatus("pending")
       \/ pc' = "unmarked" /\ UNCHANGED redeems
    /\ UNCHANGED <<id, chain>>

\* The transaction is final: success, or CallTxFailedError. After a success the kept
\* error is thrown.
Finalized ==
    /\ pc \in {"watching", "unmarked"}
    /\ pc' = "idle"
    /\ \/ id \in paid /\ redeems' = IF pc = "watching" THEN WithStatus("confirmed") ELSE AfterError
       \/ id \in rejected /\ redeems' = WithStatus("failed")
    /\ UNCHANGED <<id, chain>>

\* Any other error: the proof server is down, the wallet does not sync, the credit does
\* not suffice, the submission is refused, the watch times out.
Throw ==
    /\ pc \in Running
    /\ pc' = "idle"
    /\ redeems' = AfterError
    /\ UNCHANGED <<id, chain>>

Crash ==
    /\ pc \in Running
    /\ pc' = "idle"
    /\ UNCHANGED <<redeems, id, chain>>

\* A block includes a transaction, which succeeds or fails.
Include(tx) ==
    /\ tx \in mempool
    /\ mempool' = mempool \ {tx}
    /\ \/ paid' = paid \cup {tx} /\ UNCHANGED rejected
       \/ rejected' = rejected \cup {tx} /\ UNCHANGED paid
    /\ UNCHANGED <<redeems, pc, id>>

Next ==
    \/ \E new \in Ids, vault \in Vaults : Start(new, vault)
    \/ Submit \/ Mark \/ Finalized \/ Throw \/ Crash
    \/ \E tx \in mempool : Include(tx)

Spec == Init /\ [][Next]_vars

-----------------------------------------------------------------------------
\* The records and the command have the types of the code's, and every transaction
\* was submitted for a recorded redeem.
TypeOK ==
    /\ redeems \in Seq(Redeem)
    /\ pc \in Ended \cup Running
    /\ id \in Ids
    /\ mempool \cup paid \cup rejected \subseteq Recorded

\* A wallet never has two redeems at one vault in flight: the second would be built on
\* coins of the vault's credit that the first is spending.
OneInFlight ==
    \A i, j \in DOMAIN redeems :
        redeems[i].vault = redeems[j].vault /\ {redeems[i].id, redeems[j].id} \subseteq mempool
            => i = j

\* A redeem is taken for settled only when its transaction is: confirmed means that the
\* NIGHT was paid, failed that it never will be, and of the redeems at a vault all but the
\* newest are settled.
SettledTruthfully ==
    \A i \in DOMAIN redeems :
        /\ redeems[i].status = "confirmed" => redeems[i].id \in paid
        /\ redeems[i].status = "failed" => redeems[i].id \in rejected
        /\ (\E j \in DOMAIN redeems : i < j /\ redeems[j].vault = redeems[i].vault)
               => redeems[i].status \in {"confirmed", "failed"}
=============================================================================
