------------------------------ MODULE WalletStart ------------------------------
(***************************************************************************)
(* What every agent command does before it can act: `init --new` stores a  *)
(* password for the private state if there is none; buildAgentContext      *)
(* restores the wallet from the sync cache or builds it from its seed,     *)
(* synchronises it, saves the cache (lib/wallet.ts) and opens the private  *)
(* state.  The cache is that of one mnemonic.                              *)
(*                                                                         *)
(* Commands are processes that may be killed between any two steps. They   *)
(* overlap: `init` does not take the operation lock.                       *)
(***************************************************************************)
EXTENDS Integers, FiniteSets

CONSTANTS
    Commands,     \* bound of the model: the processes that run at the same time
    OwnPasswords, \* those an operator may set with M402_PRIVATE_STATE_PASSWORD
    Parts,        \* CACHE_PARTS
    MaxTip,       \* bound of the model: how far the chain grows
    Unwritten,    \* content of a file that was opened for writing and is not written yet
    Faulty,       \* content that is no wallet's: the bytes of two writers, or what a wallet
                  \* saves that was restored from a torn file
    None

ASSUME StartAssumption ==
    /\ IsFiniteSet(Parts) /\ Parts # {}
    /\ {Unwritten, Faulty} \cap Nat = {}
    /\ None \notin Nat \cup {Unwritten, Faulty} \cup Commands \cup OwnPasswords
    /\ MaxTip \in Nat

VARIABLES
    tip,        \* the last event the indexer has of the chain
    password,   \* privateStatePassword in config.json
    database,   \* the password the private-state database was created with
    file,       \* each part's state file: a position, or torn, or None
    temporary,  \* its .tmp file
    command,
    overlapped  \* history: a command was started while another was running

startVars == <<tip, password, database, file, temporary, command, overlapped>>
cache == <<file, temporary>>
secrets == <<password, database>>

-----------------------------------------------------------------------------

Idle == [pc |-> "idle"]
Alive(c) == command[c] # Idle
Is(c, step) == command[c].pc = step
Leave(c) == command' = [command EXCEPT ![c] = Idle]

Torn == {Unwritten, Faulty}

StartInit ==
    /\ tip = 0
    /\ password = None /\ database = None
    /\ file = [part \in Parts |-> None] /\ temporary = file
    /\ command = [c \in Commands |-> Idle]
    /\ overlapped = FALSE

Grow == tip < MaxTip /\ tip' = tip + 1 /\ UNCHANGED <<secrets, cache, command, overlapped>>

-----------------------------------------------------------------------------
(* The password, and MidnightWalletProvider.build                             *)

\* loadAgentConfig: the operator's password, if one is set, or else the stored one. Only
\* `init --new` (and --import) starts without any.
StartCommand(c, own, fresh) ==
    LET held == IF own # None THEN own ELSE password
    IN  /\ ~Alive(c)
        /\ fresh \/ held # None
        /\ overlapped' = (overlapped \/ \E d \in Commands : Alive(d))
        /\ command' = [command EXCEPT ![c] =
               [pc |-> IF fresh THEN "password" ELSE "opening", password |-> held]]
        /\ UNCHANGED <<tip, secrets, cache>>

\* A password is named for the command that generates it, and takes the stored one's place.
ensurePrivateStatePassword(c) ==
    LET held == command[c].password
    IN  /\ Is(c, "password")
        /\ password' = IF held = None THEN c ELSE password
        /\ command' = [command EXCEPT ![c] =
               [pc |-> "opening", password |-> IF held = None THEN c ELSE held]]
        /\ UNCHANGED <<tip, database, cache, overlapped>>

\* Restoring takes a state file of every part, and may throw for a reason of its own; then
\* the wallet is built from its seed. A torn file may "restore, look valid, and resume
\* from a position the wallet never reached".
FromSeed == [applied |-> [part \in Parts |-> 0], faulty |-> {}]
Restored ==
    {wallet \in [applied : [Parts -> 0..tip], faulty : {{part \in Parts : file[part] \in Torn}}] :
        \A part \in Parts :
            file[part] # None /\ (file[part] \notin Torn => wallet.applied[part] = file[part])}
build(c) ==
    /\ Is(c, "opening")
    /\ \E wallet \in {FromSeed} \cup Restored :
           command' = [command EXCEPT ![c] =
               [pc |-> "syncing", password |-> @.password, wallet |-> wallet,
                target |-> [part \in Parts |-> None]]]
    /\ UNCHANGED <<tip, secrets, cache, overlapped>>

\* syncWallet: a sub-wallet hears of the highest index there is, and applies an event. Its
\* fiber may die, and it does neither any more.
Report(c, part) ==
    /\ Is(c, "syncing")
    /\ command' = [command EXCEPT ![c].target[part] = tip]
    /\ UNCHANGED <<tip, secrets, cache, overlapped>>
Apply(c, part) ==
    /\ Is(c, "syncing") /\ command[c].wallet.applied[part] < tip
    /\ command' = [command EXCEPT ![c].wallet.applied[part] = @ + 1]
    /\ UNCHANGED <<tip, secrets, cache, overlapped>>

\* isStrictlyComplete of every part: it has applied what it has last heard of, which may be
\* less than the chain has by now. What it applies once it is synced is left out, and only
\* makes it more current. Mutant: one of the parts will do.
StrictlyComplete(c, part) == command[c].wallet.applied[part] = command[c].target[part]
CompleteSome(c) == \E part \in Parts : StrictlyComplete(c, part)
Complete(c) == \A part \in Parts : StrictlyComplete(c, part)
Synced(c) ==
    /\ Is(c, "syncing") /\ Complete(c)
    /\ command' = [command EXCEPT ![c] =
           [pc |-> "saving", password |-> @.password, wallet |-> @.wallet,
            part |-> [part \in Parts |-> "open"]]]
    /\ UNCHANGED <<tip, secrets, cache, overlapped>>

\* A total deadline, however much progress is reported.
Deadline(c) ==
    /\ Is(c, "syncing")
    /\ Leave(c)
    /\ UNCHANGED <<tip, secrets, cache, overlapped>>

-----------------------------------------------------------------------------
(* saveWalletSyncState, a part at a time: the temporary file is opened and     *)
(* emptied, written, and renamed. A writer keeps what it opened, under either  *)
(* name, until another file is renamed over it.                                *)

At(c, part) == IF Is(c, "saving") THEN command[c].part[part] ELSE "none"
\* Every writer's hold on the part, after the temporary file has got the other name.
Renamed(c, part) ==
    [d \in Commands |->
        IF ~Is(d, "saving") THEN command[d]
        ELSE [command[d] EXCEPT !.part[part] =
                 IF d = c THEN "done"
                 ELSE IF @ = "to temporary" THEN "to file"
                 ELSE IF @ = "to file" THEN "to nothing" ELSE @]]

OpenTemporary(c, part) ==
    /\ At(c, part) = "open"
    /\ temporary' = [temporary EXCEPT ![part] = Unwritten]
    /\ command' = [command EXCEPT ![c].part[part] = "to temporary"]
    /\ UNCHANGED <<tip, secrets, file, overlapped>>

serializeState(c, part) ==
    IF part \in command[c].wallet.faulty THEN Faulty ELSE command[c].wallet.applied[part]
Over(content, state) == IF content = Unwritten THEN {state} ELSE {state, Faulty}
WritePart(c, part) ==
    LET state == serializeState(c, part)
    IN  /\ \/ /\ At(c, part) = "to temporary"
              /\ \E content \in Over(temporary[part], state) :
                     temporary' = [temporary EXCEPT ![part] = content]
              /\ UNCHANGED file
           \/ /\ At(c, part) = "to file"
              /\ \E content \in Over(file[part], state) :
                     file' = [file EXCEPT ![part] = content]
              /\ UNCHANGED temporary
           \/ /\ At(c, part) = "to nothing"
              /\ UNCHANGED cache
        /\ command' = [command EXCEPT ![c].part[part] = "written"]
        /\ UNCHANGED <<tip, secrets, overlapped>>

\* rename takes whatever the temporary file is by now, or fails when there is none.
Rename(c, part) ==
    /\ At(c, part) = "written"
    /\ IF temporary[part] = None
       THEN command' = [command EXCEPT ![c].part[part] = "done"] /\ UNCHANGED cache
       ELSE /\ file' = [file EXCEPT ![part] = temporary[part]]
            /\ temporary' = [temporary EXCEPT ![part] = None]
            /\ command' = Renamed(c, part)
    /\ UNCHANGED <<tip, secrets, overlapped>>

\* Mutant: the state file itself is opened and written.
SaveInPlace(c, part) ==
    /\ \/ /\ At(c, part) = "open"
          /\ file' = [file EXCEPT ![part] = Unwritten]
          /\ command' = [command EXCEPT ![c].part[part] = "written"]
       \/ /\ At(c, part) = "written"
          /\ file' = [file EXCEPT ![part] = serializeState(c, part)]
          /\ command' = [command EXCEPT ![c].part[part] = "done"]
    /\ UNCHANGED <<tip, secrets, temporary, overlapped>>
Save(c, part) == OpenTemporary(c, part) \/ WritePart(c, part) \/ Rename(c, part)

\* Errors are swallowed; then the private state is opened, with the command's password.
Saved(c) ==
    /\ Is(c, "saving") /\ \A part \in Parts : command[c].part[part] = "done"
    /\ database' = IF database = None THEN command[c].password ELSE database
    /\ IF database' # command[c].password THEN Leave(c)
       ELSE command' = [command EXCEPT ![c] = [pc |-> "ready", wallet |-> @.wallet]]
    /\ UNCHANGED <<tip, password, cache, overlapped>>

-----------------------------------------------------------------------------

\* The command's own work, whether it succeeds or not: that of `init` is to wait for NIGHT
\* and to register it for DUST generation, and changes nothing that is kept here.
Conclude(c) ==
    /\ Is(c, "ready")
    /\ Leave(c)
    /\ UNCHANGED <<tip, secrets, cache, overlapped>>

Kill(c) ==
    /\ Alive(c)
    /\ Leave(c)
    /\ UNCHANGED <<tip, secrets, cache, overlapped>>

Step(c) ==
    \/ \E own \in OwnPasswords \cup {None}, fresh \in BOOLEAN : StartCommand(c, own, fresh)
    \/ ensurePrivateStatePassword(c) \/ build(c)
    \/ \E part \in Parts : Report(c, part) \/ Apply(c, part)
    \/ Synced(c) \/ Deadline(c)
    \/ \E part \in Parts : Save(c, part)
    \/ Saved(c) \/ Conclude(c) \/ Kill(c)

StartNext == Grow \/ \E c \in Commands : Step(c)

StartSpec == StartInit /\ [][StartNext]_startVars

-----------------------------------------------------------------------------
\* "A stale cache costs a slow run, never a wrong balance": as long as commands run one at
\* a time, wherever they were killed, a wallet that is saved or put to use was not restored
\* from a torn file, and knows in each part what any earlier command saved of it, though it
\* was built from its seed and waited for no more than it had heard of.
SoundWhenUsed ==
    overlapped \/
        \A c \in Commands : command[c].pc \in {"saving", "ready"} =>
            /\ command[c].wallet.faulty = {}
            /\ \A part \in Parts :
                   file[part] \in {None} \cup 0..command[c].wallet.applied[part]

\* As long as commands run one at a time, wherever they were killed, no state file is
\* torn, and the private state opens with the password that is stored, or with one that an
\* operator set. Two `init --new` that overlap may each store their own, and a later
\* command may be locked out.
AloneIsSafe ==
    overlapped \/
        /\ \A part \in Parts : file[part] \notin Torn
        /\ database \in {None, password} \cup OwnPasswords
=============================================================================
