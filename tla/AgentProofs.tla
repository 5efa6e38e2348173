----------------------------- MODULE AgentProofs -----------------------------
(***************************************************************************)
(* Theorems about the agent's commands: the operation lock they take, the   *)
(* way they start, and redeem.                                             *)
(***************************************************************************)
EXTENDS OperationLock, WalletStart, AgentRedeem, FiniteSetTheorems, SequenceTheorems, TLAPS

-----------------------------------------------------------------------------
(* OperationLock: it excludes, for any number of processes, as long as no   *)
(* command starts while another is still acquiring it. Processes may be      *)
(* killed anywhere and pids reused.                                          *)

\* At most one process is acquiring: what Start ensures without Overlap.
OneAcquires == \A p, q \in Pids : at[p] \in Acquiring /\ at[q] \in Acquiring => p = q

\* The inductive invariant: with a single acquirer, nobody creates or removes the lock
\* file behind the back of the process it belongs to.
LockInv == LockTypeOK /\ OneAcquires /\ LockProtected

-----------------------------------------------------------------------------
\* A process that moves is the only one that moves.
LEMMA GotoOthers ==
    ASSUME LockTypeOK, NEW p \in Pids, NEW step \in Steps, Goto(p, step)
    PROVE  /\ at' \in [Pids -> Steps]
           /\ at'[p] = step
           /\ \A q \in Pids : q # p => at'[q] = at[q]
  BY DEF LockTypeOK, Goto

\* The start state is right.
LEMMA LockInitInv == LockInit => LockInv
  BY DEF LockInit, LockInv, LockTypeOK, OneAcquires, LockProtected, Owners, Steps, Contents,
         Acquiring, Owning

\* Every action keeps the types.
LEMMA LockStepType ==
    ASSUME LockTypeOK, [LockNext]_lockVars
    PROVE  LockTypeOK'
<1> USE PidsAssumption DEF Steps, Acquiring, Owning, Contents, LockFile
<1>1. CASE UNCHANGED lockVars
  BY <1>1 DEF LockTypeOK, lockVars
<1>2. ASSUME NEW p \in Pids, Launch(p) PROVE LockTypeOK'
  BY <1>2, GotoOthers DEF LockTypeOK, Launch
<1>3. ASSUME NEW p \in Pids, Open(p) PROVE LockTypeOK'
  BY <1>3, GotoOthers DEF LockTypeOK, Open
<1>4. ASSUME NEW p \in Pids, Read(p) PROVE LockTypeOK'
  BY <1>4, GotoOthers DEF LockTypeOK, Read
<1>5. ASSUME NEW p \in Pids, Check(p) PROVE LockTypeOK'
  BY <1>5, GotoOthers DEF LockTypeOK, Check, Stale
<1>6. ASSUME NEW p \in Pids, Remove(p) PROVE LockTypeOK'
  BY <1>6, GotoOthers DEF LockTypeOK, Remove
<1>7. ASSUME NEW p \in Pids, Reopen(p) PROVE LockTypeOK'
  BY <1>7, GotoOthers DEF LockTypeOK, Reopen
<1>8. ASSUME NEW p \in Pids, Write(p) PROVE LockTypeOK'
  BY <1>8, GotoOthers DEF LockTypeOK, Write
<1>9. ASSUME NEW p \in Pids, Finish(p) \/ Exit(p) \/ Die(p) PROVE LockTypeOK'
  BY <1>9, GotoOthers DEF LockTypeOK, Finish, Exit, Die
<1>10. ASSUME NEW p \in Pids, Release(p) PROVE LockTypeOK'
  BY <1>10, GotoOthers DEF LockTypeOK, Release
<1>11. QED
  BY <1>1, <1>2, <1>3, <1>4, <1>5, <1>6, <1>7, <1>8, <1>9, <1>10 DEF LockNext

\* Nobody but Start makes a process an acquirer, and Start waits for the others.
LEMMA StepOneAcquires ==
    ASSUME ~Overlap, LockTypeOK, OneAcquires, [LockNext]_lockVars
    PROVE  OneAcquires'
<1>1. CASE UNCHANGED lockVars
  BY <1>1 DEF OneAcquires, lockVars
<1>2. ASSUME NEW p \in Pids, Launch(p) PROVE OneAcquires'
  BY <1>2, GotoOthers DEF OneAcquires, Launch, Steps, Acquiring
<1>3. ASSUME NEW p \in Pids, at[p] \in Acquiring, NEW step \in Steps, Goto(p, step)
      PROVE  OneAcquires'
  BY <1>3, GotoOthers DEF OneAcquires
<1>4. ASSUME NEW p \in Pids, NEW step \in Steps \ Acquiring, Goto(p, step)
      PROVE  OneAcquires'
  BY <1>4, GotoOthers DEF OneAcquires
<1>5. ASSUME NEW p \in Pids, Open(p) \/ Read(p) \/ Check(p) \/ Remove(p) \/ Reopen(p)
      PROVE  OneAcquires'
  BY <1>3, <1>5 DEF Open, Read, Check, Remove, Reopen, Steps, Acquiring, Owning
<1>6. ASSUME NEW p \in Pids, Write(p) \/ Finish(p) \/ Release(p) \/ Exit(p) \/ Die(p)
      PROVE  OneAcquires'
  BY <1>4, <1>6 DEF Write, Finish, Release, Exit, Die, Steps, Acquiring, Owning
<1>7. QED
  BY <1>1, <1>2, <1>5, <1>6 DEF LockNext

\* What protects one process that is inside.
Protected(p) ==
    /\ lock # Absent /\ lock.creator = p
    /\ \A q \in Pids :
           /\ at[q] \notin {"remove", "reopen"}
           /\ at[q] = "check" => owner[q] \in {p, Empty}

\* A process that creates the lock file is protected: nobody else is acquiring.
LEMMA CreatorProtected ==
    ASSUME LockTypeOK, OneAcquires, NEW p \in Pids, at[p] \in Acquiring, Goto(p, "write"),
           lock' = [creator |-> p, content |-> Empty]
    PROVE  Protected(p)'
<1>1. at'[p] = "write" /\ \A q \in Pids : q # p => at'[q] = at[q] /\ at'[q] \notin Acquiring
  BY GotoOthers DEF OneAcquires, Steps, Owning
<1>2. lock' # Absent
  BY PidsAssumption DEF LockFile, Contents
<1>3. QED
  BY <1>1, <1>2 DEF Protected, Acquiring

\* A process inside stays protected by a step that leaves the file's creator alone and
\* sends nobody to remove it.
LEMMA StaysProtected ==
    ASSUME LockTypeOK, NEW p \in Pids, Protected(p), NEW m \in Pids, NEW step \in Steps,
           Goto(m, step), lock' # Absent, lock'.creator = lock.creator,
           step \notin {"remove", "reopen"},
           \A q \in Pids : at'[q] = "check" => owner'[q] \in {owner[q], p, Empty},
           step = "check" => owner'[m] \in {p, Empty}
    PROVE  Protected(p)'
<1>1. ASSUME NEW q \in Pids
      PROVE  /\ at'[q] \notin {"remove", "reopen"}
             /\ at'[q] = "check" => owner'[q] \in {p, Empty}
  BY <1>1, GotoOthers DEF Protected
<1>2. QED
  BY <1>1 DEF Protected

\* No step takes the protection from a process inside, or lets one in without it.
LEMMA StepProtected ==
    ASSUME LockInv, [LockNext]_lockVars, NEW p \in Pids, at'[p] \in Owning
    PROVE  Protected(p)'
<1> USE DEF LockInv, Steps, Acquiring, Owning
<1>1. at[p] \in Owning => Protected(p)
  BY DEF LockProtected, Protected, Owners
<1>2. CASE UNCHANGED lockVars
  BY <1>1, <1>2 DEF lockVars, Protected
<1>3. ASSUME NEW m \in Pids, Launch(m) PROVE Protected(p)'
  <2>1. at[p] \in Owning
    BY <1>3, GotoOthers DEF Launch
  <2>2. \A q \in Pids : at'[q] = "check" => owner'[q] = owner[q]
    BY <1>3, GotoOthers DEF Launch, LockTypeOK
  <2>3. QED
    BY <1>1, <1>3, <2>1, <2>2, StaysProtected DEF Launch, Protected
<1>4. ASSUME NEW m \in Pids, Open(m) \/ Reopen(m), lock = Absent PROVE Protected(p)'
  <2>1. at[p] \notin Owning
    BY <1>1, <1>4 DEF Protected
  <2>2. p = m
    BY <1>4, <2>1, GotoOthers DEF Open, Reopen
  <2>3. QED
    BY <1>4, <2>2, CreatorProtected DEF Open, Reopen
<1>5. ASSUME NEW m \in Pids, Open(m), lock # Absent PROVE Protected(p)'
  <2>1. at[p] \in Owning
    BY <1>5, GotoOthers DEF Open
  <2>2. QED
    BY <1>1, <1>5, <2>1, StaysProtected DEF Open
<1>6. ASSUME NEW m \in Pids, Read(m) PROVE Protected(p)'
  <2>1. Protected(p) /\ lock.content \in {Empty, p}
    BY <1>1, <1>6, GotoOthers DEF Read, Protected, LockTypeOK
  <2>2. Goto(m, "check") /\ owner' = [owner EXCEPT ![m] = lock.content] /\ lock' = lock
    BY <1>6, <2>1 DEF Read, Protected
  <2>3. \A q \in Pids : owner'[q] \in {owner[q], p, Empty}
    BY <2>1, <2>2 DEF LockTypeOK
  <2>4. owner'[m] \in {p, Empty}
    BY <2>1, <2>2 DEF LockTypeOK
  <2>5. QED
    BY <2>1, <2>2, <2>3, <2>4, StaysProtected DEF Protected
<1>7. ASSUME NEW m \in Pids, Check(m) PROVE Protected(p)'
  <2>1. at[p] \in Owning /\ Protected(p)
    BY <1>1, <1>7, GotoOthers DEF Check
  <2>2. processIsRunning(p)
    BY <2>1 DEF processIsRunning
  <2>3. Goto(m, "exit")
    BY <1>7, <2>1, <2>2, PidsAssumption DEF Check, Stale, Protected
  <2>4. QED
    BY <1>7, <2>1, <2>3, StaysProtected DEF Check, Stale, Protected
<1>8. ASSUME NEW m \in Pids, Remove(m) PROVE FALSE
  BY <1>1, <1>8, GotoOthers DEF Remove, Protected
<1>9. ASSUME NEW m \in Pids, Reopen(m), lock # Absent PROVE FALSE
  BY <1>1, <1>9, GotoOthers DEF Reopen, Protected
<1>10. ASSUME NEW m \in Pids, Write(m) PROVE Protected(p)'
  <2>1. at[p] \in Owning /\ Protected(p)
    BY <1>1, <1>10, GotoOthers DEF Write
  <2>2. lock \in LockFile
    BY <2>1 DEF LockTypeOK, Protected
  <2>3. lock' \in LockFile /\ lock'.creator = lock.creator
    BY <1>10, <2>2 DEF Write, LockFile, Contents
  <2>4. QED
    BY <1>10, <2>1, <2>3, PidsAssumption, StaysProtected DEF Write
<1>11. ASSUME NEW m \in Pids, Finish(m) \/ Exit(m) \/ Die(m) PROVE Protected(p)'
  <2>1. at[p] \in Owning /\ Protected(p)
    BY <1>1, <1>11, GotoOthers DEF Finish, Exit, Die
  <2>2. QED
    BY <1>11, <2>1, StaysProtected DEF Finish, Exit, Die, Protected
<1>12. ASSUME NEW m \in Pids, Release(m) PROVE FALSE
  <2>1. p # m /\ at[p] \in Owning /\ at[m] \in Owning
    BY <1>12, GotoOthers DEF Release
  <2>2. QED
    BY <2>1 DEF LockProtected, Owners
<1>13. QED
  BY <1>2, <1>3, <1>4, <1>5, <1>6, <1>7, <1>8, <1>9, <1>10, <1>11, <1>12 DEF LockNext

\* The invariant is inductive when commands do not overlap while they acquire the lock.
LEMMA LockStepInv ==
    ASSUME ~Overlap
    PROVE  LockInv /\ [LockNext]_lockVars => LockInv'
<1> SUFFICES ASSUME LockInv, [LockNext]_lockVars PROVE LockInv'
  OBVIOUS
<1>1. LockTypeOK' /\ OneAcquires'
  BY LockStepType, StepOneAcquires DEF LockInv
<1>2. LockProtected'
  BY StepProtected DEF LockProtected, Owners, Protected
<1>3. QED
  BY <1>1, <1>2 DEF LockInv

\* The types hold whether or not commands overlap.
THEOREM LockTypeCorrect == LockSpec => []LockTypeOK
<1>1. LockInit => LockTypeOK
  BY LockInitInv DEF LockInv
<1>2. LockTypeOK /\ [LockNext]_lockVars => LockTypeOK'
  BY LockStepType
<1>3. QED
  BY <1>1, <1>2, PTL DEF LockSpec

\* The lock file belongs to the process inside, and nobody is about to remove it.
THEOREM Protection ==
    ASSUME ~Overlap
    PROVE  LockSpec => []LockProtected
<1>1. LockInv => LockProtected
  BY DEF LockInv
<1>2. QED
  BY <1>1, LockInitInv, LockStepInv, PTL DEF LockSpec

\* Wallet operations run one at a time, through crashes and stale locks.
THEOREM Exclusion ==
    ASSUME ~Overlap
    PROVE  LockSpec => []MutualExclusion
<1>1. LockProtected => MutualExclusion
  BY DEF LockProtected, MutualExclusion, Owners
<1>2. QED
  BY <1>1, Protection, PTL

-----------------------------------------------------------------------------
(* WalletStart: commands that run one at a time, wherever they are killed,    *)
(* leave no torn cache behind, put no faulty wallet to use, and agree on the  *)
(* password.                                                                *)

Passwords == Commands \cup OwnPasswords \cup {None}
Positions == [Parts -> Nat]
Wallets == [applied : Positions, faulty : SUBSET Parts]
Targets == [Parts -> Nat \cup {None}]
Holds == {"open", "to temporary", "to file", "to nothing", "written", "done"}

\* What a command keeps, by its step.
Preparing == [pc : {"password", "opening"}, password : Passwords]
Syncing == [pc : {"syncing"}, password : Passwords, wallet : Wallets, target : Targets]
Saving == [pc : {"saving"}, password : Passwords, wallet : Wallets, part : [Parts -> Holds]]
Working == [pc : {"ready"}, wallet : Wallets]
CommandStates == {Idle} \cup Preparing \cup Syncing \cup Saving \cup Working

PartContents == Nat \cup Torn \cup {None}
StartTypeOK ==
    /\ tip \in Nat
    /\ password \in Passwords /\ database \in Passwords
    /\ file \in [Parts -> PartContents] /\ temporary \in [Parts -> PartContents]
    /\ command \in [Commands -> CommandStates]
    /\ overlapped \in BOOLEAN

WholeCache == \A part \in Parts : file[part] \in {None} \cup 0..tip
OnePassword == database \in {None, password} \cup OwnPasswords

\* The wallet knows what was saved, and no more than there is.
Knows(wallet) ==
    /\ wallet.faulty = {}
    /\ \A part \in Parts :
           wallet.applied[part] <= tip /\ file[part] \in {None} \cup 0..wallet.applied[part]
\* What a wallet waits for is not behind what was saved.
Awaits(q) ==
    /\ q.wallet.faulty = {}
    /\ \A part \in Parts :
           /\ q.wallet.applied[part] <= tip
           /\ q.target[part] # None => file[part] \in {None} \cup 0..q.target[part]
\* The temporary files are the writer's.
Writes(q) ==
    \A part \in Parts :
        /\ q.part[part] \in {"open", "to temporary", "written", "done"}
        /\ q.part[part] = "to temporary" => temporary[part] = Unwritten
        /\ q.part[part] = "written" => temporary[part] = q.wallet.applied[part]

\* What a command that runs alone has.
Careful(q) ==
    /\ q.pc \in {"password", "opening", "syncing", "saving"} =>
           q.password \in {password} \cup OwnPasswords
    /\ q.pc = "syncing" => Awaits(q)
    /\ q.pc = "saving" => Writes(q)
    /\ q.pc \in {"saving", "ready"} => Knows(q.wallet)

\* Commands run one at a time, the cache is whole, and the stored password is the one
\* the private state was created with, unless it was the operator's.
AloneInv ==
    /\ \A c, d \in Commands : Alive(c) /\ Alive(d) => c = d
    /\ WholeCache /\ OnePassword
    /\ \A c \in Commands : Careful(command[c])

StartInv == StartTypeOK /\ (~overlapped => AloneInv)

-----------------------------------------------------------------------------
\* What a command keeps is told by its step.
LEMMA CommandFields ==
    ASSUME NEW q \in CommandStates
    PROVE  /\ q.pc = "idle" => q = Idle
           /\ q.pc \in {"password", "opening"} => q \in Preparing
           /\ q.pc = "syncing" => q \in Syncing
           /\ q.pc = "saving" => q \in Saving
           /\ q.pc = "ready" => q \in Working
           /\ q.pc \in {"idle", "password", "opening", "syncing", "saving", "ready"}
  BY DEF CommandStates, Idle, Preparing, Syncing, Saving, Working

\* The step of a slot no command is in.
LEMMA IdleIsIdle == Idle.pc = "idle"
  BY DEF Idle

\* A command that steps alone is followed by the others.
LEMMA OneMoves ==
    ASSUME StartInv, NEW c \in Commands, Alive(c), NEW q \in CommandStates,
           command' = [command EXCEPT ![c] = q], UNCHANGED <<tip, overlapped>>,
           ~overlapped => WholeCache' /\ OnePassword' /\ Careful(q)'
    PROVE  /\ command' \in [Commands -> CommandStates]
           /\ ~overlapped' => AloneInv'
<1>1. /\ command' \in [Commands -> CommandStates]
      /\ command'[c] = q /\ \A d \in Commands \ {c} : command'[d] = command[d]
  BY DEF StartInv, StartTypeOK
<1>2. ASSUME ~overlapped PROVE AloneInv'
  <2>1. \A d \in Commands \ {c} : command'[d] = Idle
    BY <1>1, <1>2 DEF StartInv, AloneInv, Alive
  <2>2. \A d, e \in Commands : Alive(d)' /\ Alive(e)' => d = e
    BY <2>1 DEF Alive
  <2>3. ASSUME NEW d \in Commands PROVE Careful(command[d])'
    <3>1. CASE d = c
      BY <1>1, <1>2, <3>1 DEF Careful, Awaits, Writes, Knows
    <3>2. CASE d # c
      <4>1. command'[d].pc = "idle"
        BY <2>1, <3>2, IdleIsIdle
      <4>2. QED
        BY <4>1 DEF Careful
    <3>3. QED
      BY <3>1, <3>2
  <2>4. QED
    BY <1>2, <2>2, <2>3 DEF AloneInv
<1>3. QED
  BY <1>1, <1>2

\* A step that touches nothing but the command itself.
LEMMA CommandOnly ==
    ASSUME StartInv, NEW c \in Commands, Alive(c), NEW q \in CommandStates,
           command' = [command EXCEPT ![c] = q], UNCHANGED <<tip, secrets, cache, overlapped>>,
           ~overlapped => Careful(q)
    PROVE  StartInv'
<1>1. ~overlapped => WholeCache' /\ OnePassword' /\ Careful(q)'
  BY DEF Careful, Awaits, Writes, Knows, WholeCache, OnePassword, StartInv, AloneInv,
         secrets, cache
<1>2. /\ command' \in [Commands -> CommandStates]
      /\ ~overlapped' => AloneInv'
  BY <1>1, OneMoves
<1>3. StartTypeOK'
  BY <1>2 DEF StartInv, StartTypeOK, secrets, cache
<1>4. QED
  BY <1>2, <1>3 DEF StartInv

\* A command that ends, for whatever reason.
LEMMA LeaveInv ==
    ASSUME StartInv, NEW c \in Commands, Alive(c), Leave(c),
           UNCHANGED <<tip, secrets, cache, overlapped>>
    PROVE  StartInv'
<1>1. Idle \in CommandStates /\ Careful(Idle)
  BY DEF CommandStates, Careful, Idle
<1>2. QED
  BY <1>1, CommandOnly DEF Leave

\* A command starts with the operator's password or the one that is stored; it is alone
\* if nobody else is.
LEMMA StartCommandInv ==
    ASSUME StartInv, NEW c \in Commands, NEW own \in OwnPasswords \cup {None},
           NEW fresh \in BOOLEAN, StartCommand(c, own, fresh)
    PROVE  StartInv'
<1> DEFINE held == IF own # None THEN own ELSE password
<1>1. PICK q : q = [pc |-> IF fresh THEN "password" ELSE "opening", password |-> held]
  OBVIOUS
<1>2. /\ ~Alive(c) /\ command' = [command EXCEPT ![c] = q]
      /\ UNCHANGED <<tip, password, database, file, temporary>>
      /\ overlapped' = (overlapped \/ \E d \in Commands : Alive(d))
  BY <1>1 DEF StartCommand, secrets, cache
<1>3. held \in Passwords /\ held \in {password} \cup OwnPasswords
  BY DEF StartInv, StartTypeOK, Passwords
<1>4. q.pc \in {"password", "opening"} /\ q.password = held /\ q \in CommandStates
  BY <1>1, <1>3 DEF CommandStates, Preparing
<1>5. /\ command' \in [Commands -> CommandStates]
      /\ command'[c] = q /\ \A d \in Commands \ {c} : command'[d] = command[d]
  BY <1>2, <1>4 DEF StartInv, StartTypeOK
<1>6. StartTypeOK'
  <2>1. overlapped' \in BOOLEAN
    BY <1>2 DEF StartInv, StartTypeOK
  <2>2. QED
    BY <1>2, <1>5, <2>1 DEF StartInv, StartTypeOK
<1>7. ASSUME ~overlapped' PROVE AloneInv'
  <2>1. ~overlapped /\ \A d \in Commands : command[d] = Idle
    BY <1>2, <1>7 DEF Alive
  <2>2. \A d \in Commands \ {c} : command'[d] = Idle
    BY <1>5, <2>1
  <2>3. \A d, e \in Commands : Alive(d)' /\ Alive(e)' => d = e
    BY <2>2 DEF Alive
  <2>4. ASSUME NEW d \in Commands PROVE Careful(command[d])'
    <3>1. CASE d = c
      BY <1>2, <1>3, <1>4, <1>5, <3>1 DEF Careful
    <3>2. CASE d # c
      <4>1. command'[d].pc = "idle"
        BY <2>2, <3>2, IdleIsIdle
      <4>2. QED
        BY <4>1 DEF Careful
    <3>3. QED
      BY <3>1, <3>2
  <2>5. WholeCache' /\ OnePassword'
    BY <1>2, <2>1 DEF StartInv, AloneInv, WholeCache, OnePassword
  <2>6. QED
    BY <2>3, <2>4, <2>5 DEF AloneInv
<1>8. QED
  BY <1>6, <1>7 DEF StartInv

\* The password is generated for the command that has none, and stored.
LEMMA PasswordInv ==
    ASSUME StartInv, NEW c \in Commands, ensurePrivateStatePassword(c)
    PROVE  StartInv'
<1> DEFINE held == command[c].password
           p == IF held = None THEN c ELSE held
<1>1. command[c] \in Preparing /\ Alive(c)
  BY CommandFields DEF ensurePrivateStatePassword, Is, StartInv, StartTypeOK, Alive, Idle
<1>2. PICK q : q = [pc |-> "opening", password |-> p]
  OBVIOUS
<1>3. /\ command' = [command EXCEPT ![c] = q]
      /\ password' = IF held = None THEN c ELSE password
      /\ UNCHANGED <<tip, database, file, temporary, overlapped>>
  BY <1>2 DEF ensurePrivateStatePassword, cache
<1>4. p \in Passwords /\ q \in CommandStates /\ q.pc = "opening" /\ q.password = p
  BY <1>1, <1>2 DEF Passwords, CommandStates, Preparing
<1>5. ASSUME ~overlapped PROVE WholeCache' /\ OnePassword' /\ Careful(q)'
  <2>1. held \in {password} \cup OwnPasswords /\ WholeCache /\ OnePassword
    BY <1>5 DEF StartInv, AloneInv, Careful, ensurePrivateStatePassword, Is
  <2>2. WholeCache'
    BY <1>3, <2>1 DEF WholeCache
  <2>3. held = None => password = None
    BY <2>1, StartAssumption
  <2>4. OnePassword' /\ p \in {password'} \cup OwnPasswords
    BY <1>3, <2>1, <2>3 DEF OnePassword
  <2>5. QED
    BY <1>4, <2>2, <2>4 DEF Careful
<1>6. /\ command' \in [Commands -> CommandStates]
      /\ ~overlapped' => AloneInv'
  BY <1>1, <1>3, <1>4, <1>5, OneMoves
<1>7. StartTypeOK'
  BY <1>3, <1>6 DEF StartInv, StartTypeOK, Passwords
<1>8. QED
  BY <1>6, <1>7 DEF StartInv

\* A wallet that is built is whole if the cache is.
LEMMA BuildInv == ASSUME StartInv, NEW c \in Commands, build(c) PROVE StartInv'
<1>1. command[c] \in Preparing /\ Alive(c) /\ command[c].pc = "opening"
  BY CommandFields DEF build, Is, StartInv, StartTypeOK, Alive, Idle
<1>2. PICK wallet \in {FromSeed} \cup Restored :
          /\ command' = [command EXCEPT ![c] =
                 [pc |-> "syncing", password |-> command[c].password, wallet |-> wallet,
                  target |-> [part \in Parts |-> None]]]
          /\ UNCHANGED <<tip, secrets, cache, overlapped>>
  BY DEF build
<1>3. PICK q : q = [pc |-> "syncing", password |-> command[c].password, wallet |-> wallet,
                    target |-> [part \in Parts |-> None]]
  OBVIOUS
<1>4. wallet \in Wallets /\ \A part \in Parts : wallet.applied[part] <= tip
  <2>1. tip \in Nat
    BY DEF StartInv, StartTypeOK
  <2>2. CASE wallet = FromSeed
    BY <2>1, <2>2 DEF FromSeed, Wallets, Positions
  <2>3. CASE wallet \in Restored
    <3>1. /\ wallet \in [applied : [Parts -> 0..tip],
                         faulty : {{part \in Parts : file[part] \in Torn}}]
      BY <2>3 DEF Restored
    <3>2. wallet.applied \in [Parts -> 0..tip]
      BY <3>1
    <3>3. wallet.applied \in Positions /\ \A part \in Parts : wallet.applied[part] <= tip
      BY <2>1, <3>2 DEF Positions
    <3>4. wallet \in [applied : Positions, faulty : SUBSET Parts]
      BY <3>1, <3>3
    <3>5. QED
      BY <3>3, <3>4 DEF Wallets
  <2>4. QED
    BY <2>2, <2>3
<1>5. q \in CommandStates /\ q.pc = "syncing" /\ q.password = command[c].password
      /\ q.wallet = wallet /\ \A part \in Parts : q.target[part] = None
  <2>1. [part \in Parts |-> None] \in Targets
    BY DEF Targets
  <2>2. q \in Syncing
    BY <1>1, <1>3, <1>4, <2>1 DEF Preparing, Syncing
  <2>3. QED
    BY <1>3, <2>2 DEF CommandStates
<1>6. ASSUME ~overlapped PROVE Careful(q)
  <2>1. command[c].password \in {password} \cup OwnPasswords /\ WholeCache
    BY <1>1, <1>6 DEF StartInv, AloneInv, Careful
  <2>2. {part \in Parts : file[part] \in Torn} = {}
    BY <2>1, StartAssumption DEF WholeCache, Torn, StartInv, StartTypeOK
  <2>3. wallet.faulty = {}
    BY <1>2, <2>2 DEF FromSeed, Restored
  <2>4. Awaits(q)
    BY <1>4, <1>5, <2>3 DEF Awaits
  <2>5. QED
    BY <1>5, <2>1, <2>4 DEF Careful
<1>7. command' = [command EXCEPT ![c] = q] /\ UNCHANGED <<tip, secrets, cache, overlapped>>
  BY <1>2, <1>3
<1>8. QED
  BY <1>1, <1>5, <1>6, <1>7, CommandOnly

\* A part that hears of the chain's length waits for all that was saved.
LEMMA ReportInv ==
    ASSUME StartInv, NEW c \in Commands, NEW part \in Parts, Report(c, part)
    PROVE  StartInv'
<1>1. command[c] \in Syncing /\ Alive(c) /\ command[c].pc = "syncing"
  BY CommandFields, IdleIsIdle DEF Report, Is, StartInv, StartTypeOK, Alive
<1>2. PICK q : q = [command[c] EXCEPT !.target[part] = tip]
  OBVIOUS
<1>3. command' = [command EXCEPT ![c] = q] /\ UNCHANGED <<tip, secrets, cache, overlapped>>
  BY <1>2 DEF Report
<1>4. [command[c].target EXCEPT ![part] = tip] \in Targets
  BY <1>1 DEF Syncing, Targets, StartInv, StartTypeOK
<1>5. /\ q \in Syncing /\ q.pc = "syncing" /\ q.password = command[c].password
      /\ q.wallet = command[c].wallet /\ q.target = [command[c].target EXCEPT ![part] = tip]
  BY <1>1, <1>2, <1>4 DEF Syncing
<1>6. q \in CommandStates
  BY <1>5 DEF CommandStates
<1>7. ASSUME ~overlapped PROVE Careful(q)
  <2>1. /\ command[c].password \in {password} \cup OwnPasswords
        /\ Awaits(command[c]) /\ WholeCache
    BY <1>1, <1>7 DEF StartInv, AloneInv, Careful
  <2>2. ASSUME NEW x \in Parts
        PROVE  q.target[x] # None => file[x] \in {None} \cup 0..q.target[x]
    <3>1. CASE x = part
      BY <1>1, <1>5, <2>1, <3>1 DEF Syncing, Targets, WholeCache
    <3>2. CASE x # part
      BY <1>1, <1>5, <2>1, <3>2 DEF Syncing, Targets, Awaits
    <3>3. QED
      BY <3>1, <3>2
  <2>3. Awaits(q)
    BY <1>5, <2>1, <2>2 DEF Awaits
  <2>4. QED
    BY <1>5, <2>1, <2>3 DEF Careful
<1>8. QED
  BY <1>1, <1>3, <1>6, <1>7, CommandOnly

\* Applying an event moves one part.
Applied(q, part) == [q EXCEPT !.wallet.applied[part] = @ + 1]
LEMMA Applies ==
    ASSUME NEW q \in Syncing, NEW part \in Parts
    PROVE  LET r == Applied(q, part)
           IN  /\ r \in Syncing /\ r.pc = "syncing" /\ r.password = q.password
               /\ r.target = q.target /\ r.wallet.faulty = q.wallet.faulty
               /\ r.wallet.applied = [q.wallet.applied EXCEPT ![part] = @ + 1]
<1> DEFINE applied == [q.wallet.applied EXCEPT ![part] = @ + 1]
           wallet == [q.wallet EXCEPT !.applied = applied]
<1>1. q.wallet \in Wallets /\ applied \in Positions
  BY DEF Syncing, Wallets, Positions
<1> HIDE DEF applied
<1>2. /\ wallet \in Wallets /\ wallet.applied = applied
      /\ wallet.faulty = q.wallet.faulty
  BY <1>1 DEF Wallets
<1>3. Applied(q, part) = [q EXCEPT !.wallet = wallet]
  BY DEF Applied, applied
<1> HIDE DEF wallet
<1>4. /\ [q EXCEPT !.wallet = wallet] \in Syncing
      /\ [q EXCEPT !.wallet = wallet].pc = "syncing"
      /\ [q EXCEPT !.wallet = wallet].password = q.password
      /\ [q EXCEPT !.wallet = wallet].target = q.target
      /\ [q EXCEPT !.wallet = wallet].wallet = wallet
  BY <1>2 DEF Syncing
<1>5. QED
  BY <1>2, <1>3, <1>4 DEF applied

\* A sub-wallet that applies an event keeps what the command knows.
LEMMA ApplyInv ==
    ASSUME StartInv, NEW c \in Commands, NEW part \in Parts, Apply(c, part)
    PROVE  StartInv'
<1>1. command[c] \in Syncing /\ Alive(c) /\ command[c].pc = "syncing"
  BY CommandFields, IdleIsIdle DEF Apply, Is, StartInv, StartTypeOK, Alive
<1>2. PICK q : q = Applied(command[c], part)
  OBVIOUS
<1>3. command' = [command EXCEPT ![c] = q] /\ UNCHANGED <<tip, secrets, cache, overlapped>>
  BY <1>2 DEF Apply, Applied
<1>4. /\ q \in Syncing /\ q.pc = "syncing" /\ q.password = command[c].password
      /\ q.target = command[c].target /\ q.wallet.faulty = command[c].wallet.faulty
      /\ q.wallet.applied = [command[c].wallet.applied EXCEPT ![part] = @ + 1]
  BY <1>1, <1>2, Applies
<1>5. q \in CommandStates
  BY <1>4 DEF CommandStates
<1>6. ASSUME ~overlapped PROVE Careful(q)
  <2>1. command[c].password \in {password} \cup OwnPasswords /\ Awaits(command[c])
    BY <1>1, <1>6 DEF StartInv, AloneInv, Careful
  <2>2. command[c].wallet.applied \in [Parts -> Nat] /\ tip \in Nat
    BY <1>1 DEF Syncing, Wallets, Positions, StartInv, StartTypeOK
  <2>3. command[c].wallet.applied[part] < tip
    BY DEF Apply
  <2>4. \A x \in Parts : q.wallet.applied[x] <= tip
    BY <1>4, <2>1, <2>2, <2>3 DEF Awaits
  <2>5. Awaits(q)
    BY <1>4, <2>1, <2>4 DEF Awaits
  <2>6. QED
    BY <1>4, <2>1, <2>5 DEF Careful
<1>7. QED
  BY <1>1, <1>3, <1>5, <1>6, CommandOnly

\* A wallet that has applied what it waited for knows what was saved.
LEMMA SyncedInv == ASSUME StartInv, NEW c \in Commands, Synced(c) PROVE StartInv'
<1>1. command[c] \in Syncing /\ Alive(c) /\ command[c].pc = "syncing"
  BY CommandFields, IdleIsIdle DEF Synced, Is, StartInv, StartTypeOK, Alive
<1>2. PICK q : q = [pc |-> "saving", password |-> command[c].password,
                    wallet |-> command[c].wallet, part |-> [part \in Parts |-> "open"]]
  OBVIOUS
<1>3. command' = [command EXCEPT ![c] = q] /\ UNCHANGED <<tip, secrets, cache, overlapped>>
  BY <1>2 DEF Synced
<1>4. /\ q.pc = "saving" /\ q.password = command[c].password
      /\ q.wallet = command[c].wallet /\ \A part \in Parts : q.part[part] = "open"
  BY <1>2
<1>5. q \in CommandStates
  <2>1. [part \in Parts |-> "open"] \in [Parts -> Holds]
    BY DEF Holds
  <2>2. q \in Saving
    BY <1>1, <1>2, <2>1 DEF Saving, Syncing
  <2>3. QED
    BY <2>2 DEF CommandStates
<1>6. ASSUME ~overlapped PROVE Careful(q)
  <2>1. command[c].password \in {password} \cup OwnPasswords /\ Awaits(command[c])
    BY <1>1, <1>6 DEF StartInv, AloneInv, Careful
  <2>2. ASSUME NEW part \in Parts
        PROVE  /\ command[c].wallet.applied[part] = command[c].target[part]
               /\ command[c].target[part] # None
    <3>1. command[c].wallet.applied[part] \in Nat
      BY <1>1 DEF Syncing, Wallets, Positions
    <3>2. QED
      BY <3>1, StartAssumption DEF Synced, Complete, StrictlyComplete
  <2>3. Knows(q.wallet)
    BY <1>4, <2>1, <2>2 DEF Awaits, Knows
  <2>4. Writes(q)
    BY <1>4 DEF Writes
  <2>5. QED
    BY <1>4, <2>1, <2>3, <2>4 DEF Careful
<1>7. QED
  BY <1>1, <1>3, <1>5, <1>6, CommandOnly

\* A writer's hold on one part changes.
Held(q, part, hold) == [q EXCEPT !.part[part] = hold]
LEMMA HoldsPart ==
    ASSUME NEW q \in Saving, NEW part \in Parts, NEW hold \in Holds
    PROVE  LET r == Held(q, part, hold)
           IN  /\ r \in Saving /\ r.wallet = q.wallet /\ r.password = q.password
               /\ r.part[part] = hold
               /\ \A other \in Parts \ {part} : r.part[other] = q.part[other]
<1> DEFINE r == Held(q, part, hold)
<1>1. [q.part EXCEPT ![part] = hold] \in [Parts -> Holds]
  BY DEF Saving
<1>2. r \in Saving /\ r.wallet = q.wallet /\ r.password = q.password
      /\ r.part = [q.part EXCEPT ![part] = hold]
  BY <1>1 DEF Saving, Held
<1>3. r.part[part] = hold /\ \A other \in Parts \ {part} : r.part[other] = q.part[other]
  <2> HIDE DEF r
  <2>1. QED
    BY <1>2 DEF Saving
<1>4. QED
  BY <1>2, <1>3

\* A state file that is kept, or that the wallet's position replaces.
LEMMA Replaced ==
    ASSUME NEW last \in Nat, NEW position \in Nat, position <= last,
           NEW old \in {None} \cup 0..last, old \in {None} \cup 0..position,
           NEW new \in {old, position}
    PROVE  new \in {None} \cup 0..last /\ new \in {None} \cup 0..position
  OBVIOUS

\* A step of the save, on one part and its files.
LEMMA HoldInv ==
    ASSUME StartInv, NEW c \in Commands, NEW part \in Parts, NEW hold \in Holds,
           command[c].pc = "saving",
           command' = [command EXCEPT ![c].part[part] = hold],
           UNCHANGED <<tip, secrets, overlapped>>,
           file' \in [Parts -> PartContents], temporary' \in [Parts -> PartContents],
           \A other \in Parts \ {part} :
               file'[other] = file[other] /\ temporary'[other] = temporary[other],
           ~overlapped =>
               /\ file'[part] \in {file[part], command[c].wallet.applied[part]}
               /\ hold \in {"open", "to temporary", "written", "done"}
               /\ hold = "to temporary" => temporary'[part] = Unwritten
               /\ hold = "written" => temporary'[part] = command[c].wallet.applied[part]
    PROVE  StartInv'
<1>1. command[c] \in Saving /\ Alive(c)
  BY CommandFields, IdleIsIdle DEF StartInv, StartTypeOK, Alive
<1>2. PICK q : q = Held(command[c], part, hold)
  OBVIOUS
<1>3. command' = [command EXCEPT ![c] = q]
  BY <1>2 DEF Held
<1>4. /\ q \in Saving /\ q.wallet = command[c].wallet /\ q.password = command[c].password
      /\ q.part[part] = hold
      /\ \A other \in Parts \ {part} : q.part[other] = command[c].part[other]
  BY <1>1, <1>2, HoldsPart
<1>5. q \in CommandStates /\ q.pc = "saving"
  BY <1>4 DEF CommandStates, Saving
<1>6. ASSUME ~overlapped PROVE WholeCache' /\ OnePassword' /\ Careful(q)'
  <2>1. /\ WholeCache /\ OnePassword /\ Writes(command[c]) /\ Knows(command[c].wallet)
        /\ command[c].password \in {password} \cup OwnPasswords
        /\ tip' = tip /\ password' = password /\ database' = database
    BY <1>6 DEF StartInv, AloneInv, Careful, secrets
  <2>2. \A x \in Parts : command[c].wallet.applied[x] \in Nat
    BY <1>1 DEF Saving, Wallets, Positions
  <2>3. tip \in Nat
    BY DEF StartInv, StartTypeOK
  <2>4. ASSUME NEW x \in Parts
        PROVE  /\ file'[x] \in {None} \cup 0..tip
               /\ file'[x] \in {None} \cup 0..command[c].wallet.applied[x]
    <3>1. /\ file[x] \in {None} \cup 0..tip
          /\ file[x] \in {None} \cup 0..command[c].wallet.applied[x]
          /\ command[c].wallet.applied[x] <= tip
      BY <2>1 DEF WholeCache, Knows
    <3>2. /\ tip \in Nat /\ command[c].wallet.applied[x] \in Nat
          /\ file'[x] \in {file[x], command[c].wallet.applied[x]}
      BY <1>6, <2>2, <2>3
    <3>3. QED
      BY <3>1, <3>2, Replaced
  <2>5. ASSUME NEW x \in Parts
        PROVE  /\ q.part[x] \in {"open", "to temporary", "written", "done"}
               /\ q.part[x] = "to temporary" => temporary'[x] = Unwritten
               /\ q.part[x] = "written" => temporary'[x] = q.wallet.applied[x]
    <3>1. CASE x = part
      BY <1>4, <1>6, <3>1
    <3>2. CASE x # part
      BY <1>4, <2>1, <3>2 DEF Writes
    <3>3. QED
      BY <3>1, <3>2
  <2>6. WholeCache' /\ OnePassword'
    BY <2>1, <2>4 DEF WholeCache, OnePassword
  <2>7. Writes(q)'
    BY <2>5 DEF Writes
  <2>8. Knows(q.wallet)'
    BY <1>4, <2>1, <2>4 DEF Knows
  <2>9. q.password \in {password'} \cup OwnPasswords
    BY <1>4, <2>1
  <2>10. QED
    BY <1>5, <2>6, <2>7, <2>8, <2>9 DEF Careful
<1>7. /\ command' \in [Commands -> CommandStates]
      /\ ~overlapped' => AloneInv'
  BY <1>1, <1>3, <1>5, <1>6, OneMoves
<1>8. StartTypeOK'
  BY <1>7 DEF StartInv, StartTypeOK, secrets
<1>9. QED
  BY <1>7, <1>8 DEF StartInv

\* Opening empties the temporary file.
LEMMA OpenInv ==
    ASSUME StartInv, NEW c \in Commands, NEW part \in Parts, OpenTemporary(c, part)
    PROVE  StartInv'
<1>1. /\ command[c].pc = "saving"
      /\ command' = [command EXCEPT ![c].part[part] = "to temporary"]
      /\ temporary' = [temporary EXCEPT ![part] = Unwritten]
      /\ UNCHANGED <<tip, secrets, file, overlapped>>
  BY DEF OpenTemporary, At, Is
<1>2. /\ file' \in [Parts -> PartContents] /\ temporary' \in [Parts -> PartContents]
      /\ temporary'[part] = Unwritten /\ file'[part] = file[part]
      /\ \A other \in Parts \ {part} :
             file'[other] = file[other] /\ temporary'[other] = temporary[other]
  BY <1>1 DEF StartInv, StartTypeOK, PartContents, Torn
<1>3. "to temporary" \in Holds
  BY DEF Holds
<1>4. QED
  BY <1>1, <1>2, <1>3, HoldInv

\* What is written goes to the file that was opened, under the name it has now.
LEMMA WriteInv ==
    ASSUME StartInv, NEW c \in Commands, NEW part \in Parts, WritePart(c, part)
    PROVE  StartInv'
<1> DEFINE state == serializeState(c, part)
<1>1. /\ command[c].pc = "saving"
      /\ command' = [command EXCEPT ![c].part[part] = "written"]
      /\ UNCHANGED <<tip, secrets, overlapped>>
  BY DEF WritePart, At, Is
<1>2. state \in Nat \cup Torn
  <2>1. command[c] \in Saving
    BY <1>1, CommandFields DEF StartInv, StartTypeOK
  <2>2. command[c].wallet.applied[part] \in Nat
    BY <2>1 DEF Saving, Wallets, Positions
  <2>3. QED
    BY <2>2 DEF serializeState, Torn
<1>3. ASSUME ~overlapped
      PROVE  /\ At(c, part) \notin {"to file", "to nothing"}
             /\ At(c, part) = "to temporary" => temporary[part] = Unwritten
             /\ state = command[c].wallet.applied[part]
  <2>1. Writes(command[c]) /\ Knows(command[c].wallet)
    BY <1>1, <1>3 DEF StartInv, AloneInv, Careful
  <2>2. QED
    BY <1>1, <2>1 DEF At, Is, Writes, Knows, serializeState
<1>4. \A content : Over(content, state) \subseteq PartContents
  BY <1>2 DEF Over, PartContents, Torn
<1>5. "written" \in Holds
  BY DEF Holds
<1> HIDE DEF state
<1>6. CASE At(c, part) = "to temporary"
  <2>1. PICK content \in Over(temporary[part], state) :
            temporary' = [temporary EXCEPT ![part] = content] /\ UNCHANGED file
    BY <1>6 DEF WritePart, state
  <2>2. /\ file' \in [Parts -> PartContents] /\ temporary' \in [Parts -> PartContents]
        /\ temporary'[part] = content /\ file'[part] = file[part]
        /\ \A other \in Parts \ {part} :
               file'[other] = file[other] /\ temporary'[other] = temporary[other]
    BY <1>4, <2>1 DEF StartInv, StartTypeOK
  <2>3. ~overlapped => content = command[c].wallet.applied[part]
    BY <1>3, <1>6, <2>1 DEF Over
  <2>4. QED
    BY <1>1, <1>5, <2>2, <2>3, HoldInv
<1>7. CASE At(c, part) = "to file"
  <2>1. PICK content \in Over(file[part], state) :
            file' = [file EXCEPT ![part] = content] /\ UNCHANGED temporary
    BY <1>7 DEF WritePart, state
  <2>2. /\ file' \in [Parts -> PartContents] /\ temporary' \in [Parts -> PartContents]
        /\ \A other \in Parts \ {part} :
               file'[other] = file[other] /\ temporary'[other] = temporary[other]
    BY <1>4, <2>1 DEF StartInv, StartTypeOK
  <2>3. QED
    BY <1>1, <1>3, <1>5, <1>7, <2>2, HoldInv
<1>8. CASE At(c, part) = "to nothing"
  <2>1. UNCHANGED <<file, temporary>>
    BY <1>8 DEF WritePart, cache
  <2>2. file' \in [Parts -> PartContents] /\ temporary' \in [Parts -> PartContents]
    BY <2>1 DEF StartInv, StartTypeOK
  <2>3. QED
    BY <1>1, <1>3, <1>5, <1>8, <2>1, <2>2, HoldInv
<1>9. QED
  BY <1>6, <1>7, <1>8 DEF WritePart

\* The temporary file takes the place of the state file; every writer keeps its own.
LEMMA RenameInv ==
    ASSUME StartInv, NEW c \in Commands, NEW part \in Parts, Rename(c, part)
    PROVE  StartInv'
<1>1. /\ command[c].pc = "saving" /\ At(c, part) = "written"
      /\ command[c].part[part] = "written"
      /\ UNCHANGED <<tip, secrets, overlapped>>
  BY DEF Rename, At, Is
<1>2. command[c] \in Saving /\ Alive(c) /\ "done" \in Holds
  BY <1>1, CommandFields, IdleIsIdle DEF StartInv, StartTypeOK, Alive, Holds
<1>3. CASE temporary[part] = None
  <2>1. /\ command' = [command EXCEPT ![c].part[part] = "done"]
        /\ UNCHANGED <<file, temporary>>
    BY <1>3 DEF Rename, cache
  <2>2. file' \in [Parts -> PartContents] /\ temporary' \in [Parts -> PartContents]
    BY <2>1 DEF StartInv, StartTypeOK
  <2>3. QED
    BY <1>1, <1>2, <2>1, <2>2, HoldInv
<1>4. CASE temporary[part] # None
  <2>1. /\ file' = [file EXCEPT ![part] = temporary[part]]
        /\ temporary' = [temporary EXCEPT ![part] = None]
        /\ command' = Renamed(c, part)
    BY <1>4 DEF Rename
  <2>2. /\ file' \in [Parts -> PartContents] /\ temporary' \in [Parts -> PartContents]
        /\ file'[part] = temporary[part]
        /\ \A other \in Parts \ {part} :
               file'[other] = file[other] /\ temporary'[other] = temporary[other]
    BY <2>1 DEF StartInv, StartTypeOK, PartContents
  <2>3. ASSUME NEW d \in Commands
        PROVE  \/ command[d].pc # "saving" /\ command'[d] = command[d]
               \/ /\ command[d].pc = "saving"
                  /\ \E hold \in Holds : command'[d] = Held(command[d], part, hold)
    <3>1. CASE command[d].pc # "saving"
      BY <2>1, <3>1 DEF Renamed, Is
    <3>2. CASE command[d].pc = "saving"
      <4> DEFINE mine == command[d].part[part]
                 hold == IF d = c THEN "done"
                         ELSE IF mine = "to temporary" THEN "to file"
                         ELSE IF mine = "to file" THEN "to nothing" ELSE mine
      <4>1. command[d] \in Saving
        BY <3>2, CommandFields DEF StartInv, StartTypeOK
      <4>2. mine \in Holds
        BY <4>1 DEF Saving
      <4>3. hold \in Holds
        BY <4>2 DEF Holds
      <4>4. command'[d] = Held(command[d], part, hold)
        BY <2>1, <3>2 DEF Renamed, Is, Held
      <4>5. QED
        BY <3>2, <4>3, <4>4
    <3>3. QED
      BY <3>1, <3>2
  <2>4. ASSUME NEW d \in Commands PROVE command'[d] \in CommandStates
    <3>1. CASE command'[d] = command[d]
      BY <3>1 DEF StartInv, StartTypeOK
    <3>2. CASE command[d].pc = "saving" /\
               \E hold \in Holds : command'[d] = Held(command[d], part, hold)
      <4>1. command[d] \in Saving
        BY <3>2, CommandFields DEF StartInv, StartTypeOK
      <4>2. QED
        BY <3>2, <4>1, HoldsPart DEF CommandStates
    <3>3. QED
      BY <2>3, <3>1, <3>2
  <2>5. command' \in [Commands -> CommandStates]
    BY <2>1, <2>4 DEF Renamed
  <2>6. StartTypeOK'
    BY <1>1, <2>2, <2>5 DEF StartInv, StartTypeOK, secrets
  <2>7. ASSUME ~overlapped PROVE StartInv'
    <3>1. \A d \in Commands \ {c} : command[d] = Idle
      BY <1>2, <2>7 DEF StartInv, AloneInv, Alive
    <3>2. command' = [command EXCEPT ![c].part[part] = "done"]
      <4>1. ASSUME NEW d \in Commands \ {c} PROVE command'[d] = command[d]
        BY <2>3, <3>1, IdleIsIdle
      <4>2. command'[c] = [command[c] EXCEPT !.part[part] = "done"]
        BY <1>1, <2>1 DEF Renamed, Is
      <4>3. command \in [Commands -> CommandStates]
        BY DEF StartInv, StartTypeOK
      <4>4. QED
        BY <2>5, <4>1, <4>2, <4>3
    <3>3. temporary[part] = command[c].wallet.applied[part]
      BY <1>1, <2>7 DEF StartInv, AloneInv, Careful, Writes
    <3>4. QED
      BY <1>1, <1>2, <2>2, <3>2, <3>3, HoldInv
  <2>8. QED
    BY <1>1, <2>6, <2>7 DEF StartInv
<1>5. QED
  BY <1>3, <1>4

\* The private state is opened with the command's own password.
LEMMA SavedInv == ASSUME StartInv, NEW c \in Commands, Saved(c) PROVE StartInv'
<1>1. command[c] \in Saving /\ Alive(c) /\ command[c].pc = "saving"
  BY CommandFields, IdleIsIdle DEF Saved, Is, StartInv, StartTypeOK, Alive
<1>2. /\ database' = IF database = None THEN command[c].password ELSE database
      /\ UNCHANGED <<tip, password, file, temporary, overlapped>>
  BY DEF Saved, cache
<1>3. database' \in Passwords
  BY <1>1, <1>2 DEF Saving, StartInv, StartTypeOK
<1>4. PICK ready : ready = [pc |-> "ready", wallet |-> command[c].wallet]
  OBVIOUS
<1>5. PICK q \in {Idle, ready} : command' = [command EXCEPT ![c] = q]
  <2>1. CASE database' # command[c].password
    BY <2>1 DEF Saved, Leave
  <2>2. CASE database' = command[c].password
    BY <1>4, <2>2 DEF Saved
  <2>3. QED
    BY <2>1, <2>2
<1>6. Idle \in CommandStates /\ ready \in CommandStates
  BY <1>1, <1>4 DEF CommandStates, Saving, Working
<1>7. Idle.pc = "idle" /\ ready.pc = "ready" /\ ready.wallet = command[c].wallet
  BY <1>4, IdleIsIdle
<1>8. q \in CommandStates
  BY <1>5, <1>6
<1>9. ASSUME ~overlapped PROVE WholeCache' /\ OnePassword' /\ Careful(q)'
  <2>1. /\ command[c].password \in {password} \cup OwnPasswords
        /\ WholeCache /\ OnePassword /\ Knows(command[c].wallet)
    BY <1>1, <1>9 DEF StartInv, AloneInv, Careful
  <2>2. WholeCache'
    BY <1>2, <2>1 DEF WholeCache
  <2>3. OnePassword'
    BY <1>2, <2>1 DEF OnePassword
  <2>4. Careful(Idle)' /\ Careful(ready)'
    BY <1>2, <1>7, <2>1 DEF Careful, Knows, Idle
  <2>5. Careful(q)'
    BY <1>5, <2>4
  <2>6. QED
    BY <2>2, <2>3, <2>5
<1>10. /\ command' \in [Commands -> CommandStates]
       /\ ~overlapped' => AloneInv'
  BY <1>1, <1>2, <1>5, <1>8, <1>9, OneMoves
<1>11. StartTypeOK'
  BY <1>2, <1>3, <1>10 DEF StartInv, StartTypeOK
<1>12. QED
  BY <1>10, <1>11 DEF StartInv

\* Every other step of a command ends it.
LEMMA EndInv ==
    ASSUME StartInv, NEW c \in Commands, Deadline(c) \/ Conclude(c) \/ Kill(c)
    PROVE  StartInv'
<1>1. Alive(c)
  BY IdleIsIdle DEF Deadline, Conclude, Kill, Is, Alive
<1>2. Leave(c) /\ UNCHANGED <<tip, secrets, cache, overlapped>>
  BY DEF Deadline, Conclude, Kill
<1>3. QED
  BY <1>1, <1>2, LeaveInv

\* The chain grows under the wallets.
LEMMA GrowInv == StartInv /\ Grow => StartInv'
<1> SUFFICES ASSUME StartInv, Grow PROVE StartInv'
  OBVIOUS
<1>1. /\ tip \in Nat /\ tip' = tip + 1
      /\ UNCHANGED <<password, database, file, temporary, command, overlapped>>
  BY DEF Grow, secrets, cache, StartInv, StartTypeOK
<1>2. StartTypeOK'
  BY <1>1 DEF StartInv, StartTypeOK
<1>3. ASSUME ~overlapped PROVE AloneInv'
  <2>1. AloneInv
    BY <1>3 DEF StartInv
  <2>2. WholeCache' /\ OnePassword'
    BY <1>1, <2>1 DEF AloneInv, WholeCache, OnePassword
  <2>3. ASSUME NEW c \in Commands PROVE Careful(command[c])'
    <3>1. command[c] \in CommandStates /\ Careful(command[c])
      BY <2>1 DEF AloneInv, StartInv, StartTypeOK
    <3>2. PICK q : q = command[c]
      OBVIOUS
    <3>3. CASE q.pc = "syncing"
      <4>1. Awaits(q) /\ \A part \in Parts : q.wallet.applied[part] \in Nat
        BY <3>1, <3>2, <3>3, CommandFields DEF Careful, Syncing, Wallets, Positions
      <4>2. Awaits(q)'
        BY <1>1, <4>1 DEF Awaits
      <4>3. QED
        BY <1>1, <3>1, <3>2, <3>3, <4>2 DEF Careful, Awaits
    <3>4. CASE q.pc \in {"saving", "ready"}
      <4>1. Knows(q.wallet) /\ \A part \in Parts : q.wallet.applied[part] \in Nat
        BY <3>1, <3>2, <3>4, CommandFields DEF Careful, Saving, Working, Wallets, Positions
      <4>2. Knows(q.wallet)'
        BY <1>1, <4>1 DEF Knows
      <4>3. QED
        BY <1>1, <3>1, <3>2, <3>4, <4>2 DEF Careful, Knows, Writes
    <3>5. CASE q.pc \notin {"syncing", "saving", "ready"}
      BY <1>1, <3>1, <3>2, <3>5 DEF Careful
    <3>6. QED
      BY <3>3, <3>4, <3>5
  <2>4. \A c, d \in Commands : Alive(c)' /\ Alive(d)' => c = d
    BY <1>1, <2>1 DEF AloneInv, Alive
  <2>5. QED
    BY <2>2, <2>3, <2>4 DEF AloneInv
<1>4. QED
  BY <1>1, <1>2, <1>3 DEF StartInv

\* The start state is right.
LEMMA StartInitInv == StartInit => StartInv
<1> SUFFICES ASSUME StartInit PROVE StartInv
  OBVIOUS
<1>1. StartTypeOK
  BY DEF StartInit, StartTypeOK, Passwords, PartContents, CommandStates
<1>2. AloneInv
  BY IdleIsIdle DEF StartInit, AloneInv, WholeCache, OnePassword, Careful, Alive
<1>3. QED
  BY <1>1, <1>2 DEF StartInv

\* Every step keeps the invariant.
LEMMA StartStepInv == StartInv /\ [StartNext]_startVars => StartInv'
<1> SUFFICES ASSUME StartInv, [StartNext]_startVars PROVE StartInv'
  OBVIOUS
<1>1. CASE UNCHANGED startVars
  BY <1>1 DEF startVars, StartInv, StartTypeOK, AloneInv, WholeCache, OnePassword, Careful,
              Awaits, Writes, Knows, Alive
<1>2. CASE Grow
  BY <1>2, GrowInv
<1>3. ASSUME NEW c \in Commands, Step(c) PROVE StartInv'
  <2>1. ASSUME NEW own \in OwnPasswords \cup {None}, NEW fresh \in BOOLEAN,
               StartCommand(c, own, fresh)
        PROVE  StartInv'
    BY <2>1, StartCommandInv
  <2>2. ASSUME NEW part \in Parts, Report(c, part) \/ Apply(c, part) PROVE StartInv'
    BY <2>2, ReportInv, ApplyInv
  <2>3. ASSUME NEW part \in Parts, Save(c, part) PROVE StartInv'
    BY <2>3, OpenInv, WriteInv, RenameInv DEF Save
  <2>4. QED
    BY <1>3, <2>1, <2>2, <2>3, PasswordInv, BuildInv, SyncedInv, SavedInv, EndInv DEF Step
<1>4. QED
  BY <1>1, <1>2, <1>3 DEF StartNext

\* As long as commands run one at a time, wherever they are killed, a wallet that is put
\* to use was restored from no torn file and is not behind what was saved (restore,
\* syncWallet, saveWalletSyncState).
THEOREM SoundWallets == StartSpec => []SoundWhenUsed
<1>1. StartInv => SoundWhenUsed
  BY DEF StartInv, AloneInv, Careful, Knows, SoundWhenUsed
<1>2. QED
  BY <1>1, StartInitInv, StartStepInv, PTL DEF StartSpec

\* Commands that run one at a time leave a whole cache, and private state that opens with
\* the stored password or the operator's, wherever they are killed (saveWalletSyncState,
\* ensurePrivateStatePassword).
THEOREM AloneSafety == StartSpec => []AloneIsSafe
<1>1. StartInv => AloneIsSafe
  BY StartAssumption DEF StartInv, StartTypeOK, AloneInv, WholeCache, OnePassword,
                         AloneIsSafe, Torn
<1>2. QED
  BY <1>1, StartInitInv, StartStepInv, PTL DEF StartSpec

-----------------------------------------------------------------------------
(* AgentRedeem: however often redeem commands fail or are killed, at most one *)
(* redeem transaction per vault is in flight, and a record is settled only if *)
(* its transaction is. The argument: of a vault's records all but the newest  *)
(* are settled, and only the newest of the file can be the running command's. *)

\* A redeem is recorded once.
Distinct == \A i, j \in DOMAIN redeems : redeems[i].id = redeems[j].id => i = j

\* The running command works on the newest record, which is not settled.
Current ==
    pc \in Running =>
        /\ redeems # <<>>
        /\ redeems[Len(redeems)].id = id
        /\ redeems[Len(redeems)].status \in {"prepared", "pending"}

\* A transaction is in one place, and is not sent before Submit.
OnePlace ==
    /\ mempool \cap (paid \cup rejected) = {}
    /\ pc = "prepared" => id \notin mempool \cup paid \cup rejected

Inv == TypeOK /\ Distinct /\ Current /\ OnePlace /\ SettledTruthfully

-----------------------------------------------------------------------------
\* Writing a status keeps the records but for the status of the running redeem.
LEMMA WithStatusWrites ==
    ASSUME TypeOK, Distinct,
           NEW status \in {"prepared", "pending", "confirmed", "failed"},
           redeems' = WithStatus(status)
    PROVE  /\ redeems' \in Seq(Redeem)
           /\ Len(redeems') = Len(redeems)
           /\ DOMAIN redeems' = DOMAIN redeems
           /\ \A i \in DOMAIN redeems :
                  /\ redeems'[i].id = redeems[i].id
                  /\ redeems'[i].vault = redeems[i].vault
                  /\ redeems'[i].status =
                         IF redeems[i].id = id THEN status ELSE redeems[i].status
           /\ Recorded' = Recorded
<1> DEFINE n == Len(redeems)
           rec(i) == IF redeems[i].id = id
                     THEN [redeems[i] EXCEPT !.status = status] ELSE redeems[i]
<1>1. n \in Nat /\ redeems \in [1..n -> Redeem] /\ DOMAIN redeems = 1..n
  BY LenProperties DEF TypeOK
<1>2. redeems' = [i \in 1..n |-> rec(i)]
  BY <1>1 DEF WithStatus
<1>3. \A i \in 1..n : rec(i) \in Redeem
  BY <1>1 DEF Redeem
<1>4. \A i \in 1..n :
         /\ rec(i).id = redeems[i].id
         /\ rec(i).vault = redeems[i].vault
         /\ rec(i).status = IF redeems[i].id = id THEN status ELSE redeems[i].status
  BY <1>1 DEF Redeem
<1> HIDE DEF rec
<1>5. redeems' \in Seq(Redeem) /\ Len(redeems') = n
  BY <1>1, <1>2, <1>3
<1>6. QED
  BY <1>1, <1>2, <1>4, <1>5 DEF Recorded

\* Recording a redeem adds one record.
LEMMA PreparedAppends ==
    ASSUME TypeOK, NEW new \in Ids, NEW vault \in Vaults, redeems' = Prepared(new, vault)
    PROVE  /\ redeems' \in Seq(Redeem)
           /\ Len(redeems') = Len(redeems) + 1
           /\ Len(redeems) \in Nat
           /\ DOMAIN redeems = 1..Len(redeems)
           /\ DOMAIN redeems' = 1..(Len(redeems) + 1)
           /\ \A i \in 1..Len(redeems) : redeems'[i] = redeems[i]
           /\ redeems'[Len(redeems) + 1] =
                  [id |-> new, vault |-> vault, status |-> "prepared"]
  BY LenProperties, AppendProperties DEF TypeOK, Prepared, Redeem

\* The start state is right.
LEMMA InitInv == Init => Inv
  BY DEF Init, Inv, TypeOK, Distinct, Current, OnePlace, SettledTruthfully, Ended, Running,
         Recorded

\* A command that starts is refused or records a redeem, when all others are settled.
LEMMA StepStart ==
    ASSUME Inv, NEW new \in Ids, NEW vault \in Vaults, Start(new, vault) PROVE Inv'
<1>1. CASE Unresolved(vault) # {}
  BY <1>1 DEF Start, Inv, TypeOK, Distinct, Current, OnePlace, SettledTruthfully, chain,
              Ended, Running, Recorded
<1>2. CASE Unresolved(vault) = {}
  <2> DEFINE n == Len(redeems)
  <2>1. /\ redeems' = Prepared(new, vault) /\ new \notin Recorded
        /\ pc' = "prepared" /\ id' = new /\ UNCHANGED <<mempool, paid, rejected>>
    BY <1>2 DEF Start, chain
  <2>2. /\ redeems' \in Seq(Redeem) /\ Len(redeems') = n + 1 /\ n \in Nat
        /\ DOMAIN redeems = 1..n /\ DOMAIN redeems' = 1..(n + 1)
        /\ \A i \in 1..n : redeems'[i] = redeems[i]
        /\ redeems'[n + 1] = [id |-> new, vault |-> vault, status |-> "prepared"]
    BY <2>1, PreparedAppends DEF Inv
  <2>3. Recorded \subseteq Recorded'
    BY <2>2 DEF Recorded
  <2>4. TypeOK'
    BY <2>1, <2>2, <2>3 DEF Inv, TypeOK, Running
  <2>5. Distinct'
    BY <2>1, <2>2 DEF Inv, Distinct, Recorded
  <2>6. Current'
    BY <2>1, <2>2 DEF Current
  <2>7. OnePlace'
    BY <2>1 DEF Inv, TypeOK, OnePlace
  <2>8. \A i \in 1..n :
            redeems[i].vault = vault => redeems[i].status \in {"confirmed", "failed"}
    <3>1. redeems \in [1..n -> Redeem]
      BY <2>2, LenProperties DEF Inv, TypeOK
    <3>2. QED
      BY <1>2, <2>2, <3>1 DEF Unresolved, Redeem
  <2>9. SettledTruthfully'
    BY <2>1, <2>2, <2>8 DEF Inv, SettledTruthfully
  <2>10. QED
    BY <2>4, <2>5, <2>6, <2>7, <2>9 DEF Inv
<1>3. QED
  BY <1>1, <1>2

\* A command that writes a status keeps the invariant if the status is true of the chain
\* and either the command ends or the record stays open.
LEMMA StepStatus ==
    ASSUME Inv, pc \in Running, NEW status \in {"pending", "confirmed", "failed"},
           redeems' = WithStatus(status), UNCHANGED <<id, chain>>,
           status = "confirmed" => id \in paid,
           status = "failed" => id \in rejected,
           \/ pc' = "idle"
           \/ pc' = "watching" /\ status = "pending"
    PROVE  Inv'
<1> DEFINE n == Len(redeems)
<1>1. /\ redeems' \in Seq(Redeem) /\ Len(redeems') = n /\ DOMAIN redeems' = DOMAIN redeems
      /\ \A i \in DOMAIN redeems :
             /\ redeems'[i].id = redeems[i].id
             /\ redeems'[i].vault = redeems[i].vault
             /\ redeems'[i].status =
                    IF redeems[i].id = id THEN status ELSE redeems[i].status
      /\ Recorded' = Recorded
  BY WithStatusWrites DEF Inv
<1>2. n \in Nat /\ DOMAIN redeems = 1..n
  BY LenProperties DEF Inv, TypeOK
<1>3. n # 0 /\ n \in DOMAIN redeems /\ redeems[n].id = id
  BY <1>2, EmptySeq DEF Inv, Current, TypeOK
<1>4. TypeOK'
  BY <1>1 DEF Inv, TypeOK, chain, Ended, Running
<1>5. Distinct'
  BY <1>1 DEF Inv, Distinct
<1>6. Current'
  <2>1. ASSUME pc' \in Running PROVE redeems'[n].id = id /\ redeems'[n].status = "pending"
    BY <1>1, <1>3, <2>1 DEF Running
  <2>2. redeems' # <<>>
    BY <1>1, <1>2, <1>3, EmptySeq
  <2>3. QED
    BY <1>1, <2>1, <2>2 DEF Current
<1>7. OnePlace'
  BY DEF Inv, OnePlace, chain
<1>8. SettledTruthfully'
  <2>1. \A i \in DOMAIN redeems : i < n => redeems[i].id # id
    BY <1>2, <1>3 DEF Inv, Distinct
  <2>2. QED
    BY <1>1, <1>2, <2>1 DEF Inv, SettledTruthfully, chain
<1>9. QED
  BY <1>4, <1>5, <1>6, <1>7, <1>8 DEF Inv

\* Every other action leaves the file alone.
LEMMA StepOther ==
    ASSUME Inv, [Next]_vars, UNCHANGED <<redeems, id>> PROVE Inv'
<1>1. ASSUME Submit PROVE Inv'
  <2>1. id \in Recorded
    <3>1. Len(redeems) \in DOMAIN redeems /\ redeems[Len(redeems)].id = id
      BY <1>1, EmptySeq, LenProperties DEF Submit, Inv, TypeOK, Current, Running
    <3>2. QED
      BY <3>1 DEF Recorded
  <2>2. QED
    BY <1>1, <2>1 DEF Submit, Inv, TypeOK, Distinct, Current, OnePlace, SettledTruthfully,
                      Running, Recorded
<1>2. ASSUME NEW tx \in mempool, Include(tx) PROVE Inv'
  BY <1>2 DEF Include, Inv, TypeOK, Distinct, Current, OnePlace, SettledTruthfully, Recorded
<1>3. CASE UNCHANGED chain
  <2>1. pc' \in Ended \cup Running /\ (pc' \in Running => pc \in Running)
        /\ (pc' = "prepared" => pc = "prepared")
    <3>1. CASE UNCHANGED vars
      BY <3>1 DEF vars, Inv, TypeOK
    <3>2. ASSUME NEW new \in Ids, NEW vault \in Vaults, Start(new, vault)
          PROVE  pc' = "refused" \/ pc' = pc
      <4>1. CASE Unresolved(vault) # {}
        BY <3>2, <4>1 DEF Start
      <4>2. CASE Unresolved(vault) = {}
        <5>1. Len(redeems') = Len(redeems) + 1 /\ Len(redeems) \in Nat
          BY <3>2, <4>2, PreparedAppends DEF Start, Inv
        <5>2. QED
          BY <5>1
      <4>3. QED
        BY <4>1, <4>2
    <3>3. CASE Mark \/ Finalized \/ Throw \/ Crash
      BY <3>3 DEF Mark, Finalized, Throw, Crash, Ended, Running
    <3>4. CASE Submit
      BY <3>4 DEF Submit, Running
    <3>5. ASSUME NEW tx \in mempool, Include(tx) PROVE pc' = pc
      BY <3>5 DEF Include
    <3>6. QED
      BY <3>1, <3>2, <3>3, <3>4, <3>5 DEF Next, Inv, TypeOK, Ended, Running
  <2>2. QED
    BY <1>3, <2>1 DEF chain, Inv, TypeOK, Distinct, Current, OnePlace, SettledTruthfully,
                      Recorded
<1>4. QED
  <2>1. ASSUME NEW new \in Ids, NEW vault \in Vaults, Start(new, vault)
        PROVE  UNCHANGED chain
    BY <2>1 DEF Start
  <2>2. CASE Mark \/ Finalized \/ Throw \/ Crash
    BY <1>3, <2>2 DEF Mark, Finalized, Throw, Crash, chain
  <2>3. CASE UNCHANGED vars
    BY <1>3, <2>3 DEF vars
  <2>4. QED
    BY <1>1, <1>2, <1>3, <2>1, <2>2, <2>3 DEF Next

\* Every step keeps the invariant.
LEMMA StepInv == Inv /\ [Next]_vars => Inv'
<1> SUFFICES ASSUME Inv, [Next]_vars PROVE Inv'
  OBVIOUS
<1>1. CASE UNCHANGED <<redeems, id>>
  BY <1>1, StepOther
<1>2. CASE UNCHANGED vars
  BY <1>1, <1>2 DEF vars
<1>3. ASSUME NEW new \in Ids, NEW vault \in Vaults, Start(new, vault) PROVE Inv'
  BY <1>3, StepStart
<1>4. CASE Mark
  <2>1. CASE pc' = "watching" /\ redeems' = WithStatus("pending")
    BY <1>4, <2>1, StepStatus DEF Mark, Running
  <2>2. CASE UNCHANGED redeems
    BY <1>1, <1>4, <2>2 DEF Mark
  <2>3. QED
    BY <1>4, <2>1, <2>2 DEF Mark
<1>5. CASE Finalized
  <2>1. CASE id \in paid /\ redeems' = WithStatus("confirmed")
    BY <1>5, <2>1, StepStatus DEF Finalized, Running
  <2>2. CASE id \in rejected /\ redeems' = WithStatus("failed")
    BY <1>5, <2>2, StepStatus DEF Finalized, Running
  <2>3. CASE UNCHANGED redeems
    BY <1>1, <1>5, <2>3 DEF Finalized
  <2>4. QED
    BY <1>5, <2>1, <2>2, <2>3 DEF Finalized, AfterError
<1>6. CASE Submit \/ Throw \/ Crash
  BY <1>1, <1>6 DEF Submit, Throw, Crash, AfterError
<1>7. ASSUME NEW tx \in mempool, Include(tx) PROVE Inv'
  BY <1>1, <1>7 DEF Include
<1>8. QED
  BY <1>2, <1>3, <1>4, <1>5, <1>6, <1>7 DEF Next

\* Every reachable state satisfies the invariant.
LEMMA Invariance == Spec => []Inv
  BY InitInv, StepInv, PTL DEF Spec

-----------------------------------------------------------------------------
\* The records and the command keep their types.
THEOREM TypeCorrect == Spec => []TypeOK
<1>1. Inv => TypeOK
  BY DEF Inv
<1>2. QED
  BY <1>1, Invariance, PTL

\* A record is settled only if its transaction is (redeemCommand's catch clause).
THEOREM SettledMeansFinal == Spec => []SettledTruthfully
<1>1. Inv => SettledTruthfully
  BY DEF Inv
<1>2. QED
  BY <1>1, Invariance, PTL

\* Whatever fails, a wallet has at most one redeem per vault in flight.
THEOREM OneRedeemInFlight == Spec => []OneInFlight
<1>1. ASSUME Inv PROVE OneInFlight
  <2> SUFFICES ASSUME NEW i \in DOMAIN redeems, NEW j \in DOMAIN redeems,
                      redeems[i].vault = redeems[j].vault,
                      redeems[i].id \in mempool, redeems[j].id \in mempool
               PROVE  i = j
    BY DEF OneInFlight
  <2>1. i \in Nat /\ j \in Nat
    BY <1>1, LenProperties DEF Inv, TypeOK
  <2>2. ~(i < j) /\ ~(j < i)
    BY <1>1 DEF Inv, OnePlace, SettledTruthfully
  <2>3. QED
    BY <2>1, <2>2
<1>2. QED
  BY <1>1, Invariance, PTL
=============================================================================
