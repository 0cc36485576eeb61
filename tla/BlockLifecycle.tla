--------------------------- MODULE BlockLifecycle ---------------------------
(***************************************************************************)
(* The block lifecycle of the application in app.go and the two stores it *)
(* keeps.  Module state lives in the IAVL multistore, which the framework  *)
(* commits at Commit.  Slashing and distribution also keep state outside   *)
(* it, in the LevelDB database that createApplicationDatabase opens: the   *)
(* BeginBlocker opens a fresh batch (app.currentBatch) and hands it to     *)
(* those modules, and the EndBlocker writes the batch to the database.     *)
(*                                                                         *)
(* A block's effects are abstracted to its height: the IAVL store records  *)
(* the last committed height, the database records how many times each    *)
(* block's batch was written.  The node may crash at any point; the batch  *)
(* and the uncommitted IAVL changes are lost, the database and the         *)
(* committed IAVL version survive.  On restart NewApp loads the latest     *)
(* committed version and the consensus engine replays the blocks after it.*)
(***************************************************************************)
EXTENDS Naturals

CONSTANTS
    MaxHeight,    \* the last block height the model executes
    MaxCrashes    \* bound on the number of crashes

ASSUME MaxHeight \in Nat \ {0} /\ MaxCrashes \in Nat

Heights == 1..MaxHeight

VARIABLES
    committed,   \* the latest committed IAVL version (block height)
    block,       \* the height of the block being executed, 0 when none
    phase,       \* "Idle", "InBlock" (after BeginBlocker), "Ended" (after EndBlocker), "Down"
    batch,       \* app.currentBatch: the heights whose writes it holds ({} also for
                 \* the nil batch before the first BeginBlocker: EndBlocker never runs then)
    extDB,       \* the non-IAVL database: height -> times its batch was written
    distrRead,   \* the heights whose batches distribution's BeginBlocker found in
                 \* the database in the current block ({} outside a block)
    crashes      \* crashes so far

vars == <<committed, block, phase, batch, extDB, distrRead, crashes>>

\* InitChainer, with NewApp having loaded the empty store.
Init ==
    /\ committed = 0
    /\ block = 0
    /\ phase = "Idle"
    /\ batch = {}
    /\ extDB = [h \in Heights |-> 0]
    /\ distrRead = {}
    /\ crashes = 0

\* What distribution reads from the database it is handed (line 275): the
\* batches written so far; the current batch, where slashing has just put
\* this block's writes (line 274), is not part of it.
DatabaseContents == {h \in Heights : extDB[h] > 0}

\* BeginBlocker: a new batch; authority and market write to the IAVL
\* store, slashing adds the block's writes to the batch, and distribution
\* reads the database and adds its own writes to the batch.
BeginBlocker ==
    /\ phase = "Idle"
    /\ committed < MaxHeight
    /\ block' = committed + 1
    /\ batch' = {committed + 1}
    /\ distrRead' = DatabaseContents
    /\ phase' = "InBlock"
    /\ UNCHANGED <<committed, extDB, crashes>>

\* EndBlocker: the module manager's EndBlock, then currentBatch.Write().
EndBlocker ==
    /\ phase = "InBlock"
    /\ extDB' = [h \in Heights |-> IF h \in batch THEN extDB[h] + 1 ELSE extDB[h]]
    /\ phase' = "Ended"
    /\ UNCHANGED <<committed, block, batch, distrRead, crashes>>

\* Commit (baseapp): the IAVL version of the block becomes the latest.
Commit ==
    /\ phase = "Ended"
    /\ committed' = block
    /\ block' = 0
    /\ distrRead' = {}
    /\ phase' = "Idle"
    /\ UNCHANGED <<batch, extDB, crashes>>

\* The process dies: the batch and the uncommitted IAVL changes are lost.
Crash ==
    /\ phase # "Down"
    /\ crashes < MaxCrashes
    /\ phase' = "Down"
    /\ block' = 0
    /\ batch' = {}
    /\ distrRead' = {}
    /\ crashes' = crashes + 1
    /\ UNCHANGED <<committed, extDB>>

\* Fault model of Restart: the version after the last committed one taken
\* as the latest, so that the replay starts a block late.
RestartNextVersion ==
    /\ phase = "Down"
    /\ phase' = "Idle"
    /\ committed' = committed + 1
    /\ UNCHANGED <<block, batch, extDB, distrRead, crashes>>

\* NewApp on restart: the same database is opened and LoadLatestVersion
\* brings back the last committed IAVL version; blocks after it are
\* replayed through the ordinary BeginBlocker.
Restart ==
    /\ phase = "Down"
    /\ phase' = "Idle"
    /\ UNCHANGED <<committed, block, batch, extDB, distrRead, crashes>>

Next ==
    \/ BeginBlocker
    \/ EndBlocker
    \/ Commit
    \/ Crash
    \/ Restart

Spec == Init /\ [][Next]_vars

-----------------------------------------------------------------------------
(* Properties                                                              *)

TypeOK ==
    /\ committed \in 0..MaxHeight
    /\ block \in 0..MaxHeight
    /\ phase \in {"Idle", "InBlock", "Ended", "Down"}
    /\ batch \subseteq Heights
    /\ extDB \in [Heights -> Nat]
    /\ distrRead \subseteq Heights
    /\ crashes \in 0..MaxCrashes

\* Distribution's BeginBlocker (line 275) reads the database while the
\* block's slashing writes sit in the batch: in block h it must find the
\* batches of exactly the blocks before h, whatever crashes and restarts
\* came before (EndBlocker writes the batch before Commit, line 300).
DistrReadsEarlierBlocks ==
    block # 0 => distrRead = 1..(block - 1)

=============================================================================
