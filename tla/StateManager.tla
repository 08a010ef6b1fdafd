---------------------------- MODULE StateManager ----------------------------
(***************************************************************************)
(* OverriddenStateManager (src/vm/index.ts): the world state every         *)
(* operation of one engine shares.                                         *)
(*                                                                         *)
(* The account and storage caches are abstracted to the set of EFFECTS     *)
(* visible in them: an effect is something one transaction, call or setter *)
(* wrote.  checkpoint() remembers the set, commit() forgets the latest     *)
(* remembered set, revert() goes back to it.  The stack is anonymous: a    *)
(* commit or a revert acts on the LATEST checkpoint, whoever took it.      *)
(*                                                                         *)
(* Contract code lives outside the checkpoints.  The inherited revert()    *)
(* drops the whole code cache; the override keeps every code ever put in   *)
(* deployedContracts and puts it back, one contract per await.             *)
(***************************************************************************)
EXTENDS Naturals, Sequences

VARIABLES
  world,              \* the effects visible in the account and storage caches
  checkpoints,        \* the stack of remembered worlds, oldest first
  contractCache,      \* contracts whose code getContractCode finds locally
  deployedContracts   \* #deployedContracts: every contract ever put

stateVars == <<world, checkpoints, contractCache, deployedContracts>>

\* Effects are what operations can write, Contracts what they can deploy.
StateTypeOK(Effects, Contracts) ==
  /\ world \subseteq Effects
  /\ checkpoints \in Seq(SUBSET Effects)
  /\ contractCache \subseteq Contracts
  /\ deployedContracts \subseteq Contracts

StateInit ==
  /\ world = {}
  /\ checkpoints = <<>>
  /\ contractCache = {}
  /\ deployedContracts = {}

\* The state that survives if every open checkpoint is reverted.
Base == IF checkpoints = <<>> THEN world ELSE Head(checkpoints)

-----------------------------------------------------------------------------

Checkpoint ==
  /\ checkpoints' = Append(checkpoints, world)
  /\ UNCHANGED <<world, contractCache, deployedContracts>>

Commit ==
  /\ checkpoints # <<>>
  /\ checkpoints' = SubSeq(checkpoints, 1, Len(checkpoints) - 1)
  /\ UNCHANGED <<world, contractCache, deployedContracts>>

\* The synchronous part of revert(): the caches go back to the latest
\* checkpoint and the inherited revert empties the code cache.  The code that
\* what is undone has put, created, stays among the deployed.
RevertCaches(created) ==
  /\ checkpoints # <<>>
  /\ world' = checkpoints[Len(checkpoints)]
  /\ checkpoints' = SubSeq(checkpoints, 1, Len(checkpoints) - 1)
  /\ contractCache' = {}
  /\ deployedContracts' = deployedContracts \union created

\* One turn of revert()'s loop over deployedContracts.
RestoreContract(c) ==
  /\ contractCache' = contractCache \union {c}
  /\ UNCHANGED <<world, checkpoints, deployedContracts>>

\* A write from outside any execution.
Write(effects) ==
  /\ world' = world \union effects
  /\ UNCHANGED <<checkpoints, contractCache, deployedContracts>>

\* The library's execution comes to its end: its effects are in the caches, the
\* code of the contracts it created went through putContractCode, and the
\* checkpoint it opened for itself is committed.
EndExecution(effects, created) ==
  /\ checkpoints # <<>>
  /\ world' = world \union effects
  /\ checkpoints' = SubSeq(checkpoints, 1, Len(checkpoints) - 1)
  /\ contractCache' = contractCache \union created
  /\ deployedContracts' = deployedContracts \union created

\* The same after an exception: the message's own revert() has dropped what it
\* wrote and gone through its whole loop over deployedContracts, where the code
\* of contracts created within it is too.
EndFailedExecution(effects, created) ==
  /\ checkpoints # <<>>
  /\ world' = world \union effects
  /\ checkpoints' = SubSeq(checkpoints, 1, Len(checkpoints) - 1)
  /\ contractCache' = deployedContracts \union created
  /\ deployedContracts' = deployedContracts \union created

=============================================================================
