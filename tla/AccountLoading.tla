--------------------------- MODULE AccountLoading ---------------------------
(***************************************************************************)
(* Loading accounts of the real chain on first use: OverriddenStateManager *)
(* (src/vm/index.ts) over the cache it inherits, used by setBalance        *)
(* (src/simulation/index.ts), by reads of one account (getAccountNonce,    *)
(* eth_getBalance, eth_getTransactionCount) and by executions.             *)
(*                                                                         *)
(* getAccount looks into the cache.  If the account is not there it asks   *)
(* the provider, and whatever it gets is put into the cache when it comes, *)
(* over anything put there meanwhile.  A step below is what runs between   *)
(* two awaits; a task is one call, and tasks interleave at every await.    *)
(***************************************************************************)
EXTENDS Naturals, Sequences

CONSTANTS
  Tasks,       \* identities of the calls made
  Addresses,
  ForkBlock,   \* ForkBlock[a]: the account at a in the fork block
  LaterBlock,  \* LaterBlock[a]: the account at a in a later block
  Jobs,        \* the calls that can be made: [kind, address, balance]
  NoJob,       \* the job of a task not asked yet
  Gone,        \* an account deleted by an execution
  Missing,     \* no entry in the cache
  Quiet        \* do callers leave an account alone while another call writes it

VARIABLES
  cache,       \* _accountCache: for each address an account, Gone or Missing
  saved,       \* the caches remembered by open checkpoints, oldest first
  head,        \* the latest block of the real chain: "fork" or "later"
  job,         \* what each task was asked
  phase,       \* how far each task is
  again,       \* is setBalance in its second getAccount, modifyAccountFields'
  held,        \* the account each task holds in a local variable
  answer,      \* how the promise of each task settled
  seen,        \* the account a reading task was given
  before       \* the tasks that had succeeded when each task was asked

vars == <<cache, saved, head, job, phase, again, held, answer, seen, before>>

\* What the state manager promises, with every account there from the start.
Visible(remembered) ==
  [a \in Addresses |->
     IF remembered[a] = Missing THEN ForkBlock[a]
     ELSE IF remembered[a] # Gone /\ remembered[a].code = "zero"
          THEN [remembered[a] EXCEPT !.code = "null"]
     ELSE remembered[a]]
Settled == IF saved = <<>> THEN cache ELSE Head(saved)
Store == INSTANCE AccountStore WITH
           accounts <- Visible(Settled), Fork <- ForkBlock

Account == Store!Account

ASSUME LoadingAssumption ==
  /\ ForkBlock \in [Addresses -> Account]
  /\ LaterBlock \in [Addresses -> Account]
  /\ \A a \in Addresses : "zero" \notin {ForkBlock[a].code, LaterBlock[a].code}
  /\ Jobs \subseteq [kind: {"read", "set", "execute"}, address: Addresses, balance: Nat]
  /\ NoJob \notin Jobs
  /\ Gone \notin Account /\ Missing \notin Account \union {Gone}
  /\ Quiet \in BOOLEAN

\* opened: an execution is about to read the account; loading: eth_getProof is
\* under way; fallback: its three substitutes are; loaded: the inherited
\* getAccount has an account; holding: the task has it; deleted: setBalance has
\* put no account where there was none; written: an execution has changed the
\* account.
Phases == {"idle", "opened", "loading", "fallback", "loaded", "holding", "deleted",
           "written", "failing", "closed"}
Entries == Account \union {Gone, Missing}

TypeOK ==
  /\ cache \in [Addresses -> Entries]
  /\ saved \in Seq([Addresses -> Entries])
  /\ head \in {"fork", "later"}
  /\ job \in [Tasks -> Jobs \union {NoJob}]
  /\ phase \in [Tasks -> Phases]
  /\ again \in [Tasks -> BOOLEAN]
  /\ held \in [Tasks -> Entries]
  /\ answer \in [Tasks -> {"none", "ok", "rejected"}]
  /\ seen \in [Tasks -> Account \union {Gone, NoJob}]
  /\ before \in [Tasks -> SUBSET Tasks]

Init ==
  /\ cache = [a \in Addresses |-> Missing]
  /\ saved = <<>>
  /\ head = "fork"
  /\ job = [t \in Tasks |-> NoJob]
  /\ phase = [t \in Tasks |-> "idle"]
  /\ again = [t \in Tasks |-> FALSE]
  /\ held = [t \in Tasks |-> Missing]
  /\ answer = [t \in Tasks |-> "none"]
  /\ seen = [t \in Tasks |-> NoJob]
  /\ before = [t \in Tasks |-> {}]

At(t) == job[t].address
Pending(t) == phase[t] \notin {"idle", "closed"}
Put(a, entry) == cache' = [cache EXCEPT ![a] = entry]

-----------------------------------------------------------------------------
(* Making a call. *)

Writes(d) == d.kind \in {"set", "execute"}

\* Where callers keep quiet, one call writes at a time, and an account that is
\* written is left alone by all others.
Admitted(d) ==
  Quiet => \A u \in {x \in Tasks : Pending(x)} :
             /\ ~(Writes(d) /\ Writes(job[u]))
             /\ At(u) = d.address => ~Writes(d) /\ ~Writes(job[u])

\* The inherited getAccount up to its first await.
LookUp(t, a) ==
  /\ held' = [held EXCEPT ![t] = cache[a]]
  /\ phase' = [phase EXCEPT ![t] = IF cache[a] = Missing THEN "loading" ELSE "loaded"]

Ask(t, d) ==
  /\ phase[t] = "idle"
  /\ Admitted(d)
  /\ job' = [job EXCEPT ![t] = d]
  /\ before' = [before EXCEPT ![t] = {u \in Tasks : answer[u] = "ok"}]

\* A read, or setBalance: the first thing either does is getAccount.
AskForAccount(t, d) ==
  /\ d.kind \in {"read", "set"}
  /\ Ask(t, d)
  /\ LookUp(t, d.address)
  /\ UNCHANGED <<cache, saved, head, again, answer, seen>>

\* An execution takes its checkpoint first.
AskToExecute(t, d) ==
  /\ d.kind = "execute"
  /\ Ask(t, d)
  /\ phase' = [phase EXCEPT ![t] = "opened"]
  /\ saved' = Append(saved, cache)
  /\ UNCHANGED <<cache, head, again, held, answer, seen>>

ExecutionReads(t) ==
  /\ phase[t] = "opened"
  /\ LookUp(t, At(t))
  /\ UNCHANGED <<cache, saved, head, job, again, answer, seen, before>>

-----------------------------------------------------------------------------
(* Loading. *)

\* The inherited getAccount has an account from the provider.
Loaded(t, account) ==
  /\ held' = [held EXCEPT ![t] = account]
  /\ phase' = [phase EXCEPT ![t] = "loaded"]
  /\ Put(At(t), account)
  /\ UNCHANGED <<saved, head, job, again, answer, seen, before>>

\* eth_getProof at the fork block.  Of an account that does not exist there it
\* may tell the zero hash instead of the hash of no code.
ProofLands(t) ==
  /\ phase[t] = "loading"
  /\ LET account == ForkBlock[At(t)] IN
     \/ Loaded(t, account)
     \/ account = Store!NewAccount /\ Loaded(t, [account EXCEPT !.code = "zero"])

ProofFails(t) ==
  /\ phase[t] = "loading"
  /\ phase' = [phase EXCEPT ![t] = "fallback"]
  /\ UNCHANGED <<cache, saved, head, job, again, held, answer, seen, before>>

Latest == IF head = "fork" THEN ForkBlock ELSE LaterBlock

\* (mutant) Every request of the fallback asks for the latest block.
FallbackLandsLatest(t) ==
  /\ phase[t] = "fallback"
  /\ Loaded(t, Latest[At(t)])

\* Balance and nonce are those of the fork block, the code is the latest.
FallbackLands(t) ==
  /\ phase[t] = "fallback"
  /\ Loaded(t, [ForkBlock[At(t)] EXCEPT !.code = Latest[At(t)].code])

FallbackFails(t) ==
  /\ phase[t] = "fallback"
  /\ phase' = [phase EXCEPT ![t] = "failing"]
  /\ UNCHANGED <<cache, saved, head, job, again, held, answer, seen, before>>

HasZeroHash(account) == account # Gone /\ account.code = "zero"

\* (mutant) The hash is put right in the cache only.
GiveAccountAsLoaded(t) ==
  /\ phase[t] = "loaded"
  /\ IF HasZeroHash(held[t])
     THEN Put(At(t), [held[t] EXCEPT !.code = "null"])
     ELSE UNCHANGED cache
  /\ IF job[t].kind = "read"
     THEN /\ seen' = [seen EXCEPT ![t] = held[t]]
          /\ answer' = [answer EXCEPT ![t] = "ok"]
          /\ phase' = [phase EXCEPT ![t] = "closed"]
     ELSE /\ phase' = [phase EXCEPT ![t] = "holding"]
          /\ UNCHANGED <<answer, seen>>
  /\ UNCHANGED <<saved, head, job, again, held, before>>

\* The overriding getAccount goes on: it puts the account right if it has to,
\* and the task gets it.  That is all a read waits for.
GiveAccount(t) ==
  LET right == IF HasZeroHash(held[t]) THEN [held[t] EXCEPT !.code = "null"] ELSE held[t]
  IN
  /\ phase[t] = "loaded"
  /\ IF HasZeroHash(held[t]) THEN Put(At(t), right) ELSE UNCHANGED cache
  /\ held' = [held EXCEPT ![t] = right]
  /\ IF job[t].kind = "read"
     THEN /\ seen' = [seen EXCEPT ![t] = right]
          /\ answer' = [answer EXCEPT ![t] = "ok"]
          /\ phase' = [phase EXCEPT ![t] = "closed"]
     ELSE /\ phase' = [phase EXCEPT ![t] = "holding"]
          /\ UNCHANGED <<answer, seen>>
  /\ UNCHANGED <<saved, head, job, again, before>>

-----------------------------------------------------------------------------
(* Using the account. *)

\* Where setBalance has been given no account it calls putAccount without one,
\* which deletes what is there.
SetDeletes(t) ==
  /\ phase[t] = "holding"
  /\ job[t].kind = "set"
  /\ ~again[t]
  /\ held[t] = Gone
  /\ Put(At(t), Gone)
  /\ phase' = [phase EXCEPT ![t] = "deleted"]
  /\ UNCHANGED <<saved, head, job, again, held, answer, seen, before>>

\* setBalance goes on to modifyAccountFields, which reads the account again.
SetReadsAgain(t) ==
  /\ \/ phase[t] = "holding" /\ ~again[t] /\ held[t] # Gone
     \/ phase[t] = "deleted"
  /\ job[t].kind = "set"
  /\ again' = [again EXCEPT ![t] = TRUE]
  /\ LookUp(t, At(t))
  /\ UNCHANGED <<cache, saved, head, job, answer, seen, before>>

\* modifyAccountFields writes the account it has read, with the new balance.
SetWrites(t) ==
  /\ phase[t] = "holding"
  /\ job[t].kind = "set"
  /\ again[t]
  /\ \E new \in Store!Changed(job[t], held[t]) : Put(At(t), new)
  /\ answer' = [answer EXCEPT ![t] = "ok"]
  /\ phase' = [phase EXCEPT ![t] = "closed"]
  /\ UNCHANGED <<saved, head, job, again, held, seen, before>>

ExecutionWrites(t) ==
  /\ phase[t] = "holding"
  /\ job[t].kind = "execute"
  /\ \E new \in Store!Changed(job[t], held[t]) : Put(At(t), new)
  /\ phase' = [phase EXCEPT ![t] = "written"]
  /\ UNCHANGED <<saved, head, job, again, held, answer, seen, before>>

Oldest == SubSeq(saved, 1, Len(saved) - 1)

Commit(t) ==
  /\ phase[t] = "written"
  /\ saved' = Oldest
  /\ answer' = [answer EXCEPT ![t] = "ok"]
  /\ phase' = [phase EXCEPT ![t] = "closed"]
  /\ UNCHANGED <<cache, head, job, again, held, seen, before>>

\* (mutant) revert() empties the cache, as it does the code cache.
RevertForgets(t) ==
  /\ phase[t] \in {"written", "failing"}
  /\ job[t].kind = "execute"
  /\ cache' = [a \in Addresses |-> Missing]
  /\ saved' = Oldest
  /\ answer' = [answer EXCEPT ![t] = "rejected"]
  /\ phase' = [phase EXCEPT ![t] = "closed"]
  /\ UNCHANGED <<head, job, again, held, seen, before>>

\* After an error; the accounts loaded since the checkpoint are forgotten too.
Revert(t) ==
  /\ phase[t] \in {"written", "failing"}
  /\ job[t].kind = "execute"
  /\ cache' = saved[Len(saved)]
  /\ saved' = Oldest
  /\ answer' = [answer EXCEPT ![t] = "rejected"]
  /\ phase' = [phase EXCEPT ![t] = "closed"]
  /\ UNCHANGED <<head, job, again, held, seen, before>>

\* (mutant) A failure to load is taken for an account that is not there.
RejectSwallowed(t) ==
  /\ phase[t] = "failing"
  /\ job[t].kind # "execute"
  /\ answer' = [answer EXCEPT ![t] = "ok"]
  /\ phase' = [phase EXCEPT ![t] = "closed"]
  /\ seen' = [seen EXCEPT ![t] = held[t]]
  /\ UNCHANGED <<cache, saved, head, job, again, held, before>>

\* A read or setBalance whose account could not be loaded.
Reject(t) ==
  /\ phase[t] = "failing"
  /\ job[t].kind # "execute"
  /\ answer' = [answer EXCEPT ![t] = "rejected"]
  /\ phase' = [phase EXCEPT ![t] = "closed"]
  /\ UNCHANGED <<cache, saved, head, job, again, held, seen, before>>

\* The real chain moves on.
NewHead ==
  /\ head' = "later"
  /\ UNCHANGED <<cache, saved, job, phase, again, held, answer, seen, before>>

-----------------------------------------------------------------------------

Continue(t) ==
  \/ ExecutionReads(t)
  \/ ProofLands(t)
  \/ ProofFails(t)
  \/ FallbackLands(t)
  \/ FallbackFails(t)
  \/ GiveAccount(t)
  \/ SetDeletes(t)
  \/ SetReadsAgain(t)
  \/ SetWrites(t)
  \/ ExecutionWrites(t)
  \/ Commit(t)
  \/ Revert(t)
  \/ Reject(t)

Next ==
  \/ \E t \in Tasks :
       \/ \E d \in Jobs : AskForAccount(t, d) \/ AskToExecute(t, d)
       \/ Continue(t)
  \/ NewHead

Spec == Init /\ [][Next]_vars

-----------------------------------------------------------------------------

\* Nobody can tell that accounts are loaded on first use, that one request may
\* be replaced by three, or that a revert forgets what was loaded: every call
\* reads or changes the account of the fork block, as changed by earlier calls,
\* at one moment or not at all.  This holds where callers keep quiet.
ImplementsStore == Store!Spec

\* An account a balance of which was set successfully has that balance in every
\* later read, if no other call has written it since: state is always read at the
\* latest block (the comments on eth_getBalance and its siblings).  A deleted
\* account reads as one with nothing.
LatestBalanceRead ==
  \A t \in Tasks : job[t] # NoJob /\ job[t].kind = "read" /\ answer[t] = "ok" =>
    \A u \in before[t] :
      /\ job[u].kind = "set" /\ At(u) = At(t)
      /\ \A v \in Tasks : answer[v] = "ok" /\ Writes(job[v]) /\ At(v) = At(t) => v = u
      => Store!Existing(seen[t]).balance = job[u].balance

=============================================================================
