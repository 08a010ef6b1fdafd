----------------------- MODULE AccountLoading_proofs -----------------------
(***************************************************************************)
(* AccountLoading keeps its types however calls overlap.  It implements    *)
(* AccountStore, and every read is of the latest balance, for any number   *)
(* of calls and of addresses, where callers keep quiet and code does not   *)
(* change.                                                                 *)
(***************************************************************************)
EXTENDS AccountLoading, FiniteSetTheorems, TLAPS

\* What an entry of the cache shows of the account at an address.
Shown(a, entry) ==
  IF entry = Missing THEN ForkBlock[a]
  ELSE IF entry # Gone /\ entry.code = "zero" THEN [entry EXCEPT !.code = "null"]
  ELSE entry

\* The account everybody can count on.
Kept(a) == Shown(a, Settled[a])

\* How far a task is, told three ways.
TaskFits(t) ==
  /\ phase[t] = "idle" <=> job[t] = NoJob
  /\ phase[t] = "closed" <=> answer[t] # "none"
  /\ phase[t] \in {"opened", "written"} => job[t].kind = "execute"

\* One call writes at a time, and nobody else looks at what it writes.
Alone ==
  \A t, u \in Tasks :
    Pending(t) /\ Pending(u) /\ t # u /\ Writes(job[t]) =>
      ~Writes(job[u]) /\ At(u) # At(t)

\* An execution holds the one checkpoint there is.
Executing(t) == Pending(t) /\ job[t].kind = "execute"
SavedFits ==
  saved = <<>> \/ (Len(saved) = 1 /\ \E t \in Tasks : Executing(t))
SavedWhile == \A t \in Tasks : Executing(t) => Len(saved) = 1

\* What a task holds, or will be given, is the account that is there.
HeldFits(t) ==
  /\ phase[t] \in {"loading", "fallback"} => Kept(At(t)) = ForkBlock[At(t)]
  /\ phase[t] = "loaded" =>
       held[t] # Missing /\ Shown(At(t), held[t]) = Kept(At(t))
  /\ phase[t] = "holding" => held[t] = Kept(At(t))
  /\ phase[t] = "written" => cache[At(t)] \in Store!Changed(job[t], Kept(At(t)))

\* Loading does not change what the cache shows; only an execution does.
CacheFits ==
  \A a \in Addresses :
    \/ Shown(a, cache[a]) = Kept(a)
    \/ \E t \in Tasks : phase[t] = "written" /\ At(t) = a

IInv ==
  /\ TypeOK
  /\ \A t \in Tasks : TaskFits(t)
  /\ Alone
  /\ SavedFits
  /\ SavedWhile
  /\ \A t \in Tasks : HeldFits(t)
  /\ CacheFits

\* What the fallback's comment says: 'code doesn't change so we can use latest'.
CodeDoesNotChange ==
  \A a \in Addresses : LaterBlock[a].code = ForkBlock[a].code

-----------------------------------------------------------------------------
(* What entries show. *)

LEMMA VisibleShows ==
  ASSUME NEW r
  PROVE  Visible(r) = [a \in Addresses |-> Shown(a, r[a])]
BY DEF Visible, Shown

\* Showing an entry gives an account with a good hash, and gives an account that
\* has one as it is.
LEMMA ShownGood ==
  ASSUME NEW a \in Addresses, NEW e \in Entries
  PROVE  /\ Shown(a, e) \in Account \union {Gone}
         /\ ~HasZeroHash(Shown(a, e))
         /\ e # Missing /\ ~HasZeroHash(e) => Shown(a, e) = e
<1>1. ForkBlock[a] \in Account /\ ForkBlock[a].code # "zero"
  BY LoadingAssumption
<1>2. CASE e = Missing
  BY <1>1, <1>2, LoadingAssumption DEF Shown, HasZeroHash
<1>3. CASE e = Gone
  BY <1>3, LoadingAssumption DEF Shown, HasZeroHash
<1>4. CASE e \in Account
  BY <1>4, LoadingAssumption DEF Shown, HasZeroHash, Account, Store!Account, Store!CodeHashes
<1> QED BY <1>2, <1>3, <1>4 DEF Entries

\* What getAccount puts right is what the entry shows.
LEMMA PutRight ==
  ASSUME NEW a \in Addresses, NEW e \in Account, HasZeroHash(e)
  PROVE  /\ [e EXCEPT !.code = "null"] = Shown(a, e)
         /\ Shown(a, e) \in Account
BY LoadingAssumption
   DEF Shown, HasZeroHash, Account, Store!Account, Store!CodeHashes

\* The provider's answers show the account of the fork block.
LEMMA AnswerShows ==
  ASSUME NEW a \in Addresses
  PROVE  /\ ForkBlock[a] \in Account
         /\ Shown(a, Missing) = ForkBlock[a]
         /\ Shown(a, ForkBlock[a]) = ForkBlock[a]
         /\ ForkBlock[a] = Store!NewAccount =>
              /\ [ForkBlock[a] EXCEPT !.code = "zero"] \in Account
              /\ Shown(a, [ForkBlock[a] EXCEPT !.code = "zero"]) = ForkBlock[a]
         /\ CodeDoesNotChange =>
              [ForkBlock[a] EXCEPT !.code = Latest[a].code] = ForkBlock[a]
<1>1. ForkBlock[a] \in Account /\ ForkBlock[a].code # "zero"
  BY LoadingAssumption
<1>2. CodeDoesNotChange =>
        [ForkBlock[a] EXCEPT !.code = Latest[a].code] = ForkBlock[a]
  BY <1>1 DEF CodeDoesNotChange, Latest, Account, Store!Account
<1>3. ForkBlock[a] = Store!NewAccount =>
        /\ [ForkBlock[a] EXCEPT !.code = "zero"] \in Account
        /\ Shown(a, [ForkBlock[a] EXCEPT !.code = "zero"]) = ForkBlock[a]
  <2> SUFFICES ASSUME ForkBlock[a] = Store!NewAccount
               PROVE  /\ [ForkBlock[a] EXCEPT !.code = "zero"] \in Account
                      /\ Shown(a, [ForkBlock[a] EXCEPT !.code = "zero"]) = ForkBlock[a]
    OBVIOUS
  <2> DEFINE zero == [balance |-> 0, nonce |-> 0, code |-> "zero"]
  <2>1. zero = [ForkBlock[a] EXCEPT !.code = "zero"]
    BY DEF Store!NewAccount
  <2>2. zero \in Account
    BY DEF Account, Store!Account, Store!CodeHashes
  <2>3. zero # Missing /\ zero # Gone
    BY <2>2, LoadingAssumption
  <2>4. zero.code = "zero" /\ [zero EXCEPT !.code = "null"] = ForkBlock[a]
    BY DEF Store!NewAccount
  <2> QED BY <2>1, <2>2, <2>3, <2>4 DEF Shown
<1> QED BY <1>1, <1>2, <1>3, LoadingAssumption DEF Shown

\* Changing an account with a good hash gives one.
LEMMA ChangedGood ==
  ASSUME NEW d \in Jobs, d.kind \in {"set", "execute"},
         NEW e \in Account \union {Gone}, ~HasZeroHash(e),
         NEW new \in Store!Changed(d, e)
  PROVE  new \in Account \union {Gone} /\ ~HasZeroHash(new)
<1> DEFINE old == Store!Existing(e)
<1>1. old \in Account /\ old.code # "zero"
  BY DEF Store!Existing, Store!NewAccount, HasZeroHash, Account, Store!Account,
         Store!CodeHashes
<1>2. d.balance \in Nat
  BY LoadingAssumption
<1>3. CASE d.kind = "set"
  <2>1. new = [old EXCEPT !.balance = d.balance]
    BY <1>3 DEF Store!Changed
  <2> HIDE DEF old
  <2> QED
    BY <1>1, <1>2, <2>1 DEF HasZeroHash, Account, Store!Account
<1>4. CASE d.kind = "execute"
  <2>1. new = [old EXCEPT !.nonce = @ + 1] \/ new = Gone
    BY <1>4 DEF Store!Changed
  <2> HIDE DEF old
  <2> QED
    BY <1>1, <2>1 DEF HasZeroHash, Account, Store!Account
<1> QED BY <1>3, <1>4

-----------------------------------------------------------------------------
(* Steps that change nothing one can count on. *)

\* What a task holds fits as long as nobody else touches it.
LEMMA HeldKept ==
  ASSUME NEW u \in Tasks, HeldFits(u),
         phase'[u] = phase[u], job'[u] = job[u], held'[u] = held[u],
         Kept(At(u))' = Kept(At(u)),
         phase[u] = "written" => cache'[At(u)] = cache[At(u)]
  PROVE  HeldFits(u)'
<1>1. At(u)' = At(u)
  BY DEF At
<1> QED BY <1>1 DEF HeldFits, Shown, At

\* The addresses of calls, and what remembered caches hold.
LEMMA Ranges ==
  ASSUME TypeOK, \A t \in Tasks : TaskFits(t), SavedFits
  PROVE  /\ \A t \in Tasks : phase[t] # "idle" =>
              /\ job[t] \in Jobs
              /\ At(t) \in Addresses
              /\ job[t].kind \in {"read", "set", "execute"}
         /\ Settled \in [Addresses -> Entries]
         /\ \A a \in Addresses :
              Kept(a) \in Account \union {Gone} /\ ~HasZeroHash(Kept(a))
<1>1. ASSUME NEW t \in Tasks, phase[t] # "idle"
      PROVE  /\ job[t] \in Jobs
             /\ At(t) \in Addresses
             /\ job[t].kind \in {"read", "set", "execute"}
  BY <1>1, LoadingAssumption DEF TypeOK, TaskFits, At
<1>2. Settled \in [Addresses -> Entries]
  BY DEF Settled, TypeOK, SavedFits
<1>3. \A a \in Addresses : Settled[a] \in Entries
  BY <1>2
<1> QED BY <1>1, <1>2, <1>3, ShownGood DEF Kept

\* Putting into the cache what is there already in effect.
LEMMA PutKeeps ==
  ASSUME IInv, NEW t \in Tasks, phase[t] \notin {"idle", "written"},
         phase[t] # "closed", UNCHANGED <<saved, job>>,
         NEW e \in Account \union {Gone}, Shown(At(t), e) = Kept(At(t)),
         cache' = cache \/ Put(At(t), e)
  PROVE  /\ cache' \in [Addresses -> Entries]
         /\ \A a \in Addresses : Kept(a)' = Kept(a)
         /\ \A a \in Addresses : a # At(t) => cache'[a] = cache[a]
         /\ \A a \in Addresses :
              Shown(a, cache[a]) = Kept(a) => Shown(a, cache'[a]) = Kept(a)
<1>1. /\ cache \in [Addresses -> Entries] /\ At(t) \in Addresses
      /\ e \in Entries
  BY Ranges DEF IInv, TypeOK, Entries
<1>2. /\ cache' \in [Addresses -> Entries]
      /\ \A a \in Addresses : a # At(t) => cache'[a] = cache[a]
      /\ cache'[At(t)] = cache[At(t)] \/ cache'[At(t)] = e
  BY <1>1 DEF Put
<1>3. \A a \in Addresses :
        Shown(a, cache[a]) = Kept(a) => Shown(a, cache'[a]) = Kept(a)
  BY <1>1, <1>2
<1>4. ASSUME NEW a \in Addresses PROVE Kept(a)' = Kept(a)
  <2>1. CASE saved = <<>>
    <3>1. Kept(a) = Shown(a, cache[a]) /\ Kept(a)' = Shown(a, cache'[a])
      BY <2>1 DEF Kept, Settled, Shown
    <3> QED BY <1>3, <3>1
  <2>2. CASE saved # <<>>
    BY <2>2 DEF Kept, Settled, Shown
  <2> QED BY <2>1, <2>2
<1> QED BY <1>2, <1>3, <1>4

\* A step that loads, or fails to, or looks.
LEMMA LoadingStep ==
  ASSUME IInv, NEW t \in Tasks, phase[t] \notin {"idle", "written", "closed"},
         NEW e \in Account \union {Gone}, Shown(At(t), e) = Kept(At(t)),
         cache' = cache \/ Put(At(t), e),
         NEW p \in Phases \ {"idle", "opened", "written"},
         phase' = [phase EXCEPT ![t] = p],
         p = "closed" => job[t].kind # "execute",
         answer' \in [Tasks -> {"none", "ok", "rejected"}],
         \A u \in Tasks : u # t => answer'[u] = answer[u] /\ held'[u] = held[u],
         p = "closed" <=> answer'[t] # "none",
         held' \in [Tasks -> Entries],
         seen' \in [Tasks -> Account \union {Gone, NoJob}],
         again' \in [Tasks -> BOOLEAN],
         UNCHANGED <<saved, head, job, before>>,
         p \in {"loading", "fallback"} => Kept(At(t)) = ForkBlock[At(t)],
         p = "loaded" => held'[t] # Missing /\ Shown(At(t), held'[t]) = Kept(At(t)),
         p = "holding" => held'[t] = Kept(At(t))
  PROVE  /\ IInv'
         /\ Visible(Settled)' = Visible(Settled)
<1>1. /\ cache' \in [Addresses -> Entries]
      /\ \A a \in Addresses : Kept(a)' = Kept(a)
      /\ \A a \in Addresses : a # At(t) => cache'[a] = cache[a]
      /\ \A a \in Addresses :
           Shown(a, cache[a]) = Kept(a) => Shown(a, cache'[a]) = Kept(a)
  BY PutKeeps
<1>2. /\ phase \in [Tasks -> Phases]
      /\ \A u \in Tasks : phase'[u] = IF u = t THEN p ELSE phase[u]
      /\ \A u \in Tasks : At(u)' = At(u) /\ (phase[u] # "idle" => At(u) \in Addresses)
      /\ At(t) \in Addresses
  BY Ranges DEF IInv, TypeOK, At
<1>3. TypeOK'
  BY <1>1, <1>2 DEF IInv, TypeOK
<1>4. ASSUME NEW u \in Tasks PROVE TaskFits(u)'
  BY <1>2 DEF IInv, TaskFits
<1>5. \A u \in Tasks :
        /\ Pending(u)' => Pending(u)
        /\ Executing(u)' <=> Executing(u)
  BY <1>2 DEF Pending, Executing
<1>6. Alone'
  BY <1>2, <1>5 DEF IInv, Alone, At
<1>7. SavedFits' /\ SavedWhile'
  BY <1>5 DEF IInv, SavedFits, SavedWhile
<1>8. ASSUME NEW u \in Tasks, u # t PROVE HeldFits(u)'
  <2>1. phase[u] = "written" => At(u) # At(t)
    BY <1>8 DEF IInv, Alone, Pending, Writes, TaskFits
  <2>2. CASE phase[u] = "idle"
    BY <1>2, <1>8, <2>2 DEF HeldFits
  <2>3. CASE phase[u] # "idle"
    BY <1>1, <1>2, <1>8, <2>1, <2>3, HeldKept DEF IInv
  <2> QED BY <2>2, <2>3
<1>9. HeldFits(t)'
  <2>1. Kept(At(t))' = Kept(At(t)) /\ phase'[t] = p
    BY <1>1, <1>2 DEF Kept, Settled, Shown
  <2> QED BY <1>2, <2>1 DEF HeldFits, Shown
<1>10. CacheFits'
  <2> SUFFICES ASSUME NEW a \in Addresses
               PROVE  \/ Shown(a, cache'[a]) = Kept(a)
                      \/ \E u \in Tasks : phase'[u] = "written" /\ At(u) = a
    BY <1>1, <1>2 DEF CacheFits, Shown
  <2> QED BY <1>1, <1>2 DEF IInv, CacheFits
<1>11. Visible(Settled)' = Visible(Settled)
  BY <1>1 DEF Visible, Kept, Shown
<1> QED BY <1>3, <1>4, <1>6, <1>7, <1>8, <1>9, <1>10, <1>11 DEF IInv

\* Loading, or failing to, is a step nobody sees.
LEMMA LoadNext ==
  ASSUME IInv, CodeDoesNotChange, NEW t \in Tasks,
         \/ ExecutionReads(t) \/ ProofLands(t) \/ ProofFails(t)
         \/ FallbackLands(t) \/ FallbackFails(t) \/ SetDeletes(t) \/ SetReadsAgain(t)
  PROVE  IInv' /\ UNCHANGED Store!storeVars
<1>1. /\ phase[t] \in {"opened", "loading", "fallback", "holding", "deleted"}
      /\ UNCHANGED <<saved, head, job, answer, seen, before>>
  BY DEF ExecutionReads, ProofLands, ProofFails, FallbackLands, FallbackFails,
         SetDeletes, SetReadsAgain, Loaded
<1>2. /\ At(t) \in Addresses /\ HeldFits(t) /\ TaskFits(t)
      /\ Kept(At(t)) \in Account \union {Gone}
      /\ ~HasZeroHash(Kept(At(t)))
      /\ cache \in [Addresses -> Entries] /\ held \in [Tasks -> Entries]
      /\ again \in [Tasks -> BOOLEAN] /\ answer[t] = "none"
      /\ Kept(At(t)) \in Entries
      /\ Shown(At(t), Kept(At(t))) = Kept(At(t))
  <2>1. /\ At(t) \in Addresses /\ Kept(At(t)) \in Account \union {Gone}
        /\ ~HasZeroHash(Kept(At(t)))
    BY <1>1, Ranges DEF IInv
  <2>2. Kept(At(t)) \in Entries /\ Kept(At(t)) # Missing
    BY <2>1, LoadingAssumption DEF Entries
  <2>3. Shown(At(t), Kept(At(t))) = Kept(At(t))
    BY <2>1, <2>2, ShownGood
  <2> QED BY <1>1, <2>1, <2>2, <2>3 DEF IInv, TypeOK, TaskFits
<1>3. phase[t] \in {"opened", "holding", "deleted"} =>
        Shown(At(t), cache[At(t)]) = Kept(At(t))
  <2>1. ASSUME NEW u \in Tasks, phase[u] = "written", phase[t] \in {"opened", "holding", "deleted"}
        PROVE  At(u) # At(t)
    BY <2>1 DEF IInv, Alone, Pending, Writes, TaskFits
  <2> QED BY <1>2, <2>1 DEF IInv, CacheFits
<1>4. CASE ExecutionReads(t) \/ SetReadsAgain(t)
  <2> DEFINE p == IF cache[At(t)] = Missing THEN "loading" ELSE "loaded"
  <2>1. /\ phase' = [phase EXCEPT ![t] = p]
        /\ held' = [held EXCEPT ![t] = cache[At(t)]]
        /\ UNCHANGED cache /\ again' \in [Tasks -> BOOLEAN]
        /\ phase[t] \in {"opened", "holding", "deleted"}
    BY <1>2, <1>4 DEF ExecutionReads, SetReadsAgain, LookUp
  <2>2. /\ held' \in [Tasks -> Entries] /\ held'[t] = cache[At(t)]
        /\ \A u \in Tasks : u # t => held'[u] = held[u]
    BY <1>2, <2>1
  <2>3. p = "loading" => Kept(At(t)) = ForkBlock[At(t)]
    BY <1>3, <2>1, <1>2, AnswerShows
  <2>4. p = "loaded" => held'[t] # Missing /\ Shown(At(t), held'[t]) = Kept(At(t))
    BY <1>3, <2>1, <2>2
  <2>5. p \in {"loading", "loaded"} /\ p \in Phases \ {"idle", "opened", "written"}
    BY DEF Phases
  <2>6. answer \in [Tasks -> {"none", "ok", "rejected"}]
        /\ seen \in [Tasks -> Account \union {Gone, NoJob}]
    BY DEF IInv, TypeOK
  <2> HIDE DEF p
  <2>7. IInv' /\ Visible(Settled)' = Visible(Settled)
    BY <1>1, <1>2, <2>1, <2>2, <2>3, <2>4, <2>5, <2>6, LoadingStep
  <2> QED BY <1>1, <2>7 DEF Store!storeVars
<1>5. CASE ProofFails(t) \/ FallbackFails(t)
  <2>1. /\ UNCHANGED <<cache, held, again>>
        /\ \E p \in {"fallback", "failing"} :
             /\ phase' = [phase EXCEPT ![t] = p]
             /\ p = "fallback" => Kept(At(t)) = ForkBlock[At(t)]
    BY <1>2, <1>5 DEF ProofFails, FallbackFails, HeldFits
  <2>2. PICK p \in {"fallback", "failing"} :
             /\ phase' = [phase EXCEPT ![t] = p]
             /\ p = "fallback" => Kept(At(t)) = ForkBlock[At(t)]
    BY <2>1
  <2>3. p \in Phases \ {"idle", "opened", "written"}
    BY DEF Phases
  <2>4. answer \in [Tasks -> {"none", "ok", "rejected"}]
        /\ seen \in [Tasks -> Account \union {Gone, NoJob}]
    BY DEF IInv, TypeOK
  <2>5. IInv' /\ Visible(Settled)' = Visible(Settled)
    BY <1>1, <1>2, <2>1, <2>2, <2>3, <2>4, LoadingStep
  <2> QED BY <1>1, <2>5 DEF Store!storeVars
<1>6. CASE ProofLands(t) \/ FallbackLands(t)
  <2>1. PICK e : Loaded(t, e) /\ e \in Account /\ Shown(At(t), e) = ForkBlock[At(t)]
    BY <1>2, <1>6, AnswerShows DEF ProofLands, FallbackLands
  <2>2. Kept(At(t)) = ForkBlock[At(t)]
    BY <1>2, <1>6 DEF ProofLands, FallbackLands, HeldFits
  <2>3. /\ phase' = [phase EXCEPT ![t] = "loaded"]
        /\ held' = [held EXCEPT ![t] = e]
        /\ Put(At(t), e) /\ UNCHANGED again
        /\ e \in Entries /\ e # Missing
        /\ "loaded" \in Phases \ {"idle", "opened", "written"}
    BY <2>1, LoadingAssumption DEF Loaded, Phases, Entries
  <2>4. /\ held' \in [Tasks -> Entries] /\ held'[t] = e
        /\ \A u \in Tasks : u # t => held'[u] = held[u]
    BY <1>2, <2>3
  <2>5. answer \in [Tasks -> {"none", "ok", "rejected"}]
        /\ seen \in [Tasks -> Account \union {Gone, NoJob}]
    BY DEF IInv, TypeOK
  <2>6. IInv' /\ Visible(Settled)' = Visible(Settled)
    BY <1>1, <1>2, <2>1, <2>2, <2>3, <2>4, <2>5, LoadingStep
  <2> QED BY <1>1, <2>6 DEF Store!storeVars
<1>7. CASE SetDeletes(t)
  <2>1. /\ phase' = [phase EXCEPT ![t] = "deleted"]
        /\ Put(At(t), Gone) /\ UNCHANGED <<held, again>>
        /\ Gone = Kept(At(t))
        /\ "deleted" \in Phases \ {"idle", "opened", "written"}
    BY <1>2, <1>7 DEF SetDeletes, HeldFits, Phases
  <2>2. answer \in [Tasks -> {"none", "ok", "rejected"}]
        /\ seen \in [Tasks -> Account \union {Gone, NoJob}]
    BY DEF IInv, TypeOK
  <2>3. IInv' /\ Visible(Settled)' = Visible(Settled)
    BY <1>1, <1>2, <2>1, <2>2, LoadingStep
  <2> QED BY <1>1, <2>3 DEF Store!storeVars
<1> QED BY <1>4, <1>5, <1>6, <1>7

\* Giving the account is the moment a read takes place; for other tasks it is a
\* step nobody sees.
LEMMA GiveNext ==
  ASSUME IInv, NEW t \in Tasks, GiveAccount(t)
  PROVE  IInv' /\ (Store!Read(t) \/ UNCHANGED Store!storeVars)
<1> DEFINE right == IF HasZeroHash(held[t]) THEN [held[t] EXCEPT !.code = "null"]
                    ELSE held[t]
           a == At(t)
<1>1. /\ phase[t] = "loaded" /\ a \in Addresses /\ answer[t] = "none"
      /\ job[t] \in Jobs /\ job[t].kind \in {"read", "set", "execute"} /\ job[t] # NoJob
      /\ held[t] \in Entries /\ held[t] # Missing /\ Shown(a, held[t]) = Kept(a)
      /\ Kept(a) \in Account \union {Gone} /\ ~HasZeroHash(Kept(a))
  BY Ranges, LoadingAssumption DEF GiveAccount, IInv, TypeOK, HeldFits, TaskFits
<1>2. right = Kept(a)
  <2>1. CASE HasZeroHash(held[t])
    <3>1. held[t] \in Account
      BY <1>1, <2>1 DEF HasZeroHash, Entries
    <3> QED BY <1>1, <2>1, <3>1, PutRight
  <2>2. CASE ~HasZeroHash(held[t])
    BY <1>1, <2>2, ShownGood
  <2> QED BY <2>1, <2>2
<1>3. right \in Account \union {Gone} /\ right \in Entries /\ right # Missing
      /\ Shown(a, right) = Kept(a)
  <2>1. right \in Account \union {Gone} /\ right \in Entries /\ right # Missing
    BY <1>1, <1>2, LoadingAssumption DEF Entries
  <2> QED BY <1>1, <1>2, <2>1, ShownGood
<1> HIDE DEF right
<1>4. /\ cache' = cache \/ Put(a, right)
      /\ held' = [held EXCEPT ![t] = right]
      /\ UNCHANGED <<saved, head, job, again, before>>
  BY DEF GiveAccount, right
<1>5. /\ held' \in [Tasks -> Entries] /\ held'[t] = right
      /\ \A u \in Tasks : u # t => held'[u] = held[u]
  BY <1>3, <1>4 DEF IInv, TypeOK
<1>6. /\ again \in [Tasks -> BOOLEAN]
      /\ answer \in [Tasks -> {"none", "ok", "rejected"}]
      /\ seen \in [Tasks -> Account \union {Gone, NoJob}]
  BY DEF IInv, TypeOK
<1>7. CASE job[t].kind = "read"
  <2>1. /\ seen' = [seen EXCEPT ![t] = right]
        /\ answer' = [answer EXCEPT ![t] = "ok"]
        /\ phase' = [phase EXCEPT ![t] = "closed"]
    BY <1>7 DEF GiveAccount, right
  <2>2. /\ seen' \in [Tasks -> Account \union {Gone, NoJob}]
        /\ answer' \in [Tasks -> {"none", "ok", "rejected"}]
        /\ answer'[t] = "ok" /\ \A u \in Tasks : u # t => answer'[u] = answer[u]
        /\ "closed" \in Phases \ {"idle", "opened", "written"}
    BY <1>3, <1>6, <2>1 DEF Phases
  <2>3. IInv' /\ Visible(Settled)' = Visible(Settled)
    BY <1>1, <1>3, <1>4, <1>5, <1>6, <1>7, <2>1, <2>2, LoadingStep
  <2>4. Visible(Settled)[job[t].address] = right
    BY <1>1, <1>2, VisibleShows DEF Kept, At
  <2>5. Store!Read(t)
    BY <1>1, <1>4, <1>7, <2>1, <2>3, <2>4 DEF Store!Read, Store!Pending
  <2> QED BY <2>3, <2>5
<1>8. CASE job[t].kind # "read"
  <2>1. /\ UNCHANGED <<seen, answer>>
        /\ phase' = [phase EXCEPT ![t] = "holding"]
        /\ "holding" \in Phases \ {"idle", "opened", "written"}
    BY <1>8 DEF GiveAccount, Phases
  <2>2. IInv' /\ Visible(Settled)' = Visible(Settled)
    BY <1>1, <1>2, <1>3, <1>4, <1>5, <1>6, <2>1, LoadingStep
  <2> QED BY <1>4, <2>1, <2>2 DEF Store!storeVars
<1> QED BY <1>7, <1>8

\* A failure to load rejects a read or setBalance.
LEMMA RejectNext ==
  ASSUME IInv, NEW t \in Tasks, Reject(t)
  PROVE  IInv' /\ Store!Fail(t)
<1>1. /\ phase[t] = "failing" /\ job[t].kind # "execute" /\ answer[t] = "none"
      /\ job[t] # NoJob /\ At(t) \in Addresses
      /\ Kept(At(t)) \in Account \union {Gone} /\ ~HasZeroHash(Kept(At(t)))
      /\ UNCHANGED <<cache, saved, head, job, again, held, seen, before>>
      /\ answer' = [answer EXCEPT ![t] = "rejected"]
      /\ phase' = [phase EXCEPT ![t] = "closed"]
  BY Ranges DEF Reject, IInv, TaskFits
<1>2. Kept(At(t)) \in Entries /\ Shown(At(t), Kept(At(t))) = Kept(At(t))
  <2>1. Kept(At(t)) \in Entries /\ Kept(At(t)) # Missing
    BY <1>1, LoadingAssumption DEF Entries
  <2> QED BY <1>1, <2>1, ShownGood
<1>3. /\ answer' \in [Tasks -> {"none", "ok", "rejected"}]
      /\ answer'[t] = "rejected" /\ \A u \in Tasks : u # t => answer'[u] = answer[u]
      /\ held \in [Tasks -> Entries] /\ again \in [Tasks -> BOOLEAN]
      /\ seen \in [Tasks -> Account \union {Gone, NoJob}]
      /\ "closed" \in Phases \ {"idle", "opened", "written"}
  BY <1>1 DEF IInv, TypeOK, Phases
<1>4. IInv' /\ Visible(Settled)' = Visible(Settled)
  BY <1>1, <1>2, <1>3, LoadingStep
<1> QED BY <1>1, <1>4 DEF Store!Fail, Store!Pending

-----------------------------------------------------------------------------
(* Making a call. *)

\* Where callers keep quiet, a call is made of nothing another call writes, and
\* one that writes finds no checkpoint.
LEMMA AdmittedAlone ==
  ASSUME IInv, Quiet, NEW t \in Tasks, NEW d \in Jobs, Ask(t, d),
         phase' \in [Tasks -> Phases],
         \A u \in Tasks : u # t => phase'[u] = phase[u]
  PROVE  /\ job[t] = NoJob /\ phase[t] = "idle" /\ d # NoJob
         /\ d.address \in Addresses /\ d.kind \in {"read", "set", "execute"}
         /\ job'[t] = d /\ \A u \in Tasks : u # t => job'[u] = job[u]
         /\ job' \in [Tasks -> Jobs \union {NoJob}]
         /\ before' \in [Tasks -> SUBSET Tasks]
         /\ Alone'
         /\ Writes(d) => saved = <<>>
         /\ Shown(d.address, cache[d.address]) = Kept(d.address)
<1>1. /\ job[t] = NoJob /\ phase[t] = "idle" /\ d # NoJob
      /\ d.address \in Addresses /\ d.kind \in {"read", "set", "execute"}
      /\ job'[t] = d /\ \A u \in Tasks : u # t => job'[u] = job[u]
      /\ job' \in [Tasks -> Jobs \union {NoJob}]
      /\ before' \in [Tasks -> SUBSET Tasks]
  BY LoadingAssumption DEF Ask, IInv, TypeOK, TaskFits
<1>2. \A u \in Tasks : Pending(u) =>
        /\ u # t
        /\ ~(Writes(d) /\ Writes(job[u]))
        /\ At(u) = d.address => ~Writes(d) /\ ~Writes(job[u])
  BY <1>1 DEF Ask, Admitted, Pending
<1>3. \A u \in Tasks : u # t =>
        (Pending(u)' <=> Pending(u)) /\ At(u)' = At(u)
  BY <1>1 DEF Pending, At
<1>4. Alone'
  <2>1. At(t)' = d.address
    BY <1>1 DEF At
  <2> SUFFICES ASSUME NEW u \in Tasks, NEW v \in Tasks,
                      Pending(u)', Pending(v)', u # v, Writes(job'[u])
               PROVE  ~Writes(job'[v]) /\ At(v)' # At(u)'
    BY DEF Alone
  <2>2. CASE u = t
    BY <1>1, <1>2, <1>3, <2>1, <2>2
  <2>3. CASE v = t
    BY <1>1, <1>2, <1>3, <2>1, <2>3
  <2>4. CASE u # t /\ v # t
    BY <1>1, <1>3, <2>4 DEF IInv, Alone
  <2> QED BY <2>2, <2>3, <2>4
<1>5. Writes(d) => saved = <<>>
  BY <1>2 DEF IInv, SavedFits, Executing, Writes
<1>6. Shown(d.address, cache[d.address]) = Kept(d.address)
  <2>1. ASSUME NEW u \in Tasks, phase[u] = "written" PROVE At(u) # d.address
    BY <1>2, <2>1 DEF IInv, TaskFits, Pending, Writes
  <2> QED BY <1>1, <2>1 DEF IInv, CacheFits
<1> QED BY <1>1, <1>4, <1>5, <1>6

\* Making a call is making it there.
LEMMA AskNext ==
  ASSUME IInv, Quiet, NEW t \in Tasks, NEW d \in Jobs,
         AskForAccount(t, d) \/ AskToExecute(t, d)
  PROVE  IInv' /\ Store!Ask(t, d)
<1>1. /\ Ask(t, d) /\ UNCHANGED <<cache, head, again, answer, seen>>
      /\ \E p \in {"opened", "loading", "loaded"} :
           /\ phase' = [phase EXCEPT ![t] = p]
           /\ p = "opened" <=> d.kind = "execute"
           /\ p = "opened" => UNCHANGED held /\ saved' = Append(saved, cache)
           /\ p # "opened" => /\ held' = [held EXCEPT ![t] = cache[d.address]]
                              /\ p = "loading" <=> cache[d.address] = Missing
                              /\ UNCHANGED saved
  BY DEF AskForAccount, AskToExecute, LookUp
<1>2. PICK p \in {"opened", "loading", "loaded"} :
           /\ phase' = [phase EXCEPT ![t] = p]
           /\ p = "opened" <=> d.kind = "execute"
           /\ p = "opened" => UNCHANGED held /\ saved' = Append(saved, cache)
           /\ p # "opened" => /\ held' = [held EXCEPT ![t] = cache[d.address]]
                              /\ p = "loading" <=> cache[d.address] = Missing
                              /\ UNCHANGED saved
  BY <1>1
<1>3. /\ phase' \in [Tasks -> Phases] /\ phase'[t] = p
      /\ \A u \in Tasks : u # t => phase'[u] = phase[u]
  BY <1>2 DEF IInv, TypeOK, Phases
<1>4. /\ job[t] = NoJob /\ phase[t] = "idle" /\ d # NoJob
      /\ d.address \in Addresses /\ d.kind \in {"read", "set", "execute"}
      /\ job'[t] = d /\ \A u \in Tasks : u # t => job'[u] = job[u]
      /\ job' \in [Tasks -> Jobs \union {NoJob}]
      /\ before' \in [Tasks -> SUBSET Tasks]
      /\ Alone'
      /\ Writes(d) => saved = <<>>
      /\ Shown(d.address, cache[d.address]) = Kept(d.address)
  BY <1>1, <1>3, AdmittedAlone
<1>5. /\ cache \in [Addresses -> Entries] /\ cache[d.address] \in Entries
      /\ held' \in [Tasks -> Entries]
      /\ p # "opened" => held'[t] = cache[d.address]
      /\ \A u \in Tasks : u # t => held'[u] = held[u]
  BY <1>2, <1>4 DEF IInv, TypeOK
<1>6. /\ saved' \in Seq([Addresses -> Entries])
      /\ p = "opened" => saved = <<>> /\ saved' = <<cache>>
  <2>1. CASE p = "opened"
    <3>1. saved = <<>> /\ saved' = Append(saved, cache)
      BY <1>2, <1>4, <2>1 DEF Writes
    <3>2. saved' = <<cache>>
      BY <3>1
    <3> QED BY <1>5, <3>1, <3>2
  <2>2. CASE p # "opened"
    BY <1>2, <2>2 DEF IInv, TypeOK
  <2> QED BY <2>1, <2>2
<1>7. Settled' = Settled
  <2>1. CASE p = "opened"
    BY <1>1, <1>6, <2>1 DEF Settled
  <2>2. CASE p # "opened"
    BY <1>1, <1>2, <2>2 DEF Settled
  <2> QED BY <2>1, <2>2
<1>8. \A a : Kept(a)' = Kept(a)
  BY <1>7 DEF Kept, Shown
<1>9. TypeOK'
  BY <1>1, <1>3, <1>4, <1>5, <1>6 DEF IInv, TypeOK
<1>10. ASSUME NEW u \in Tasks PROVE TaskFits(u)'
  BY <1>1, <1>2, <1>3, <1>4 DEF IInv, TaskFits
<1>11. /\ \A u \in Tasks : u # t => (Executing(u)' <=> Executing(u))
       /\ Executing(t)' <=> p = "opened"
       /\ ~Executing(t)
  BY <1>2, <1>3, <1>4 DEF Executing, Pending
<1>12. SavedFits' /\ SavedWhile'
  <2>1. CASE p = "opened"
    BY <1>6, <1>11, <2>1 DEF IInv, SavedFits, SavedWhile
  <2>2. CASE p # "opened"
    BY <1>2, <1>11, <2>2 DEF IInv, SavedFits, SavedWhile
  <2> QED BY <2>1, <2>2
<1>13. ASSUME NEW u \in Tasks PROVE HeldFits(u)'
  <2>1. CASE u # t
    <3>1. At(u)' = At(u)
      BY <1>4, <2>1 DEF At
    <3>2. Kept(At(u))' = Kept(At(u))
      BY <1>7, <3>1 DEF Kept, Shown
    <3> QED BY <1>1, <1>3, <1>4, <1>5, <2>1, <3>2, HeldKept DEF IInv
  <2>2. CASE u = t
    <3>1. At(t)' = d.address
      BY <1>4 DEF At
    <3>2. p = "loading" => Kept(d.address) = ForkBlock[d.address]
      BY <1>2, <1>4, AnswerShows
    <3>3. Kept(At(t))' = Kept(d.address)
      BY <1>7, <3>1 DEF Kept, Shown
    <3>4. Shown(At(t), held[t])' = Shown(d.address, held'[t])
      BY <3>1 DEF Shown
    <3> QED BY <1>2, <1>3, <1>4, <1>5, <2>2, <3>1, <3>2, <3>3, <3>4 DEF HeldFits
  <2> QED BY <2>1, <2>2
<1>14. CacheFits'
  <2> SUFFICES ASSUME NEW a \in Addresses
               PROVE  \/ Shown(a, cache'[a]) = Kept(a)
                      \/ \E u \in Tasks : phase'[u] = "written" /\ At(u)' = a
    BY <1>8 DEF CacheFits, Shown
  <2>1. CASE Shown(a, cache[a]) = Kept(a)
    BY <1>1, <2>1
  <2>2. ASSUME NEW u \in Tasks, phase[u] = "written", At(u) = a
        PROVE  phase'[u] = "written" /\ At(u)' = a
    BY <1>3, <1>4, <2>2 DEF At
  <2> QED BY <2>1, <2>2 DEF IInv, CacheFits
<1>15. Store!Ask(t, d)
  <2>1. Visible(Settled)' = Visible(Settled)
    BY <1>7 DEF Visible
  <2>2. job' = [job EXCEPT ![t] = d]
    BY <1>1 DEF Ask
  <2> QED BY <1>1, <1>4, <2>1, <2>2 DEF Store!Ask
<1> QED BY <1>4, <1>9, <1>10, <1>12, <1>13, <1>14, <1>15 DEF IInv

-----------------------------------------------------------------------------
(* Writing. *)

\* A task that writes is alone with what it writes, so that the rest of the
\* invariant follows from what the step does to the caches.
LEMMA WritingStep ==
  ASSUME IInv, NEW t \in Tasks, Pending(t), Writes(job[t]), UNCHANGED job,
         NEW p \in {"written", "closed"},
         phase' = [phase EXCEPT ![t] = p],
         p = "written" => job[t].kind = "execute",
         UNCHANGED <<head, again, held, seen, before>>,
         cache' \in [Addresses -> Entries],
         answer' \in [Tasks -> {"none", "ok", "rejected"}],
         p = "closed" <=> answer'[t] # "none",
         \A u \in Tasks : u # t => answer'[u] = answer[u],
         saved' = IF p = "closed" THEN <<>> ELSE saved,
         \A a \in Addresses : a # At(t) => Kept(a)' = Kept(a),
         p = "written" => cache'[At(t)] \in Store!Changed(job[t], Kept(At(t)))
                          /\ Kept(At(t))' = Kept(At(t)),
         \A a \in Addresses :
           (p = "written" => a # At(t)) => Shown(a, cache'[a]) = Kept(a)'
  PROVE  IInv'
<1>1. /\ phase \in [Tasks -> Phases]
      /\ \A u \in Tasks : phase'[u] = IF u = t THEN p ELSE phase[u]
      /\ \A u \in Tasks : At(u)' = At(u) /\ (phase[u] # "idle" => At(u) \in Addresses)
      /\ At(t) \in Addresses
  BY Ranges DEF IInv, TypeOK, At, Pending
<1>2. \A u \in Tasks : Pending(u) /\ u # t => ~Writes(job[u]) /\ At(u) # At(t)
  BY DEF IInv, Alone
<1>3. \A u \in Tasks :
        /\ u # t => (Pending(u)' <=> Pending(u)) /\ ~Executing(u) /\ ~Executing(u)'
        /\ Pending(u)' => Pending(u)
        /\ u = t => (Executing(t)' <=> p = "written")
  BY <1>1, <1>2 DEF Pending, Executing, Writes
<1>4. TypeOK'
  <2>1. phase' \in [Tasks -> Phases]
    BY <1>1 DEF Phases
  <2>2. saved' \in Seq([Addresses -> Entries])
    BY DEF IInv, TypeOK
  <2> QED BY <2>1, <2>2 DEF IInv, TypeOK
<1>5. ASSUME NEW u \in Tasks PROVE TaskFits(u)'
  BY <1>1 DEF IInv, TaskFits, Pending
<1>6. Alone'
  BY <1>1, <1>3 DEF IInv, Alone
<1>7. SavedFits' /\ SavedWhile'
  BY <1>3 DEF IInv, SavedFits, SavedWhile, Executing
<1>8. ASSUME NEW u \in Tasks, u # t PROVE HeldFits(u)'
  <2>1. CASE ~Pending(u)
    BY <1>1, <1>8, <2>1 DEF HeldFits, Pending
  <2>2. CASE Pending(u)
    <3>1. phase[u] # "written"
      BY <1>2, <1>8, <2>2 DEF IInv, TaskFits, Writes
    <3>2. Kept(At(u))' = Kept(At(u))
      BY <1>1, <1>2, <1>8, <2>2 DEF Pending, Kept, Settled, Shown
    <3> QED BY <1>1, <1>8, <3>1, <3>2, HeldKept DEF IInv
  <2> QED BY <2>1, <2>2
<1>9. HeldFits(t)'
  <2>1. p = "written" => Kept(At(t))' = Kept(At(t)) /\ At(t)' = At(t)
    BY <1>1
  <2> QED BY <1>1, <2>1 DEF HeldFits
<1>10. CacheFits'
  <2> SUFFICES ASSUME NEW a \in Addresses
               PROVE  \/ Shown(a, cache'[a]) = Kept(a)'
                      \/ \E u \in Tasks : phase'[u] = "written" /\ At(u)' = a
    BY DEF CacheFits, Shown
  <2> QED BY <1>1
<1> QED BY <1>4, <1>5, <1>6, <1>7, <1>8, <1>9, <1>10 DEF IInv

\* modifyAccountFields changes the account that is there.
LEMMA SetNext ==
  ASSUME IInv, NEW t \in Tasks, SetWrites(t)
  PROVE  IInv' /\ Store!Change(t)
<1> DEFINE a == At(t)
<1>1. /\ phase[t] = "holding" /\ job[t].kind = "set" /\ answer[t] = "none"
      /\ job[t] \in Jobs /\ job[t] # NoJob /\ a \in Addresses /\ Pending(t)
      /\ held[t] = Kept(a)
      /\ Kept(a) \in Account \union {Gone} /\ ~HasZeroHash(Kept(a))
      /\ Writes(job[t])
  BY Ranges, LoadingAssumption
     DEF SetWrites, IInv, TaskFits, HeldFits, Pending, Writes
<1>2. saved = <<>>
  BY <1>1 DEF IInv, SavedFits, Executing, Alone, Writes
<1>3. PICK new \in Store!Changed(job[t], Kept(a)) : Put(a, new)
  BY <1>1 DEF SetWrites
<1>4. new \in Account \union {Gone} /\ ~HasZeroHash(new) /\ new \in Entries /\ new # Missing
  BY <1>1, <1>3, ChangedGood, LoadingAssumption DEF Entries
<1>5. /\ cache' \in [Addresses -> Entries]
      /\ \A b \in Addresses : cache'[b] = IF b = a THEN new ELSE cache[b]
      /\ Shown(a, new) = new
  BY <1>1, <1>3, <1>4, ShownGood DEF Put, IInv, TypeOK
<1>6. /\ UNCHANGED <<saved, head, job, again, held, seen, before>>
      /\ answer' = [answer EXCEPT ![t] = "ok"]
      /\ phase' = [phase EXCEPT ![t] = "closed"]
  BY DEF SetWrites
<1>7. /\ answer' \in [Tasks -> {"none", "ok", "rejected"}] /\ answer'[t] = "ok"
      /\ \A u \in Tasks : u # t => answer'[u] = answer[u]
  BY <1>6 DEF IInv, TypeOK
<1>8. \A b \in Addresses :
        /\ Kept(b) = Shown(b, cache[b])
        /\ Kept(b)' = Shown(b, cache'[b])
  BY <1>2, <1>6 DEF Kept, Settled, Shown
<1>9. \A b \in Addresses : b # a => Kept(b)' = Kept(b)
  BY <1>5, <1>8
<1>10. IInv'
  BY <1>1, <1>2, <1>5, <1>6, <1>7, <1>8, <1>9, WritingStep
<1>11. Visible(Settled)' = [Visible(Settled) EXCEPT ![a] = new]
  <2>1. Visible(Settled) = [b \in Addresses |-> Kept(b)]
    BY VisibleShows DEF Kept
  <2>2. Visible(Settled)' = [b \in Addresses |-> Kept(b)']
    BY DEF Visible, Kept, Shown
  <2> QED BY <1>5, <1>8, <1>9, <2>1, <2>2
<1>12. Visible(Settled)[job[t].address] = Kept(a)
  BY <1>1, VisibleShows DEF Kept, At
<1> QED
  BY <1>1, <1>3, <1>6, <1>10, <1>11, <1>12 DEF Store!Change, Store!Pending, At

\* What an execution writes is seen by nobody yet.
LEMMA ExecuteNext ==
  ASSUME IInv, NEW t \in Tasks, ExecutionWrites(t)
  PROVE  IInv' /\ UNCHANGED Store!storeVars
<1> DEFINE a == At(t)
<1>1. /\ phase[t] = "holding" /\ job[t].kind = "execute" /\ answer[t] = "none"
      /\ job[t] \in Jobs /\ a \in Addresses /\ Pending(t) /\ Writes(job[t])
      /\ held[t] = Kept(a) /\ Len(saved) = 1
      /\ Kept(a) \in Account \union {Gone} /\ ~HasZeroHash(Kept(a))
  BY Ranges
     DEF ExecutionWrites, IInv, TaskFits, HeldFits, Pending, Writes, SavedWhile, Executing
<1>2. PICK new \in Store!Changed(job[t], Kept(a)) : Put(a, new)
  BY <1>1 DEF ExecutionWrites
<1>3. new \in Entries
  BY <1>1, <1>2, ChangedGood DEF Entries
<1>4. /\ cache' \in [Addresses -> Entries]
      /\ \A b \in Addresses : cache'[b] = IF b = a THEN new ELSE cache[b]
  BY <1>1, <1>2, <1>3 DEF Put, IInv, TypeOK
<1>5. /\ UNCHANGED <<saved, head, job, again, held, answer, seen, before>>
      /\ phase' = [phase EXCEPT ![t] = "written"]
  BY DEF ExecutionWrites
<1>6. Settled' = Settled
  BY <1>1, <1>5 DEF Settled
<1>7. \A b \in Addresses : Kept(b)' = Kept(b)
  BY <1>6 DEF Kept, Shown
<1>8. /\ Kept(At(t))' = Kept(At(t))
      /\ cache'[At(t)] \in Store!Changed(job[t], Kept(At(t)))
  BY <1>1, <1>2, <1>4, <1>5, <1>6 DEF Kept, Shown, At
<1>9. \A b \in Addresses : b # a => Shown(b, cache'[b]) = Kept(b)'
  <2>1. \A u \in Tasks : phase[u] = "written" => u = t
    BY <1>1 DEF IInv, Alone, TaskFits, Pending, Writes
  <2> QED BY <1>1, <1>4, <1>7, <2>1 DEF IInv, CacheFits
<1>10. answer \in [Tasks -> {"none", "ok", "rejected"}]
  BY DEF IInv, TypeOK
<1>11. IInv'
  BY <1>1, <1>4, <1>5, <1>7, <1>8, <1>9, <1>10, WritingStep
<1> QED BY <1>5, <1>6, <1>11 DEF Store!storeVars, Visible

\* A commit is the moment an execution takes place.
LEMMA CommitNext ==
  ASSUME IInv, NEW t \in Tasks, Commit(t)
  PROVE  IInv' /\ Store!Change(t)
<1> DEFINE a == At(t)
<1>1. /\ phase[t] = "written" /\ job[t].kind = "execute" /\ answer[t] = "none"
      /\ job[t] \in Jobs /\ job[t] # NoJob /\ a \in Addresses /\ Pending(t)
      /\ Writes(job[t]) /\ Len(saved) = 1
      /\ Kept(a) \in Account \union {Gone} /\ ~HasZeroHash(Kept(a))
      /\ cache[a] \in Store!Changed(job[t], Kept(a))
  BY Ranges, LoadingAssumption
     DEF Commit, IInv, TaskFits, HeldFits, Pending, Writes, SavedWhile, Executing
<1>2. cache[a] \in Entries /\ cache[a] # Missing /\ ~HasZeroHash(cache[a])
  BY <1>1, ChangedGood, LoadingAssumption DEF Entries
<1>3. Shown(a, cache[a]) = cache[a]
  BY <1>1, <1>2, ShownGood
<1>4. /\ UNCHANGED <<cache, head, job, again, held, seen, before>>
      /\ answer' = [answer EXCEPT ![t] = "ok"]
      /\ phase' = [phase EXCEPT ![t] = "closed"]
  BY DEF Commit
<1>5. saved' = <<>>
  BY <1>1 DEF Commit, Oldest, IInv, TypeOK
<1>6. /\ answer' \in [Tasks -> {"none", "ok", "rejected"}] /\ answer'[t] = "ok"
      /\ \A u \in Tasks : u # t => answer'[u] = answer[u]
      /\ cache' \in [Addresses -> Entries]
  BY <1>4 DEF IInv, TypeOK
<1>7. \A b \in Addresses : Kept(b)' = Shown(b, cache[b])
  BY <1>4, <1>5 DEF Kept, Settled, Shown
<1>8. \A b \in Addresses : b # a => Kept(b)' = Kept(b)
  <2>1. \A u \in Tasks : phase[u] = "written" => u = t
    BY <1>1 DEF IInv, Alone, TaskFits, Pending, Writes
  <2> QED BY <1>7, <2>1 DEF IInv, CacheFits
<1>9. IInv'
  <2>1. \A b \in Addresses : Shown(b, cache'[b]) = Kept(b)'
    BY <1>4, <1>7
  <2> QED BY <1>1, <1>4, <1>5, <1>6, <1>8, <2>1, WritingStep
<1>10. Visible(Settled)' = [Visible(Settled) EXCEPT ![a] = cache[a]]
  <2>1. Visible(Settled) = [b \in Addresses |-> Kept(b)]
    BY VisibleShows DEF Kept
  <2>2. Visible(Settled)' = [b \in Addresses |-> Kept(b)']
    BY DEF Visible, Kept, Shown
  <2> QED BY <1>3, <1>7, <1>8, <2>1, <2>2
<1>11. Visible(Settled)[job[t].address] = Kept(a)
  BY <1>1, VisibleShows DEF Kept, At
<1> QED
  BY <1>1, <1>4, <1>9, <1>10, <1>11 DEF Store!Change, Store!Pending, At

\* A revert takes back what nobody has seen, and forgets what can be loaded again.
LEMMA RevertNext ==
  ASSUME IInv, NEW t \in Tasks, Revert(t)
  PROVE  IInv' /\ Store!Fail(t)
<1>1. /\ phase[t] \in {"written", "failing"} /\ job[t].kind = "execute"
      /\ answer[t] = "none" /\ job[t] # NoJob /\ Pending(t) /\ Writes(job[t])
      /\ Len(saved) = 1
  BY DEF Revert, IInv, TaskFits, Pending, Writes, SavedWhile, Executing
<1>2. /\ UNCHANGED <<head, job, again, held, seen, before>>
      /\ answer' = [answer EXCEPT ![t] = "rejected"]
      /\ phase' = [phase EXCEPT ![t] = "closed"]
  BY DEF Revert
<1>3. saved' = <<>> /\ cache' = saved[1] /\ saved # <<>>
  BY <1>1 DEF Revert, Oldest, IInv, TypeOK
<1>4. /\ answer' \in [Tasks -> {"none", "ok", "rejected"}] /\ answer'[t] = "rejected"
      /\ \A u \in Tasks : u # t => answer'[u] = answer[u]
      /\ cache' \in [Addresses -> Entries]
  BY <1>1, <1>2, <1>3 DEF IInv, TypeOK
<1>5. Settled' = Settled /\ Settled' = cache'
  BY <1>3 DEF Settled
<1>6. \A b \in Addresses : Kept(b)' = Kept(b) /\ Kept(b)' = Shown(b, cache'[b])
  BY <1>5 DEF Kept, Shown
<1>7. IInv'
  BY <1>1, <1>2, <1>3, <1>4, <1>6, WritingStep
<1> QED
  BY <1>1, <1>2, <1>5, <1>7 DEF Store!Fail, Store!Pending, Visible

-----------------------------------------------------------------------------

LEMMA InitInv == Init => IInv /\ Store!Init
<1> SUFFICES ASSUME Init PROVE IInv /\ Store!Init
  OBVIOUS
<1>1. TypeOK
  BY DEF Init, TypeOK, Entries, Phases
<1>2. IInv
  BY <1>1 DEF Init, IInv, TaskFits, Alone, SavedFits, SavedWhile, HeldFits, CacheFits,
              Pending, Executing, Kept, Settled, Shown
<1>3. Visible(Settled) = ForkBlock
  BY LoadingAssumption DEF Init, Visible, Settled
<1> QED BY <1>2, <1>3 DEF Init, Store!Init

\* Every step is one of the store's, or one nobody sees.
LEMMA NextInv ==
  ASSUME IInv, Quiet, CodeDoesNotChange, [Next]_vars
  PROVE  IInv' /\ [Store!Next]_Store!storeVars
<1>1. ASSUME NEW t \in Tasks, NEW d \in Jobs, AskForAccount(t, d) \/ AskToExecute(t, d)
      PROVE  IInv' /\ [Store!Next]_Store!storeVars
  BY <1>1, AskNext DEF Store!Next
<1>2. ASSUME NEW t \in Tasks, Continue(t)
      PROVE  IInv' /\ [Store!Next]_Store!storeVars
  <2>1. CASE \/ ExecutionReads(t) \/ ProofLands(t) \/ ProofFails(t)
             \/ FallbackLands(t) \/ FallbackFails(t) \/ SetDeletes(t) \/ SetReadsAgain(t)
    BY <2>1, LoadNext
  <2>2. CASE GiveAccount(t)
    BY <2>2, GiveNext DEF Store!Next
  <2>3. CASE SetWrites(t)
    BY <2>3, SetNext DEF Store!Next
  <2>4. CASE ExecutionWrites(t)
    BY <2>4, ExecuteNext
  <2>5. CASE Commit(t)
    BY <2>5, CommitNext DEF Store!Next
  <2>6. CASE Revert(t)
    BY <2>6, RevertNext DEF Store!Next
  <2>7. CASE Reject(t)
    BY <2>7, RejectNext DEF Store!Next
  <2> QED BY <1>2, <2>1, <2>2, <2>3, <2>4, <2>5, <2>6, <2>7 DEF Continue
<1>3. CASE NewHead \/ UNCHANGED vars
  <2>1. /\ UNCHANGED <<cache, saved, job, phase, again, held, answer, seen, before>>
        /\ head' \in {"fork", "later"}
    BY <1>3 DEF NewHead, vars, IInv, TypeOK
  <2>2. /\ Settled' = Settled /\ Visible(Settled)' = Visible(Settled)
        /\ \A a : Kept(a)' = Kept(a)
    BY <2>1 DEF Settled, Visible, Kept, Shown
  <2>3. IInv'
    <3>1. ASSUME NEW u \in Tasks PROVE HeldFits(u)'
      <4>1. Kept(At(u))' = Kept(At(u))
        BY <2>1, <2>2 DEF Kept, Shown, At
      <4> QED BY <2>1, <4>1, HeldKept DEF IInv
    <3> QED
      BY <2>1, <2>2, <3>1
         DEF IInv, TypeOK, TaskFits, Alone, SavedFits, SavedWhile, CacheFits, Pending,
             Executing, Shown, At
  <2> QED BY <2>1, <2>2, <2>3 DEF Store!storeVars
<1> QED BY <1>1, <1>2, <1>3 DEF Next

\* For any calls and accounts, where callers keep quiet and code does not
\* change, the caches of the state manager are as good as a chain that is all
\* there: getAccount, setBalance and executions implement AccountStore.
THEOREM StoreImplemented ==
  Quiet /\ CodeDoesNotChange => (Spec => ImplementsStore)
<1> SUFFICES ASSUME Quiet, CodeDoesNotChange PROVE Spec => ImplementsStore
  OBVIOUS
<1>1. IInv /\ [Next]_vars => IInv' /\ [Store!Next]_Store!storeVars
  BY NextInv
<1> QED
  BY <1>1, InitInv, PTL DEF Spec, ImplementsStore, Store!Spec

-----------------------------------------------------------------------------
(* The latest balance. *)

\* Once u has set a balance, and nobody has written the account since, the
\* account everybody can count on has that balance.
OnlyWriter(u) ==
  /\ job[u].kind = "set"
  /\ \A v \in Tasks : answer[v] = "ok" /\ Writes(job[v]) /\ At(v) = At(u) => v = u
BalanceKept ==
  \A u \in Tasks : answer[u] = "ok" /\ OnlyWriter(u) =>
    Store!Existing(Kept(At(u))).balance = job[u].balance

\* The calls a task has seen succeed have succeeded.
BeforeFits == \A t \in Tasks : \A u \in before[t] : u \in Tasks /\ answer[u] = "ok"

\* A read of an account as it is gives the balance set last.
ReadFits(t) ==
  job[t].kind = "read" /\ answer[t] = "ok" =>
    \A u \in before[t] :
      At(u) = At(t) /\ OnlyWriter(u) => Store!Existing(seen[t]).balance = job[u].balance

BInv == BalanceKept /\ BeforeFits /\ \A t \in Tasks : ReadFits(t)

\* A call that succeeded asked something, and asks it still.
LEMMA SucceededAsked ==
  ASSUME IInv, [Next]_vars, NEW v \in Tasks, answer[v] = "ok"
  PROVE  /\ job[v] \in Jobs /\ At(v) \in Addresses
         /\ answer'[v] = "ok" /\ job'[v] = job[v] /\ before'[v] = before[v]
         /\ seen'[v] = seen[v]
         /\ At(v)' = At(v)
<1>1. phase[v] = "closed"
  BY DEF IInv, TaskFits
<1>2. job[v] \in Jobs /\ At(v) \in Addresses
  BY <1>1, Ranges DEF IInv
<1>3. ASSUME NEW t \in Tasks, NEW d \in Jobs, AskForAccount(t, d) \/ AskToExecute(t, d)
      PROVE  /\ answer'[v] = "ok" /\ job'[v] = job[v] /\ before'[v] = before[v]
             /\ seen'[v] = seen[v]
  BY <1>1, <1>3 DEF AskForAccount, AskToExecute, Ask, IInv, TypeOK
<1>4. ASSUME NEW t \in Tasks, Continue(t)
      PROVE  /\ answer'[v] = "ok" /\ job'[v] = job[v] /\ before'[v] = before[v]
             /\ seen'[v] = seen[v]
  <2>1. /\ UNCHANGED <<job, before>> /\ phase[t] # "closed"
        /\ UNCHANGED answer \/ \E x : answer' = [answer EXCEPT ![t] = x]
        /\ UNCHANGED seen \/ \E x : seen' = [seen EXCEPT ![t] = x]
    BY <1>4
       DEF Continue, ExecutionReads, ProofLands, ProofFails, FallbackLands, FallbackFails,
           Loaded, GiveAccount, SetDeletes, SetReadsAgain, SetWrites, ExecutionWrites, Commit,
           Revert, Reject
  <2> QED BY <1>1, <2>1 DEF IInv, TypeOK
<1>5. CASE NewHead \/ UNCHANGED vars
  BY <1>2, <1>5 DEF NewHead, vars, At
<1>6. /\ answer'[v] = "ok" /\ job'[v] = job[v] /\ before'[v] = before[v]
      /\ seen'[v] = seen[v]
  BY <1>3, <1>4, <1>5 DEF Next
<1> QED BY <1>2, <1>6 DEF At

\* A call that is the only writer after a step was so before it.
LEMMA OnlyWriterBefore ==
  ASSUME IInv, [Next]_vars, NEW u \in Tasks, answer[u] = "ok", OnlyWriter(u)'
  PROVE  OnlyWriter(u)
<1>1. job[u].kind = "set"
  BY SucceededAsked DEF OnlyWriter
<1>2. ASSUME NEW v \in Tasks, answer[v] = "ok", Writes(job[v]), At(v) = At(u)
      PROVE  v = u
  <2>1. answer'[v] = "ok" /\ Writes(job[v])' /\ At(v)' = At(u)'
    BY <1>2, SucceededAsked DEF Writes
  <2> QED BY <2>1 DEF OnlyWriter
<1> QED BY <1>1, <1>2 DEF OnlyWriter

\* The store shows the accounts everybody can count on.
LEMMA StoreShows ==
  ASSUME NEW a \in Addresses
  PROVE  /\ Visible(Settled)[a] = Kept(a)
         /\ Visible(Settled)'[a] = Kept(a)'
<1>1. Visible(Settled) = [b \in Addresses |-> Kept(b)]
  BY VisibleShows DEF Kept
<1>2. Visible(Settled)' = [b \in Addresses |-> Kept(b)']
  BY DEF Visible, Kept, Shown
<1> QED BY <1>1, <1>2

\* Setting a balance gives an account with that balance.
LEMMA SetGives ==
  ASSUME NEW d \in Jobs, d.kind = "set", NEW e \in Account \union {Gone},
         NEW new \in Store!Changed(d, e)
  PROVE  Store!Existing(new).balance = d.balance
<1> DEFINE old == Store!Existing(e)
<1>1. old \in Account /\ d.balance \in Nat
  BY LoadingAssumption
     DEF Store!Existing, Store!NewAccount, Account, Store!Account, Store!CodeHashes
<1>2. new = [old EXCEPT !.balance = d.balance]
  BY DEF Store!Changed
<1> HIDE DEF old
<1>3. new \in Account /\ new.balance = d.balance
  BY <1>1, <1>2 DEF Account, Store!Account
<1> QED BY <1>3, LoadingAssumption DEF Store!Existing

\* A change of the store leaves the balance that was set last.
LEMMA BalanceNext ==
  ASSUME IInv, BInv, [Next]_vars, [Store!Next]_Store!storeVars
  PROVE  BalanceKept'
<1> SUFFICES ASSUME NEW u \in Tasks, answer'[u] = "ok", OnlyWriter(u)'
             PROVE  Store!Existing(Kept(At(u))').balance = job'[u].balance
  BY DEF BalanceKept, Store!Existing, Store!NewAccount, Kept, Shown
<1>1. CASE answer[u] = "ok"
  <2>1. /\ OnlyWriter(u) /\ job'[u] = job[u] /\ At(u)' = At(u) /\ At(u) \in Addresses
        /\ Writes(job[u])
    BY <1>1, OnlyWriterBefore, SucceededAsked DEF OnlyWriter, Writes
  <2>2. Store!Existing(Kept(At(u))).balance = job[u].balance
    BY <1>1, <2>1 DEF BInv, BalanceKept
  <2>3. Visible(Settled)'[At(u)] = Visible(Settled)[At(u)]
    <3>1. CASE Visible(Settled)' = Visible(Settled)
      BY <3>1
    <3>2. ASSUME NEW t \in Tasks, Store!Change(t)
          PROVE  Visible(Settled)'[At(u)] = Visible(Settled)[At(u)]
      <4>1. /\ answer[t] = "none" /\ job[t].kind \in {"set", "execute"} /\ UNCHANGED job
            /\ answer' = [answer EXCEPT ![t] = "ok"]
            /\ \E new : Visible(Settled)' = [Visible(Settled) EXCEPT ![job[t].address] = new]
        BY <3>2 DEF Store!Change, Store!Pending
      <4>2. answer'[t] = "ok" /\ Writes(job[t])' /\ t # u
        BY <1>1, <4>1 DEF IInv, TypeOK, Writes
      <4>3. At(t)' # At(u)' /\ At(t)' = job[t].address
        BY <4>1, <4>2 DEF OnlyWriter, At
      <4> QED BY <2>1, <4>1, <4>3 DEF Visible
    <3> QED
      BY <3>1, <3>2
         DEF Store!Next, Store!storeVars, Store!Ask, Store!Read, Store!Fail
  <2>4. Kept(At(u))' = Kept(At(u))
    <3>1. Kept(At(u))' = Visible(Settled)'[At(u)]
      BY <2>1 DEF Visible, Kept, Shown
    <3> QED BY <2>1, <2>3, <3>1, StoreShows
  <2> QED BY <2>1, <2>2, <2>4
<1>2. CASE answer[u] # "ok"
  <2>1. PICK t \in Tasks : Store!Read(t) \/ Store!Change(t)
    BY <1>2 DEF Store!Next, Store!storeVars, Store!Ask, Store!Fail, IInv, TypeOK
  <2>2. /\ t = u /\ answer[u] = "none" /\ UNCHANGED job /\ job[u] # NoJob
    BY <1>2, <2>1 DEF Store!Read, Store!Change, Store!Pending, IInv, TypeOK
  <2>3. job[u].kind = "set"
    BY <2>2 DEF OnlyWriter
  <2>4. PICK new \in Store!Changed(job[u], Visible(Settled)[At(u)]) :
          Visible(Settled)' = [Visible(Settled) EXCEPT ![At(u)] = new]
    BY <2>1, <2>2, <2>3 DEF Store!Read, Store!Change, At
  <2>5. job[u] \in Jobs /\ At(u) \in Addresses /\ At(u)' = At(u)
    <3>1. phase[u] # "idle"
      BY <2>2 DEF IInv, TaskFits
    <3> QED BY <2>2, <3>1, Ranges DEF IInv, At
  <2>6. Kept(At(u)) \in Account \union {Gone}
    BY <2>5, Ranges DEF IInv
  <2>7. Store!Existing(new).balance = job[u].balance
    BY <2>3, <2>4, <2>5, <2>6, StoreShows, SetGives
  <2>8. Kept(At(u))' = new
    <3>1. Kept(At(u))' = Visible(Settled)'[At(u)]
      BY <2>5 DEF Visible, Kept, Shown
    <3> QED BY <2>4, <2>5, <3>1 DEF Visible
  <2> QED BY <2>2, <2>7, <2>8
<1> QED BY <1>1, <1>2

\* What a task has seen succeed is fixed when it is asked.
LEMMA BeforeNext ==
  ASSUME IInv, BeforeFits, [Next]_vars
  PROVE  BeforeFits'
<1> SUFFICES ASSUME NEW t \in Tasks, NEW u \in before'[t]
             PROVE  u \in Tasks /\ answer'[u] = "ok"
  BY DEF BeforeFits
<1>1. u \in before[t] \/ u \in {x \in Tasks : answer[x] = "ok"}
  <2>1. ASSUME NEW x \in Tasks, NEW d \in Jobs, AskForAccount(x, d) \/ AskToExecute(x, d)
        PROVE  before' = [before EXCEPT ![x] = {y \in Tasks : answer[y] = "ok"}]
    BY <2>1 DEF AskForAccount, AskToExecute, Ask
  <2>2. ASSUME NEW x \in Tasks, Continue(x)
        PROVE  UNCHANGED before
    BY <2>2
       DEF Continue, ExecutionReads, ProofLands, ProofFails, FallbackLands, FallbackFails,
           Loaded, GiveAccount, SetDeletes, SetReadsAgain, SetWrites, ExecutionWrites, Commit,
           Revert, Reject
  <2>3. CASE NewHead \/ UNCHANGED vars
    BY <2>3 DEF NewHead, vars
  <2> QED BY <2>1, <2>2, <2>3 DEF Next, IInv, TypeOK
<1> QED BY <1>1, SucceededAsked DEF BeforeFits

\* A read is given the account everybody can count on.
LEMMA ReadNext ==
  ASSUME IInv, BInv, [Next]_vars, [Store!Next]_Store!storeVars, NEW t \in Tasks
  PROVE  ReadFits(t)'
<1> SUFFICES ASSUME job'[t].kind = "read", answer'[t] = "ok",
                    NEW u \in before'[t], At(u)' = At(t)', OnlyWriter(u)'
             PROVE  Store!Existing(seen'[t]).balance = job'[u].balance
  BY DEF ReadFits, Store!Existing, Store!NewAccount
<1>1. CASE answer[t] = "ok"
  <2>1. /\ job'[t] = job[t] /\ u \in before[t] /\ At(t)' = At(t) /\ seen'[t] = seen[t]
    BY <1>1, SucceededAsked
  <2>2. u \in Tasks /\ answer[u] = "ok"
    BY <2>1 DEF BInv, BeforeFits
  <2>3. OnlyWriter(u) /\ job'[u] = job[u] /\ At(u)' = At(u)
    BY <2>2, OnlyWriterBefore, SucceededAsked
  <2> QED BY <1>1, <2>1, <2>2, <2>3 DEF BInv, ReadFits
<1>2. CASE answer[t] # "ok"
  <2>1. PICK x \in Tasks : Store!Read(x) \/ Store!Change(x)
    BY <1>2 DEF Store!Next, Store!storeVars, Store!Ask, Store!Fail, IInv, TypeOK
  <2>2. x = t /\ UNCHANGED job /\ answer[t] = "none" /\ job[t] # NoJob
    BY <1>2, <2>1 DEF Store!Read, Store!Change, Store!Pending, IInv, TypeOK
  <2>3. Store!Read(t)
    BY <2>1, <2>2 DEF Store!Change
  <2>4. At(t) \in Addresses /\ At(t)' = At(t)
    <3>1. phase[t] # "idle"
      BY <2>2 DEF IInv, TaskFits
    <3> QED BY <2>2, <3>1, Ranges DEF IInv, At
  <2>5. seen'[t] = Kept(At(t))
    BY <2>3, <2>4, StoreShows DEF Store!Read, IInv, TypeOK, At
  <2>6. u \in Tasks /\ u \in before[t] /\ answer[u] = "ok"
    <3>1. phase[t] # "idle"
      BY <2>2 DEF IInv, TaskFits
    <3>2. before'[t] = before[t]
      <4>1. ASSUME NEW y \in Tasks, NEW d \in Jobs, AskForAccount(y, d) \/ AskToExecute(y, d)
            PROVE  before'[t] = before[t]
        BY <3>1, <4>1 DEF AskForAccount, AskToExecute, Ask, IInv, TypeOK
      <4>2. ASSUME NEW y \in Tasks, Continue(y)
            PROVE  UNCHANGED before
        BY <4>2
           DEF Continue, ExecutionReads, ProofLands, ProofFails, FallbackLands, FallbackFails,
               Loaded, GiveAccount, SetDeletes, SetReadsAgain, SetWrites, ExecutionWrites, Commit,
               Revert, Reject
      <4>3. CASE NewHead \/ UNCHANGED vars
        BY <4>3 DEF NewHead, vars
      <4> QED BY <4>1, <4>2, <4>3 DEF Next
    <3> QED BY <3>2 DEF BInv, BeforeFits
  <2>7. OnlyWriter(u) /\ job'[u] = job[u] /\ At(u)' = At(u)
    BY <2>6, OnlyWriterBefore, SucceededAsked
  <2> QED BY <2>4, <2>5, <2>6, <2>7 DEF BInv, BalanceKept
<1> QED BY <1>1, <1>2

\* For any calls and accounts, where callers keep quiet and code does not
\* change, a read is given the balance that was set last, across loads, the
\* fallback's substitutes and the reverts of executions elsewhere (setBalance,
\* eth_getBalance, getAccount, OverriddenStateManager.revert).
THEOREM LatestBalanceAlwaysRead ==
  Quiet /\ CodeDoesNotChange => (Spec => []LatestBalanceRead)
<1> SUFFICES ASSUME Quiet, CodeDoesNotChange PROVE Spec => []LatestBalanceRead
  OBVIOUS
<1>1. Init => BInv
  BY DEF Init, BInv, BalanceKept, BeforeFits, ReadFits
<1>2. IInv /\ [Next]_vars => IInv' /\ [Store!Next]_Store!storeVars
  BY NextInv
<1>3. IInv /\ BInv /\ [Next]_vars /\ [Store!Next]_Store!storeVars => BInv'
  BY BalanceNext, BeforeNext, ReadNext DEF BInv
<1>4. IInv /\ BInv => LatestBalanceRead
  BY DEF BInv, ReadFits, OnlyWriter, LatestBalanceRead
<1> QED
  BY <1>1, <1>2, <1>3, <1>4, InitInv, PTL DEF Spec

-----------------------------------------------------------------------------
(* Types, however calls overlap.  A commit and a revert take a checkpoint from *)
(* the stack: that there is one, whichever execution it was of, is what the    *)
(* type of the caches rests on.                                                *)

ExecutingTasks == {t \in Tasks : Executing(t)}

StackFits ==
  /\ IsFiniteSet(ExecutingTasks)
  /\ Len(saved) = Cardinality(ExecutingTasks)

\* A task that has an account does not hold a missing one.
HoldsAccount ==
  \A t \in Tasks : phase[t] \in {"loaded", "holding"} => held[t] # Missing

TInv == TypeOK /\ (\A t \in Tasks : TaskFits(t)) /\ StackFits /\ HoldsAccount

\* A job leaves an account, or deletes it.
LEMMA ChangedType ==
  ASSUME NEW d \in Jobs, NEW e \in Account \union {Gone}, NEW new \in Store!Changed(d, e)
  PROVE  new \in Account \union {Gone}
<1> DEFINE old == Store!Existing(e)
<1>1. old \in Account /\ d.balance \in Nat
  BY LoadingAssumption
     DEF Store!Existing, Store!NewAccount, Account, Store!Account, Store!CodeHashes
<1>2. \/ new = [old EXCEPT !.balance = d.balance]
      \/ new = [old EXCEPT !.nonce = @ + 1]
      \/ new = Gone \/ new = e
  BY DEF Store!Changed
<1> HIDE DEF old
<1> QED BY <1>1, <1>2 DEF Account, Store!Account

\* The accounts a provider tells of.
LEMMA AnswerTypes ==
  ASSUME TypeOK, NEW a \in Addresses
  PROVE  /\ ForkBlock[a] \in Account
         /\ [ForkBlock[a] EXCEPT !.code = "zero"] \in Account
         /\ [ForkBlock[a] EXCEPT !.code = Latest[a].code] \in Account
<1>1. ForkBlock[a] \in Account /\ Latest[a] \in Account
  BY LoadingAssumption DEF Latest
<1> QED BY <1>1 DEF Account, Store!Account, Store!CodeHashes

\* A task that no execution belongs to, before a step or after it, leaves the
\* stack and the executions as they are.
LEMMA StackKept ==
  ASSUME StackFits, NEW t \in Tasks, UNCHANGED saved,
         \A u \in Tasks : u # t => phase'[u] = phase[u] /\ job'[u] = job[u],
         Executing(t)' <=> Executing(t)
  PROVE  StackFits'
<1>1. \A u \in Tasks : Executing(u)' <=> Executing(u)
  BY DEF Executing, Pending
<1>2. ExecutingTasks' = ExecutingTasks
  BY <1>1 DEF ExecutingTasks
<1> QED BY <1>2 DEF StackFits

\* Making a call.
LEMMA TypeAsk ==
  ASSUME TInv, NEW t \in Tasks, NEW d \in Jobs, AskForAccount(t, d) \/ AskToExecute(t, d)
  PROVE  TInv'
<1>1. /\ phase[t] = "idle" /\ answer[t] = "none" /\ UNCHANGED <<cache, head, again, answer, seen>>
      /\ job' = [job EXCEPT ![t] = d] /\ before' \in [Tasks -> SUBSET Tasks]
      /\ d.address \in Addresses /\ d # NoJob
      /\ d.kind \in {"read", "set", "execute"}
  <2>1. phase[t] = "idle" /\ answer[t] = "none"
    BY DEF AskForAccount, AskToExecute, Ask, TInv, TaskFits
  <2>2. /\ UNCHANGED <<cache, head, again, answer, seen>>
        /\ job' = [job EXCEPT ![t] = d]
        /\ before' = [before EXCEPT ![t] = {u \in Tasks : answer[u] = "ok"}]
    BY DEF AskForAccount, AskToExecute, Ask
  <2>3. before' \in [Tasks -> SUBSET Tasks]
    BY <2>2 DEF TInv, TypeOK
  <2> QED BY <2>1, <2>2, <2>3, LoadingAssumption
<1>2. CASE AskForAccount(t, d)
  <2>1. PICK p \in {"loading", "loaded"} :
          /\ phase' = [phase EXCEPT ![t] = p]
          /\ held' = [held EXCEPT ![t] = cache[d.address]]
          /\ p = "loaded" => cache[d.address] # Missing
          /\ UNCHANGED saved
    BY <1>2 DEF AskForAccount, LookUp
  <2>2. TypeOK'
    BY <1>1, <2>1 DEF TInv, TypeOK, Phases
  <2>3. ASSUME NEW u \in Tasks PROVE TaskFits(u)'
    BY <1>1, <2>1 DEF TInv, TypeOK, TaskFits
  <2>4. HoldsAccount'
    BY <1>1, <2>1 DEF TInv, TypeOK, HoldsAccount
  <2>5. StackFits'
    <3>1. ~Executing(t) /\ ~Executing(t)'
      BY <1>1, <1>2 DEF AskForAccount, Executing, Pending, TInv, TypeOK
    <3> QED BY <1>1, <2>1, <3>1, StackKept DEF TInv, TypeOK
  <2> QED BY <2>2, <2>3, <2>4, <2>5 DEF TInv
<1>3. CASE AskToExecute(t, d)
  <2>1. /\ phase' = [phase EXCEPT ![t] = "opened"]
        /\ saved' = Append(saved, cache)
        /\ UNCHANGED held /\ d.kind = "execute"
    BY <1>3 DEF AskToExecute
  <2>2. TypeOK'
    BY <1>1, <2>1 DEF TInv, TypeOK, Phases
  <2>3. ASSUME NEW u \in Tasks PROVE TaskFits(u)'
    BY <1>1, <2>1 DEF TInv, TypeOK, TaskFits
  <2>4. HoldsAccount'
    BY <1>1, <2>1 DEF TInv, TypeOK, HoldsAccount
  <2>5. StackFits'
    <3>1. ExecutingTasks' = ExecutingTasks \union {t} /\ t \notin ExecutingTasks
      BY <1>1, <2>1 DEF ExecutingTasks, Executing, Pending, TInv, TypeOK
    <3>2. Len(saved') = Len(saved) + 1
      BY <2>1 DEF TInv, TypeOK
    <3> QED BY <3>1, <3>2, FS_AddElement DEF TInv, StackFits
  <2> QED BY <2>2, <2>3, <2>4, <2>5 DEF TInv
<1> QED BY <1>2, <1>3

\* A step of a task that leaves the stack alone.
LEMMA TypeMove ==
  ASSUME TInv, NEW t \in Tasks, phase[t] \notin {"idle", "closed"},
         NEW p \in Phases \ {"idle", "opened"},
         phase' = [phase EXCEPT ![t] = p],
         p = "closed" => job[t].kind # "execute",
         p = "written" => job[t].kind = "execute",
         NEW e \in Entries, cache' = cache \/ Put(At(t), e),
         NEW h \in Entries, held' = held \/ held' = [held EXCEPT ![t] = h],
         p \in {"loaded", "holding"} => held'[t] # Missing,
         NEW x \in {"none", "ok", "rejected"}, answer' = [answer EXCEPT ![t] = x],
         p = "closed" <=> x # "none",
         seen' \in [Tasks -> Account \union {Gone, NoJob}],
         again' \in [Tasks -> BOOLEAN],
         UNCHANGED <<saved, head, job, before>>
  PROVE  TInv'
<1>1. job[t] \in Jobs /\ At(t) \in Addresses
  BY LoadingAssumption DEF TInv, TypeOK, TaskFits, At
<1>2. TypeOK'
  BY <1>1 DEF TInv, TypeOK, Put
<1>3. ASSUME NEW u \in Tasks PROVE TaskFits(u)'
  BY DEF TInv, TypeOK, TaskFits
<1>4. HoldsAccount'
  BY DEF TInv, TypeOK, HoldsAccount
<1>5. StackFits'
  <2>1. Executing(t)' <=> Executing(t)
    BY DEF TInv, TypeOK, Executing, Pending
  <2> QED BY <2>1, StackKept DEF TInv, TypeOK
<1> QED BY <1>2, <1>3, <1>4, <1>5 DEF TInv

\* What a pending task has.
LEMMA PendingTypes ==
  ASSUME TInv, NEW t \in Tasks, phase[t] \notin {"idle", "closed"}
  PROVE  /\ job[t] \in Jobs /\ At(t) \in Addresses /\ answer[t] = "none"
         /\ cache[At(t)] \in Entries /\ held[t] \in Entries
         /\ answer = [answer EXCEPT ![t] = "none"]
         /\ seen \in [Tasks -> Account \union {Gone, NoJob}]
         /\ again \in [Tasks -> BOOLEAN]
         /\ phase[t] \in {"loaded", "holding"} => held[t] \in Account \union {Gone}
<1>1. job[t] \in Jobs /\ At(t) \in Addresses /\ answer[t] = "none"
  BY LoadingAssumption DEF TInv, TypeOK, TaskFits, At
<1>2. answer = [answer EXCEPT ![t] = "none"]
  BY <1>1 DEF TInv, TypeOK
<1> QED BY <1>1, <1>2 DEF TInv, TypeOK, HoldsAccount, Entries

\* Loading, looking up, giving up.
LEMMA TypeLoad ==
  ASSUME TInv, NEW t \in Tasks,
         \/ ExecutionReads(t) \/ ProofLands(t) \/ ProofFails(t) \/ FallbackLands(t)
         \/ FallbackFails(t) \/ Reject(t)
  PROVE  TInv'
<1>1. phase[t] \notin {"idle", "closed"} /\ UNCHANGED <<saved, head, job, seen, again, before>>
  BY DEF ExecutionReads, ProofLands, ProofFails, FallbackLands, FallbackFails, Loaded, Reject
<1>2. CASE ExecutionReads(t)
  <2>1. PICK p \in {"loading", "loaded"} :
          /\ phase' = [phase EXCEPT ![t] = p]
          /\ held' = [held EXCEPT ![t] = cache[At(t)]]
          /\ p = "loaded" => cache[At(t)] # Missing
          /\ UNCHANGED <<cache, answer>>
    BY <1>2 DEF ExecutionReads, LookUp
  <2>2. held'[t] = cache[At(t)]
    BY <2>1 DEF TInv, TypeOK
  <2>3. p \in Phases \ {"idle", "opened"}
    BY DEF Phases
  <2> QED BY <1>1, <2>1, <2>2, <2>3, PendingTypes, TypeMove
<1>3. CASE ProofLands(t) \/ FallbackLands(t)
  <2>1. PICK e \in Account : Loaded(t, e)
    BY <1>1, <1>3, PendingTypes, AnswerTypes DEF ProofLands, FallbackLands, TInv
  <2>2. /\ phase' = [phase EXCEPT ![t] = "loaded"] /\ held' = [held EXCEPT ![t] = e]
        /\ Put(At(t), e) /\ UNCHANGED answer
    BY <2>1 DEF Loaded
  <2>3. e \in Entries /\ held'[t] # Missing /\ "loaded" \in Phases \ {"idle", "opened"}
    BY <2>2, LoadingAssumption DEF TInv, TypeOK, Entries, Phases
  <2> QED BY <1>1, <2>2, <2>3, PendingTypes, TypeMove
<1>4. CASE ProofFails(t) \/ FallbackFails(t)
  <2>1. PICK p \in {"fallback", "failing"} :
          phase' = [phase EXCEPT ![t] = p] /\ UNCHANGED <<cache, held, answer>>
    BY <1>4 DEF ProofFails, FallbackFails
  <2>2. p \in Phases \ {"idle", "opened"}
    BY DEF Phases
  <2> QED BY <1>1, <2>1, <2>2, PendingTypes, TypeMove
<1>5. CASE Reject(t)
  <2>1. /\ phase' = [phase EXCEPT ![t] = "closed"]
        /\ answer' = [answer EXCEPT ![t] = "rejected"]
        /\ job[t].kind # "execute" /\ UNCHANGED <<cache, held>>
    BY <1>5 DEF Reject
  <2>2. "closed" \in Phases \ {"idle", "opened"}
    BY DEF Phases
  <2> QED BY <1>1, <2>1, <2>2, PendingTypes, TypeMove
<1> QED BY <1>2, <1>3, <1>4, <1>5

\* Putting the hash right, and handing the account on.
LEMMA TypeGive ==
  ASSUME TInv, NEW t \in Tasks, GiveAccount(t)
  PROVE  TInv'
<1> DEFINE right == IF HasZeroHash(held[t]) THEN [held[t] EXCEPT !.code = "null"] ELSE held[t]
<1>1. /\ phase[t] = "loaded" /\ UNCHANGED <<saved, head, job, again, before>>
      /\ held' = [held EXCEPT ![t] = right]
      /\ cache' = cache \/ Put(At(t), right)
  BY DEF GiveAccount
<1>2. right \in Account \union {Gone}
  BY <1>1, PendingTypes DEF HasZeroHash, Account, Store!Account, Store!CodeHashes
<1>3. right \in Entries /\ right # Missing
  BY <1>2, LoadingAssumption DEF Entries
<1>4. \/ /\ phase' = [phase EXCEPT ![t] = "closed"] /\ answer' = [answer EXCEPT ![t] = "ok"]
         /\ job[t].kind = "read" /\ seen' = [seen EXCEPT ![t] = right]
      \/ phase' = [phase EXCEPT ![t] = "holding"] /\ UNCHANGED <<answer, seen>>
  BY DEF GiveAccount
<1> HIDE DEF right
<1>5. held'[t] = right /\ {"closed", "holding"} \subseteq Phases \ {"idle", "opened"}
  BY <1>1 DEF TInv, TypeOK, Phases
<1>6. seen' \in [Tasks -> Account \union {Gone, NoJob}] /\ UNCHANGED again
  BY <1>1, <1>2, <1>4 DEF TInv, TypeOK
<1>7. CASE phase' = [phase EXCEPT ![t] = "closed"] /\ answer' = [answer EXCEPT ![t] = "ok"]
           /\ job[t].kind = "read"
  BY <1>1, <1>3, <1>5, <1>6, <1>7, PendingTypes, TypeMove
<1>8. CASE phase' = [phase EXCEPT ![t] = "holding"] /\ UNCHANGED answer
  BY <1>1, <1>3, <1>5, <1>6, <1>8, PendingTypes, TypeMove
<1> QED BY <1>4, <1>7, <1>8

\* The steps of setBalance, and what an execution writes.
LEMMA TypeWrite ==
  ASSUME TInv, NEW t \in Tasks,
         SetDeletes(t) \/ SetReadsAgain(t) \/ SetWrites(t) \/ ExecutionWrites(t)
  PROVE  TInv'
<1>1. phase[t] \in {"holding", "deleted"} /\ UNCHANGED <<saved, head, job, seen, before>>
  BY DEF SetDeletes, SetReadsAgain, SetWrites, ExecutionWrites
<1>2. {"deleted", "loading", "loaded", "closed", "written"} \subseteq Phases \ {"idle", "opened"}
  BY DEF Phases
<1>3. CASE SetDeletes(t)
  <2>1. /\ Put(At(t), Gone) /\ phase' = [phase EXCEPT ![t] = "deleted"]
        /\ UNCHANGED <<held, again, answer>> /\ Gone \in Entries
    BY <1>3 DEF SetDeletes, Entries
  <2> QED BY <1>1, <1>2, <2>1, PendingTypes, TypeMove
<1>4. CASE SetReadsAgain(t)
  <2>1. PICK p \in {"loading", "loaded"} :
          /\ phase' = [phase EXCEPT ![t] = p]
          /\ held' = [held EXCEPT ![t] = cache[At(t)]]
          /\ p = "loaded" => cache[At(t)] # Missing
          /\ UNCHANGED <<cache, answer>>
    BY <1>4 DEF SetReadsAgain, LookUp
  <2>2. held'[t] = cache[At(t)] /\ again' \in [Tasks -> BOOLEAN]
    BY <1>4, <2>1 DEF SetReadsAgain, TInv, TypeOK
  <2> QED BY <1>1, <1>2, <2>1, <2>2, PendingTypes, TypeMove
<1>5. CASE SetWrites(t) \/ ExecutionWrites(t)
  <2>1. PICK new \in Store!Changed(job[t], held[t]) : Put(At(t), new)
    BY <1>5 DEF SetWrites, ExecutionWrites
  <2>2. new \in Entries
    BY <1>1, <1>5, <2>1, PendingTypes, ChangedType DEF SetWrites, ExecutionWrites, Entries
  <2>3. \/ /\ phase' = [phase EXCEPT ![t] = "closed"] /\ answer' = [answer EXCEPT ![t] = "ok"]
           /\ job[t].kind = "set"
        \/ /\ phase' = [phase EXCEPT ![t] = "written"] /\ UNCHANGED answer
           /\ job[t].kind = "execute"
    BY <1>5 DEF SetWrites, ExecutionWrites
  <2>4. UNCHANGED <<held, again>>
    BY <1>5 DEF SetWrites, ExecutionWrites
  <2>5. CASE /\ phase' = [phase EXCEPT ![t] = "closed"] /\ answer' = [answer EXCEPT ![t] = "ok"]
             /\ job[t].kind = "set"
    BY <1>1, <1>2, <2>1, <2>2, <2>4, <2>5, PendingTypes, TypeMove
  <2>6. CASE /\ phase' = [phase EXCEPT ![t] = "written"] /\ UNCHANGED answer
             /\ job[t].kind = "execute"
    BY <1>1, <1>2, <2>1, <2>2, <2>4, <2>6, PendingTypes, TypeMove
  <2> QED BY <2>3, <2>5, <2>6
<1> QED BY <1>3, <1>4, <1>5

\* The end of an execution takes the youngest checkpoint, perhaps another's.
LEMMA TypeEnd ==
  ASSUME TInv, NEW t \in Tasks, Commit(t) \/ Revert(t)
  PROVE  TInv'
<1>1. /\ phase[t] \in {"written", "failing"} /\ job[t].kind = "execute"
      /\ phase' = [phase EXCEPT ![t] = "closed"]
      /\ \E x \in {"ok", "rejected"} : answer' = [answer EXCEPT ![t] = x]
      /\ cache' = cache \/ cache' = saved[Len(saved)]
      /\ saved' = Oldest
      /\ UNCHANGED <<head, job, again, held, seen, before>>
  BY DEF Commit, Revert, TInv, TaskFits
<1>2. t \in ExecutingTasks
  BY <1>1 DEF ExecutingTasks, Executing, Pending
<1>3. /\ IsFiniteSet(ExecutingTasks)
      /\ Len(saved) = Cardinality(ExecutingTasks)
      /\ IsFiniteSet(ExecutingTasks \ {t})
      /\ Cardinality(ExecutingTasks \ {t}) = Cardinality(ExecutingTasks) - 1
  BY <1>2, FS_RemoveElement DEF TInv, StackFits
<1>4. Cardinality(ExecutingTasks \ {t}) \in Nat
  BY <1>3, FS_CardinalityType
<1>5. /\ saved \in Seq([Addresses -> Entries]) /\ Len(saved) \in Nat
      /\ saved[Len(saved)] \in [Addresses -> Entries]
      /\ saved' \in Seq([Addresses -> Entries]) /\ Len(saved') = Len(saved) - 1
  <2> DEFINE n == Len(saved)
  <2>1. saved \in Seq([Addresses -> Entries]) /\ n \in Nat
    BY DEF TInv, TypeOK
  <2>2. n >= 1
    BY <1>3, <1>4, <2>1
  <2>3. \A i \in 1..n : saved[i] \in [Addresses -> Entries]
    BY <2>1
  <2>4. saved' = SubSeq(saved, 1, n - 1)
    BY <1>1 DEF Oldest
  <2> HIDE DEF n
  <2>5. n \in 1..n /\ n - 1 \in Nat /\ n - 1 <= n
    BY <2>1, <2>2
  <2>6. saved[n] \in [Addresses -> Entries]
    BY <2>3, <2>5
  <2>7. SubSeq(saved, 1, n - 1) \in Seq([Addresses -> Entries])
        /\ Len(SubSeq(saved, 1, n - 1)) = n - 1
    BY <2>1, <2>3, <2>5
  <2> QED BY <2>1, <2>4, <2>6, <2>7 DEF n
<1>6. TypeOK'
  BY <1>1, <1>5 DEF TInv, TypeOK, Phases
<1>7. ASSUME NEW u \in Tasks PROVE TaskFits(u)'
  BY <1>1 DEF TInv, TypeOK, TaskFits
<1>8. HoldsAccount'
  BY <1>1 DEF TInv, TypeOK, HoldsAccount
<1>9. StackFits'
  <2>1. ExecutingTasks' = ExecutingTasks \ {t}
    BY <1>1 DEF ExecutingTasks, Executing, Pending, TInv, TypeOK
  <2> QED BY <1>3, <1>5, <2>1 DEF StackFits
<1> QED BY <1>6, <1>7, <1>8, <1>9 DEF TInv

\* Every variable keeps its type, however calls overlap and whatever the chain
\* does: no commit or revert finds the stack of checkpoints empty, and no call
\* goes on with an account that is missing (getAccount, modifyAccountFields,
\* commit and revert of the state manager).
THEOREM TypeCorrect == Spec => []TypeOK
<1>1. Init => TInv
  <2> SUFFICES ASSUME Init PROVE TInv
    OBVIOUS
  <2>1. TypeOK
    BY DEF Init, TypeOK, Entries, Phases
  <2>2. ExecutingTasks = {}
    BY DEF Init, ExecutingTasks, Executing, Pending
  <2>3. StackFits
    BY <2>2, FS_EmptySet DEF Init, StackFits
  <2> QED BY <2>1, <2>3 DEF Init, TInv, TaskFits, HoldsAccount
<1>2. TInv /\ [Next]_vars => TInv'
  <2> SUFFICES ASSUME TInv, [Next]_vars PROVE TInv'
    OBVIOUS
  <2>1. ASSUME NEW t \in Tasks, Continue(t) PROVE TInv'
    BY <2>1, TypeLoad, TypeGive, TypeWrite, TypeEnd DEF Continue
  <2>2. CASE NewHead \/ UNCHANGED vars
    BY <2>2 DEF NewHead, vars, TInv, TypeOK, TaskFits, StackFits, ExecutingTasks, Executing,
                Pending, HoldsAccount
  <2> QED BY <2>1, <2>2, TypeAsk DEF Next
<1>3. TInv => TypeOK
  BY DEF TInv
<1> QED BY <1>1, <1>2, <1>3, PTL DEF Spec

=============================================================================
