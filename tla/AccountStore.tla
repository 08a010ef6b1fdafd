---------------------------- MODULE AccountStore ----------------------------
(***************************************************************************)
(* What the world state of a forked chain promises its users: the accounts *)
(* of the fork block are all there from the start, and every task reads or *)
(* changes one of them at one moment.  No cache, no loading, no            *)
(* checkpoints.                                                            *)
(***************************************************************************)
EXTENDS Naturals

CONSTANTS
  Tasks,       \* identities of the tasks
  Addresses,
  Fork,        \* Fork[a]: the account at address a in the fork block
  Jobs,        \* what a task may be asked: [kind, address, balance]
  NoJob,       \* the job of a task not asked yet
  Gone         \* an account deleted by an execution

VARIABLES
  accounts,    \* the account at each address
  job,         \* what each task was asked
  answer,      \* "none", or how the task ended
  seen         \* the account a reading task was given

storeVars == <<accounts, job, answer, seen>>

\* The code hash of an account: the provider's zero hash, that of no code, or
\* that of some code.
CodeHashes == {"zero", "null", "code"}
Account == [balance: Nat, nonce: Nat, code: CodeHashes]
NewAccount == [balance |-> 0, nonce |-> 0, code |-> "null"]
Existing(account) == IF account = Gone THEN NewAccount ELSE account

\* What a job may leave of the account it finds.  The library deletes an empty
\* account that a transaction touches.
Changed(d, account) ==
  LET old == Existing(account) IN
  CASE d.kind = "set" -> {[old EXCEPT !.balance = d.balance]}
    [] d.kind = "execute" ->
         {[old EXCEPT !.nonce = @ + 1]}
           \union (IF old = NewAccount THEN {Gone} ELSE {})
    [] OTHER -> {account}

Init ==
  /\ accounts = Fork
  /\ job = [t \in Tasks |-> NoJob]
  /\ answer = [t \in Tasks |-> "none"]
  /\ seen = [t \in Tasks |-> NoJob]

Pending(t) == job[t] # NoJob /\ answer[t] = "none"

Ask(t, d) ==
  /\ job[t] = NoJob
  /\ job' = [job EXCEPT ![t] = d]
  /\ UNCHANGED <<accounts, answer, seen>>

Read(t) ==
  /\ Pending(t)
  /\ job[t].kind = "read"
  /\ seen' = [seen EXCEPT ![t] = accounts[job[t].address]]
  /\ answer' = [answer EXCEPT ![t] = "ok"]
  /\ UNCHANGED <<accounts, job>>

Change(t) ==
  /\ Pending(t)
  /\ job[t].kind \in {"set", "execute"}
  /\ \E new \in Changed(job[t], accounts[job[t].address]) :
       accounts' = [accounts EXCEPT ![job[t].address] = new]
  /\ answer' = [answer EXCEPT ![t] = "ok"]
  /\ UNCHANGED <<job, seen>>

Fail(t) ==
  /\ Pending(t)
  /\ answer' = [answer EXCEPT ![t] = "rejected"]
  /\ UNCHANGED <<accounts, job, seen>>

Next ==
  \E t \in Tasks :
    \/ \E d \in Jobs : Ask(t, d)
    \/ Read(t)
    \/ Change(t)
    \/ Fail(t)

Spec == Init /\ [][Next]_storeVars

=============================================================================
