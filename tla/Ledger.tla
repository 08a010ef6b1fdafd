------------------------------- MODULE Ledger -------------------------------
(***************************************************************************)
(* What the simulation engine promises a caller, without checkpoints, code *)
(* caches or phases: one ledger of effects, requests that take effect all  *)
(* at once or not at all, and calls that observe the ledger.               *)
(***************************************************************************)

CONSTANTS
  Requests,          \* identities of requests
  Descriptors,       \* what a request may ask
  EffectsFor(_, _),  \* what a request changes when it asks a descriptor
  Nothing            \* the descriptor of a request not made yet

VARIABLES
  ledger,        \* the effects that have taken place
  asked,         \* what each request asks
  answered,      \* "none", or how the request ended
  seen           \* the ledger a call observed

ledgerVars == <<ledger, asked, answered, seen>>

Init ==
  /\ ledger = {}
  /\ asked = [r \in Requests |-> Nothing]
  /\ answered = [r \in Requests |-> "none"]
  /\ seen = [r \in Requests |-> {}]

Pending(r) == asked[r] # Nothing /\ answered[r] = "none"

\* A request is made; one that asks the impossible is refused at once.
AskFor(r, d) ==
  /\ asked[r] = Nothing
  /\ asked' = [asked EXCEPT ![r] = d]
  /\ answered' \in {answered, [answered EXCEPT ![r] = "rejected"]}
  /\ UNCHANGED <<ledger, seen>>

Observe(r) ==
  /\ Pending(r)
  /\ seen' = [seen EXCEPT ![r] = ledger]
  /\ UNCHANGED <<ledger, asked, answered>>

Succeed(r) ==
  /\ Pending(r)
  /\ ledger' = ledger \union EffectsFor(r, asked[r])
  /\ answered' = [answered EXCEPT ![r] = "ok"]
  /\ UNCHANGED <<asked, seen>>

Fail(r) ==
  /\ Pending(r)
  /\ answered' \in {[answered EXCEPT ![r] = a] : a \in {"error", "rejected"}}
  /\ UNCHANGED <<ledger, asked, seen>>

Next ==
  \E r \in Requests :
    \/ \E d \in Descriptors : AskFor(r, d)
    \/ Observe(r)
    \/ Succeed(r)
    \/ Fail(r)

Spec == Init /\ [][Next]_ledgerVars

=============================================================================
