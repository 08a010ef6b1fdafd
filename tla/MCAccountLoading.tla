-------------------------- MODULE MCAccountLoading --------------------------
(***************************************************************************)
(* Instances of AccountLoading for TLC.                                    *)
(***************************************************************************)
EXTENDS AccountLoading, TLC

CONSTANTS t1, t2, t3, t4,   \* tasks
          alice, nobody     \* addresses

MCAddresses == {alice, nobody}

\* alice has an account in the fork block, and uses it later; nobody has not.
MCForkBlock ==
  [a \in MCAddresses |-> [balance |-> IF a = alice THEN 3 ELSE 0, nonce |-> 0, code |-> "null"]]
MCLaterBlock == [a \in MCAddresses |-> [balance |-> 4, nonce |-> 1, code |-> "null"]]

Job(kind, a) == [kind |-> kind, address |-> a, balance |-> 0]
Set(a) == [Job("set", a) EXCEPT !.balance = 7]

AllJobs ==
  UNION {{Job("read", a), Set(a), Job("execute", a)} : a \in MCAddresses}

\* Balances set and read.
BalanceJobs == UNION {{Job("read", a), Set(a)} : a \in MCAddresses}

TaskSymmetry == Permutations(Tasks)

=============================================================================
