------------------------------ MODULE PegLedger ------------------------------
(***************************************************************************)
(* What UTXOGateway promises: transactions of the client chain are         *)
(* credited one after the other, each once; peg-out requests are served in *)
(* the order they were made, never change, and each is settled by at most  *)
(* one payment, after it was served.                                       *)
(***************************************************************************)
EXTENDS Integers, Sequences

CONSTANTS Transactions, Requests, NoPayment

VARIABLES
    credited,   \* the transactions credited, in order
    requests,   \* the requests made, in order
    served,     \* how many of them were handed out
    payments    \* the payment of each request made

ledger == <<credited, requests, served, payments>>

Init ==
    /\ credited = <<>>
    /\ requests = <<>>
    /\ served = 0
    /\ payments = <<>>

Credit(tx) ==
    /\ \A i \in DOMAIN credited : credited[i] # tx
    /\ credited' = Append(credited, tx)
    /\ UNCHANGED <<requests, served, payments>>

Request(r) ==
    /\ requests' = Append(requests, r)
    /\ payments' = Append(payments, NoPayment)
    /\ UNCHANGED <<credited, served>>

Serve ==
    /\ served < Len(requests)
    /\ served' = served + 1
    /\ UNCHANGED <<credited, requests, payments>>

Settle(i, tx) ==
    /\ i <= served
    /\ payments[i] = NoPayment
    /\ payments' = [payments EXCEPT ![i] = tx]
    /\ UNCHANGED <<credited, requests, served>>

Next ==
    \/ \E tx \in Transactions : Credit(tx) \/ \E i \in 1 .. served : Settle(i, tx)
    \/ \E r \in Requests : Request(r)
    \/ Serve

Spec == Init /\ [][Next]_ledger
==============================================================================
