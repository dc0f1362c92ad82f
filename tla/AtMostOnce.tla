------------------------------ MODULE AtMostOnce ------------------------------
(***************************************************************************)
(* What the Processor promises of everything it asks of a provider on its  *)
(* own initiative (docs/schedules.md, docs/adr/0048): a piece of work is   *)
(* claimed before anything is sent, sent at most once, and settled once;   *)
(* a claim whose sending was lost is settled too, and never taken again.   *)
(***************************************************************************)
EXTENDS Naturals

CONSTANT Items

VARIABLES status,   \* of each item: "open", "claimed" or "settled"
          contacts  \* how often the provider was asked for it

ledger == <<status, contacts>>

LedgerInit == /\ status = [i \in Items |-> "open"]
              /\ contacts = [i \in Items |-> 0]

Claim(i) == /\ status[i] = "open"
            /\ status' = [status EXCEPT ![i] = "claimed"]
            /\ UNCHANGED contacts

\* Only a claim that nobody has given up may contact the provider.
Contact(i) == /\ status[i] = "claimed" /\ contacts[i] = 0
              /\ contacts' = [contacts EXCEPT ![i] = 1]
              /\ UNCHANGED status

\* Claims are settled, with an outcome or as uncertain; one sweep may settle many.
Settle(S) == /\ \A i \in S : status[i] = "claimed"
             /\ status' = [i \in Items |-> IF i \in S THEN "settled" ELSE status[i]]
             /\ UNCHANGED contacts

\* An item given up before it was ever claimed.
Drop(i) == /\ status[i] = "open" /\ contacts[i] = 0
           /\ status' = [status EXCEPT ![i] = "settled"]
           /\ UNCHANGED contacts

LedgerNext == \/ \E i \in Items : Claim(i) \/ Contact(i) \/ Drop(i)
              \/ \E S \in SUBSET Items : Settle(S)

LedgerSpec == LedgerInit /\ [][LedgerNext]_ledger
=============================================================================
