-------------------------------- MODULE Voucher --------------------------------
(***************************************************************************)
(* What the settlement of a voucher promises, and nothing of how.          *)
(*                                                                         *)
(* The chain takes at most one charge from a voucher, only after the       *)
(* stream opened the window the voucher pays for, and between the price of *)
(* one block and the quoted ceiling.  The books record a charge only after *)
(* the chain made it, with its transaction and its amount, and for good.   *)
(* Data is handed over only for a charge that is on the books.             *)
(***************************************************************************)
EXTENDS Integers

CONSTANTS Intents, Txs, Rate, MaxCharge

VARIABLES
    opened,    \* the intents whose window has a start block
    charges,   \* what the chain took
    books,     \* what the intents table says it took
    told       \* the charges whose data reached the agent

voucherVars == <<opened, charges, books, told>>

Charges == [tx : Txs, intent : Intents, amount : Rate .. MaxCharge]

Init == opened = {} /\ charges = {} /\ books = {} /\ told = {}

Open(i) ==
    /\ opened' = opened \cup {i}
    /\ UNCHANGED <<charges, books, told>>

Charge(c) ==
    /\ c.intent \in opened
    /\ \A b \in charges : b.intent # c.intent
    /\ charges' = charges \cup {c}
    /\ UNCHANGED <<opened, books, told>>

Record(c) ==
    /\ c \in charges
    /\ books' = books \cup {c}
    /\ UNCHANGED <<opened, charges, told>>

Tell(c) ==
    /\ c \in books
    /\ told' = told \cup {c}
    /\ UNCHANGED <<opened, charges, books>>

Next ==
    \/ \E i \in Intents : Open(i)
    \/ \E c \in Charges : Charge(c) \/ Record(c) \/ Tell(c)

Spec == Init /\ [][Next]_voucherVars
=============================================================================
