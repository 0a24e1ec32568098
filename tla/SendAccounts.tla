---------------------------- MODULE SendAccounts ----------------------------
(****************************************************************************)
(* What the sends counts of locatives promise, as the comments at the head  *)
(* of locative/cons/any in Motile/actor/locative.rkt put it: accounts that  *)
(* are spent one send at a time and that open other accounts with a part of *)
(* what they still hold.  Every step is atomic.                             *)
(****************************************************************************)
EXTENDS Integers

CONSTANTS
    Account,  \* identities of accounts
    Opened,   \* the accounts open at the start, without limit
    Amounts,  \* the numbers of sends an account may be opened with
    Inf       \* the balance of an account without limit

VARIABLES
    balance,  \* the sends left in each open account
    spent     \* the sends each limited account has paid for

vars == <<balance, spent>>

Open == DOMAIN balance

Limited(a) == balance[a] # Inf

Init ==
    /\ balance = [a \in Opened |-> Inf]
    /\ spent = [a \in Opened |-> 0]

\* One send is paid for out of account a.
Spend(a) ==
    /\ Limited(a)
    /\ balance[a] > 0
    /\ balance' = [balance EXCEPT ![a] = @ - 1]
    /\ spent' = [spent EXCEPT ![a] = @ + 1]

\* Account b is opened with n of the sends of account a: all of them at most,
\* and any number when a is without limit.
Lend(a, b, n) ==
    /\ b \in Account \ Open
    /\ Limited(a) => n # Inf /\ n <= balance[a]
    /\ balance' = [c \in Open \cup {b} |->
                     IF c = b THEN n
                     ELSE IF c = a /\ Limited(a) THEN balance[a] - n
                     ELSE balance[c]]
    /\ spent' = [c \in Open \cup {b} |-> IF c = b THEN 0 ELSE spent[c]]

Next ==
    \E a \in Open :
        \/ Spend(a)
        \/ \E b \in Account, n \in Amounts : Lend(a, b, n)

Spec == Init /\ [][Next]_vars
=============================================================================
