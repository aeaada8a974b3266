------------------------------ MODULE Lending ------------------------------
(***************************************************************************)
(* What the checkout component promises, with no transactions, locks or    *)
(* revisions: a user has at most one cart, a cart is turned into loans all *)
(* at once or not at all, and an item is lent to one borrower at a time    *)
(* (docs/architecture/domain-model.md, "Checkout" and "CheckoutSession").  *)
(***************************************************************************)
CONSTANTS Items,       \* items of one workspace
          Borrowers,   \* borrower profiles of the workspace
          Users,       \* the users who act in the workspace
          NoBorrower,  \* a cart whose borrower is not selected yet
          NoCart       \* a user without a cart

VARIABLES loans,  \* the pairs <<item, borrower>> on loan
          cart    \* the draft each user is assembling

vars == <<loans, cart>>

Cart == [items : SUBSET Items, borrower : Borrowers \cup {NoBorrower}]

OnLoan == {l[1] : l \in loans}

Init == /\ loans = {}
        /\ cart = [u \in Users |-> NoCart]

Begin(u, b) == /\ cart[u] = NoCart
               /\ cart' = [cart EXCEPT ![u] = [items |-> {}, borrower |-> b]]
               /\ UNCHANGED loans

Change(u, c) == /\ cart[u] # NoCart
                /\ cart' = [cart EXCEPT ![u] = c]
                /\ UNCHANGED loans

Discard(u) == /\ cart[u] # NoCart
              /\ cart' = [cart EXCEPT ![u] = NoCart]
              /\ UNCHANGED loans

\* Every item of the cart becomes a loan to the cart's borrower, in one step.
Complete(u) == /\ cart[u] # NoCart
               /\ cart[u].items # {}
               /\ cart[u].borrower # NoBorrower
               /\ cart[u].items \cap OnLoan = {}
               /\ loans' = loans \cup (cart[u].items \X {cart[u].borrower})
               /\ cart' = [cart EXCEPT ![u] = NoCart]

Lend(i, b) == /\ i \notin OnLoan
              /\ loans' = loans \cup {<<i, b>>}
              /\ UNCHANGED cart

GiveBack(l) == /\ l \in loans
               /\ loans' = loans \ {l}
               /\ UNCHANGED cart

Next == \/ \E u \in Users : \/ \E b \in Borrowers \cup {NoBorrower} : Begin(u, b)
                            \/ \E c \in Cart : Change(u, c)
                            \/ Discard(u)
                            \/ Complete(u)
        \/ \E i \in Items, b \in Borrowers : Lend(i, b)
        \/ \E l \in loans : GiveBack(l)

Spec == Init /\ [][Next]_vars
=============================================================================
