-------------------------------- MODULE Bank --------------------------------
(***************************************************************************)
(* What the service promises about money, without statements, locks and    *)
(* rates: every request takes effect at one instant or never, its answer   *)
(* is true, and what a wallet is worth changes only by the orders carried  *)
(* out on it.  Not promised: that a wallet is empty when it is deleted.    *)
(***************************************************************************)
EXTENDS Integers

CONSTANTS
    Wallets,    \* wallet ids
    Requests,   \* requests
    Orders,     \* what a request may ask for
    NoOrder,    \* the order of a request that has not come
    Opening     \* the account of each wallet at the start

\* An account.  A closed one was deleted or archived.
Account == [state : {"absent", "open", "closed"}, worth : Nat]

\* An order moves worth between wallets and the outside, opens a wallet,
\* closes one, or changes nothing that is kept here.
Order == [do : {"move"}, effect : [Wallets -> Int]]
             \cup [do : {"open", "close", "other"}, on : Wallets]

VARIABLES
    account,    \* the account of each wallet
    order,      \* what each request asks for
    fate,       \* whether it has been carried out
    reply       \* what its client was told

vars == <<account, order, fate, reply>>

Init ==
    /\ account = Opening
    /\ order = [r \in Requests |-> NoOrder]
    /\ fate = [r \in Requests |-> "new"]
    /\ reply = [r \in Requests |-> "none"]

\* r is carried out; its client reads of it now, later or never, and may
\* read an error
Done(r) ==
    /\ fate[r] = "asked"
    /\ fate' = [fate EXCEPT ![r] = "done"]
    /\ \E a \in {"none", "ok", "error"} : reply' = [reply EXCEPT ![r] = a]
    /\ UNCHANGED order

\* a request that is turned down at once has the error with it
Ask(r) ==
    /\ fate[r] = "new"
    /\ \E o \in Orders \cap Order : order' = [order EXCEPT ![r] = o]
    /\ \/ fate' = [fate EXCEPT ![r] = "asked"] /\ UNCHANGED reply
       \/ /\ fate' = [fate EXCEPT ![r] = "refused"]
          /\ reply' = [reply EXCEPT ![r] = "error"]
    /\ UNCHANGED account

Move(r) ==
    LET o == order[r] IN
    /\ Done(r) /\ o.do = "move"
    /\ \A w \in Wallets : o.effect[w] # 0 => account[w].state = "open"
    /\ account' = [w \in Wallets |->
                     [account[w] EXCEPT !.worth = @ + o.effect[w]]]
    /\ account' \in [Wallets -> Account]

Open(r) ==
    LET o == order[r] IN
    /\ Done(r) /\ o.do = "open"
    /\ account[o.on].state = "absent"
    /\ account' = [account EXCEPT ![o.on] = [state |-> "open", worth |-> 0]]

\* closing a wallet that is closed changes nothing
Close(r) ==
    LET o == order[r] IN
    /\ Done(r) /\ o.do = "close"
    /\ account[o.on].state # "absent"
    /\ account' = [account EXCEPT ![o.on].state = "closed"]

Other(r) == Done(r) /\ order[r].do = "other" /\ UNCHANGED account

Refuse(r) ==
    /\ fate[r] = "asked"
    /\ fate' = [fate EXCEPT ![r] = "refused"]
    /\ reply' = [reply EXCEPT ![r] = "error"]
    /\ UNCHANGED <<account, order>>

\* the answer to what was done before
Reply(r) ==
    /\ fate[r] = "done" /\ reply[r] = "none"
    /\ \E a \in {"ok", "error"} : reply' = [reply EXCEPT ![r] = a]
    /\ UNCHANGED <<account, order, fate>>

\* a crash: requests that were not carried out never will be
Drop ==
    /\ \E S \in SUBSET {r \in Requests : fate[r] = "asked"} :
         fate' = [r \in Requests |-> IF r \in S THEN "refused" ELSE fate[r]]
    /\ UNCHANGED <<account, order, reply>>

\* archiving closes wallets that hold nothing
Sweep ==
    /\ \E S \in SUBSET {w \in Wallets : account[w].state = "open" /\ account[w].worth = 0} :
         account' = [w \in Wallets |->
                       IF w \in S THEN [account[w] EXCEPT !.state = "closed"]
                                  ELSE account[w]]
    /\ UNCHANGED <<order, fate, reply>>

Next ==
    \/ \E r \in Requests : \/ Ask(r) \/ Move(r) \/ Open(r) \/ Close(r) \/ Other(r)
                           \/ Refuse(r) \/ Reply(r)
    \/ Drop \/ Sweep

Spec == Init /\ [][Next]_vars
=============================================================================
