------------------------------ MODULE Registry ------------------------------
(***************************************************************************)
(* What signing up promises, whatever the routes do to keep it: an address *)
(* names at most one account, an account comes with an organisation of its *)
(* own and goes with it, and nobody is told that an address is taken while *)
(* it is free.                                                             *)
(***************************************************************************)
CONSTANTS Clients, Emails, Orgs, Answers

VARIABLES held,  \* <<email, organisation>> of each account
          told   \* what each client heard last

Free(e) == \A h \in held : h[1] # e

Unused(o) == \A h \in held : h[2] # o

Init == held = {} /\ told \in [Clients -> {<<"nothing">>}]

Create == \E e \in Emails, o \in Orgs : /\ Free(e) /\ Unused(o)
                                        /\ held' = held \union {<<e, o>>}
                                        /\ UNCHANGED told

Close == \E o \in Orgs : /\ held' = {h \in held : h[2] # o}
                         /\ UNCHANGED told

Decline == \E c \in Clients, e \in Emails : /\ ~Free(e)
                                            /\ told' = [told EXCEPT ![c] = <<"taken", e>>]
                                            /\ UNCHANGED held

Answer == \E c \in Clients, a \in Answers : /\ told' = [told EXCEPT ![c] = <<a>>]
                                            /\ UNCHANGED held

Next == Create \/ Close \/ Decline \/ Answer

Spec == Init /\ [][Next]_<<held, told>>
=============================================================================
