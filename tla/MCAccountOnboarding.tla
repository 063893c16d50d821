------------------------- MODULE MCAccountOnboarding -------------------------
(* AccountOnboarding with interchangeable rows and requests.  The first      *)
(* state chooses between requests that cross each other, for one address,    *)
(* and requests handled one after the other, for all of them, with one       *)
(* message less.                                                             *)
EXTENDS AccountOnboarding, TLC

CONSTANT ana         \* one of the addresses

VARIABLE people     \* the addresses requests are about

InTurn == people = Addresses

AllInit ==
    /\ Init
    /\ people \in {Addresses, {ana}}

AllNext ==
    /\ Next
    /\ InTurn => Alone'
    /\ InTurn => \E v \in Verifications : verification'[v].state = "none"
    /\ \A t \in Requests : task'[t].address \in people \cup {None}
    /\ \A i \in Invites : invite'[i].for \in people \cup {Anyone}
    /\ UNCHANGED people

AllSpec == AllInit /\ [][AllNext]_<<vars, people>>

Interchangeable ==
    Permutations(Verifications) \cup Permutations(Invites) \cup Permutations(Requests)

\* While requests are handled one after the other, a new link for an address
\* that was invited carries an invite too.
LinksKeepInviting == [][InTurn => KeepsInviting]_vars
==============================================================================
