---------------------------- MODULE MCFrontDoor ----------------------------
(***************************************************************************)
(* Onboarding and RateLimit on small instances.  They share no state, so   *)
(* that a behaviour is one of either.                                      *)
(***************************************************************************)
EXTENDS Onboarding, RateLimit, TLC

CONSTANTS h1, h2, a1, u1, u2, u3

VARIABLE part   \* which of the two

TwoHumans == {h1, h2}
OneAccount == {a1}
ThreeUpdates == {u1, u2, u3}

Says(h, verb, a) == [human |-> h, verb |-> verb, account |-> a]

\* A human who pairs twice and sends a command; two humans after one account.
TwoInboxes ==
    {u1 :> Says(h1, "link", None) @@ u2 :> Says(h1, "link", None) @@ u3 :> Says(h1, "command", None),
     u1 :> Says(h1, "link", None) @@ u2 :> Says(h2, "link", None) @@ u3 :> Says(h2, "use", a1)}

Symmetry ==
    Permutations(Installations) \cup Permutations(Transactions) \cup Permutations(Codes)
    \cup Permutations(Requests)

FrontDoorInit ==
    /\ part \in {"onboarding", "limit"} /\ Init /\ LimitInit
    /\ part = "limit" => says = CHOOSE s \in Inboxes : TRUE

FrontDoorNext ==
    /\ UNCHANGED part
    /\ \/ part = "onboarding" /\ Next /\ UNCHANGED limitVars
       \/ part = "limit" /\ LimitNext /\ UNCHANGED vars

FrontDoorSpec == FrontDoorInit /\ [][FrontDoorNext]_<<part, vars, limitVars>>
=============================================================================
