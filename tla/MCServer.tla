------------------------------ MODULE MCServer ------------------------------
(* Finite instances of the parts of the server that share no variable:      *)
(* Submission, Catalogue, Accounts, Pages, Offer and Upstream.  A behaviour *)
(* moves one of them, which one is chosen at the start, and the others keep *)
(* their initial state: a step of one cannot disable, enable or disturb a   *)
(* step or a property of another, so checking them one after the other      *)
(* checks all that their product could show.                                *)
EXTENDS Submission, Catalogue, Accounts, Pages, MCOffer, Upstream

CONSTANTS q1, q2, g1, g2, g3, c1, c2, a1, a2, m1, m2, b1, u1, u2, p1, p2, h1, h2

VARIABLE part

\* Every video protocol and every other family the registry has a driver for.
Protocol(p) == [family |-> "video", protocol |-> p]
Family(f) == [family |-> f, protocol |-> ""]
MCServedModels ==
    {Protocol(p) : p \in {"ark", "openai_video", "google_lro", "predictions", "mock"}}
    \cup {Family(f) : f \in {"chat", "images", "predictions", "mock", "compose"}}

vars == <<part, submissionVars, catalogueVars, accountsVars, pagesVars, offerVars, upstreamVars>>

Init ==
    /\ part \in {"submission", "catalogue", "accounts", "pages", "offer", "upstream"}
    /\ SubmissionInit
    /\ CatalogueInit
    /\ AccountsInit
    /\ \A u \in Users : user[u].password = p1   \* nothing tells one password from another
    /\ PagesInit
    /\ OfferInit
    /\ UpstreamInit
    /\ part # "upstream" => served = Family("chat")   \* the others do not look at it

SubmissionStep ==
    /\ part = "submission" /\ SubmissionNext
    /\ UNCHANGED <<part, catalogueVars, accountsVars, pagesVars, offerVars, upstreamVars>>

CatalogueStep ==
    /\ part = "catalogue" /\ CatalogueNext
    /\ UNCHANGED <<part, submissionVars, accountsVars, pagesVars, offerVars, upstreamVars>>

AccountsStep ==
    /\ part = "accounts" /\ AccountsNext
    /\ UNCHANGED <<part, submissionVars, catalogueVars, pagesVars, offerVars, upstreamVars>>

PagesStep ==
    /\ part = "pages" /\ PagesNext
    /\ UNCHANGED <<part, submissionVars, catalogueVars, accountsVars, offerVars, upstreamVars>>

OfferStep ==
    /\ part = "offer" /\ OfferNext
    /\ UNCHANGED <<part, submissionVars, catalogueVars, accountsVars, pagesVars, upstreamVars>>

UpstreamStep ==
    /\ part = "upstream" /\ UpstreamNext
    /\ UNCHANGED <<part, submissionVars, catalogueVars, accountsVars, pagesVars, offerVars>>

Next == SubmissionStep \/ CatalogueStep \/ AccountsStep \/ PagesStep \/ OfferStep \/ UpstreamStep

Spec == Init /\ [][Next]_vars

\* Nothing tells one token, and one request, from another.
MCSymmetry == Permutations(GenerateTokens) \cup Permutations(Requests)
=============================================================================
