------------------------------- MODULE MCOffers -------------------------------
(***************************************************************************)
(* What the instances of Bootstrap and of Lifecycle have in common: the    *)
(* registrations that validators offer, and what is interchangeable.       *)
(***************************************************************************)
EXTENDS Genesis, TLC

Offer(o, name, key, rate, maxRate, maxChangeRate) ==
    [validatorAddress |-> o, name |-> name, rate |-> rate, maxRate |-> maxRate,
     maxChangeRate |-> maxChangeRate, consensusPublicKey |-> key]

\* One way to register each operator.
OneOffer ==
    LET name == CHOOSE n \in [Operators -> Names] :
                    \A o, p \in Operators : n[o] = n[p] => o = p
        key == CHOOSE k \in [Operators -> Keys] :
                    \A o, p \in Operators : k[o] = k[p] => o = p
    IN  {Offer(o, name[o], key[o], 0, FullRate, 1) : o \in Operators}

FirstOffer == CHOOSE r \in OneOffer : TRUE
Commissions == 0..FullRate + 1

\* Any operator under any name and key, the empty ones included, and one of
\* them with any commission, valid or not.
AllOffers ==
    {Offer(o, name, key, 0, FullRate, 1) :
        o \in Operators, name \in Names \cup {NoName}, key \in Keys \cup {ZeroKey}}
    \cup {[FirstOffer EXCEPT !.rate = c[1], !.maxRate = c[2], !.maxChangeRate = c[3]] :
             c \in Commissions \X Commissions \X Commissions}

StakerSymmetry == Permutations(Stakers)
==============================================================================
