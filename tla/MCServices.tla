---------------------------- MODULE MCServices ----------------------------
EXTENDS Services, TLC

CONSTANTS p1, p2, p3

Plain(currency) == [rules |-> {}, currency |-> currency, readable |-> TRUE]

\* A large anonymous payment from a country of the list.
Risky == [rules |-> {"HIGH_AMOUNT", "HIGH_RISK_COUNTRY", "ANONYMOUS_HIGH_VALUE"},
          currency |-> "USD", readable |-> TRUE]

\* The country in its metadata is an array.
Unreadable == [Plain("USD") EXCEPT !.readable = FALSE]

\* Two payments in a currency without a rate next to one in euro; two that
\* meet the rules next to one that does not; one that meets them next to two whose
\* metadata cannot be read.
MCMixes == {p1 :> Plain("unsupported") @@ p2 :> Plain("unsupported") @@ p3 :> Plain("supported"),
            p1 :> Risky @@ p2 :> Risky @@ p3 :> Plain("USD"),
            p1 :> Unreadable @@ p2 :> Unreadable @@ p3 :> Risky}
=============================================================================
