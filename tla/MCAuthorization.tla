--------------------------- MODULE MCAuthorization ---------------------------
(* Instances of Authorization for TLC. *)
EXTENDS Authorization, TLC

CONSTANTS r1, r2, r3, c1, c2, c3, a1, a2, k1, k2, k3, home, abroad, banned

Pay(card, key, amount, country, hour) ==
    [card |-> card, key |-> key, amount |-> amount, country |-> country,
     unusualHour |-> hour]

\* Two cards of one account, one card of another.
MCAccountOf == c1 :> a1 @@ c2 :> a1 @@ c3 :> a2
\* a1 covers one charge of 1.00 and one foreign charge of 0.50, not two of
\* 1.00; a2 covers an amount above the velocity limit.
MCCreditLimit == a1 :> 155 @@ a2 :> 300
Symmetry == Permutations(Requests)

\* Every way a request can be answered, with keys shared between cards.
MCInputs ==
    { Pay(c1, k1, 100, home, FALSE), Pay(c2, k1, 50, abroad, FALSE),
      Pay(c2, k2, 100, home, FALSE), Pay(c3, k2, 250, home, FALSE),
      Pay(c3, k1, 50, abroad, TRUE), Pay("unknown card", k1, 50, home, FALSE),
      Pay(c1, k2, 50, banned, FALSE) }

\* Valid requests on one account.
MCValidInputs ==
    { Pay(c1, k1, 50, home, FALSE), Pay(c2, k1, 50, abroad, FALSE),
      Pay(c2, k2, 50, home, FALSE) }

\* One client's requests with distinct keys on one card.
MCBurstInputs == { Pay(c1, k, 50, home, FALSE) : k \in Keys }
==============================================================================
