-------------------------------- MODULE MC_Replay --------------------------------
EXTENDS Replay

\* one level every 0.55 (bids) or 0.62 (asks) away from 0.40 beside the reference price
Book(step, volumes) ==
  [i \in DOMAIN volumes |-> [price |-> 6800 + (IF step < 0 THEN -40 ELSE 40) + step * (i - 1),
                             volume |-> volumes[i]]]

Deep == [bids |-> Book(-55, <<10, 10, 10>>), asks |-> Book(62, <<10, 10, 10>>)]
Thin == [bids |-> Book(-55, <<10>>),         asks |-> Book(62, <<10>>)]
Bare == [bids |-> <<>>,                      asks |-> Book(62, <<10>>)]
Near == [bids |-> Book(-55, <<10, 9>>),      asks |-> <<>>]

Offer(book, buy, sell, exposure, gen, tradeable, trusted, material, lag) ==
  [bids |-> book.bids, asks |-> book.asks, buy |-> buy, sell |-> sell, exposure |-> exposure,
   gen |-> gen, q |-> 120, ref |-> 6800, imbBuy |-> 7616, imbSell |-> 5984,
   tradeable |-> tradeable, trusted |-> trusted, material |-> material, lag |-> lag]

MCOffers ==
  { Offer(Deep, 0, 20, -20, 103, TRUE,  TRUE,  TRUE,  0),    \* the sample dataset's kind
    Offer(Deep, 20, 1,  20, 137, TRUE,  TRUE,  TRUE,  3),    \* long, data come late
    Offer(Thin, 0, 20, -20,  98, TRUE,  TRUE,  TRUE,  0),    \* half of the volume on the book
    Offer(Bare, 0, 20, -20, 100, TRUE,  TRUE,  TRUE,  0),    \* no bid at all
    Offer(Near, 1, 20, -20, 100, TRUE,  TRUE,  TRUE,  0),    \* one step less, and no offer
    Offer(Deep, 0,  4, -20, 100, TRUE,  TRUE,  TRUE,  0),    \* small against the exposure
    Offer(Deep, 0, 20, -20, 100, FALSE, TRUE,  TRUE,  0),    \* not tradeable
    Offer(Deep, 0,  0,   2, 120, TRUE,  FALSE, TRUE, -1),    \* nothing to do, no realised data
    Offer(Deep, 20, 20,  5, 130, TRUE,  TRUE,  TRUE,  0),    \* to buy and to sell: no decision
    Offer(Deep, 0, 20, -20, 100, TRUE,  TRUE,  FALSE, 0) }   \* no material revision
==================================================================================
