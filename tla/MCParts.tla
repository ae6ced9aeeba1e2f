------------------------------ MODULE MCParts -------------------------------
(* A small instance of Parts for TLC.                                      *)
EXTENDS Parts, Integers, TLC

CONSTANTS a, b, v1, v2

\* The second version of a file is the longer one.
MCName == [f \in ModelFiles |-> f]
MCSize == v1 :> 1 @@ v2 :> 2

\* No night, and one that wraps around midnight.
MCWindows == {<<0, 0>>, <<1, 0>>}

MCBuy == [side |-> "buy", qty |-> 3, price |-> 3, fee |-> 1, time |-> 2]
MCSell == [side |-> "sell", qty |-> 2, price |-> 12, fee |-> 3, time |-> 3]
\* hashed like MCSell, for its amounts read "123" as well
MCAlike == [MCSell EXCEPT !.price = 1, !.fee = 23]
MCEarly == [side |-> "sell", qty |-> 2, price |-> 5, fee |-> 0, time |-> 1]
MCManualBuy == [MCBuy EXCEPT !.time = 4, !.qty = 2]
MCUnreadable == [side |-> "unreadable"]
MCImports == "jan" :> <<MCSell, MCUnreadable, MCAlike>>
MCExchange == "x1" :> MCBuy @@ "x2" :> MCBuy
MCOrders == "o1" :> MCEarly
MCManual == {MCManualBuy}

MCOffer(kind, rate, reclaimable, rebilled) ==
    [kind |-> kind, amount |-> 1, rate |-> rate, reclaimable |-> reclaimable,
     rebilled |-> rebilled]
\* The tax of the expenses is half a unit, and rounds to a whole one.
MCOffers == { MCOffer("loan", 0, FALSE, FALSE), MCOffer("repayment", 0, FALSE, FALSE),
              MCOffer("expense", 5000, FALSE, FALSE), MCOffer("expense", 5000, TRUE, TRUE) }
\* A repayment entered without its record.
MCByHand == { "bank" :> -1 @@ "capital" :> 0 @@ "loan" :> 1 @@ "cost" :> 0 @@ "vat" :> 0 }
MCPeriods == {{1}}

\* A node with two cards, the second the larger, whose memory takes the largest
\* footprint only when nothing is in use; and a host with one card, whose memory
\* cannot be read.
MCCards == "big" :> <<6144, 8192>> @@ "here" :> <<6144>>
MCRam == "big" :> 9216 @@ "here" :> 0

\* Two conversations with one agent, one with none, and another client's.
MCTalk == 1 :> "t1" @@ 2 :> "t1" @@ 3 :> "t2"
MCOwner == "t0" :> "me" @@ "t1" :> "me" @@ "t2" :> "me" @@ "t4" :> "you"
MCProfile == "t0" :> "" @@ "t1" :> "law" @@ "t2" :> "law" @@ "t4" :> ""
MCLength == 1 :> 400 @@ 2 :> 1500 @@ 3 :> 700
MCLikeness == "q1" :> <<1, 2, 3>>
MCWording == "q1" :> <<3, 2>>
MCWindow == "t0" :> 2048 @@ "t1" :> 0 @@ "t2" :> 4096 @@ "t4" :> 0
=============================================================================
