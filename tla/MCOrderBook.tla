---------------------------- MODULE MCOrderBook -----------------------------
(***************************************************************************)
(* Small books for TLC.                                                    *)
(***************************************************************************)
EXTENDS OrderBook, TLC

CONSTANTS b1, b2, a1, a2, x, y, z

Asks(t, l, q, g) == [trader |-> t, side |-> "Ask", limit |-> l, quantity |-> q,
                     expiry |-> g]
Bids(t, l, q, g) == [trader |-> t, side |-> "Bid", limit |-> l, quantity |-> q,
                     expiry |-> g]

(* Contract ids are hashes: an order unrelated to age. *)
Rank == [o \in Orders |-> CASE o = b1 -> 2 [] o = b2 -> 1 [] o = a1 -> 4 [] OTHER -> 3]

(* Every trader can fund its orders; x has nothing to spare. *)
Funds == [t \in Traders |-> [i \in Instruments |->
           CASE t = x /\ i = "quote" -> 10 [] t # x /\ i = "quote" -> 5 [] OTHER -> 15]]

(* At ten ulps to the unit, 15 at 0.7 locks 10 and a fill of 5 at 0.7 pays *)
(* 4, so that 6 are left for 10 at 0.7, which costs 7; 6 at 0.7 locks 4,   *)
(* which a fill of 5 uses up.  An ask of 10 that was filled by 5 has an     *)
(* allocation like that of an ask of 5.                                    *)
Rounding == [o \in Orders |-> CASE o = b1 -> Bids(x, 7, 15, 0)
                                [] o = b2 -> Bids(z, 7, 6, 1)
                                [] o = a1 -> Asks(y, 5, 5, 0)
                                [] OTHER  -> Asks(y, 6, 10, 0)]

(* Two crosses share an ask, and the bids may share the receipt that each *)
(* of them needs under the registry of the base.                           *)
Chain == [o \in Orders |-> CASE o = b1 -> Bids(x, 7, 15, 0)
                             [] o = b2 -> Bids(x, 8, 6, 0)
                             [] OTHER  -> Asks(y, 5, 9, 0)]

(* y asks at 5, bids more than anybody else, and z would pay y's price. *)
OwnCross == [o \in Orders |-> CASE o = b1 -> Bids(y, 8, 5, 0)
                                [] o = b2 -> Bids(z, 6, 5, 0)
                                [] OTHER  -> Asks(y, 5, 5, 0)]

(* Two bids of one limit, and asks that exhaust neither. *)
Queue == [o \in Orders |-> CASE o = b1 -> Bids(x, 10, 9, 1)
                             [] o = b2 -> Bids(z, 10, 9, 2)
                             [] OTHER  -> Asks(y, 10, 5, 3)]

Rich == [t \in Traders |-> [i \in Instruments |-> 30]]

RunsAlike == Permutations(Runs)
=============================================================================
