----------------------------- MODULE MCUserRooms -----------------------------
(* Instances of UserRooms for TLC: each run gives the branches it explores.   *)
EXTENDS UserRooms, TLC

\* One error stands for Kucoin's ten.
ShortKucoin == [KucoinBranch EXCEPT !.limit = 1]

MCBinance == {BinanceBranch}

\* Branches that never drop the client of a counted room and keep its count.
MCCounting == {BinanceBranch, BybitBranch, BitgetBranch, KrakenBranch}

\* Branches run against callers that wait for their opens.
MCPatient == {BinanceBranch, ShortKucoin, OkxBranch, CoinbaseBranch}

\* Clients are interchangeable names.
ClientSymmetry == Permutations(Clients)
=============================================================================
