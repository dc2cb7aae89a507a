------------------------ MODULE MCStorageTransaction ------------------------
(* Instance of StorageTransaction for TLC: two boards of one model, an         *)
(* installation that ends with the GPT, and a firmware update.    *)
EXTENDS StorageTransaction, TLC

CONSTANTS b1, b2, install, uboot

SameModel == b1 :> "K11C" @@ b2 :> "K11C"
TwoSegments == install :> <<"boot", "gpt">> @@ uboot :> <<"boot">>
Versions == install :> 1 @@ uboot :> 2
Boards == Permutations(Board)
=============================================================================
