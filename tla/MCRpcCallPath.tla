---------------------------- MODULE MCRpcCallPath ----------------------------
(***************************************************************************)
(* Values of the constants of RpcCallPath for TLC.                         *)
(***************************************************************************)
EXTENDS RpcCallPath

CONSTANTS put, get, zero, storage, cache, small, big, wide, huge

(* Two services with a method each of the same id, and a method of id 0.   *)
TwoServices == {storage, cache}
TheirMethods == [s \in TwoServices |-> IF s = storage THEN {put, zero} ELSE {get}]
Ids == [m \in {put, get, zero} |-> IF m = zero THEN 0 ELSE 7]

(* small is not worth compressing; wide is within the limit of flatbuffers *)
(* but beyond that of lz4; huge is beyond both until zstd compresses it,   *)
(* when it has the length of big.                                          *)
Bodies == {small, big, wide, huge}
Limit == 4
Lz4Limit == 3
Threshold == 2
Length(b) ==
  CASE b.data = huge -> IF b.as = <<>> THEN 5 ELSE 3
    [] b = Plain(wide) -> 4
    [] b = Plain(big) -> 3
    [] OTHER -> 2

(* big hashes to 0 under lz4; big and small have the same hash under zstd, *)
(* and so have plain big and huge under zstd.                              *)
Xxhash(b) ==
  CASE b = Packed("lz4", Plain(big)) -> 0
    [] b.as = <<"zstd">> /\ b.data \in {big, small} -> 1
    [] b = Plain(small) -> 2
    [] b \in {Plain(big), Packed("zstd", Plain(huge))} -> 3
    [] b = Plain(huge) -> 4
    [] b.as = <<"lz4">> /\ b.data # big -> 5
    [] OTHER -> 6

PackedBy(f, b) == f = "lz4" => Length(b) <= Lz4Limit

TwoStatuses == {0, 501}
Compressors == {<<>>, <<"zstd">>, <<"user", "lz4", "zstd">>}
Decompressors == {<<>>, <<"zstd">>, <<"lz4", "user", "zstd">>}

=============================================================================
