--------------------------- MODULE MCFileTransfer ---------------------------
(***************************************************************************)
(* A small instance of FileTransfer: two contents of different sizes and   *)
(* the empty one, and one content over the file server's limit.            *)
(***************************************************************************)
EXTENDS FileTransfer, TLC

CONSTANTS small, large, huge, empty

MCContent == {small, large, huge, empty}

MCSizeOf == (small :> 1) @@ (large :> 2) @@ (huge :> 3) @@ (empty :> 0)

(* One part, two parts, and a batch whose second part is refused.          *)
MCBatches == {<<small>>, <<small, large>>, <<empty, huge>>}

MCSymmetry == Permutations(Users) \cup Permutations(Uploads) \cup Permutations(Ids)

=============================================================================
