------------------------------ MODULE MCFileMeta ------------------------------
(***************************************************************************)
(* Instances of FileMeta: files doc and pic in the folder box.             *)
(***************************************************************************)
EXTENDS FileMeta, TLC

CONSTANTS doc, pic, box

MCParent == [n \in Name |-> IF n = box THEN NoName ELSE box]
AllButFileDelete == Operation \ {"fileDelete"}
Posts     == {"post"}
Putters   == {"upload", "confirm", "put"}
FileDeleters == {"post", "fileDelete"}

\* Nothing tells two calls, two machines or two contents apart.
Symmetric == Permutations(Call) \cup Permutations(Machine) \cup Permutations(Md5)
=============================================================================
