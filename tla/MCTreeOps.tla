----------------------------- MODULE MCTreeOps ------------------------------
EXTENDS TreeOps

MCNames == {"a", "b"}

(* No operator of FileSystem or TreeOps tells two names apart except by   *)
(* equality (readdir order ranges over every order), so the names, given *)
(* as model values, may be permuted.                                      *)
NameSymmetry == Permutations(Names)

(* Symbolic links in the initial trees point at a top-level entry: a      *)
(* directory, a file, nothing, or the link itself.                        *)
MCLinkTargets == {<<n>> : n \in Names}
=============================================================================
