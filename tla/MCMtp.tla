------------------------------- MODULE MCMtp -------------------------------
(***************************************************************************)
(* A phone with a folder d, a folder e in it that lists itself as well, a  *)
(* file f in d, and a file g of the same name, which an index that drifted *)
(* lists in both folders.                                                  *)
(***************************************************************************)
EXTENDS MtpEndpoint

CONSTANTS d, e, f, g

ASSUME FoldersStandOut /\ PlainRoots

MCName == [o \in Objects |-> CASE o = d -> "d" [] o = e -> "e" [] OTHER -> "f"]
MCUnder == [o \in Objects |->
    CASE o = d -> {Storage}
      [] o = e -> {d, e}
      [] o = f -> {d}
      [] o = g -> {d, e}]
MCAtFirst == {Objects}
MCRootPaths == {<<>>, <<"d">>, <<"d", "f">>}
=============================================================================
