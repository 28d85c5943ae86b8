----------------------------- MODULE MCPlanning -----------------------------
(***************************************************************************)
(* Two names that differ by case, in the root and in a folder, a name that *)
(* does not, one that is no text, and the resume files of the file b.      *)
(***************************************************************************)
EXTENDS Planning

MCAlphabet == <<"7", "A", "a", "b", "b.json", "b.part", "b.tmp", "bad">>
MCFolded == [n \in Range(MCAlphabet) |-> IF n = "A" THEN "a" ELSE n]
MCPartOf == [n \in {"b"} |-> "b.part"]
MCSidecarOf == [n \in {"b"} |-> "b.json"]

ASSUME CaseKeepsOddNames

File(path, size) == Entry(path, "file", size, 1)
Dir(path) == Entry(path, "dir", 0, 0)

\* A name in the root: absent, a file of either size, or a folder of up to two files.
Below(n) ==
    {{}, {File(<<n>>, 1)}, {File(<<n>>, 2)}}
        \cup {{Dir(<<n>>)} \cup {File(<<n, m>>, 1) : m \in ms} : ms \in SUBSET {"A", "a"}}

MCSources ==
    {s \cup t : s \in {{}, {File(<<"A">>, 1)}, {Dir(<<"A">>)}, {Dir(<<"A">>), File(<<"A", "a">>, 1)}},
               t \in Below("a")}
        \cup {{File(<<"b">>, size)} : size \in {1, 2}}

OnDisk(entries) == {Item(e.path, e.kind, e.size, 1) : e \in entries}

\* b with a part of two bytes and a record, and what else may lie about.
Record(ours, path, size, modified, bytes) ==
    [read |-> "whole", ours |-> ours, path |-> path, size |-> size,
     modified |-> modified, bytes |-> bytes]
Sidecar(record) == [Item(<<"b.json">>, "file", 1, 1) EXCEPT !.record = record]
Part == Item(<<"b.part">>, "file", 1, 1)

Partials ==
    {{Part, Sidecar(r)} : r \in
        {Record(TRUE, <<"b">>, 2, 1, 1), Record(FALSE, <<"b">>, 2, 1, 1),
         Record(TRUE, <<"b">>, 2, 2, 1), Record(TRUE, <<"b">>, 2, 1, 2),
         Record(TRUE, <<"7">>, 2, 1, 1), Record(TRUE, <<"b">>, 1, 1, 1)}}
    \cup {{Part}, {Part, Sidecar([NoRecord EXCEPT !.read = "torn"])}, {Sidecar(Record(TRUE, <<"b">>, 2, 1, 0))},
          {Sidecar([NoRecord EXCEPT !.read = "fails"])}}

Clutter ==
    {Item(<<"7">>, "special", 0, 1), Item(<<"b.tmp">>, "file", 1, 1),
     Item(<<"bad">>, "dir", 0, 1), Item(<<"bad", "a">>, "file", 1, 1)}

MCVolume(items, fold, tells) ==
    [rootIs |-> "dir", items |-> items, folds |-> fold, baseTells |-> tells]

\* The probe of the root's own name tells the truth, or there is no letter to flip.
OnFolding(fold) ==
    {MCVolume(OnDisk(s), fold, tells) : tells \in {fold, "nothing"},
        s \in {t \in Below("a") \cup Below("A") : IsVolume(OnDisk(t), fold)}}

\* A folder that cannot be listed, with a file and a folder in it.
Unlisted ==
    {Item(<<"a">>, "locked", 0, 1), Item(<<"a", "a">>, "file", 2, 1), Item(<<"a", "b">>, "dir", 0, 1)}

MCVolumes ==
    OnFolding("exact") \cup OnFolding("insensitive")
        \cup {MCVolume(p \cup c, "exact", "nothing") :
                p \in Partials, c \in {Clutter, {Item(<<"b">>, "file", 2, 1)}}}
        \cup {MCVolume({Item(<<"a">>, "broken", 0, 1), Item(<<"b">>, "locked", 0, 1)}, "exact", "nothing")}
        \cup {MCVolume(OnDisk({File(<<n>>, 1) : n \in {"A", "a"}}), "exact", "nothing")}
        \cup {MCVolume(Unlisted, f, f) : f \in Foldings}
        \cup {[rootIs |-> "locked", items |-> OnDisk({File(<<"a">>, 2)}), folds |-> f, baseTells |-> f] :
                f \in Foldings}
        \cup {[rootIs |-> r, items |-> {}, folds |-> f, baseTells |-> f] :
                r \in {"absent", "file", "unknown"}, f \in Foldings}

\* Two files, to a card that folds names, mounted in a folder that does not.
MCTwoFiles == {{File(<<"A">>, 1), File(<<"a">>, 1)}}
MCMountPoint == {MCVolume({}, "insensitive", "exact")}

\* One file, by name, to a folder that keeps a smaller one in another spelling.
MCOneFile == {{File(<<"A">>, 2)}}
MCOtherCase == {MCVolume(OnDisk({File(<<"a">>, 1)}), "insensitive", "insensitive")}
=============================================================================
