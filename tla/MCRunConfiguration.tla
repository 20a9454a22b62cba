-------------------------- MODULE MCRunConfiguration --------------------------
(***************************************************************************)
(* lttng-ust on urcu, each of a remote of its own, and a deprecated        *)
(* lttng-ust that is pinned to a commit.                                   *)
(***************************************************************************)
EXTENDS RunConfiguration

CONSTANTS urcu, ust, oldust, urcugit, ustgit, stable

Entry(nr, name, url, ref, deps) ==
    [nr |-> nr, name |-> name, url |-> url, ref |-> ref, deps |-> deps]

Good == {Entry(1, urcu, urcugit, stable, {}), Entry(2, ust, ustgit, stable, {urcu}),
         Entry(3, oldust, ustgit, 1, {urcu})}
Undefined == {m \in Good : m.name # urcu}
Twice == Good \cup {Entry(4, ust, urcugit, stable, {})}
Cyclic == {Entry(1, urcu, urcugit, stable, {ust}), Entry(2, ust, ustgit, stable, {urcu})}

MCConfigs == {Good, Undefined, Twice, Cyclic}

\* A row of labels, and two of pytest.param, whose columns are the values
\* and the marks; and one whose test also gets a label that is no criterion.
Test(row, indexes, asks) == [row |-> row, indexes |-> indexes, asks |-> asks]

MCTests == {Test(<<{oldust}, {ust}>>, {1, 2}, {oldust, ust}),
            Test(<<{ust, urcu}, {Mark}>>, {1, 2}, {ust, urcu}),
            Test(<<{oldust, urcu}, {Mark}>>, {1, 2}, {oldust, urcu}),
            Test(<<{urcu}, {oldust}>>, {1}, {urcu, oldust})}
=============================================================================
