----------------------------- MODULE MCQueries -----------------------------
(* An instance of Queries for TLC.                                        *)
EXTENDS Queries

\* The default indices, shortened.
MCIndices == << [Name |-> "g45", Terms |-> <<"G45-NFT", "G45-AT">>],
                [Name |-> "tela", Terms |-> <<"docVersion", "telaVersion">>] >>

\* Two contracts of different classes, the second one installed below the first.
MCScids  == {"s1", "s2"}
MCHeight == [s1 |-> 2, s2 |-> 1]
MCCode   == [s1 |-> {"docVersion"}, s2 |-> {"telaVersion", "G45-AT"}]
MCJobs   == << [method |-> "install", scid |-> "s1", signer |-> "b"],
               [method |-> "install", scid |-> "s2", signer |-> "b"],
               [method |-> "invoke", scid |-> "s1", signer |-> "ab"] >>

Write(a, t, s) == [addr |-> a, txid |-> t, scid |-> s]

\* Two blocks with "a" in their rings; "c" is in those of the second only.
MCWrites == << << Write("a", "t1", "s1") >>,
               << Write("a", "t2", "s2"), Write("c", "t2", "s2") >> >>

\* The class "A" is asked for: both "TELA-DOC-1" and "G45-AT" have it in them; the
\* tag "g4"; the addresses "a", which is in the signer "ab" too, and "c".
Ask(m, arg) == [method |-> m, arg |-> arg]
MCRequests == { Ask("class", "A"), Ask("tag", "g4"), Ask("addr", "a"), Ask("addr", "c"),
                Ask("one", ""), Ask("other", "") }
MCContaining ==
    [p \in {r.arg : r \in Requests} |->
        CASE p = "A"  -> {"TELA-DOC-1", "TELA-INDEX-1", "G45-AT"}
          [] p = "g4" -> {"g45"}
          [] p = "a"  -> {"a", "ab", "all", "tela"}
          [] p = "c"  -> {"c"}
          [] p = ""   -> {"a", "ab", "c", "g45", "tela"}]
=============================================================================
