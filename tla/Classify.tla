------------------------------ MODULE Classify ------------------------------
(***************************************************************************)
(* What work_on_scids stores about a contract besides its variables: the   *)
(* class, the first search term its code contains; the tags, the names of  *)
(* all indices with a term in the code; and whether the transaction is     *)
(* passed on at all.  A code is the set of terms it contains.              *)
(***************************************************************************)
EXTENDS Integers, Sequences, SequencesExt

CONSTANTS
    Indices,       \* the sequence of [Name, Terms] that set_up_backend builds
    NAMESERVICE, MAINNET_GNOMON_SCID,
    Exclusions,    \* contracts whose code is not asked for
    search_filter  \* TRUE if the flag gave the indices

Terms == UNION {ToSet(Indices[i].Terms) : i \in DOMAIN Indices}

\* An empty term would match every code and leave the class empty.
ASSUME ClassifyAssumption == search_filter \in BOOLEAN /\ "" \notin Terms

\* The code work_on_scids has in hand: GetSC is asked for it at an install only,
\* and not for an excluded contract.
CodeAsked(scid, method, code) ==
    IF scid \in Exclusions \/ method # "install" THEN {} ELSE code

\* Mutated: an index that matches does not end the outer loop.
LastMatch(code) ==
    FoldLeft(LAMBDA class, search :
               LET m == SelectSeq(search.Terms, LAMBDA f : f \in code)
               IN  IF m = <<>> THEN class ELSE Head(m),
             "", Indices)

\* The two loops with their breaks.
FirstMatch(code) ==
    FoldLeft(LAMBDA class, search :
               LET m == SelectSeq(search.Terms, LAMBDA f : f \in code)
               IN  IF class # "" \/ m = <<>> THEN class ELSE Head(m),
             "", Indices)

\* "they are being specific": the transaction is dropped.
Dropped(scid, method, code) ==
    search_filter /\ FirstMatch(CodeAsked(scid, method, code)) = ""

ClassOf(scid, code) ==
    CASE scid = NAMESERVICE         -> "NAMESERVICE"
      [] scid = MAINNET_GNOMON_SCID -> "GNOMONSC"
      [] OTHER -> LET class == FirstMatch(code)
                  IN  CASE class = ""            -> "null"
                        [] class = "docVersion"  -> "TELA-DOC-1"
                        [] class = "telaVersion" -> "TELA-INDEX-1"
                        [] OTHER                 -> class

\* One tag per matching term, so an index may give its name twice; the code
\* then sorts the list by name, which only its members matter for here.
TagsOf(code) ==
    FoldLeft(LAMBDA tags, search :
               tags \o [i \in 1 .. Len(SelectSeq(search.Terms, LAMBDA f : f \in code))
                          |-> search.Name],
             <<"all">>, Indices)

-----------------------------------------------------------------------------

\* The class and the tags tell the same story about a code.  There is a tag
\* besides "all" exactly if the class is not "null"; the tags are the indices
\* with a term in the code; the class is the first term, of the first of them,
\* that the code contains, or the name TELA gives it.
Agree(scid, code) ==
    LET class    == ClassOf(scid, code)
        Matching == {i \in DOMAIN Indices : ToSet(Indices[i].Terms) \cap code # {}}
        first    == CHOOSE i \in Matching : \A j \in Matching : i <= j
        terms    == Indices[first].Terms
        t        == CHOOSE k \in DOMAIN terms :
                        terms[k] \in code /\ \A m \in 1 .. k - 1 : terms[m] \notin code
    IN  scid \notin {NAMESERVICE, MAINNET_GNOMON_SCID} =>
        /\ (class = "null") <=> (Matching = {})
        /\ ToSet(TagsOf(code)) = {"all"} \cup {Indices[i].Name : i \in Matching}
        /\ Matching # {} =>
             \/ class = terms[t]
             \/ <<terms[t], class>> \in {<<"docVersion", "TELA-DOC-1">>,
                                        <<"telaVersion", "TELA-INDEX-1">>}
=============================================================================
