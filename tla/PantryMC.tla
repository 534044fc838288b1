----------------------------- MODULE PantryMC ------------------------------
(***************************************************************************)
(* Instances of Pantry for TLC: two names that the fuzzy rule takes for    *)
(* one, a third that it does not, and one bar code.                        *)
(***************************************************************************)
EXTENDS Pantry

McNames == {"banana", "bananas", "tofu"}
McSimilar == {<<"banana", "bananas">>, <<"bananas", "banana">>}

Line(n, u) == [name |-> n, upc |-> u]
McReceipts == {
    <<Line("banana", "u")>>,
    <<Line("tofu", NoUpc), Line("bananas", NoUpc)>>,
    <<Line("tofu", "u")>>}
McMeals == {<<"tofu", "bananas">>}

Entry(n, akas, u) == [name |-> n, akas |-> akas, pref |-> u]
Batch(items, purchases, consumptions) ==
    [items |-> items, purchases |-> purchases, consumptions |-> consumptions]
McBatches == {
    Batch(<<Entry("tofu", {"bananas"}, "u"), Entry("bananas", {}, NoUpc)>>,
          <<[name |-> "bananas", upc |-> "u", at |-> 1]>>,
          <<[name |-> "tofu", at |-> 2]>>),
    Batch(<<Entry("banana", {}, "u")>>, <<>>, <<[name |-> "bananas", at |-> 0]>>)}

\* The batches meet the condition of NamesAreApart and NameIsKept.
ASSUME McAliasesApart == AliasesApart

=============================================================================
