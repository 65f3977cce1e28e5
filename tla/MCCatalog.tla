----------------------------- MODULE MCCatalog -----------------------------
EXTENDS Catalog, TLC

CONSTANTS c1, c2, c3

\* Texts as clients send them: two spellings of a SKU, one that is none, a currency that is none.
MCCanonical == [t \in {"A-1", "a-1", "B-2", "b-2", "C-3", "c-3", "D-4", "?", "EUR", "USD", "tea", "mugs", "euro"} |->
                  CASE t = "a-1" -> "A-1"
                    [] t = "b-2" -> "B-2"
                    [] t = "c-3" -> "C-3"
                    [] t \in {"?", "euro"} -> None
                    [] OTHER     -> t]

\* Product 1 is a draft with no variant yet, 2 and 3 are on sale and were created in
\* the same instant; 4 is the one a call may create.
MCRows == [p \in Products |->
             CASE p = 1 -> [status |-> "draft", category |-> "tea", created |-> 1, version |-> 1]
               [] p = 2 -> [status |-> "active", category |-> "tea", created |-> 1, version |-> 2]
               [] p = 3 -> [status |-> "active", category |-> "tea", created |-> 1, version |-> 2]
               [] OTHER -> None]
MCVariants == [s \in SKUs |->
                 CASE s = "A-1" -> [product |-> 2, currency |-> "EUR", version |-> 2]
                   [] s = "D-4" -> [product |-> 3, currency |-> "EUR", version |-> 2]
                   [] OTHER -> None]

On(p, kind) == [kind |-> kind, product |-> p]
Details(p, category) == [kind |-> "details", product |-> p, category |-> category]
Pricing(p, kind, sku, currency) == [kind |-> kind, product |-> p, sku |-> sku, currency |-> currency]
Creation(p, list) == [kind |-> "create", product |-> p, category |-> "tea", variants |-> list]
V(sku, currency) == [sku |-> sku, currency |-> currency]

\* Two calls edit products 1 and 2 against each other and against a third that
\* creates a product with SKUs they may use.
MCEditsOf ==
  (c1 :> {On(1, "publish"), On(2, "archive"), Details(2, "mugs"),
          Pricing(1, "add", "B-2", "EUR"), Pricing(2, "reprice", "A-1", "USD")})
  @@ (c2 :> {Pricing(1, "add", "c-3", "USD"), Pricing(2, "add", "C-3", "EUR"),
             Pricing(2, "reprice", "D-4", "EUR"), Pricing(2, "reprice", "A-1", "euro"), On(4, "publish")})
  @@ (c3 :> {Creation(4, <<V("C-3", "EUR"), V("b-2", "EUR")>>), Creation(4, <<V("B-2", "EUR"), V("b-2", "EUR"), V("?", "EUR")>>)})
=============================================================================
