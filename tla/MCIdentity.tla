----------------------------- MODULE MCIdentity -----------------------------
EXTENDS Identity, TLC

CONSTANTS r1, l1, f1, f2, f3

MCKindsOf == [c \in Calls |->
                CASE c = r1 -> {"register"}
                  [] c = l1 -> {"login"}
                  [] OTHER  -> {"refresh", "logout", "register", "login"}]

\* Two spellings of one address, and one that is no address.
MCSpellings == {"ann@x.io", " Ann@x.io", "ann"}
MCAddress == [s \in MCSpellings |-> IF s = "ann" THEN None ELSE "ann@x.io"]

Form(s, p) == [spelling |-> s, password |-> p]

\* The address is registered and used in two spellings; a login may have the
\* password wrong.
MCForms == [c \in Calls |->
              CASE c = r1 -> {Form("ann@x.io", "p"), Form("ann", "p")}
                [] c = l1 -> {Form(" Ann@x.io", "p"), Form("ann@x.io", "q")}
                [] OTHER  -> {Form(" Ann@x.io", "p")}]

Symm == Permutations({f1, f2, f3})
=============================================================================
