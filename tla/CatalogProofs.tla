--------------------------- MODULE CatalogProofs ---------------------------
(***************************************************************************)
(* Edits of products are serial and what is stored stays sound, and a      *)
(* shopper is shown what can be bought, all of it and once, for any number *)
(* of calls, products and SKUs, any page size and any tables that are      *)
(* sound at first.                                                         *)
(*                                                                         *)
(* The argument for the edits: whoever updates a product's row under its   *)
(* version has loaded the product as it is stored, row and variants, for   *)
(* every commit that changes a variant changes the version of its          *)
(* product's row, and the row is read first; from there on the row's lock  *)
(* keeps the product as it is.  For the browse: times of creation never    *)
(* change, so a token divides the products shown from those to come.       *)
(***************************************************************************)
EXTENDS Catalog, FiniteSetTheorems, SequenceTheorems, TLAPS

\* The variants of a product now.
Of(p) == GetVariantsByProductIDs(variants, p)

Position == [created : 0 .. MaxClock, id : Products]
ReadRow  == [id : Products, row : Row]

\* A command once its texts are normalised.
Command ==
  [kind : {"publish", "archive"}, product : Products]
  \cup [kind : {"details"}, product : Products, category : Categories]
  \cup [kind : {"add"}, product : Products, sku : SKUs, currency : Currencies]
  \cup [kind : {"reprice"}, product : Products, sku : SKUs, currency : Currencies]

Creation ==
  [kind : {"create"}, product : Products, category : Categories,
   variants : Seq([sku : SKUs, currency : Currencies])]

\* Variants of one product in one currency.
AreVariants(vs, p) ==
  /\ DOMAIN vs \subseteq SKUs
  /\ vs \in [DOMAIN vs -> Variant]
  /\ \A s \in DOMAIN vs : vs[s].product = p
  /\ \A s, t \in DOMAIN vs : vs[s].currency = vs[t].currency

\* A product as the domain keeps it: what is on sale has something to sell.
IsProduct(row, vs, p) ==
  /\ row \in Row
  /\ AreVariants(vs, p)
  /\ row.status = "active" => DOMAIN vs # {}

CatalogType ==
  /\ rows \in [Products -> Row \cup {None}]
  /\ variants \in [SKUs -> Variant \cup {None}]
  /\ rowLock \in [Products -> Calls \cup {None}]
  /\ skuLock \in [SKUs -> Calls \cup {None}]
  /\ outcome \in [Calls -> {None, "ok", "internal", "product modified", "sku exists"} \cup Refusals]
  /\ pc \in [Calls -> {"idle", "create", "load row", "load variants", "change", "update row",
                       "update variants", "insert variants", "done"}]
  /\ clock \in 0 .. MaxClock /\ started \in [Calls -> 0 .. MaxClock]
  /\ edit \in [Calls -> Command \cup Creation \cup {None}]
  /\ fresh \in [Calls -> Seq(SKUs)]
  /\ DOMAIN base = Calls /\ \A c \in Calls : base[c] = [row |-> base[c].row, variants |-> base[c].variants]
  /\ DOMAIN work = Calls

\* What a call is doing fits what it was asked.
Busy(c) ==
  /\ pc[c] = "create" => edit[c] \in Creation
  /\ pc[c] \in {"load row", "load variants", "change", "update row", "update variants"} => edit[c] \in Command
  /\ pc[c] = "insert variants" => edit[c] \in Command \cup Creation

\* Who holds a row or a SKU is in the statements that write.
LocksAreHeld ==
  /\ \A p \in Products : rowLock[p] # None =>
       pc[rowLock[p]] \in {"update variants", "insert variants"} /\ edit[rowLock[p]].product = p
  /\ \A c \in Calls : pc[c] \in {"update variants", "insert variants"} => rowLock[edit[c].product] = c
  /\ \A s \in SKUs : skuLock[s] # None => pc[skuLock[s]] = "insert variants" /\ variants[s] = None

\* The tables are sound.
TablesAreSound ==
  /\ \A s \in SKUs : variants[s] # None => rows[variants[s].product] # None
  /\ \A p \in Products : rows[p] # None => IsProduct(rows[p], Of(p), p)

\* What a call has loaded is what is stored unless the row's version has moved on.
Loaded(c) ==
  LET p == edit[c].product IN
  pc[c] \in {"load variants", "change", "update row"} =>
    /\ rows[p] # None
    /\ base[c].row \in Row
    /\ base[c].row.version <= rows[p].version
    /\ base[c].row.version = rows[p].version =>
         base[c].row = rows[p] /\ (pc[c] # "load variants" => base[c].variants = Of(p))

\* What a call is writing is its change to what it has loaded.
Decided(c) ==
  pc[c] \in {"update row", "update variants"} =>
    Refusal(edit[c], base[c]) = "ok" /\ work[c] = Changed(edit[c], base[c])

\* What a call writes once it holds the row is a change to what is stored.
Writes(c) ==
  LET p == edit[c].product IN
  /\ pc[c] = "update variants" => rows[p] # None /\ base[c] = Stored(p)
  /\ pc[c] = "insert variants" /\ edit[c] \in Command =>
       /\ rows[p] # None /\ Refusal(edit[c], Stored(p)) = "ok"
       /\ work[c] = Written(Stored(p), Changed(edit[c], Stored(p)))
  /\ pc[c] = "insert variants" /\ edit[c] \in Creation =>
       rows[p] = None /\ IsProduct(work[c].row, work[c].variants, p)

\* A SKU that is written is one the product has, one to insert, or one inserted.
Inserts(c) ==
  pc[c] = "insert variants" =>
    \A s \in DOMAIN work[c].variants :
      \/ s \in DOMAIN Of(edit[c].product)
      \/ s \in SKUs /\ skuLock[s] = c
      \/ \E i \in 1 .. Len(fresh[c]) : fresh[c][i] = s

EditsInv ==
  /\ CatalogType /\ LocksAreHeld /\ TablesAreSound
  /\ \A c \in Calls : Busy(c) /\ Loaded(c) /\ Decided(c) /\ Writes(c) /\ Inserts(c)

\* A row that was read: its product is stored, has the time it had, and if it was on
\* sale it is or was archived, and has something to sell.
StillThere(x) ==
  /\ rows[x.id] # None
  /\ rows[x.id].created = x.row.created
  /\ x.row.status = "active" => rows[x.id].status \in {"active", "archived"} /\ DOMAIN Of(x.id) # {}

Filters == [status : Statuses, category : Categories \cup {None}]

WalkType ==
  /\ walk \in [at : {"idle", "list", "variants", "done", "refused"}, filter : Filters \cup {None},
               size : Nat, token : Position \cup {None}, page : Seq(ReadRow)]
  /\ shown \in [Products -> {0, 1}]
  /\ steady \subseteq Products

\* The page in hand: products newest first, after what was shown.
PageInHand ==
  walk.at = "variants" =>
    /\ \A i \in 1 .. Len(walk.page) : StillThere(walk.page[i])
    /\ walk.size > 0 =>
         /\ Len(walk.page) <= walk.size + 1
         /\ \A i \in 1 .. Len(walk.page) : Before(walk.page[i].id, walk.token)
         /\ \A i, j \in 1 .. Len(walk.page) : i < j => Newer(walk.page[i].id, walk.page[j].id)

\* A product that is still to come is on the page or, if the page is full, below it.
OnPageOrBelow(p) ==
  \/ ~Before(p, walk.token)
  \/ \E i \in 1 .. Len(walk.page) : walk.page[i].id = p
  \/ Len(walk.page) = walk.size + 1 /\ Newer(walk.page[walk.size + 1].id, p)

WalkIsOnCourse ==
  /\ walk.at = "list" => walk.size > 0
  /\ walk.at = "idle" => walk.size = 0
  /\ walk.size = 0 => walk.token = None /\ steady = {}
  /\ \A p \in steady : Matches(rows[p], walk.filter)
  /\ walk.at \in {"idle", "list", "variants"} =>
       /\ \A p \in Products : shown[p] = 1 => rows[p] # None /\ ~Before(p, walk.token)
       /\ \A p \in steady : shown[p] = 1 <=> ~Before(p, walk.token)
  /\ walk.at = "variants" => \A p \in steady : OnPageOrBelow(p)
  /\ walk.at = "done" => \A p \in steady : shown[p] = 1

BrowseInv == WalkType /\ PageInHand /\ WalkIsOnCourse

CatalogInv == EditsInv /\ BrowseInv

\* A set of natural numbers that is not empty has a least one: inclusion of finite
\* sets is well-founded, and n is in the place of 0 .. n.
LEMMA LeastOf ==
  ASSUME NEW T \in SUBSET Nat, T # {}
  PROVE  \E n \in T : \A m \in T : n <= m
<1> DEFINE F == {0 .. n : n \in T}
<1>1. F \subseteq FiniteSubsetsOf(Nat)
  <2>1. ASSUME NEW n \in T PROVE 0 .. n \in FiniteSubsetsOf(Nat)
    <3>1. n \in Nat /\ IsFiniteSet(0 .. n)
      BY FS_Interval
    <3> QED BY <3>1 DEF FiniteSubsetsOf
  <2> QED BY <2>1
<1>2. F # {}
  OBVIOUS
<1>3. IsWellFoundedOn(StrictSubsetOrdering(Nat), FiniteSubsetsOf(Nat))
  BY FS_StrictSubsetOrderingWellFounded
<1>4. PICK U \in F : \A V \in F : ~(<<V, U>> \in StrictSubsetOrdering(Nat))
  <2> HIDE DEF F
  <2> QED BY <1>1, <1>2, <1>3, WFMin
<1>5. PICK n \in T : U = 0 .. n
  BY <1>4
<1>6. ASSUME NEW m \in T, m < n PROVE FALSE
  <2>1. 0 .. m \in F /\ 0 .. m \subseteq 0 .. n /\ n \in 0 .. n /\ n \notin 0 .. m
    BY <1>6
  <2> QED BY <1>1, <1>4, <1>5, <2>1 DEF StrictSubsetOrdering, FiniteSubsetsOf
<1> QED BY <1>6
-----------------------------------------------------------------------------
(* The domain.                                                             *)

\* What the proofs below use of the assumption on the constants.
LEMMA ConstantsAreSound ==
  /\ IsFiniteSet(Products) /\ Products \subseteq Nat
  /\ MaxClock \in Nat \ {0} /\ AskedSizes \subseteq Nat /\ AskedStatuses \subseteq Statuses \cup {None}
  /\ DefaultPageSize \in Nat \ {0} /\ MaxPageSize \in Nat \ {0}
  /\ None \notin Calls /\ None \notin SKUs /\ None \notin Categories /\ None \notin Row
  /\ None \notin Variant /\ None \notin Position
  /\ \A c \in Calls : EditsOf[c] \subseteq Requests
  /\ SoundTables(StoredRows, StoredVariants)
  BY CatalogAssumption, Zenon DEF CatalogAssumption, Position

\* What the variants of a product are.
LEMMA VariantsOf ==
  ASSUME NEW p
  PROVE  /\ DOMAIN Of(p) = {s \in SKUs : variants[s] # None /\ variants[s].product = p}
         /\ \A s \in DOMAIN Of(p) : Of(p)[s] = variants[s]
         /\ Of(p) = [s \in DOMAIN Of(p) |-> variants[s]]
         /\ Stored(p) = [row |-> rows[p], variants |-> Of(p)]
  BY DEF Of, GetVariantsByProductIDs, Stored

\* Commands and creations.
LEMMA Kinds ==
  /\ \A e \in Command : e.kind # "create" /\ e.product \in Products
  /\ \A e \in Creation : e.kind = "create" /\ e.product \in Products
  /\ Command \cap Creation = {}
<1>1. \A e \in Command : e.kind # "create" /\ e.product \in Products
  BY DEF Command
<1>2. \A e \in Creation : e.kind = "create" /\ e.product \in Products
  BY DEF Creation
<1> QED BY <1>1, <1>2

\* What is not malformed is, once normalised, a command or a creation.
LEMMA NormalisedRequest ==
  ASSUME NEW e \in Requests, ~Malformed(Normalised(e))
  PROVE  IF Normalised(e).kind = "create" THEN Normalised(e) \in Creation ELSE Normalised(e) \in Command
<1> USE DEF NewSKU, NewCategory, NewCurrencyCode, Texts
<1>1. CASE e \in [kind : {"publish", "archive"}, product : Products]
  BY <1>1 DEF Normalised, Command
<1>2. CASE e \in [kind : {"details"}, product : Products, category : Texts(Categories)]
  <2>1. Normalised(e) = [kind |-> "details", product |-> e.product, category |-> Canonical[e.category]]
    BY <1>2 DEF Normalised
  <2>2. Canonical[e.category] \in Categories
    BY <1>2, <2>1 DEF Malformed
  <2> QED BY <1>2, <2>1, <2>2 DEF Command
<1>3. CASE e \in [kind : {"add"}, product : Products, sku : Texts(SKUs), currency : Texts(Currencies)]
  <2>1. Normalised(e) = [kind |-> "add", product |-> e.product, sku |-> Canonical[e.sku],
                         currency |-> Canonical[e.currency]]
    BY <1>3 DEF Normalised
  <2>2. Canonical[e.sku] \in SKUs /\ Canonical[e.currency] \in Currencies
    BY <1>3, <2>1 DEF Malformed
  <2> QED BY <1>3, <2>1, <2>2 DEF Command
<1>4. CASE e \in [kind : {"reprice"}, product : Products, sku : SKUs, currency : Texts(Currencies)]
  <2>1. Normalised(e) = [kind |-> "reprice", product |-> e.product, sku |-> e.sku,
                         currency |-> Canonical[e.currency]]
    BY <1>4 DEF Normalised
  <2>2. Canonical[e.currency] \in Currencies
    BY <1>4, <2>1 DEF Malformed
  <2> QED BY <1>4, <2>1, <2>2 DEF Command
<1>5. CASE e \in [kind : {"create"}, product : Products, category : Texts(Categories), variants : Seq(Priced)]
  <2> DEFINE list == [i \in DOMAIN e.variants |-> [sku |-> Canonical[e.variants[i].sku],
                                                   currency |-> Canonical[e.variants[i].currency]]]
  <2>1. Normalised(e) = [kind |-> "create", product |-> e.product, category |-> Canonical[e.category],
                         variants |-> list]
    BY <1>5 DEF Normalised
  <2>2. e.variants \in Seq(Priced) /\ Len(e.variants) \in Nat /\ DOMAIN e.variants = 1 .. Len(e.variants)
    BY <1>5, LenProperties
  <2>3. Canonical[e.category] \in Categories
    BY <1>5, <2>1 DEF Malformed
  <2>4. ASSUME NEW i \in DOMAIN e.variants
        PROVE  list[i] \in [sku : SKUs, currency : Currencies]
    <3>1. e.variants[i] \in Priced
      BY <2>2, ElementOfSeq
    <3>2. /\ Canonical[e.variants[i].sku] \in SKUs \cup {None}
          /\ Canonical[e.variants[i].currency] \in Currencies \cup {None}
      BY <3>1 DEF Priced
    <3>3. list[i] = [sku |-> Canonical[e.variants[i].sku],
                     currency |-> Canonical[e.variants[i].currency]]
      BY <2>4
    <3>4. Normalised(e).kind = "create" /\ Normalised(e).variants = list /\ DOMAIN list = DOMAIN e.variants
      BY <2>1
    <3> HIDE DEF list
    <3>5. list[i].sku # None /\ list[i].currency # None
      BY <2>4, <3>4 DEF Malformed
    <3> QED BY <3>2, <3>3, <3>5
  <2> DEFINE V == [sku : SKUs, currency : Currencies]
  <2>5. list \in Seq(V)
    <3>1. list \in [1 .. Len(e.variants) -> V]
      BY <2>2, <2>4
    <3> HIDE DEF list, V
    <3> QED BY <2>2, <3>1, SeqDef
  <2> HIDE DEF list
  <2>6. Normalised(e) \in Creation
    BY <1>5, <2>1, <2>3, <2>5 DEF Creation
  <2> QED BY <2>1, <2>6
<1> QED BY <1>1, <1>2, <1>3, <1>4, <1>5 DEF Requests

\* Why a command is refused is one of the reasons.
LEMMA RefusalIsOne ==
  ASSUME NEW e \in Command, NEW a
  PROVE  Refusal(e, a) \in Refusals \cup {"ok"}
<1>1. \A vs, sku, currency : /\ AddVariantRefusal(vs, sku, currency) \in Refusals \cup {"ok"}
                             /\ UpdateVariantRefusal(vs, sku, currency) \in Refusals \cup {"ok"}
                             /\ PublishRefusal(vs) \in Refusals \cup {"ok"}
  BY DEF AddVariantRefusal, UpdateVariantRefusal, PublishRefusal, Refusals
<1>2. e.kind \in {"archive", "details", "add", "reprice", "publish"}
  BY DEF Command
<1>3. {"archived", "ok"} \subseteq Refusals \cup {"ok"}
  BY DEF Refusals
<1> QED BY <1>1, <1>2, <1>3 DEF Refusal

\* A row with another status or category is a row.
LEMMA RowsChange ==
  ASSUME NEW row \in Row
  PROVE  /\ \A status \in Statuses : [row EXCEPT !.status = status] \in Row
         /\ \A category \in Categories : [row EXCEPT !.category = category] \in Row
         /\ [row EXCEPT !.version = @ + 1] \in Row
  BY DEF Row

\* What may be made of a product: it keeps its time and its variants, and is not put
\* back from sale to a draft.
Follows(new, row, vs, p) ==
  /\ new = [row |-> new.row, variants |-> new.variants]
  /\ IsProduct(new.row, new.variants, p)
  /\ new.row.created = row.created /\ new.row.version = row.version
  /\ DOMAIN vs \subseteq DOMAIN new.variants
  /\ IsFiniteSet(DOMAIN new.variants \ DOMAIN vs)
  /\ row.status \in {"active", "archived"} => new.row.status \in {"active", "archived"}

\* A change the domain accepts leaves a product: in one currency, with something to
\* sell if it is on sale, and nothing of it gone.
LEMMA ChangedIsProduct ==
  ASSUME NEW e \in Command, NEW p, e.product = p, NEW row, NEW vs, IsProduct(row, vs, p),
         Refusal(e, [row |-> row, variants |-> vs]) = "ok"
  PROVE  Follows(Changed(e, [row |-> row, variants |-> vs]), row, vs, p)
<1> DEFINE a == [row |-> row, variants |-> vs]
           new == Changed(e, a)
<1>1. a.row = row /\ a.variants = vs
  OBVIOUS
<1>2. row \in Row /\ AreVariants(vs, p) /\ (row.status = "active" => DOMAIN vs # {})
  BY DEF IsProduct
<1>3. e.kind # "archive" => row.status # "archived"
  BY DEF Refusal, ensureWritable
<1>4. IsFiniteSet({}) /\ \A x : IsFiniteSet({x})
  BY FS_EmptySet, FS_Singleton
<1>5. ASSUME e.kind = "publish" PROVE Follows(new, row, vs, p)
  <2>1. new = [row |-> [row EXCEPT !.status = "active"], variants |-> vs]
    BY <1>5 DEF Changed, Publish
  <2>2. DOMAIN vs # {}
    BY <1>1, <1>5 DEF Refusal, PublishRefusal
  <2>3. [row EXCEPT !.status = "active"] \in Row
    BY <1>2, RowsChange DEF Statuses
  <2>4. [row EXCEPT !.status = "active"].created = row.created
        /\ [row EXCEPT !.status = "active"].version = row.version
        /\ [row EXCEPT !.status = "active"].status = "active"
    BY <1>2 DEF Row
  <2>5. DOMAIN vs \ DOMAIN vs = {}
    OBVIOUS
  <2> HIDE DEF new
  <2> QED BY <1>2, <1>4, <2>1, <2>2, <2>3, <2>4, <2>5 DEF IsProduct, Follows
<1>6. ASSUME e.kind = "archive" PROVE Follows(new, row, vs, p)
  <2>1. new = [row |-> [row EXCEPT !.status = "archived"], variants |-> vs]
    BY <1>6 DEF Changed, Archive
  <2>2. [row EXCEPT !.status = "archived"] \in Row
    BY <1>2, RowsChange DEF Statuses
  <2>3. [row EXCEPT !.status = "archived"].created = row.created
        /\ [row EXCEPT !.status = "archived"].version = row.version
        /\ [row EXCEPT !.status = "archived"].status = "archived"
    BY <1>2 DEF Row
  <2>4. DOMAIN vs \ DOMAIN vs = {}
    OBVIOUS
  <2> HIDE DEF new
  <2> QED BY <1>2, <1>4, <2>1, <2>2, <2>3, <2>4 DEF IsProduct, Follows
<1>7. ASSUME e.kind = "details" PROVE Follows(new, row, vs, p)
  <2>1. new = [row |-> [row EXCEPT !.category = e.category], variants |-> vs] /\ e.category \in Categories
    BY <1>7 DEF Changed, UpdateDetails, Command
  <2>2. [row EXCEPT !.category = e.category] \in Row
    BY <1>2, <2>1, RowsChange
  <2>3. [row EXCEPT !.category = e.category].created = row.created
        /\ [row EXCEPT !.category = e.category].version = row.version
        /\ [row EXCEPT !.category = e.category].status = row.status
    BY <1>2 DEF Row
  <2>4. DOMAIN vs \ DOMAIN vs = {}
    OBVIOUS
  <2> HIDE DEF new
  <2> QED BY <1>2, <1>4, <2>1, <2>2, <2>3, <2>4 DEF IsProduct, Follows
<1>8. ASSUME e.kind = "add" PROVE Follows(new, row, vs, p)
  <2> DEFINE more == [s \in DOMAIN vs \cup {e.sku} |->
                        IF s = e.sku THEN NewVariant(e.product, e.currency) ELSE vs[s]]
  <2>1. new = [row |-> row, variants |-> more] /\ e.sku \in SKUs /\ e.currency \in Currencies
    BY <1>8 DEF Changed, AddVariant, Command
  <2>2. e.sku \notin DOMAIN vs /\ \A s \in DOMAIN vs : vs[s].currency = e.currency
    <3>1. AddVariantRefusal(vs, e.sku, e.currency) = "ok"
      BY <1>1, <1>3, <1>8 DEF Refusal, ensureWritable
    <3>2. e.sku \notin DOMAIN vs /\ ensureCurrency(vs, e.currency, None)
      BY <3>1 DEF AddVariantRefusal
    <3>3. None \notin DOMAIN vs
      BY <1>2, ConstantsAreSound DEF AreVariants
    <3> QED BY <3>2, <3>3 DEF ensureCurrency
  <2>3. NewVariant(e.product, e.currency) \in Variant
        /\ NewVariant(e.product, e.currency).product = p
        /\ NewVariant(e.product, e.currency).currency = e.currency
    BY <2>1, Kinds DEF NewVariant, Variant
  <2>4. DOMAIN more = DOMAIN vs \cup {e.sku} /\ e.sku \in DOMAIN more /\ DOMAIN vs \subseteq DOMAIN more
    OBVIOUS
  <2>5. \A s \in DOMAIN more : more[s] \in Variant /\ more[s].product = p /\ more[s].currency = e.currency
    BY <1>2, <2>2, <2>3 DEF AreVariants
  <2>6. more \in [DOMAIN more -> Variant]
    BY <2>4, <2>5
  <2>7. DOMAIN more \ DOMAIN vs = {e.sku}
    BY <2>2, <2>4
  <2> HIDE DEF more, new
  <2>8. AreVariants(more, p)
    BY <1>2, <2>1, <2>4, <2>5, <2>6 DEF AreVariants
  <2> QED BY <1>2, <1>4, <2>1, <2>4, <2>7, <2>8 DEF IsProduct, Follows
<1>9. ASSUME e.kind = "reprice" PROVE Follows(new, row, vs, p)
  <2> DEFINE other == [vs EXCEPT ![e.sku].currency = e.currency]
  <2>1. new = [row |-> row, variants |-> other] /\ e.currency \in Currencies
    BY <1>9 DEF Changed, UpdateVariant, Command
  <2>2. e.sku \in DOMAIN vs /\ \A s \in DOMAIN vs \ {e.sku} : vs[s].currency = e.currency
    <3>1. UpdateVariantRefusal(vs, e.sku, e.currency) = "ok"
      BY <1>1, <1>3, <1>9 DEF Refusal, ensureWritable
    <3> QED BY <3>1 DEF UpdateVariantRefusal, ensureCurrency
  <2>3. DOMAIN other = DOMAIN vs /\ \A s \in DOMAIN vs \ {e.sku} : other[s] = vs[s]
    OBVIOUS
  <2>4. other[e.sku] \in Variant /\ other[e.sku].product = p /\ other[e.sku].currency = e.currency
    <3>1. vs[e.sku] \in Variant /\ vs[e.sku].product = p
      BY <1>2, <2>2 DEF AreVariants
    <3>2. other[e.sku] = [vs[e.sku] EXCEPT !.currency = e.currency]
      BY <2>2
    <3> HIDE DEF other
    <3> QED BY <2>1, <3>1, <3>2 DEF Variant
  <2>5. \A s \in DOMAIN vs : other[s] \in Variant /\ other[s].product = p /\ other[s].currency = e.currency
    <3> HIDE DEF other
    <3> QED BY <1>2, <2>2, <2>3, <2>4 DEF AreVariants
  <2>6. other \in [DOMAIN vs -> Variant]
    <3>1. other = [s \in DOMAIN vs |-> other[s]]
      OBVIOUS
    <3> HIDE DEF other
    <3> QED BY <2>5, <3>1
  <2>7. DOMAIN other \ DOMAIN vs = {}
    BY <2>3
  <2> HIDE DEF other, new
  <2>8. AreVariants(other, p)
    BY <1>2, <2>3, <2>5, <2>6 DEF AreVariants
  <2> QED BY <1>2, <1>4, <2>1, <2>2, <2>3, <2>7, <2>8 DEF IsProduct, Follows
<1>10. e.kind \in {"publish", "archive", "details", "add", "reprice"}
  BY DEF Command
<1> QED BY <1>5, <1>6, <1>7, <1>8, <1>9, <1>10

\* A product as it was but for its versions.
IsNext(new, row, vs, p) ==
  /\ new = [row |-> new.row, variants |-> new.variants]
  /\ IsProduct(new.row, new.variants, p)
  /\ new.row.created = row.created /\ new.row.status = row.status
  /\ new.row.version = row.version + 1
  /\ DOMAIN new.variants = DOMAIN vs

\* Writing a product keeps it one, under the next version.
LEMMA WrittenIsProduct ==
  ASSUME NEW row, NEW vs, NEW p, IsProduct(row, vs, p), NEW old
  PROVE  IsNext(Written(old, [row |-> row, variants |-> vs]), row, vs, p)
<1> DEFINE bumped == [row EXCEPT !.version = @ + 1]
           vs2 == [s \in DOMAIN vs |-> IF s \in DOMAIN old.variants
                                       THEN [vs[s] EXCEPT !.version = @ + 1] ELSE vs[s]]
<1>1. Written(old, [row |-> row, variants |-> vs]) = [row |-> bumped, variants |-> vs2]
  BY DEF Written
<1>2. row \in Row /\ AreVariants(vs, p)
  BY DEF IsProduct
<1>3. /\ bumped \in Row /\ bumped.created = row.created /\ bumped.status = row.status
      /\ bumped.version = row.version + 1
  BY <1>2 DEF Row
<1>4. ASSUME NEW s \in DOMAIN vs
      PROVE  vs2[s] \in Variant /\ vs2[s].product = p /\ vs2[s].currency = vs[s].currency
  <2>1. vs[s] \in Variant /\ vs[s].product = p
    BY <1>2 DEF AreVariants
  <2>2. LET w == [vs[s] EXCEPT !.version = @ + 1]
        IN  w \in Variant /\ w.product = p /\ w.currency = vs[s].currency
    BY <2>1 DEF Variant
  <2> QED BY <2>1, <2>2
<1>5. DOMAIN vs2 = DOMAIN vs /\ vs2 \in [DOMAIN vs -> Variant]
  BY <1>4
<1> HIDE DEF vs2, bumped
<1>6. AreVariants(vs2, p)
  BY <1>2, <1>4, <1>5 DEF AreVariants
<1>7. IsProduct(bumped, vs2, p)
  BY <1>3, <1>5, <1>6 DEF IsProduct
<1> QED BY <1>1, <1>3, <1>5, <1>7 DEF IsNext

\* Variants that are accepted one by one are those of a product.
LEMMA WithVariantsIsSound ==
  ASSUME NEW p \in Products, NEW list \in Seq([sku : SKUs, currency : Currencies]),
         WithVariants(p, list).refusal = "ok"
  PROVE  /\ AreVariants(WithVariants(p, list).variants, p)
         /\ DOMAIN WithVariants(p, list).variants = {list[i].sku : i \in 1 .. Len(list)}
<1> DEFINE n == Len(list)
           why(k) == AddVariantRefusal(Added(p, list, k - 1), list[k].sku, list[k].currency)
           refused == {k \in DOMAIN list : why(k) # "ok"}
           built == Added(p, list, n)
<1>1. n \in Nat /\ DOMAIN list = 1 .. n
  BY LenProperties
<1>2. \A k \in 1 .. n : list[k].sku \in SKUs /\ list[k].currency \in Currencies
  <2>1. \A k \in 1 .. n : list[k] \in [sku : SKUs, currency : Currencies]
    BY ElementOfSeq
  <2> QED BY <2>1
<1>3. \A k \in 1 .. n : why(k) = "ok"
  <2>1. SUFFICES ASSUME refused # {} PROVE FALSE
    BY <1>1
  <2>2. refused \in SUBSET Nat
    BY <1>1
  <2>3. \E k \in refused : \A m \in refused : k <= m
    <3> HIDE DEF refused
    <3> QED BY <2>1, <2>2, LeastOf
  <2>4. WithVariants(p, list).refusal = why(CHOOSE k \in refused : \A m \in refused : k <= m)
    BY <2>1 DEF WithVariants
  <2>5. (CHOOSE k \in refused : \A m \in refused : k <= m) \in refused
    <3> HIDE DEF refused
    <3> QED BY <2>3
  <2> QED BY <2>4, <2>5
<1>4. \A k \in 1 .. n : DOMAIN Added(p, list, k - 1) = {list[i].sku : i \in 1 .. k - 1}
  BY <1>1 DEF Added
<1>5. \A k \in 1 .. n : /\ list[k].sku \notin {list[i].sku : i \in 1 .. k - 1}
                        /\ ensureCurrency(Added(p, list, k - 1), list[k].currency, None)
  BY <1>3, <1>4 DEF AddVariantRefusal
<1>6. \A i, k \in 1 .. n : i < k => list[i].sku # list[k].sku
  BY <1>1, <1>5
<1>7. \A i, k \in 1 .. n : list[i].sku = list[k].sku => i = k
  BY <1>1, <1>6
<1>8. ASSUME NEW k \in 0 .. n, NEW i \in 1 .. k
      PROVE  Added(p, list, k)[list[i].sku] = NewVariant(p, list[i].currency)
  <2>1. i \in 1 .. n /\ 1 .. k \subseteq 1 .. n
    BY <1>1
  <2>2. (CHOOSE j \in 1 .. k : list[j].sku = list[i].sku) = i
    BY <1>7, <2>1
  <2> QED BY <2>2 DEF Added
<1>9. \A i, k \in 1 .. n : i < k => list[i].currency = list[k].currency
  <2> SUFFICES ASSUME NEW i \in 1 .. n, NEW k \in 1 .. n, i < k PROVE list[i].currency = list[k].currency
    OBVIOUS
  <2>1. k - 1 \in 0 .. n /\ i \in 1 .. k - 1
    BY <1>1
  <2>2. list[i].sku \in DOMAIN Added(p, list, k - 1) \ {None}
    BY <1>2, <1>4, <2>1, ConstantsAreSound
  <2>3. Added(p, list, k - 1)[list[i].sku].currency = list[k].currency
    BY <1>5, <2>2 DEF ensureCurrency
  <2>4. Added(p, list, k - 1)[list[i].sku] = NewVariant(p, list[i].currency)
    BY <1>8, <2>1
  <2> QED BY <2>3, <2>4 DEF NewVariant
<1>10. DOMAIN built = {list[i].sku : i \in 1 .. n} /\ built = [s \in DOMAIN built |-> built[s]]
  BY DEF Added
<1> HIDE DEF built
<1>11. ASSUME NEW i \in 1 .. n
       PROVE  built[list[i].sku] \in Variant /\ built[list[i].sku].product = p
              /\ built[list[i].sku].currency = list[i].currency
  <2>1. built[list[i].sku] = NewVariant(p, list[i].currency)
    BY <1>1, <1>8 DEF built
  <2> QED BY <1>2, <2>1 DEF NewVariant, Variant
<1>12. \A s \in DOMAIN built : \E i \in 1 .. n : s = list[i].sku
  BY <1>10
<1>13. DOMAIN built \subseteq SKUs /\ built \in [DOMAIN built -> Variant]
  <2>1. \A s \in DOMAIN built : built[s] \in Variant /\ s \in SKUs
    BY <1>2, <1>11, <1>12
  <2> QED BY <1>10, <2>1
<1>14. \A s \in DOMAIN built : built[s].product = p
  BY <1>11, <1>12
<1>15. \A s, t \in DOMAIN built : built[s].currency = built[t].currency
  <2>1. \A i, k \in 1 .. n : list[i].currency = list[k].currency
    BY <1>1, <1>9
  <2> QED BY <1>11, <1>12, <2>1
<1>16. AreVariants(built, p)
  BY <1>13, <1>14, <1>15 DEF AreVariants
<1>17. WithVariants(p, list).variants = built
  BY DEF WithVariants, built
<1> QED BY <1>10, <1>16, <1>17

\* Why a creation is refused is one of the reasons.
LEMMA CreationRefusals ==
  ASSUME NEW p, NEW list
  PROVE  WithVariants(p, list).refusal \in Refusals \cup {"ok"}
<1>1. \A vs, sku, currency : AddVariantRefusal(vs, sku, currency) \in Refusals \cup {"ok"}
  BY DEF AddVariantRefusal, Refusals
<1> QED BY <1>1 DEF WithVariants
-----------------------------------------------------------------------------
(* Edits, one call's step at a time.                                       *)

\* A step of one call leaves the others where they are.
OthersAlone(c) ==
  \A d \in Calls \ {c} :
    /\ pc'[d] = pc[d] /\ edit'[d] = edit[d] /\ base'[d] = base[d]
    /\ work'[d] = work[d] /\ fresh'[d] = fresh[d]

\* What is claimed of one call.
CallInv(c) == Busy(c) /\ Loaded(c) /\ Decided(c) /\ Writes(c) /\ Inserts(c)

Ending == {None, "ok", "internal", "product modified", "sku exists"} \cup Refusals

\* Nobody has called yet and the tables hold sound rows.
LEMMA InitEdits == Init => EditsInv
<1> SUFFICES ASSUME Init PROVE EditsInv
  OBVIOUS
<1>1. SoundTables(rows, variants) /\ rows \in [Products -> Row \cup {None}] /\ variants \in [SKUs -> Variant \cup {None}]
  BY ConstantsAreSound DEF Init, SoundTables
<1>2. CatalogType
  <2>1. <<>> \in Seq(SKUs)
    BY EmptySeq
  <2>2. 1 \in 0 .. MaxClock /\ 0 \in 0 .. MaxClock
    BY ConstantsAreSound
  <2>3. \A c \in Calls : base[c] = [row |-> base[c].row, variants |-> base[c].variants]
    BY DEF Init, NoAggregate
  <2> QED BY <1>1, <2>1, <2>2, <2>3 DEF Init, CatalogType
<1>3. LocksAreHeld
  BY DEF Init, LocksAreHeld
<1>4. TablesAreSound
  <2>1. ASSUME NEW p \in Products, rows[p] # None PROVE IsProduct(rows[p], Of(p), p)
    <3>1. /\ DOMAIN Of(p) = {s \in SKUs : variants[s] # None /\ variants[s].product = p}
          /\ \A s \in DOMAIN Of(p) : Of(p)[s] = variants[s]
          /\ Of(p) = [s \in DOMAIN Of(p) |-> variants[s]]
      BY VariantsOf
    <3>2. rows[p].status = "active" => DOMAIN Of(p) # {}
      BY <1>1, <2>1 DEF SoundTables, Of
    <3>3. AreVariants(Of(p), p)
      BY <1>1, <3>1 DEF SoundTables, AreVariants
    <3> QED BY <1>1, <2>1, <3>2, <3>3 DEF IsProduct
  <2> QED BY <1>1, <2>1 DEF TablesAreSound, SoundTables
<1>5. \A c \in Calls : Busy(c) /\ Loaded(c) /\ Decided(c) /\ Writes(c) /\ Inserts(c)
  BY DEF Init, Busy, Loaded, Decided, Writes, Inserts
<1> QED BY <1>2, <1>3, <1>4, <1>5 DEF EditsInv

\* The other calls are undisturbed while the tables stay as they are.
LEMMA OthersKeep ==
  ASSUME EditsInv, NEW c \in Calls, OthersAlone(c), UNCHANGED tables, NEW d \in Calls \ {c},
         \A s \in SKUs : skuLock[s] = d => skuLock'[s] = d
  PROVE  CallInv(d)'
<1>1. Busy(d) /\ Loaded(d) /\ Decided(d) /\ Writes(d) /\ Inserts(d)
  BY DEF EditsInv
<1>2. /\ pc'[d] = pc[d] /\ edit'[d] = edit[d] /\ base'[d] = base[d]
      /\ work'[d] = work[d] /\ fresh'[d] = fresh[d] /\ rows' = rows /\ variants' = variants
  BY DEF OthersAlone, tables
<1>3. Busy(d)' /\ Decided(d)'
  BY <1>1, <1>2 DEF Busy, Decided
<1>4. Loaded(d)'
  BY <1>1, <1>2 DEF Loaded, Of
<1>5. Writes(d)'
  BY <1>1, <1>2 DEF Writes, Stored
<1>6. Inserts(d)'
  <2>1. Of(edit[d].product)' = Of(edit[d].product)
    BY <1>2 DEF Of
  <2> QED BY <1>1, <1>2, <2>1 DEF Inserts
<1> QED BY <1>3, <1>4, <1>5, <1>6 DEF CallInv

\* A step that writes no row leaves the tables as sound as they were.
LEMMA TablesKeep ==
  ASSUME EditsInv, UNCHANGED tables
  PROVE  TablesAreSound'
  BY DEF EditsInv, TablesAreSound, tables, Of

\* A call that is not writing holds nothing.
LEMMA HoldsNothing ==
  ASSUME EditsInv, NEW c \in Calls
  PROVE  /\ pc[c] \notin {"update variants", "insert variants"} => \A p \in Products : rowLock[p] # c
         /\ pc[c] # "insert variants" => \A s \in SKUs : skuLock[s] # c
<1>1. c # None /\ LocksAreHeld
  BY ConstantsAreSound DEF EditsInv
<1>2. ASSUME NEW p \in Products, rowLock[p] = c PROVE pc[c] \in {"update variants", "insert variants"}
  BY <1>1, <1>2 DEF LocksAreHeld
<1>3. ASSUME NEW s \in SKUs, skuLock[s] = c PROVE pc[c] = "insert variants"
  BY <1>1, <1>3 DEF LocksAreHeld
<1> QED BY <1>2, <1>3

\* A step of one call that does not end it.
LEMMA CallGoesOn ==
  ASSUME EditsInv, NEW c \in Calls, OthersAlone(c), UNCHANGED tables, CatalogType', LocksAreHeld',
         CallInv(c)', \A d \in Calls \ {c} : \A s \in SKUs : skuLock[s] = d => skuLock'[s] = d
  PROVE  EditsInv'
<1>1. \A d \in Calls \ {c} : CallInv(d)'
  BY OthersKeep
<1>2. TablesAreSound'
  BY TablesKeep
<1> QED BY <1>1, <1>2 DEF EditsInv, CallInv

\* A step of a call that is outside UpdateProduct, before and after, gives and
\* takes no lock.
LEMMA LocksKeep ==
  ASSUME EditsInv, NEW c \in Calls, OthersAlone(c), UNCHANGED <<tables, locks>>,
         pc[c] \notin {"update variants", "insert variants"},
         pc'[c] \notin {"update variants", "insert variants"}
  PROVE  LocksAreHeld'
<1>1. rowLock' = rowLock /\ skuLock' = skuLock /\ variants' = variants /\ LocksAreHeld
  BY DEF locks, tables, EditsInv
<1>2. ASSUME NEW p \in Products, rowLock[p] # None
      PROVE  pc'[rowLock[p]] \in {"update variants", "insert variants"} /\ edit'[rowLock[p]].product = p
  <2>1. rowLock[p] \in Calls \ {c}
    BY <1>2, HoldsNothing DEF EditsInv, CatalogType
  <2> QED BY <1>1, <1>2, <2>1 DEF LocksAreHeld, OthersAlone
<1>3. ASSUME NEW d \in Calls, pc'[d] \in {"update variants", "insert variants"}
      PROVE  rowLock[edit'[d].product] = d
  <2>1. d # c /\ pc[d] = pc'[d] /\ edit'[d] = edit[d]
    BY <1>3 DEF OthersAlone
  <2> QED BY <1>1, <1>3, <2>1 DEF LocksAreHeld
<1>4. ASSUME NEW s \in SKUs, skuLock[s] # None PROVE pc'[skuLock[s]] = "insert variants" /\ variants[s] = None
  <2>1. skuLock[s] \in Calls \ {c}
    BY <1>4, HoldsNothing DEF EditsInv, CatalogType
  <2> QED BY <1>1, <1>4, <2>1 DEF LocksAreHeld, OthersAlone
<1> QED BY <1>1, <1>2, <1>3, <1>4 DEF LocksAreHeld

\* A call that fails before it has written has no lock to give back.
LEMMA NothingToRollBack ==
  ASSUME EditsInv, NEW c \in Calls, pc[c] \notin {"update variants", "insert variants"}, UNCHANGED locks
  PROVE  RollBack(c)
<1>1. rowLock' = [p \in Products |-> rowLock[p]] /\ skuLock' = [s \in SKUs |-> skuLock[s]]
  BY DEF EditsInv, CatalogType, locks
<1> QED BY <1>1, HoldsNothing DEF RollBack

\* What the end of a call leaves, the tables apart.
LEMMA EndsLeaves ==
  ASSUME EditsInv, NEW c \in Calls, NEW o \in Ending, Ends(c, o), RollBack(c)
  PROVE  /\ OthersAlone(c) /\ pc'[c] = "done" /\ CallInv(c)'
         /\ \A p \in Products : rowLock'[p] = IF rowLock[p] = c THEN None ELSE rowLock[p]
         /\ \A s \in SKUs : skuLock'[s] = IF skuLock[s] = c THEN None ELSE skuLock[s]
         /\ rowLock' \in [Products -> Calls \cup {None}] /\ skuLock' \in [SKUs -> Calls \cup {None}]
         /\ outcome' \in [Calls -> Ending]
         /\ pc' \in [Calls -> {"idle", "create", "load row", "load variants", "change", "update row",
                               "update variants", "insert variants", "done"}]
         /\ started' \in [Calls -> 0 .. MaxClock]
         /\ edit' \in [Calls -> Command \cup Creation \cup {None}]
         /\ fresh' \in [Calls -> Seq(SKUs)]
         /\ DOMAIN base' = Calls
         /\ \A d \in Calls : base'[d] = [row |-> base'[d].row, variants |-> base'[d].variants]
         /\ DOMAIN work' = Calls
<1>1. CatalogType
  BY DEF EditsInv
<1>2. OthersAlone(c) /\ pc'[c] = "done"
  BY <1>1 DEF CatalogType, Ends, OthersAlone
<1>3. CallInv(c)'
  BY <1>2 DEF CallInv, Busy, Loaded, Decided, Writes, Inserts
<1>4. /\ \A p \in Products : rowLock'[p] = IF rowLock[p] = c THEN None ELSE rowLock[p]
      /\ \A s \in SKUs : skuLock'[s] = IF skuLock[s] = c THEN None ELSE skuLock[s]
      /\ rowLock' \in [Products -> Calls \cup {None}] /\ skuLock' \in [SKUs -> Calls \cup {None}]
  BY <1>1 DEF CatalogType, RollBack
<1>5. outcome' \in [Calls -> Ending]
  BY <1>1 DEF CatalogType, Ends, Ending
<1>6. <<>> \in Seq(SKUs) /\ 0 \in 0 .. MaxClock
  BY EmptySeq, ConstantsAreSound
<1>7. fresh' \in [Calls -> Seq(SKUs)]
  <2> DEFINE S == Seq(SKUs)
  <2>1. <<>> \in S /\ fresh \in [Calls -> S] /\ fresh' = [fresh EXCEPT ![c] = <<>>]
    BY <1>1, <1>6 DEF CatalogType, Ends
  <2> HIDE DEF S
  <2>2. fresh' \in [Calls -> S]
    BY <2>1
  <2> QED BY <2>2 DEF S
<1>8. \A d \in Calls : base'[d] = [row |-> base'[d].row, variants |-> base'[d].variants]
  <2>1. base'[c] = NoAggregate /\ NoAggregate = [row |-> NoAggregate.row, variants |-> NoAggregate.variants]
    BY <1>1 DEF CatalogType, Ends, NoAggregate
  <2> QED BY <1>1, <1>2, <2>1 DEF CatalogType, OthersAlone
<1>9. /\ pc' \in [Calls -> {"idle", "create", "load row", "load variants", "change", "update row",
                            "update variants", "insert variants", "done"}]
      /\ DOMAIN base' = Calls /\ DOMAIN work' = Calls
      /\ edit' \in [Calls -> Command \cup Creation \cup {None}]
  <2> DEFINE E == Command \cup Creation \cup {None}
  <2>1. None \in E /\ edit \in [Calls -> E] /\ edit' = [edit EXCEPT ![c] = None]
    BY <1>1 DEF CatalogType, Ends
  <2> HIDE DEF E
  <2>2. edit' \in [Calls -> E]
    BY <2>1
  <2> QED BY <1>1, <2>2 DEF CatalogType, Ends, E
<1>10. started' \in [Calls -> 0 .. MaxClock]
  BY <1>1, <1>6 DEF CatalogType, Ends
<1> QED BY <1>2, <1>3, <1>4, <1>5, <1>7, <1>8, <1>9, <1>10

\* Who ends lets go of what it held, and the others hold what they held.
LEMMA LocksReleased ==
  ASSUME EditsInv, NEW c \in Calls, OthersAlone(c), pc'[c] = "done",
         \A p \in Products : rowLock'[p] = IF rowLock[p] = c THEN None ELSE rowLock[p],
         \A s \in SKUs : skuLock'[s] = IF skuLock[s] = c THEN None ELSE skuLock[s],
         \A s \in SKUs : skuLock[s] \in Calls \ {c} => variants'[s] = None
  PROVE  LocksAreHeld'
<1>1. \A p \in Products : rowLock[p] \in Calls \cup {None}
  BY DEF EditsInv, CatalogType
<1>2. \A s \in SKUs : skuLock[s] \in Calls \cup {None}
  BY DEF EditsInv, CatalogType
<1>3. LocksAreHeld
  BY DEF EditsInv
<1>4. ASSUME NEW p \in Products, rowLock'[p] # None
      PROVE  pc'[rowLock'[p]] \in {"update variants", "insert variants"} /\ edit'[rowLock'[p]].product = p
  <2>1. rowLock'[p] = rowLock[p] /\ rowLock[p] \in Calls \ {c}
    BY <1>1, <1>4
  <2>2. pc[rowLock[p]] \in {"update variants", "insert variants"} /\ edit[rowLock[p]].product = p
    BY <1>3, <1>4, <2>1 DEF LocksAreHeld
  <2>3. pc'[rowLock[p]] = pc[rowLock[p]] /\ edit'[rowLock[p]] = edit[rowLock[p]]
    BY <2>1 DEF OthersAlone
  <2> QED BY <2>1, <2>2, <2>3
<1>5. ASSUME NEW d \in Calls, pc'[d] \in {"update variants", "insert variants"}
      PROVE  rowLock'[edit'[d].product] = d
  <2>1. d # c /\ pc[d] \in {"update variants", "insert variants"} /\ edit'[d] = edit[d]
    BY <1>5 DEF OthersAlone
  <2>2. edit[d].product \in Products
    <3>1. edit[d] \in Command \cup Creation
      BY <2>1 DEF EditsInv, Busy
    <3> QED BY <3>1, Kinds
  <2>3. rowLock[edit[d].product] = d /\ d # c
    BY <1>3, <2>1 DEF LocksAreHeld
  <2> QED BY <2>1, <2>2, <2>3
<1>6. ASSUME NEW s \in SKUs, skuLock'[s] # None
      PROVE  pc'[skuLock'[s]] = "insert variants" /\ variants'[s] = None
  <2>1. skuLock'[s] = skuLock[s] /\ skuLock[s] \in Calls \ {c}
    BY <1>2, <1>6
  <2>2. pc[skuLock[s]] = "insert variants"
    BY <1>3, <1>6, <2>1 DEF LocksAreHeld
  <2>3. pc'[skuLock[s]] = pc[skuLock[s]]
    BY <2>1 DEF OthersAlone
  <2> QED BY <2>1, <2>2, <2>3
<1> QED BY <1>4, <1>5, <1>6 DEF LocksAreHeld

\* A call that ends without a commit leaves everything sound.
LEMMA CallEnds ==
  ASSUME EditsInv, NEW c \in Calls, NEW o \in Ending, Ends(c, o), RollBack(c), UNCHANGED <<tables, clock>>
  PROVE  EditsInv'
<1>1. OthersAlone(c) /\ pc'[c] = "done" /\ CallInv(c)'
  BY EndsLeaves
<1>2. CatalogType'
  <2>1. rows' = rows /\ variants' = variants /\ clock' = clock /\ CatalogType
    BY DEF tables, EditsInv
  <2> QED BY <2>1, EndsLeaves DEF CatalogType, Ending
<1>3. /\ \A p \in Products : rowLock'[p] = IF rowLock[p] = c THEN None ELSE rowLock[p]
      /\ \A s \in SKUs : skuLock'[s] = IF skuLock[s] = c THEN None ELSE skuLock[s]
  BY EndsLeaves
<1>4. LocksAreHeld'
  <2>1. \A s \in SKUs : skuLock[s] \in Calls \ {c} => variants'[s] = None
    <3>1. None \notin Calls /\ LocksAreHeld /\ variants' = variants
      BY ConstantsAreSound DEF EditsInv, tables
    <3> QED BY <3>1 DEF LocksAreHeld
  <2> QED BY <1>1, <1>3, <2>1, LocksReleased
<1>5. \A d \in Calls \ {c} : \A s \in SKUs : skuLock[s] = d => skuLock'[s] = d
  BY <1>3
<1> QED BY <1>1, <1>2, <1>4, <1>5, CallGoesOn

\* Why a malformed command is refused is one of the refusals.
LEMMA MalformedEnds ==
  ASSUME NEW e
  PROVE  MalformedRefusal(e) \in Ending
<1>1. ASSUME NEW p, NEW list
      PROVE  WithVariants(p, list).refusal \in {"ok", "duplicate sku", "currency mismatch"}
  <2> DEFINE why(n) == AddVariantRefusal(Added(p, list, n - 1), list[n].sku, list[n].currency)
             refused == {n \in DOMAIN list : why(n) # "ok"}
  <2>1. \A n : why(n) \in {"ok", "duplicate sku", "currency mismatch"}
    BY DEF AddVariantRefusal
  <2>2. WithVariants(p, list).refusal =
          IF refused = {} THEN "ok" ELSE why(CHOOSE n \in refused : \A m \in refused : n <= m)
    BY DEF WithVariants
  <2> HIDE DEF why, refused
  <2> QED BY <2>1, <2>2
<1> DEFINE bad == {i \in DOMAIN e.variants : None \in {e.variants[i].sku, e.variants[i].currency}}
           first == CHOOSE i \in bad : \A j \in bad : i <= j
           before == WithVariants(e.product, SubSeq(e.variants, 1, first - 1)).refusal
<1>2. before \in {"ok", "duplicate sku", "currency mismatch"}
  BY <1>1
<1>3. MalformedRefusal(e) = IF e.kind # "create" \/ e.category = None \/ before = "ok" THEN "invalid" ELSE before
  BY DEF MalformedRefusal
<1> HIDE DEF before
<1> QED BY <1>2, <1>3 DEF Ending, Refusals

\* A text that is malformed ends the call; a command or a creation begins.
LEMMA BeginKeeps ==
  ASSUME EditsInv, NEW c \in Calls, Begin(c)
  PROVE  EditsInv'
<1>1. PICK e \in EditsOf[c] :
        LET n == Normalised(e) IN
        IF Malformed(n) THEN Ends(c, MalformedRefusal(n))
        ELSE /\ edit'    = [edit EXCEPT ![c] = n]
             /\ started' = [started EXCEPT ![c] = IF n.kind = "create" THEN clock ELSE 0]
             /\ pc' = [pc EXCEPT ![c] = IF n.kind = "create" THEN "create" ELSE "load row"]
             /\ UNCHANGED <<outcome, base, work, fresh>>
  BY DEF Begin
<1>2. pc[c] = "idle" /\ UNCHANGED <<tables, locks, clock>> /\ e \in Requests
  BY ConstantsAreSound DEF Begin
<1>3. CASE Malformed(Normalised(e))
  <2>1. Ends(c, MalformedRefusal(Normalised(e)))
    BY <1>1, <1>3
  <2>2. MalformedRefusal(Normalised(e)) \in Ending
    BY MalformedEnds
  <2>3. RollBack(c)
    BY <1>2, NothingToRollBack
  <2> QED BY <1>2, <2>1, <2>2, <2>3, CallEnds
<1>4. CASE ~Malformed(Normalised(e))
  <2> DEFINE n == Normalised(e)
  <2>1. IF n.kind = "create" THEN n \in Creation ELSE n \in Command
    BY <1>2, <1>4, NormalisedRequest
  <2>2. /\ edit'    = [edit EXCEPT ![c] = n]
        /\ started' = [started EXCEPT ![c] = IF n.kind = "create" THEN clock ELSE 0]
        /\ pc' = [pc EXCEPT ![c] = IF n.kind = "create" THEN "create" ELSE "load row"]
        /\ outcome' = outcome /\ base' = base /\ work' = work /\ fresh' = fresh
    BY <1>1, <1>4
  <2> HIDE DEF n
  <2>3. OthersAlone(c) /\ pc'[c] \in {"create", "load row"} /\ edit'[c] = n
        /\ (pc'[c] = "create" <=> n.kind = "create")
    BY <2>2 DEF EditsInv, CatalogType, OthersAlone
  <2>4. CatalogType'
    <3>1. rows' = rows /\ variants' = variants /\ rowLock' = rowLock /\ skuLock' = skuLock /\ clock' = clock
      BY <1>2 DEF tables, locks
    <3>2. CatalogType /\ 0 \in 0 .. MaxClock
      BY ConstantsAreSound DEF EditsInv
    <3> QED BY <2>1, <2>2, <3>1, <3>2 DEF CatalogType
  <2>5. LocksAreHeld'
    BY <1>2, <2>3, LocksKeep
  <2>6. CallInv(c)'
    BY <2>1, <2>3, Kinds DEF CallInv, Busy, Loaded, Decided, Writes, Inserts
  <2>7. \A d \in Calls \ {c} : \A s \in SKUs : skuLock[s] = d => skuLock'[s] = d
    BY <1>2 DEF locks
  <2> QED BY <1>2, <2>3, <2>4, <2>5, <2>6, <2>7, CallGoesOn
<1> QED BY <1>3, <1>4

\* GetProductByID without a row: the call ends with PRODUCT_NOT_FOUND.
LEMMA FindNothingKeeps ==
  ASSUME EditsInv, NEW c \in Calls, FindNothing(c)
  PROVE  EditsInv'
<1>1. pc[c] = "load row" /\ Ends(c, "not found") /\ UNCHANGED <<tables, locks, clock>>
  BY DEF FindNothing
<1>2. RollBack(c) /\ "not found" \in Ending
  BY <1>1, NothingToRollBack DEF Ending, Refusals
<1> QED BY <1>1, <1>2, CallEnds

\* A step of one call in which it neither ends nor touches a lock.
LEMMA CallLoads ==
  ASSUME EditsInv, NEW c \in Calls, UNCHANGED <<edit, started, fresh, tables, locks, outcome, clock>>,
         NEW to \in {"load variants", "change", "update row"}, pc' = [pc EXCEPT ![c] = to],
         pc[c] \in {"load row", "load variants", "change"},
         DOMAIN base' = Calls, DOMAIN work' = Calls,
         base'[c] = [row |-> base'[c].row, variants |-> base'[c].variants],
         \A d \in Calls \ {c} : base'[d] = base[d] /\ work'[d] = work[d],
         Loaded(c)', Decided(c)'
  PROVE  EditsInv'
<1>1. /\ edit' = edit /\ fresh' = fresh /\ rows' = rows /\ variants' = variants /\ rowLock' = rowLock
      /\ skuLock' = skuLock /\ outcome' = outcome /\ clock' = clock /\ started' = started
  BY DEF tables, locks
<1>2. CatalogType /\ Busy(c)
  BY DEF EditsInv
<1>3. OthersAlone(c) /\ pc'[c] = to
  BY <1>1, <1>2 DEF CatalogType, OthersAlone
<1>4. CatalogType'
  BY <1>1, <1>2 DEF CatalogType
<1>5. LocksAreHeld'
  BY <1>3, LocksKeep
<1>6. CallInv(c)'
  <2>1. Busy(c)' /\ Writes(c)' /\ Inserts(c)'
    BY <1>1, <1>2, <1>3 DEF Busy, Writes, Inserts
  <2> QED BY <2>1 DEF CallInv
<1>7. \A d \in Calls \ {c} : \A s \in SKUs : skuLock[s] = d => skuLock'[s] = d
  BY <1>1
<1> QED BY <1>3, <1>4, <1>5, <1>6, <1>7, CallGoesOn

\* The product a command is about.
LEMMA AboutAProduct ==
  ASSUME EditsInv, NEW c \in Calls,
         pc[c] \in {"load row", "load variants", "change", "update row", "update variants"}
  PROVE  edit[c] \in Command /\ edit[c].product \in Products
  BY Kinds DEF EditsInv, Busy

\* GetProductByID with a row: the call has the first half of the product, and
\* nobody is kept out of the table meanwhile.
LEMMA FindRowKeeps ==
  ASSUME EditsInv, NEW c \in Calls, FindRow(c)
  PROVE  EditsInv'
<1> DEFINE p == edit[c].product
<1>1. /\ pc[c] = "load row" /\ rows[p] # None /\ pc' = [pc EXCEPT ![c] = "load variants"]
      /\ UNCHANGED <<edit, started, work, fresh, tables, locks, outcome, clock>>
      /\ base' = [base EXCEPT ![c]["row"] = Stored(p)["row"]]
  BY DEF FindRow, Load, LoadOrder
<1>2. CatalogType /\ rows' = rows /\ p \in Products /\ rows[p] \in Row
  BY <1>1, AboutAProduct DEF EditsInv, CatalogType, tables
<1>3. base'[c] = [row |-> rows[p], variants |-> base[c].variants] /\ DOMAIN base' = Calls
      /\ \A d \in Calls \ {c} : base'[d] = base[d]
  <2>1. Stored(p)["row"] = rows[p]
    BY DEF Stored
  <2>2. DOMAIN base = Calls /\ base[c] = [row |-> base[c].row, variants |-> base[c].variants]
    BY <1>2 DEF CatalogType
  <2> QED BY <1>1, <2>1, <2>2
<1>4. Loaded(c)'
  <2>1. base'[c].row = rows'[p] /\ edit'[c].product = p /\ rows'[p] # None /\ rows'[p] \in Row
    BY <1>1, <1>2, <1>3
  <2>2. rows'[p].version <= rows'[p].version
    BY <2>1 DEF Row
  <2>3. pc'[c] = "load variants"
    BY <1>1, <1>2 DEF CatalogType
  <2> QED BY <2>1, <2>2, <2>3 DEF Loaded
<1>5. Decided(c)'
  BY <1>1, <1>2 DEF CatalogType, Decided
<1> QED BY <1>1, <1>2, <1>3, <1>4, <1>5, CallLoads DEF CatalogType

\* The variants are read after the row: if the row's version is still the one read,
\* they are those of that version.
LEMMA FindVariantsKeeps ==
  ASSUME EditsInv, NEW c \in Calls, FindVariants(c)
  PROVE  EditsInv'
<1> DEFINE p == edit[c].product
<1>1. /\ pc[c] = "load variants" /\ pc' = [pc EXCEPT ![c] = "change"]
      /\ UNCHANGED <<edit, started, work, fresh, tables, locks, outcome, clock>>
      /\ base' = [base EXCEPT ![c]["variants"] = Stored(p)["variants"]]
  <2>1. LoadOrder(2) = "variants"
    BY DEF LoadOrder
  <2> QED BY <2>1 DEF FindVariants, Load
<1>2. CatalogType /\ rows' = rows /\ variants' = variants /\ edit' = edit /\ Loaded(c)
  BY <1>1 DEF EditsInv, tables
<1>3. base'[c] = [row |-> base[c].row, variants |-> Of(p)] /\ DOMAIN base' = Calls
      /\ \A d \in Calls \ {c} : base'[d] = base[d]
  <2>1. Stored(p)["variants"] = Of(p)
    BY DEF Stored, Of
  <2>2. DOMAIN base = Calls /\ base[c] = [row |-> base[c].row, variants |-> base[c].variants]
    BY <1>2 DEF CatalogType
  <2> QED BY <1>1, <2>1, <2>2
<1>4. Loaded(c)'
  <2>1. Of(p)' = Of(p)
    BY <1>2 DEF Of
  <2>2. base'[c].row = base[c].row /\ base'[c].variants = Of(p)
    BY <1>3
  <2>3. pc'[c] = "change"
    BY <1>1, <1>2 DEF CatalogType
  <2> QED BY <1>1, <1>2, <2>1, <2>2, <2>3 DEF Loaded
<1>5. Decided(c)'
  BY <1>1, <1>2 DEF CatalogType, Decided
<1> QED BY <1>1, <1>2, <1>3, <1>4, <1>5, CallLoads DEF CatalogType

\* The domain refuses the edit, and the call ends, or works it out on the copy.
LEMMA ChangeKeeps ==
  ASSUME EditsInv, NEW c \in Calls, Change(c)
  PROVE  EditsInv'
<1>1. pc[c] = "change" /\ UNCHANGED <<tables, locks, clock>> /\ edit[c] \in Command
  BY AboutAProduct DEF Change
<1>2. CASE Refusal(edit[c], base[c]) # "ok"
  <2>1. Ends(c, Refusal(edit[c], base[c]))
    BY <1>2 DEF Change
  <2>2. Refusal(edit[c], base[c]) \in Ending /\ RollBack(c)
    BY <1>1, RefusalIsOne, NothingToRollBack DEF Ending
  <2> QED BY <1>1, <2>1, <2>2, CallEnds
<1>3. CASE Refusal(edit[c], base[c]) = "ok"
  <2>1. /\ work' = [work EXCEPT ![c] = Changed(edit[c], base[c])]
        /\ pc' = [pc EXCEPT ![c] = "update row"]
        /\ UNCHANGED <<edit, started, fresh, outcome>> /\ base' = base
    BY <1>3 DEF Change
  <2>2. CatalogType /\ Loaded(c) /\ rows' = rows /\ variants' = variants
    BY <1>1 DEF EditsInv, tables
  <2>3. Loaded(c)'
    BY <1>1, <2>1, <2>2 DEF Loaded, CatalogType, Of
  <2>4. Decided(c)'
    BY <1>3, <2>1, <2>2 DEF Decided, CatalogType
  <2> QED BY <1>1, <2>1, <2>2, <2>3, <2>4, CallLoads DEF CatalogType
<1> QED BY <1>2, <1>3

\* Who updates the row under the version it read has loaded what is stored.
LEMMA UpdateProductKeeps ==
  ASSUME EditsInv, NEW c \in Calls, UpdateProduct(c)
  PROVE  EditsInv'
<1> DEFINE p == edit[c].product
<1>1. /\ pc[c] = "update row" /\ rowLock[p] = None /\ UNCHANGED <<tables, skuLock, clock>>
      /\ edit[c] \in Command /\ p \in Products
  BY AboutAProduct DEF UpdateProduct
<1>2. CatalogType /\ LocksAreHeld /\ rows' = rows /\ variants' = variants /\ clock' = clock /\ skuLock' = skuLock
  BY <1>1 DEF EditsInv, tables
<1>3. CASE SameVersion(c)
  <2>1. /\ rowLock' = [rowLock EXCEPT ![p] = c] /\ pc' = [pc EXCEPT ![c] = "update variants"]
        /\ edit' = edit /\ started' = started /\ base' = base /\ work' = work /\ fresh' = fresh
        /\ outcome' = outcome
    BY <1>3 DEF UpdateProduct, call
  <2>2. /\ OthersAlone(c) /\ pc'[c] = "update variants"
        /\ rowLock'[p] = c /\ \A q \in Products \ {p} : rowLock'[q] = rowLock[q]
    BY <1>1, <1>2, <2>1 DEF CatalogType, OthersAlone
  <2>3. CatalogType'
    BY <1>2, <2>1 DEF CatalogType
  <2>4. rows[p] # None /\ base[c] = Stored(p)
    <3>1. Loaded(c) /\ base[c] = [row |-> base[c].row, variants |-> base[c].variants]
      BY <1>2 DEF EditsInv, CatalogType
    <3>2. rows[p] # None /\ base[c].row = rows[p] /\ base[c].variants = Of(p)
      BY <1>1, <1>3, <3>1 DEF Loaded, SameVersion
    <3>3. Stored(p) = [row |-> rows[p], variants |-> Of(p)]
      BY VariantsOf
    <3> QED BY <3>1, <3>2, <3>3
  <2>5. CallInv(c)'
    <3>1. Busy(c)' /\ Loaded(c)' /\ Inserts(c)'
      BY <1>1, <2>1, <2>2 DEF Busy, Loaded, Inserts
    <3>2. Decided(c)'
      BY <1>1, <2>1, <2>2 DEF EditsInv, Decided
    <3>3. Writes(c)'
      BY <1>2, <2>1, <2>2, <2>4 DEF Writes, Stored
    <3> QED BY <3>1, <3>2, <3>3 DEF CallInv
  <2>6. LocksAreHeld'
    <3>1. ASSUME NEW q \in Products, rowLock'[q] # None
          PROVE  pc'[rowLock'[q]] \in {"update variants", "insert variants"} /\ edit'[rowLock'[q]].product = q
      <4>1. CASE q = p
        BY <2>1, <2>2, <4>1
      <4>2. CASE q # p
        <5>1. rowLock'[q] = rowLock[q]
          BY <2>2, <4>2
        <5>2. rowLock[q] \in Calls \ {c}
          BY <1>1, <1>2, <3>1, <5>1, HoldsNothing DEF CatalogType
        <5>3. pc[rowLock[q]] \in {"update variants", "insert variants"} /\ edit[rowLock[q]].product = q
          BY <1>2, <3>1, <5>1 DEF LocksAreHeld
        <5>4. pc'[rowLock[q]] = pc[rowLock[q]]
          BY <2>2, <5>2 DEF OthersAlone
        <5> QED BY <2>1, <5>1, <5>3, <5>4
      <4> QED BY <4>1, <4>2
    <3>2. ASSUME NEW d \in Calls, pc'[d] \in {"update variants", "insert variants"}
          PROVE  rowLock'[edit'[d].product] = d
      <4>1. CASE d = c
        BY <2>1, <2>2, <4>1
      <4>2. CASE d # c
        <5>1. pc[d] \in {"update variants", "insert variants"}
          BY <2>2, <3>2, <4>2 DEF OthersAlone
        <5>2. rowLock[edit[d].product] = d /\ d # None
          BY <5>1, ConstantsAreSound DEF LocksAreHeld, EditsInv
        <5>3. edit[d].product \in Products
          <6>1. edit[d] \in Command \cup Creation
            BY <5>1 DEF EditsInv, Busy
          <6> QED BY <6>1, Kinds
        <5> QED BY <1>1, <2>1, <2>2, <5>2, <5>3
      <4> QED BY <4>1, <4>2
    <3>3. ASSUME NEW s \in SKUs, skuLock'[s] # None
          PROVE  pc'[skuLock'[s]] = "insert variants" /\ variants'[s] = None
      <4>1. skuLock[s] \in Calls \ {c}
        <5>1. skuLock[s] \in Calls \cup {None}
          BY <1>2 DEF CatalogType
        <5>2. skuLock[s] # c
          BY <1>1, HoldsNothing
        <5> QED BY <1>2, <3>3, <5>1, <5>2
      <4>2. pc[skuLock[s]] = "insert variants" /\ variants[s] = None
        BY <1>2, <3>3 DEF LocksAreHeld
      <4> QED BY <1>2, <2>2, <4>1, <4>2 DEF OthersAlone
    <3> QED BY <3>1, <3>2, <3>3 DEF LocksAreHeld
  <2>7. \A d \in Calls \ {c} : \A s \in SKUs : skuLock[s] = d => skuLock'[s] = d
    BY <1>2
  <2> QED BY <1>1, <2>2, <2>3, <2>5, <2>6, <2>7, CallGoesOn
<1>4. CASE ~SameVersion(c)
  <2>1. Ends(c, "product modified") /\ UNCHANGED locks
    BY <1>1, <1>4 DEF UpdateProduct, locks
  <2>2. RollBack(c) /\ "product modified" \in Ending
    BY <1>1, <2>1, NothingToRollBack DEF Ending
  <2> QED BY <1>1, <2>1, <2>2, CallEnds
<1> QED BY <1>3, <1>4

\* The elements of a finite set in a row.
LEMMA InARow ==
  ASSUME NEW S, IsFiniteSet(S)
  PROVE  SetToSeq(S) \in Seq(S) /\ \A s \in S : \E i \in 1 .. Len(SetToSeq(S)) : SetToSeq(S)[i] = s
<1> DEFINE n == Cardinality(S)  f == SetToSeq(S)
<1>1. n \in Nat /\ IsFiniteSet(1 .. n) /\ Cardinality(1 .. n) = n
  <2>1. n \in Nat
    BY FS_CardinalityType
  <2> QED BY <2>1, FS_Interval
<1>2. PICK g : g \in Bijection(1 .. n, S)
  <2>1. ExistsBijection(1 .. n, S)
    BY <1>1, FS_SameCardinalityBij
  <2> QED BY <2>1 DEF ExistsBijection
<1>3. f \in [1 .. n -> S] /\ IsInjective(f)
  <2>1. \E h \in [1 .. n -> S] : IsInjective(h)
    BY <1>2 DEF Bijection, Injection, IsInjective
  <2> QED BY <2>1 DEF SetToSeq
<1> HIDE DEF f, n
<1>4. f \in Injection(1 .. n, S)
  BY <1>3 DEF Injection
<1>5. f \in Surjection(1 .. n, S)
  BY <1>1, <1>4, FS_Injection DEF n
<1>6. f \in Seq(S)
  BY <1>1, <1>3, SeqDef
<1>7. Len(f) = n
  <2>1. Len(f) \in Nat /\ DOMAIN f = 1 .. Len(f) /\ DOMAIN f = 1 .. n
    BY <1>3, <1>6, LenProperties
  <2>2. \A m, l \in Nat : 1 .. m = 1 .. l => m = l
    OBVIOUS
  <2> QED BY <1>1, <2>1, <2>2
<1> QED BY <1>5, <1>6, <1>7 DEF Surjection, f

\* While its row is held nothing of a product has changed: every variant is written,
\* and the added one is to be inserted.
LEMMA UpdateVariantsKeeps ==
  ASSUME EditsInv, NEW c \in Calls, UpdateVariants(c)
  PROVE  EditsInv'
<1> DEFINE p == edit[c].product  new == Changed(edit[c], base[c])
<1>1. pc[c] = "update variants" /\ UNCHANGED <<tables, clock>> /\ edit[c] \in Command /\ p \in Products
  BY AboutAProduct DEF UpdateVariants
<1>2. CatalogType /\ LocksAreHeld /\ rows' = rows /\ variants' = variants /\ clock' = clock
  BY <1>1 DEF EditsInv, tables
<1>3. rows[p] # None /\ base[c] = Stored(p) /\ Refusal(edit[c], base[c]) = "ok" /\ work[c] = new
  BY <1>1 DEF EditsInv, Writes, Decided
<1>4. Stored(p) = [row |-> rows[p], variants |-> Of(p)] /\ \A s \in DOMAIN Of(p) : Of(p)[s] = variants[s]
  BY VariantsOf
<1>5. \A s \in DOMAIN base[c].variants : SameVariant(c, s)
  BY <1>3, <1>4 DEF SameVariant
<1>6. IsProduct(rows[p], Of(p), p)
  BY <1>1, <1>3 DEF EditsInv, TablesAreSound
<1>7. Follows(new, rows[p], Of(p), p)
  <2>1. Refusal(edit[c], [row |-> rows[p], variants |-> Of(p)]) = "ok"
    BY <1>3, <1>4
  <2>2. new = Changed(edit[c], [row |-> rows[p], variants |-> Of(p)])
    BY <1>3, <1>4
  <2> HIDE DEF new
  <2> QED BY <1>1, <1>6, <2>1, <2>2, ChangedIsProduct
<1> DEFINE more == DOMAIN new.variants \ DOMAIN Of(p)
<1>8. /\ fresh' = [fresh EXCEPT ![c] = SetToSeq(more)]
      /\ work' = [work EXCEPT ![c] = Written(base[c], new)]
      /\ pc' = [pc EXCEPT ![c] = "insert variants"]
      /\ edit' = edit /\ started' = started /\ outcome' = outcome /\ base' = base
      /\ rowLock' = rowLock /\ skuLock' = skuLock
  <2> HIDE DEF new
  <2>1. /\ fresh' = [fresh EXCEPT ![c] = SetToSeq(DOMAIN work[c].variants \ DOMAIN base[c].variants)]
        /\ work' = [work EXCEPT ![c] = Written(base[c], @)]
        /\ pc' = [pc EXCEPT ![c] = "insert variants"]
        /\ edit' = edit /\ started' = started /\ outcome' = outcome /\ base' = base
        /\ rowLock' = rowLock /\ skuLock' = skuLock
    BY <1>5 DEF UpdateVariants, locks
  <2>2. work' = [work EXCEPT ![c] = Written(base[c], work[c])]
    BY <1>2, <2>1 DEF CatalogType
  <2>3. DOMAIN work[c].variants \ DOMAIN base[c].variants = more
    BY <1>3, <1>4
  <2> HIDE DEF more
  <2> QED BY <1>3, <2>1, <2>2, <2>3
<1>9. /\ OthersAlone(c) /\ pc'[c] = "insert variants" /\ fresh'[c] = SetToSeq(more)
      /\ work'[c] = Written(base[c], new)
  BY <1>2, <1>8 DEF CatalogType, OthersAlone
<1> HIDE DEF new
<1>10. IsFiniteSet(more) /\ more \subseteq SKUs
  BY <1>7 DEF Follows, IsProduct, AreVariants
<1> HIDE DEF more
<1>11. SetToSeq(more) \in Seq(SKUs) /\ \A s \in more : \E i \in 1 .. Len(SetToSeq(more)) : SetToSeq(more)[i] = s
  BY <1>10, InARow, SeqMonotonic
<1>12. CatalogType'
  <2> DEFINE S == Seq(SKUs)
  <2>1. fresh' \in [Calls -> S]
    <3>1. SetToSeq(more) \in S /\ fresh \in [Calls -> S]
      BY <1>2, <1>11 DEF CatalogType
    <3> HIDE DEF S
    <3> QED BY <1>8, <3>1
  <2> QED BY <1>2, <1>8, <2>1 DEF CatalogType
<1>13. CallInv(c)'
  <2>1. Busy(c)' /\ Loaded(c)' /\ Decided(c)'
    BY <1>1, <1>8, <1>9 DEF Busy, Loaded, Decided
  <2>2. Writes(c)'
    <3>1. Stored(p)' = Stored(p) /\ edit'[c] \in Command /\ edit'[c] \notin Creation
      BY <1>1, <1>2, <1>8, Kinds DEF Stored
    <3>2. work'[c] = Written(Stored(p), Changed(edit[c], Stored(p)))
      BY <1>3, <1>9 DEF new
    <3> QED BY <1>2, <1>3, <1>8, <1>9, <3>1, <3>2 DEF Writes
  <2>3. Inserts(c)'
    <3>1. DOMAIN work'[c].variants = DOMAIN new.variants
      <4>1. new = [row |-> new.row, variants |-> new.variants] /\ IsProduct(new.row, new.variants, p)
        BY <1>7 DEF Follows
      <4>2. work'[c] = Written(base[c], [row |-> new.row, variants |-> new.variants])
        BY <1>9, <4>1
      <4>3. IsNext(work'[c], new.row, new.variants, p)
        BY <4>1, <4>2, WrittenIsProduct
      <4> QED BY <4>3 DEF IsNext
    <3>2. \A s \in DOMAIN new.variants : s \in DOMAIN Of(p) \/ s \in more
      BY DEF more
    <3>3. Of(p)' = Of(p)
      BY <1>2, <1>8 DEF Of
    <3> QED BY <1>8, <1>9, <1>11, <3>1, <3>2, <3>3 DEF Inserts
  <2> QED BY <2>1, <2>2, <2>3 DEF CallInv
<1>14. LocksAreHeld'
  <2>1. \A s \in SKUs : skuLock[s] # c
    BY <1>1, HoldsNothing
  <2>2. \A d \in Calls : pc[d] \in {"update variants", "insert variants"} <=>
                         pc'[d] \in {"update variants", "insert variants"}
    BY <1>1, <1>9 DEF OthersAlone
  <2>3. ASSUME NEW s \in SKUs, skuLock[s] # None PROVE pc'[skuLock[s]] = "insert variants" /\ variants[s] = None
    <3>1. skuLock[s] \in Calls \ {c}
      BY <1>2, <2>1, <2>3 DEF CatalogType
    <3>2. pc[skuLock[s]] = "insert variants" /\ variants[s] = None
      BY <1>2, <2>3 DEF LocksAreHeld
    <3> QED BY <1>9, <3>1, <3>2 DEF OthersAlone
  <2>4. \A q \in Products : rowLock[q] \in Calls \cup {None}
    BY <1>2 DEF CatalogType
  <2> QED BY <1>2, <1>8, <2>2, <2>3, <2>4 DEF LocksAreHeld
<1>15. \A d \in Calls \ {c} : \A s \in SKUs : skuLock[s] = d => skuLock'[s] = d
  BY <1>8
<1> QED BY <1>1, <1>9, <1>12, <1>13, <1>14, <1>15, CallGoesOn

\* A SKU is inserted, or found taken by who committed it.
LEMMA InsertVariantKeeps ==
  ASSUME EditsInv, NEW c \in Calls, InsertVariant(c)
  PROVE  EditsInv'
<1> DEFINE s == Head(fresh[c])
<1>1. /\ pc[c] = "insert variants" /\ fresh[c] # <<>> /\ skuLock[s] = None
      /\ UNCHANGED <<tables, clock>>
      /\ CatalogType /\ LocksAreHeld /\ rows' = rows /\ variants' = variants /\ clock' = clock
  BY DEF InsertVariant, EditsInv, tables
<1>2. fresh[c] \in Seq(SKUs)
  BY <1>1 DEF CatalogType
<1>3. /\ s \in SKUs /\ s = fresh[c][1] /\ Tail(fresh[c]) \in Seq(SKUs)
      /\ Len(fresh[c]) \in Nat \ {0} /\ Len(Tail(fresh[c])) = Len(fresh[c]) - 1
      /\ \A i \in 1 .. Len(fresh[c]) - 1 : Tail(fresh[c])[i] = fresh[c][i + 1]
  <2> DEFINE q == fresh[c]
  <2>1. q \in Seq(SKUs) /\ q # <<>>
    BY <1>1, <1>2
  <2> HIDE DEF q
  <2>2. /\ Head(q) \in SKUs /\ Tail(q) \in Seq(SKUs) /\ Len(Tail(q)) = Len(q) - 1
        /\ \A i \in 1 .. Len(Tail(q)) : Tail(q)[i] = q[i + 1]
    BY <2>1, HeadTailProperties
  <2>3. Len(q) \in Nat \ {0} /\ Head(q) = q[1]
    BY <2>1, EmptySeq
  <2> QED BY <2>2, <2>3 DEF q
<1>4. CASE variants[s] # None
  <2>1. RollBack(c) /\ Ends(c, "sku exists") /\ "sku exists" \in Ending
    BY <1>1, <1>4 DEF InsertVariant, Ending
  <2> QED BY <1>1, <2>1, CallEnds
<1>5. CASE variants[s] = None
  <2>1. /\ skuLock' = [skuLock EXCEPT ![s] = c] /\ fresh' = [fresh EXCEPT ![c] = Tail(@)]
        /\ pc' = pc /\ edit' = edit /\ started' = started /\ outcome' = outcome /\ base' = base
        /\ work' = work /\ rowLock' = rowLock
    BY <1>5 DEF InsertVariant
  <2> HIDE DEF s
  <2>2. /\ fresh' = [fresh EXCEPT ![c] = Tail(fresh[c])] /\ fresh'[c] = Tail(fresh[c])
        /\ OthersAlone(c)
    BY <1>1, <2>1 DEF CatalogType, OthersAlone
  <2>3. skuLock'[s] = c /\ \A t \in SKUs \ {s} : skuLock'[t] = skuLock[t]
    BY <1>1, <1>3, <2>1 DEF CatalogType
  <2>4. CatalogType'
    <3> DEFINE S == Seq(SKUs)
    <3>1. fresh' \in [Calls -> S]
      <4>1. Tail(fresh[c]) \in S /\ fresh \in [Calls -> S]
        BY <1>1, <1>3 DEF CatalogType
      <4> HIDE DEF S
      <4> QED BY <2>2, <4>1
    <3> QED BY <1>1, <2>1, <3>1 DEF CatalogType
  <2>5. LocksAreHeld'
    <3>1. ASSUME NEW t \in SKUs, skuLock'[t] # None
          PROVE  pc[skuLock'[t]] = "insert variants" /\ variants[t] = None
      <4>1. CASE t = s
        BY <1>1, <1>5, <2>3, <4>1
      <4>2. CASE t # s
        BY <1>1, <2>3, <3>1, <4>2 DEF LocksAreHeld
      <4> QED BY <4>1, <4>2
    <3> QED BY <1>1, <2>1, <3>1 DEF LocksAreHeld
  <2>6. CallInv(c)'
    <3>1. Busy(c) /\ Loaded(c) /\ Decided(c) /\ Writes(c) /\ Inserts(c)
      BY DEF EditsInv
    <3>2. Busy(c)' /\ Decided(c)'
      BY <2>1, <3>1 DEF Busy, Decided
    <3>3. Loaded(c)' /\ Writes(c)'
      BY <1>1, <2>1, <3>1 DEF Loaded, Writes, Stored, Of
    <3>4. ASSUME NEW t \in DOMAIN work[c].variants
          PROVE  \/ t \in DOMAIN Of(edit[c].product)
                 \/ t \in SKUs /\ skuLock'[t] = c
                 \/ \E i \in 1 .. Len(fresh'[c]) : fresh'[c][i] = t
      <4>1. CASE t \in DOMAIN Of(edit[c].product)
        BY <4>1
      <4>2. CASE t \in SKUs /\ skuLock[t] = c
        BY <2>3, <4>2
      <4>3. CASE \E i \in 1 .. Len(fresh[c]) : fresh[c][i] = t
        <5>1. PICK i \in 1 .. Len(fresh[c]) : fresh[c][i] = t
          BY <4>3
        <5>2. CASE i = 1
          BY <1>3, <2>3, <5>1, <5>2
        <5>3. CASE i # 1
          <6>1. i - 1 \in 1 .. Len(fresh[c]) - 1 /\ (i - 1) + 1 = i
            BY <1>3, <5>3
          <6>2. Tail(fresh[c])[i - 1] = t
            BY <1>3, <5>1, <6>1
          <6> QED BY <1>3, <2>2, <6>1, <6>2
        <5> QED BY <5>2, <5>3
      <4> QED BY <1>1, <3>1, <4>1, <4>2, <4>3 DEF Inserts
    <3>5. Inserts(c)'
      <4>1. Of(edit[c].product)' = Of(edit[c].product)
        BY <1>1, <2>1 DEF Of
      <4> QED BY <2>1, <3>4, <4>1 DEF Inserts
    <3> QED BY <3>2, <3>3, <3>5 DEF CallInv
  <2>7. \A d \in Calls \ {c} : \A t \in SKUs : skuLock[t] = d => skuLock'[t] = d
    BY <1>1, <2>3, ConstantsAreSound
  <2> QED BY <1>1, <2>2, <2>4, <2>5, <2>6, <2>7, CallGoesOn
<1> QED BY <1>4, <1>5

\* A creation holds the row it inserts, which nobody has.
LEMMA CreateProductKeeps ==
  ASSUME EditsInv, NEW c \in Calls, CreateProduct(c)
  PROVE  EditsInv'
<1> DEFINE p == edit[c].product  list == edit[c].variants  built == WithVariants(p, list)
<1>1. /\ pc[c] = "create" /\ rows[p] = None /\ rowLock[p] = None /\ UNCHANGED <<tables, skuLock, clock>>
      /\ IF built.refusal # "ok" THEN Ends(c, built.refusal) /\ UNCHANGED rowLock
         ELSE Create(c, p, built.variants)
  BY DEF CreateProduct, Insertable
<1>2. /\ CatalogType /\ LocksAreHeld /\ rows' = rows /\ variants' = variants /\ clock' = clock /\ skuLock' = skuLock
      /\ edit[c] \in Creation
  BY <1>1 DEF EditsInv, tables, Busy
<1>3. p \in Products /\ edit[c].category \in Categories /\ list \in Seq([sku : SKUs, currency : Currencies])
  BY <1>2 DEF Creation
<1>4. CASE built.refusal # "ok"
  <2>1. Ends(c, built.refusal) /\ UNCHANGED locks
    BY <1>1, <1>4 DEF locks
  <2>2. built.refusal \in Ending
    BY <1>4, CreationRefusals DEF Ending
  <2>3. RollBack(c)
    BY <1>1, <2>1, NothingToRollBack
  <2> QED BY <1>1, <2>1, <2>2, <2>3, CallEnds
<1>5. CASE built.refusal = "ok"
  <2> DEFINE skus == [i \in DOMAIN list |-> list[i].sku]
             draft == NewProduct(edit[c], started[c])
             vs == built.variants
  <2>1. /\ rowLock' = [rowLock EXCEPT ![p] = c]
        /\ work' = [work EXCEPT ![c] = [row |-> draft, variants |-> vs]]
        /\ fresh' = [fresh EXCEPT ![c] = skus]
        /\ pc' = [pc EXCEPT ![c] = "insert variants"]
        /\ edit' = edit /\ started' = started /\ outcome' = outcome /\ base' = base
    BY <1>1, <1>5 DEF Create
  <2>2. AreVariants(vs, p) /\ DOMAIN vs = {list[i].sku : i \in 1 .. Len(list)}
    BY <1>3, <1>5, WithVariantsIsSound
  <2>3. draft \in Row /\ draft.status = "draft"
    <3>1. started[c] \in 0 .. MaxClock
      BY <1>2 DEF CatalogType
    <3> QED BY <1>3, <3>1 DEF NewProduct, Row, Statuses
  <2>4. skus \in Seq(SKUs) /\ Len(skus) = Len(list) /\ \A i \in 1 .. Len(list) : skus[i] = list[i].sku
    <3>1. Len(list) \in Nat /\ DOMAIN list = 1 .. Len(list) /\ \A i \in 1 .. Len(list) : list[i].sku \in SKUs
      <4>1. \A i \in 1 .. Len(list) : list[i] \in [sku : SKUs, currency : Currencies]
        BY <1>3, ElementOfSeq
      <4> QED BY <1>3, <4>1, LenProperties
    <3>2. skus \in [1 .. Len(list) -> SKUs] /\ DOMAIN skus = 1 .. Len(list)
      BY <3>1
    <3>3. \A i \in 1 .. Len(list) : skus[i] = list[i].sku
      BY <3>1
    <3> HIDE DEF skus
    <3>4. skus \in Seq(SKUs)
      BY <3>1, <3>2, SeqDef
    <3>5. Len(skus) \in Nat /\ DOMAIN skus = 1 .. Len(skus)
      BY <3>4, LenProperties
    <3>6. \A m, l \in Nat : 1 .. m = 1 .. l => m = l
      OBVIOUS
    <3> QED BY <3>1, <3>2, <3>3, <3>4, <3>5, <3>6
  <2> HIDE DEF skus, draft, vs, built, list
  <2>5. /\ OthersAlone(c) /\ pc'[c] = "insert variants" /\ fresh'[c] = skus
        /\ work'[c].row = draft /\ work'[c].variants = vs
        /\ rowLock'[p] = c /\ \A q \in Products \ {p} : rowLock'[q] = rowLock[q]
    <3>1. /\ DOMAIN work = Calls /\ DOMAIN fresh = Calls /\ DOMAIN pc = Calls /\ DOMAIN edit = Calls
          /\ DOMAIN base = Calls
      BY <1>2 DEF CatalogType
    <3>2. /\ OthersAlone(c) /\ pc'[c] = "insert variants" /\ fresh'[c] = skus
          /\ work'[c] = [row |-> draft, variants |-> vs]
      BY <2>1, <3>1 DEF OthersAlone
    <3>3. work'[c].row = draft /\ work'[c].variants = vs
      <4>1. \A f, d, v : f = [row |-> d, variants |-> v] => f.row = d /\ f.variants = v
        OBVIOUS
      <4> QED BY <3>2, <4>1, Zenon
    <3>4. rowLock'[p] = c /\ \A q \in Products \ {p} : rowLock'[q] = rowLock[q]
      BY <1>2, <1>3, <2>1 DEF CatalogType
    <3> QED BY <3>2, <3>3, <3>4
  <2>6. CatalogType'
    <3> DEFINE S == Seq(SKUs)
    <3>1. fresh' \in [Calls -> S]
      <4>1. skus \in S /\ fresh \in [Calls -> S]
        BY <1>2, <2>4 DEF CatalogType
      <4> HIDE DEF S
      <4> QED BY <2>1, <4>1
    <3> QED BY <1>2, <2>1, <3>1 DEF CatalogType
  <2>7. CallInv(c)'
    <3>1. Busy(c)' /\ Loaded(c)' /\ Decided(c)'
      BY <1>2, <2>1, <2>5 DEF Busy, Loaded, Decided
    <3>2. Writes(c)'
      <4>1. IsProduct(work'[c].row, work'[c].variants, p)
        <5>1. IsProduct(draft, vs, p)
          BY <2>2, <2>3 DEF IsProduct
        <5> QED BY <2>5, <5>1
      <4>2. edit'[c] \notin Command /\ edit'[c].product = p /\ rows'[p] = None
        BY <1>1, <1>2, <2>1, Kinds
      <4> QED BY <2>5, <4>1, <4>2 DEF Writes
    <3>3. Inserts(c)'
      <4>1. \A s \in DOMAIN work'[c].variants : \E i \in 1 .. Len(fresh'[c]) : fresh'[c][i] = s
        <5>1. \A s \in DOMAIN vs : \E i \in 1 .. Len(list) : list[i].sku = s
          BY <2>2
        <5>2. Len(fresh'[c]) = Len(list) /\ \A i \in 1 .. Len(list) : fresh'[c][i] = list[i].sku
          BY <2>4, <2>5
        <5> QED BY <2>5, <5>1, <5>2
      <4> QED BY <4>1 DEF Inserts
    <3> QED BY <3>1, <3>2, <3>3 DEF CallInv
  <2>8. LocksAreHeld'
    <3>1. ASSUME NEW q \in Products, rowLock'[q] # None
          PROVE  pc'[rowLock'[q]] \in {"update variants", "insert variants"} /\ edit'[rowLock'[q]].product = q
      <4>1. CASE q = p
        BY <2>1, <2>5, <4>1
      <4>2. CASE q # p
        <5>1. rowLock'[q] = rowLock[q]
          BY <2>5, <4>2
        <5>2. rowLock[q] \in Calls \ {c}
          BY <1>1, <1>2, <3>1, <5>1, HoldsNothing DEF CatalogType
        <5>3. pc[rowLock[q]] \in {"update variants", "insert variants"} /\ edit[rowLock[q]].product = q
          BY <1>2, <3>1, <5>1 DEF LocksAreHeld
        <5>4. pc'[rowLock[q]] = pc[rowLock[q]]
          BY <2>5, <5>2 DEF OthersAlone
        <5> QED BY <2>1, <5>1, <5>3, <5>4
      <4> QED BY <4>1, <4>2
    <3>2. ASSUME NEW d \in Calls, pc'[d] \in {"update variants", "insert variants"}
          PROVE  rowLock'[edit'[d].product] = d
      <4>1. CASE d = c
        BY <2>1, <2>5, <4>1
      <4>2. CASE d # c
        <5>1. pc[d] \in {"update variants", "insert variants"}
          BY <2>5, <3>2, <4>2 DEF OthersAlone
        <5>2. rowLock[edit[d].product] = d /\ d # None
          BY <1>2, <5>1, ConstantsAreSound DEF LocksAreHeld
        <5>3. edit[d].product \in Products
          <6>1. edit[d] \in Command \cup Creation
            BY <5>1 DEF EditsInv, Busy
          <6> QED BY <6>1, Kinds
        <5> QED BY <1>1, <2>1, <2>5, <5>2, <5>3
      <4> QED BY <4>1, <4>2
    <3>3. ASSUME NEW s \in SKUs, skuLock'[s] # None
          PROVE  pc'[skuLock'[s]] = "insert variants" /\ variants'[s] = None
      <4>1. skuLock[s] \in Calls \ {c}
        <5>1. skuLock[s] \in Calls \cup {None}
          BY <1>2 DEF CatalogType
        <5>2. skuLock[s] # c
          BY <1>1, HoldsNothing
        <5> QED BY <1>2, <3>3, <5>1, <5>2
      <4>2. pc[skuLock[s]] = "insert variants" /\ variants[s] = None
        BY <1>2, <3>3 DEF LocksAreHeld
      <4> QED BY <1>2, <2>5, <4>1, <4>2 DEF OthersAlone
    <3> QED BY <3>1, <3>2, <3>3 DEF LocksAreHeld
  <2>9. \A d \in Calls \ {c} : \A s \in SKUs : skuLock[s] = d => skuLock'[s] = d
    BY <1>2
  <2> QED BY <1>1, <2>5, <2>6, <2>7, <2>8, <2>9, CallGoesOn
<1> QED BY <1>4, <1>5

\* A statement that fails undoes what its transaction did.
LEMMA StatementFailsKeeps ==
  ASSUME EditsInv, NEW c \in Calls, StatementFails(c)
  PROVE  EditsInv'
<1>1. RollBack(c) /\ Ends(c, "internal") /\ UNCHANGED <<tables, clock>> /\ "internal" \in Ending
  BY DEF StatementFails, Ending
<1> QED BY <1>1, CallEnds

\* What a commit makes of the tables: its product becomes what the call wrote, under
\* the next version if it was there, with its time, nothing to sell lost and not back
\* from sale to a draft; the other products are as they were.
Advances(c, p) ==
  /\ p \in Products
  /\ rows' \in [Products -> Row \cup {None}] /\ variants' \in [SKUs -> Variant \cup {None}]
  /\ \A q \in Products \ {p} : rows'[q] = rows[q] /\ Of(q)' = Of(q)
  /\ rows'[p] = work[c].row /\ Of(p)' = work[c].variants
  /\ IsProduct(work[c].row, work[c].variants, p)
  /\ rows[p] # None =>
       /\ edit[c] \in Command
       /\ rows'[p].created = rows[p].created /\ rows'[p].version = rows[p].version + 1
       /\ DOMAIN Of(p) \subseteq DOMAIN work[c].variants
       /\ rows[p].status \in {"active", "archived"} => rows'[p].status \in {"active", "archived"}
  /\ \A s \in DOMAIN work[c].variants : s \in SKUs /\ (s \in DOMAIN Of(p) \/ skuLock[s] = c)

\* What a call that commits wrote is a product, the next of the one that is stored.
LEMMA WorkIsProduct ==
  ASSUME EditsInv, NEW c \in Calls, pc[c] = "insert variants"
  PROVE  LET p == edit[c].product IN
         /\ p \in Products
         /\ IsProduct(work[c].row, work[c].variants, p)
         /\ DOMAIN Of(p) \subseteq DOMAIN work[c].variants
         /\ rows[p] # None =>
              /\ edit[c] \in Command
              /\ work[c].row.created = rows[p].created /\ work[c].row.version = rows[p].version + 1
              /\ rows[p].status \in {"active", "archived"} => work[c].row.status \in {"active", "archived"}
<1> DEFINE p == edit[c].product
<1>1. /\ edit[c] \in Command \cup Creation /\ Writes(c) /\ TablesAreSound
  BY DEF EditsInv, Busy
<1>2. p \in Products
  BY <1>1, Kinds
<1>3. CASE edit[c] \in Creation
  <2>1. edit[c] \notin Command
    BY <1>3, Kinds
  <2>2. rows[p] = None /\ IsProduct(work[c].row, work[c].variants, p)
    BY <1>1, <1>3 DEF Writes
  <2>3. DOMAIN Of(p) = {}
    <3>1. DOMAIN Of(p) = {s \in SKUs : variants[s] # None /\ variants[s].product = p}
      BY VariantsOf
    <3>2. ASSUME NEW s \in SKUs, variants[s] # None PROVE variants[s].product # p
      BY <1>1, <2>2, <3>2 DEF TablesAreSound
    <3> QED BY <3>1, <3>2
  <2> QED BY <1>2, <2>2, <2>3
<1>4. CASE edit[c] \in Command
  <2> DEFINE new == Changed(edit[c], Stored(p))
  <2>1. /\ rows[p] # None /\ Refusal(edit[c], Stored(p)) = "ok" /\ work[c] = Written(Stored(p), new)
    BY <1>1, <1>4 DEF Writes
  <2>2. Stored(p) = [row |-> rows[p], variants |-> Of(p)]
    BY VariantsOf
  <2>3. IsProduct(rows[p], Of(p), p)
    BY <1>1, <1>2, <2>1 DEF TablesAreSound
  <2>4. Follows(new, rows[p], Of(p), p)
    <3>1. Refusal(edit[c], [row |-> rows[p], variants |-> Of(p)]) = "ok"
      BY <2>1, <2>2
    <3>2. new = Changed(edit[c], [row |-> rows[p], variants |-> Of(p)])
      BY <2>2
    <3> HIDE DEF new
    <3> QED BY <1>4, <2>3, <3>1, <3>2, ChangedIsProduct
  <2> HIDE DEF new
  <2>5. new = [row |-> new.row, variants |-> new.variants] /\ IsProduct(new.row, new.variants, p)
    BY <2>4 DEF Follows
  <2>6. work[c] = Written(Stored(p), [row |-> new.row, variants |-> new.variants])
    BY <2>1, <2>5
  <2>7. IsNext(work[c], new.row, new.variants, p)
    BY <2>5, <2>6, WrittenIsProduct
  <2>8. /\ IsProduct(work[c].row, work[c].variants, p)
        /\ work[c].row.created = new.row.created /\ work[c].row.status = new.row.status
        /\ work[c].row.version = new.row.version + 1 /\ DOMAIN work[c].variants = DOMAIN new.variants
    BY <2>7 DEF IsNext
  <2>9. /\ new.row.created = rows[p].created /\ new.row.version = rows[p].version
        /\ DOMAIN Of(p) \subseteq DOMAIN new.variants
        /\ rows[p].status \in {"active", "archived"} => new.row.status \in {"active", "archived"}
    BY <2>4 DEF Follows
  <2> QED BY <1>2, <1>4, <2>8, <2>9
<1> QED BY <1>1, <1>3, <1>4

\* When every variant is written or inserted, the commit makes them one product.
LEMMA CommitAdvances ==
  ASSUME EditsInv, NEW c \in Calls, Commit(c), NEW p, p = edit[c].product
  PROVE  Advances(c, p)
<1> DEFINE new == work[c]
<1>1. /\ pc[c] = "insert variants" /\ fresh[c] = <<>> /\ CatalogType /\ TablesAreSound /\ LocksAreHeld
      /\ rows' = [rows EXCEPT ![p] = new.row]
      /\ variants' = [s \in SKUs |-> IF s \in DOMAIN new.variants THEN new.variants[s] ELSE variants[s]]
  BY DEF Commit, EditsInv
<1>2. /\ p \in Products /\ IsProduct(new.row, new.variants, p) /\ DOMAIN Of(p) \subseteq DOMAIN new.variants
      /\ rows[p] # None =>
              /\ edit[c] \in Command
              /\ new.row.created = rows[p].created /\ new.row.version = rows[p].version + 1
              /\ rows[p].status \in {"active", "archived"} => new.row.status \in {"active", "archived"}
  BY <1>1, WorkIsProduct
<1>3. \A s \in DOMAIN new.variants : s \in SKUs /\ (s \in DOMAIN Of(p) \/ skuLock[s] = c)
  <2>1. Inserts(c) /\ Len(fresh[c]) = 0
    BY <1>1, EmptySeq DEF EditsInv
  <2>2. 1 .. Len(fresh[c]) = {}
    BY <2>1
  <2>3. DOMAIN new.variants \subseteq SKUs
    BY <1>2 DEF IsProduct, AreVariants
  <2> QED BY <1>1, <2>1, <2>2, <2>3 DEF Inserts
<1> HIDE DEF new
<1>4. /\ DOMAIN new.variants \subseteq SKUs
      /\ \A s \in DOMAIN new.variants : new.variants[s] \in Variant /\ new.variants[s].product = p
      /\ new.variants = [s \in DOMAIN new.variants |-> new.variants[s]]
      /\ new.row \in Row
  BY <1>2 DEF IsProduct, AreVariants
<1>5. /\ rows' \in [Products -> Row \cup {None}] /\ rows'[p] = new.row
      /\ \A q \in Products \ {p} : rows'[q] = rows[q]
  BY <1>1, <1>2, <1>4 DEF CatalogType
<1>6. variants' \in [SKUs -> Variant \cup {None}]
  BY <1>1, <1>4 DEF CatalogType
<1>7. \A s \in SKUs : variants'[s] = IF s \in DOMAIN new.variants THEN new.variants[s] ELSE variants[s]
  BY <1>1
<1>8. None \notin Variant /\ None # c
  BY ConstantsAreSound
<1>9. Of(p)' = new.variants
  <2>1. /\ DOMAIN Of(p) = {s \in SKUs : variants[s] # None /\ variants[s].product = p}
        /\ Of(p)' = [s \in {t \in SKUs : variants'[t] # None /\ variants'[t].product = p} |-> variants'[s]]
    BY DEF Of, GetVariantsByProductIDs
  <2>2. {t \in SKUs : variants'[t] # None /\ variants'[t].product = p} = DOMAIN new.variants
    <3>1. ASSUME NEW s \in SKUs, variants'[s] # None, variants'[s].product = p PROVE s \in DOMAIN new.variants
      BY <1>2, <1>7, <2>1, <3>1
    <3>2. ASSUME NEW s \in DOMAIN new.variants
          PROVE  s \in SKUs /\ variants'[s] # None /\ variants'[s].product = p
      BY <1>4, <1>7, <1>8
    <3> QED BY <3>1, <3>2
  <2>3. \A s \in DOMAIN new.variants : variants'[s] = new.variants[s]
    BY <1>4, <1>7
  <2>4. Of(p)' = [s \in DOMAIN new.variants |-> new.variants[s]]
    BY <2>1, <2>2, <2>3
  <2> QED BY <1>4, <2>4
<1>10. ASSUME NEW q \in Products \ {p} PROVE Of(q)' = Of(q)
  <2>1. ASSUME NEW s \in DOMAIN new.variants
        PROVE  s \in SKUs /\ variants'[s].product = p /\ (variants[s] = None \/ variants[s].product = p)
    <3>1. s \in SKUs /\ variants'[s].product = p
      BY <1>4, <1>7
    <3>2. CASE s \in DOMAIN Of(p)
      <4>1. DOMAIN Of(p) = {t \in SKUs : variants[t] # None /\ variants[t].product = p}
        BY DEF Of, GetVariantsByProductIDs
      <4> QED BY <3>1, <3>2, <4>1
    <3>3. CASE skuLock[s] = c
      <4>1. LocksAreHeld /\ skuLock[s] # None
        BY <1>1, <1>8, <3>3
      <4>2. variants[s] = None
        BY <3>1, <4>1 DEF LocksAreHeld
      <4> QED BY <3>1, <4>2
    <3>4. s \in DOMAIN Of(p) \/ skuLock[s] = c
      BY <1>3
    <3> QED BY <3>1, <3>2, <3>3, <3>4
  <2>2. /\ Of(q) = [s \in {t \in SKUs : variants[t] # None /\ variants[t].product = q} |-> variants[s]]
        /\ Of(q)' = [s \in {t \in SKUs : variants'[t] # None /\ variants'[t].product = q} |-> variants'[s]]
    BY DEF Of, GetVariantsByProductIDs
  <2>3. ASSUME NEW s \in SKUs, variants[s] # variants'[s]
        PROVE  variants'[s].product # q /\ (variants[s] = None \/ variants[s].product # q)
    BY <1>7, <2>1, <2>3
  <2>4. {t \in SKUs : variants'[t] # None /\ variants'[t].product = q}
        = {t \in SKUs : variants[t] # None /\ variants[t].product = q}
    <3>1. ASSUME NEW s \in SKUs
          PROVE  (variants'[s] # None /\ variants'[s].product = q) <=> (variants[s] # None /\ variants[s].product = q)
      BY <1>7, <2>3
    <3> QED BY <3>1
  <2>5. \A s \in SKUs : variants[s] # None /\ variants[s].product = q => variants'[s] = variants[s]
    BY <2>3
  <2> QED BY <2>2, <2>4, <2>5
<1> QED BY <1>2, <1>3, <1>5, <1>6, <1>9, <1>10 DEF Advances, new

\* A commit leaves the tables sound, whoever loads with a version that is past, and
\* whoever writes, another product, undisturbed.
LEMMA CommitKeeps ==
  ASSUME EditsInv, NEW c \in Calls, Commit(c)
  PROVE  EditsInv'
<1>1. PICK p : p = edit[c].product
  OBVIOUS
<1>2. PICK o \in {"ok", "internal"} : Ends(c, o)
  BY DEF Commit
<1>3. RollBack(c) /\ clock' = clock /\ pc[c] = "insert variants" /\ o \in Ending
  BY DEF Commit, Ending
<1>4. /\ OthersAlone(c) /\ pc'[c] = "done" /\ CallInv(c)'
      /\ \A q \in Products : rowLock'[q] = IF rowLock[q] = c THEN None ELSE rowLock[q]
      /\ \A s \in SKUs : skuLock'[s] = IF skuLock[s] = c THEN None ELSE skuLock[s]
  BY <1>2, <1>3, EndsLeaves
<1>5. Advances(c, p)
  BY <1>1, CommitAdvances
<1>6. CatalogType /\ TablesAreSound /\ LocksAreHeld
  BY DEF EditsInv
<1>7. CatalogType'
  <2>1. rows' \in [Products -> Row \cup {None}] /\ variants' \in [SKUs -> Variant \cup {None}]
    BY <1>5 DEF Advances
  <2>2. clock' \in 0 .. MaxClock
    BY <1>3, <1>6 DEF CatalogType
  <2> QED BY <1>2, <1>3, <2>1, <2>2, EndsLeaves DEF CatalogType, Ending
<1>8. None \notin Calls /\ None \notin Row /\ None \notin Variant
  BY ConstantsAreSound
<1>9. ASSUME NEW s \in SKUs
      PROVE  variants'[s] = IF s \in DOMAIN work[c].variants THEN work[c].variants[s] ELSE variants[s]
  BY DEF Commit
<1>10. rowLock[p] = c
  BY <1>1, <1>3, <1>6 DEF LocksAreHeld
<1>11. LocksAreHeld'
  <2>1. ASSUME NEW s \in SKUs, skuLock[s] \in Calls \ {c} PROVE variants'[s] = None
    <3>1. skuLock[s] # None /\ skuLock[s] # c
      BY <1>8, <2>1
    <3>2. variants[s] = None
      BY <1>6, <3>1 DEF LocksAreHeld
    <3>3. s \notin DOMAIN Of(p)
      BY <3>2, VariantsOf
    <3>4. s \notin DOMAIN work[c].variants
      BY <1>5, <3>1, <3>3 DEF Advances
    <3> QED BY <1>9, <3>2, <3>4
  <2> QED BY <1>4, <2>1, LocksReleased
<1>12. p \in Products /\ rows'[p] \in Row /\ rows'[p] # None
  BY <1>5, <1>8 DEF Advances, IsProduct
<1>13. TablesAreSound'
  <2>1. ASSUME NEW s \in SKUs, variants'[s] # None PROVE rows'[variants'[s].product] # None
    <3>1. CASE s \in DOMAIN work[c].variants
      <4>1. variants'[s] = work[c].variants[s] /\ work[c].variants[s].product = p
        BY <1>5, <1>9, <3>1 DEF Advances, IsProduct, AreVariants
      <4> QED BY <1>12, <4>1
    <3>2. CASE s \notin DOMAIN work[c].variants
      <4>1. variants'[s] = variants[s] /\ variants[s] # None /\ variants[s].product \in Products
        BY <1>6, <1>9, <2>1, <3>2 DEF CatalogType, Variant
      <4>2. rows[variants[s].product] # None
        BY <1>6, <4>1 DEF TablesAreSound
      <4>3. CASE variants[s].product = p
        BY <1>12, <4>1, <4>3
      <4>4. CASE variants[s].product # p
        BY <1>5, <4>1, <4>2, <4>4 DEF Advances
      <4> QED BY <4>3, <4>4
    <3> QED BY <3>1, <3>2
  <2>2. ASSUME NEW q \in Products, rows'[q] # None PROVE IsProduct(rows'[q], Of(q)', q)
    <3>1. CASE q = p
      BY <1>5, <3>1 DEF Advances
    <3>2. CASE q # p
      <4>1. rows'[q] = rows[q] /\ Of(q)' = Of(q)
        BY <1>5, <3>2 DEF Advances
      <4> QED BY <1>6, <2>2, <4>1 DEF TablesAreSound
    <3> QED BY <3>1, <3>2
  <2> QED BY <2>1, <2>2 DEF TablesAreSound, IsProduct
<1>14. ASSUME NEW d \in Calls \ {c} PROVE CallInv(d)'
  <2>1. PICK q : q = edit[d].product
    OBVIOUS
  <2>2. /\ pc'[d] = pc[d] /\ edit'[d] = edit[d] /\ base'[d] = base[d]
        /\ work'[d] = work[d] /\ fresh'[d] = fresh[d]
    BY <1>4 DEF OthersAlone
  <2>3. Busy(d) /\ Loaded(d) /\ Decided(d) /\ Writes(d) /\ Inserts(d)
    BY DEF EditsInv
  <2>4. Busy(d)' /\ Decided(d)'
    BY <2>2, <2>3 DEF Busy, Decided
  <2>5. Loaded(d)'
    <3>1. SUFFICES ASSUME pc[d] \in {"load variants", "change", "update row"}
                   PROVE  /\ rows'[q] # None
                          /\ base[d].row \in Row
                          /\ base[d].row.version <= rows'[q].version
                          /\ base[d].row.version = rows'[q].version =>
                               base[d].row = rows'[q]
                               /\ (pc[d] # "load variants" => base[d].variants = Of(q)')
      BY <2>1, <2>2 DEF Loaded
    <3>2. q \in Products
      BY <2>1, <3>1, AboutAProduct
    <3>3. /\ rows[q] # None
          /\ base[d].row \in Row
          /\ base[d].row.version <= rows[q].version
          /\ base[d].row.version = rows[q].version =>
               base[d].row = rows[q] /\ (pc[d] # "load variants" => base[d].variants = Of(q))
      BY <2>1, <2>3, <3>1 DEF Loaded
    <3>4. CASE q = p
      <4>1. rows'[q].version = rows[q].version + 1 /\ rows[q] \in Row
        BY <1>5, <1>6, <3>2, <3>3, <3>4 DEF Advances, CatalogType
      <4>2. rows[q].version \in Nat /\ base[d].row.version \in Nat
        BY <3>3, <4>1 DEF Row
      <4>3. base[d].row.version <= rows'[q].version /\ base[d].row.version # rows'[q].version
        <5>1. \A a, b \in Nat : a <= b => a <= b + 1 /\ a # b + 1
          OBVIOUS
        <5>2. base[d].row.version <= rows[q].version
          BY <3>3
        <5> QED BY <4>1, <4>2, <5>1, <5>2
      <4> QED BY <1>12, <3>3, <3>4, <4>3
    <3>5. CASE q # p
      <4>1. rows'[q] = rows[q] /\ Of(q)' = Of(q)
        BY <1>5, <3>2, <3>5 DEF Advances
      <4> QED BY <3>3, <4>1
    <3> QED BY <3>4, <3>5
  <2>6. ASSUME pc[d] \in {"update variants", "insert variants"}
        PROVE  rows'[q] = rows[q] /\ Of(q)' = Of(q)
    <3>1. rowLock[q] = d
      BY <1>6, <2>1, <2>6 DEF LocksAreHeld
    <3>2. edit[d] \in Command \cup Creation
      BY <2>3, <2>6 DEF Busy
    <3>3. q \in Products /\ q # p
      BY <1>10, <2>1, <3>1, <3>2, Kinds
    <3> QED BY <1>5, <3>3 DEF Advances
  <2>7. Writes(d)'
    <3>1. ASSUME pc[d] \in {"update variants", "insert variants"} PROVE Stored(q)' = Stored(q)
      <4>1. Stored(q) = [row |-> rows[q], variants |-> Of(q)]
        BY DEF Stored, Of
      <4>2. Stored(q)' = [row |-> rows'[q], variants |-> Of(q)']
        BY DEF Stored, Of
      <4> QED BY <2>6, <3>1, <4>1, <4>2
    <3>2. pc[d] = "update variants" => rows'[q] # None /\ base[d] = Stored(q)'
      BY <2>1, <2>3, <2>6, <3>1 DEF Writes
    <3>3. pc[d] = "insert variants" /\ edit[d] \in Command =>
            /\ rows'[q] # None /\ Refusal(edit[d], Stored(q)') = "ok"
            /\ work[d] = Written(Stored(q)', Changed(edit[d], Stored(q)'))
      BY <2>1, <2>3, <2>6, <3>1 DEF Writes
    <3>4. pc[d] = "insert variants" /\ edit[d] \in Creation =>
            rows'[q] = None /\ IsProduct(work[d].row, work[d].variants, q)
      BY <2>1, <2>3, <2>6 DEF Writes
    <3> QED BY <2>1, <2>2, <3>2, <3>3, <3>4 DEF Writes
  <2>8. Inserts(d)'
    <3>1. SUFFICES ASSUME pc[d] = "insert variants", NEW s \in DOMAIN work[d].variants
                   PROVE  \/ s \in DOMAIN Of(q)'
                          \/ s \in SKUs /\ skuLock'[s] = d
                          \/ \E i \in 1 .. Len(fresh[d]) : fresh[d][i] = s
      BY <2>1, <2>2 DEF Inserts
    <3>2. \/ s \in DOMAIN Of(q)
          \/ s \in SKUs /\ skuLock[s] = d
          \/ \E i \in 1 .. Len(fresh[d]) : fresh[d][i] = s
      BY <2>1, <2>3, <3>1 DEF Inserts
    <3> QED BY <1>4, <2>6, <3>1, <3>2
  <2> QED BY <2>4, <2>5, <2>7, <2>8 DEF CallInv
<1> QED BY <1>4, <1>7, <1>11, <1>13, <1>14 DEF EditsInv, CallInv

\* A read, and time passing, leave the edits as they are.
LEMMA EditsRest ==
  ASSUME EditsInv, UNCHANGED <<pc, call, tables, locks, outcome>>, clock' \in 0 .. MaxClock
  PROVE  EditsInv'
<1>1. /\ pc' = pc /\ edit' = edit /\ started' = started /\ base' = base /\ work' = work /\ fresh' = fresh
      /\ rows' = rows /\ variants' = variants /\ rowLock' = rowLock /\ skuLock' = skuLock /\ outcome' = outcome
  BY DEF call, tables, locks
<1>2. CatalogType' /\ LocksAreHeld'
  <2>1. CatalogType /\ LocksAreHeld
    BY DEF EditsInv
  <2>2. CatalogType'
    BY <1>1, <2>1 DEF CatalogType
  <2>3. LocksAreHeld'
    BY <1>1, <2>1 DEF LocksAreHeld
  <2> QED BY <2>2, <2>3
<1>3. TablesAreSound'
  BY TablesKeep DEF EditsInv
<1>4. ASSUME NEW c \in Calls PROVE Busy(c)' /\ Loaded(c)' /\ Decided(c)' /\ Writes(c)' /\ Inserts(c)'
  <2>1. Busy(c) /\ Loaded(c) /\ Decided(c) /\ Writes(c) /\ Inserts(c)
    BY DEF EditsInv
  <2>2. Busy(c)' /\ Decided(c)'
    BY <1>1, <2>1 DEF Busy, Decided
  <2>3. Loaded(c)' /\ Writes(c)'
    BY <1>1, <2>1 DEF Loaded, Writes, Stored, Of
  <2>4. Inserts(c)'
    <3>1. Of(edit[c].product)' = Of(edit[c].product)
      BY <1>1 DEF Of
    <3> QED BY <1>1, <2>1, <3>1 DEF Inserts
  <2> QED BY <2>2, <2>3, <2>4
<1> QED BY <1>2, <1>3, <1>4 DEF EditsInv

\* Every step of the catalog keeps what is claimed of the edits.
LEMMA EditsStep ==
  ASSUME EditsInv, [Next]_vars
  PROVE  EditsInv'
<1>1. clock \in 0 .. MaxClock /\ MaxClock \in Nat
  BY ConstantsAreSound DEF EditsInv, CatalogType
<1>2. CASE UNCHANGED vars
  BY <1>1, <1>2, EditsRest DEF vars
<1>3. CASE \E c \in Calls :
             \/ Begin(c) \/ CreateProduct(c) \/ FindNothing(c) \/ FindRow(c) \/ FindVariants(c)
             \/ Change(c) \/ UpdateProduct(c) \/ UpdateVariants(c) \/ InsertVariant(c) \/ Commit(c)
             \/ StatementFails(c)
  <2>1. PICK c \in Calls :
             \/ Begin(c) \/ CreateProduct(c) \/ FindNothing(c) \/ FindRow(c) \/ FindVariants(c)
             \/ Change(c) \/ UpdateProduct(c) \/ UpdateVariants(c) \/ InsertVariant(c) \/ Commit(c)
             \/ StatementFails(c)
    BY <1>3
  <2> QED BY <2>1, BeginKeeps, CreateProductKeeps, FindNothingKeeps, FindRowKeeps, FindVariantsKeeps,
             ChangeKeeps, UpdateProductKeeps, UpdateVariantsKeeps, InsertVariantKeeps, CommitKeeps,
             StatementFailsKeeps
<1>4. CASE ListProducts \/ ListRefused \/ List \/ Answer \/ GetProducts
  <2>1. UNCHANGED <<pc, call, tables, locks, outcome>> /\ clock' = clock
    BY <1>4 DEF ListProducts, ListRefused, List, Answer, GetProducts
  <2> QED BY <1>1, <2>1, EditsRest
<1>5. CASE Tick
  <2>1. UNCHANGED <<pc, call, tables, locks, outcome>> /\ clock < MaxClock /\ clock' = clock + 1
    BY <1>5 DEF Tick
  <2> QED BY <1>1, <2>1, EditsRest
<1> QED BY <1>2, <1>3, <1>4, <1>5 DEF Next

\* Edits run as they should in every run of the catalog.
LEMMA EditsInvariant == Spec => []EditsInv
<1>1. Init => EditsInv
  BY InitEdits
<1>2. EditsInv /\ [Next]_vars => EditsInv'
  BY EditsStep
<1> QED BY <1>1, <1>2, PTL DEF Spec

\* No edit is lost and none is half made: a stored product changes by one whole edit,
\* accepted by the domain, of what was stored until then.
THEOREM EditsSerial == Spec => EditsAreSerial
<1>1. ASSUME EditsInv, [Next]_vars, NEW p \in Products, rows[p] # None, Stored(p)' # Stored(p)
      PROVE  \E c \in Calls :
               /\ pc[c] = "insert variants" /\ edit[c].kind # "create" /\ edit[c].product = p
               /\ Refusal(edit[c], Stored(p)) = "ok"
               /\ Stored(p)' = Written(Stored(p), Changed(edit[c], Stored(p)))
  <2>1. ~ UNCHANGED tables
    BY <1>1 DEF tables, Stored
  <2>2. PICK c \in Calls : Commit(c)
    BY <1>1, <2>1 DEF Next, vars, tables, browse, Begin, CreateProduct, FindNothing, FindRow, FindVariants, Change,
       UpdateProduct, UpdateVariants, InsertVariant, StatementFails, ListProducts, ListRefused, List, Answer,
       GetProducts, Tick
  <2>3. PICK q : q = edit[c].product
    OBVIOUS
  <2>4. pc[c] = "insert variants" /\ Advances(c, q)
    BY <1>1, <2>2, <2>3, CommitAdvances DEF Commit
  <2>5. Stored(p) = [row |-> rows[p], variants |-> Of(p)] /\ Stored(p)' = [row |-> rows'[p], variants |-> Of(p)']
    BY DEF Stored, Of
  <2>6. p = q
    BY <1>1, <2>4, <2>5 DEF Advances
  <2>7. edit[c] \in Command /\ edit[c].kind # "create"
    BY <1>1, <2>4, <2>6, Kinds DEF Advances
  <2>8. Refusal(edit[c], Stored(p)) = "ok" /\ work[c] = Written(Stored(p), Changed(edit[c], Stored(p)))
    BY <1>1, <2>3, <2>4, <2>6, <2>7 DEF EditsInv, Writes
  <2>9. work[c] = [row |-> work[c].row, variants |-> work[c].variants]
    BY <2>8 DEF Written
  <2>10. Stored(p)' = work[c]
    BY <2>4, <2>5, <2>6, <2>9 DEF Advances
  <2> QED BY <2>3, <2>4, <2>6, <2>7, <2>8, <2>10
<1>2. EditsInv /\ [Next]_vars =>
        [\A p \in Products :
           rows[p] # None /\ Stored(p)' # Stored(p)
             => \E c \in Calls :
                  /\ pc[c] = "insert variants" /\ edit[c].kind # "create" /\ edit[c].product = p
                  /\ Refusal(edit[c], Stored(p)) = "ok"
                  /\ Stored(p)' = Written(Stored(p), Changed(edit[c], Stored(p)))]_vars
  BY <1>1
<1> QED BY <1>2, EditsInvariant, PTL DEF Spec, EditsAreSerial
-----------------------------------------------------------------------------
(* The order of a listing.                                                 *)

\* Products by time of creation and identifier are in a total order.
LEMMA NewerIsAnOrder ==
  ASSUME CatalogType, NEW p \in Products, NEW q \in Products, NEW r \in Products,
         rows[p] # None, rows[q] # None, rows[r] # None
  PROVE  /\ ~Newer(p, p)
         /\ Newer(p, q) => ~Newer(q, p)
         /\ Newer(p, q) /\ Newer(q, r) => Newer(p, r)
         /\ p # q => Newer(p, q) \/ Newer(q, p)
<1>1. p \in Nat /\ q \in Nat /\ r \in Nat /\ MaxClock \in Nat
  BY ConstantsAreSound
<1>2. rows[p] \in Row /\ rows[q] \in Row /\ rows[r] \in Row
  BY DEF CatalogType
<1>3. rows[p].created \in Nat /\ rows[q].created \in Nat /\ rows[r].created \in Nat
  BY <1>1, <1>2 DEF Row
<1> QED BY <1>1, <1>3 DEF Newer

\* Products in a row, newest first.
IsNewestFirst(found, products) ==
  /\ found \in [1 .. Cardinality(products) -> products]
  /\ \A j, k \in DOMAIN found : j < k => Newer(found[j], found[k])

\* Newer products than one of some.
Above(products, p) == {q \in products : Newer(q, p)}

\* Stored products can be sorted: how many are newer than one says where it comes.
LEMMA CanBeSorted ==
  ASSUME CatalogType, NEW P \in SUBSET Products, \A p \in P : rows[p] # None
  PROVE  \E found : IsNewestFirst(found, P)
<1> DEFINE n == Cardinality(P)
<1>1. IsFiniteSet(P) /\ n \in Nat
  <2>1. IsFiniteSet(P)
    BY ConstantsAreSound, FS_Subset
  <2> QED BY <2>1, FS_CardinalityType
<1>2. ASSUME NEW p \in P
      PROVE  IsFiniteSet(Above(P, p)) /\ Cardinality(Above(P, p)) \in 0 .. n - 1
  <2>1. p \in Products /\ p \notin Above(P, p) /\ Above(P, p) \subseteq P
    BY NewerIsAnOrder DEF Above
  <2>2. IsFiniteSet(Above(P, p)) /\ Cardinality(Above(P, p)) <= n /\ Cardinality(Above(P, p)) # n
    BY <1>1, <2>1, FS_Subset
  <2>3. Cardinality(Above(P, p)) \in Nat
    BY <2>2, FS_CardinalityType
  <2> QED BY <1>1, <2>2, <2>3
<1>3. ASSUME NEW p \in P, NEW q \in P, Newer(q, p)
      PROVE  Cardinality(Above(P, q)) < Cardinality(Above(P, p))
  <2>1. Above(P, q) \subseteq Above(P, p)
    <3>1. ASSUME NEW r \in P, Newer(r, q) PROVE Newer(r, p)
      <4>1. p \in Products /\ q \in Products /\ r \in Products /\ rows[p] # None /\ rows[q] # None /\ rows[r] # None
        OBVIOUS
      <4> QED BY <1>3, <3>1, <4>1, NewerIsAnOrder
    <3> QED BY <3>1 DEF Above
  <2>2. q \in Above(P, p) /\ q \notin Above(P, q)
    BY <1>3, NewerIsAnOrder DEF Above
  <2>3. Cardinality(Above(P, q)) <= Cardinality(Above(P, p)) /\ Cardinality(Above(P, q)) # Cardinality(Above(P, p))
    BY <1>2, <2>1, <2>2, FS_Subset
  <2> QED BY <1>1, <1>2, <2>3
<1> DEFINE place == [p \in P |-> Cardinality(Above(P, p)) + 1]
<1>4. place \in [P -> 1 .. n] /\ \A p \in P : place[p] = Cardinality(Above(P, p)) + 1
  BY <1>1, <1>2
<1> HIDE DEF place
<1>5. \A p, q \in P : Newer(q, p) => place[q] < place[p]
  <2> SUFFICES ASSUME NEW p \in P, NEW q \in P, Newer(q, p) PROVE place[q] < place[p]
    OBVIOUS
  <2>1. Cardinality(Above(P, q)) < Cardinality(Above(P, p))
    BY <1>3
  <2>2. Cardinality(Above(P, q)) \in 0 .. n - 1 /\ Cardinality(Above(P, p)) \in 0 .. n - 1
    BY <1>2
  <2> QED BY <1>1, <1>4, <2>1, <2>2
<1>6. place \in Surjection(P, 1 .. n)
  <2>1. \A p, q \in P : place[p] = place[q] => p = q
    <3> SUFFICES ASSUME NEW p \in P, NEW q \in P, place[p] = place[q], p # q PROVE FALSE
      OBVIOUS
    <3>1. Newer(p, q) \/ Newer(q, p)
      BY NewerIsAnOrder
    <3>2. place[p] \in Nat /\ place[q] \in Nat
      BY <1>1, <1>4
    <3> QED BY <1>5, <3>1, <3>2
  <2>2. place \in Injection(P, 1 .. n)
    BY <1>4, <2>1 DEF Injection, IsInjective
  <2>3. IsFiniteSet(1 .. n) /\ Cardinality(1 .. n) = n
    BY <1>1, FS_Interval
  <2> QED BY <1>1, <2>2, <2>3, FS_Injection
<1> DEFINE found == [k \in 1 .. n |-> CHOOSE p \in P : place[p] = k]
<1>7. \A k \in 1 .. n : found[k] \in P /\ place[found[k]] = k
  BY <1>6 DEF Surjection
<1>8. found \in [1 .. n -> P] /\ DOMAIN found = 1 .. n
  BY <1>7
<1> HIDE DEF found
<1>9. ASSUME NEW j \in 1 .. n, NEW k \in 1 .. n, j < k PROVE Newer(found[j], found[k])
  <2>1. found[j] \in P /\ found[k] \in P /\ place[found[j]] = j /\ place[found[k]] = k /\ j # k /\ ~(k < j)
    BY <1>1, <1>7, <1>9
  <2>2. ~Newer(found[k], found[j])
    BY <1>5, <2>1
  <2>3. found[j] # found[k] /\ found[j] \in Products /\ found[k] \in Products
        /\ rows[found[j]] # None /\ rows[found[k]] # None
    BY <2>1
  <2> QED BY <2>2, <2>3, NewerIsAnOrder
<1>10. IsNewestFirst(found, P)
  BY <1>8, <1>9 DEF IsNewestFirst, n
<1> QED BY <1>10

\* ORDER BY leaves nothing out.
LEMMA SortedHasAll ==
  ASSUME CatalogType, NEW P \in SUBSET Products, \A p \in P : rows[p] # None
  PROVE  /\ Cardinality(P) \in Nat /\ IsNewestFirst(Sorted(P), P)
         /\ \A p \in P : \E k \in 1 .. Cardinality(P) : Sorted(P)[k] = p
<1> DEFINE n == Cardinality(P)  found == Sorted(P)
<1>1. IsFiniteSet(P) /\ n \in Nat
  <2>1. IsFiniteSet(P)
    BY ConstantsAreSound, FS_Subset
  <2> QED BY <2>1, FS_CardinalityType
<1>2. IsNewestFirst(found, P)
  <2>1. \E f \in [1 .. n -> P] : \A j, k \in DOMAIN f : j < k => Newer(f[j], f[k])
    BY CanBeSorted DEF IsNewestFirst
  <2> QED BY <2>1 DEF Sorted, IsNewestFirst
<1> HIDE DEF found, n
<1>3. found \in [1 .. n -> P] /\ DOMAIN found = 1 .. n
  BY <1>2 DEF IsNewestFirst, n
<1>4. \A j, k \in 1 .. n : found[j] = found[k] => j = k
  <2> SUFFICES ASSUME NEW j \in 1 .. n, NEW k \in 1 .. n, found[j] = found[k], j # k PROVE FALSE
    OBVIOUS
  <2>1. j < k \/ k < j
    BY <1>1
  <2>2. Newer(found[j], found[k]) \/ Newer(found[k], found[j])
    BY <1>2, <1>3, <2>1 DEF IsNewestFirst
  <2>3. found[j] \in Products /\ rows[found[j]] # None
    BY <1>3
  <2> QED BY <2>2, <2>3, NewerIsAnOrder
<1>5. found \in Surjection(1 .. n, P)
  <2>1. found \in Injection(1 .. n, P)
    BY <1>3, <1>4 DEF Injection, IsInjective
  <2>2. IsFiniteSet(1 .. n) /\ Cardinality(1 .. n) = n
    BY <1>1, FS_Interval
  <2> QED BY <1>1, <2>1, <2>2, FS_Injection DEF n
<1> QED BY <1>1, <1>2, <1>5 DEF Surjection, n, found
-----------------------------------------------------------------------------
(* The browse.                                                             *)

\* What no step undoes: a stored product keeps its time and its variants, and is not
\* put back from sale to a draft.
TablesAdvance ==
  \A p \in Products : rows[p] # None =>
    /\ rows'[p] # None /\ rows'[p].created = rows[p].created
    /\ DOMAIN Of(p) \subseteq DOMAIN Of(p)'
    /\ rows[p].status \in {"active", "archived"} => rows'[p].status \in {"active", "archived"}

\* A browse has not begun.
LEMMA InitBrowse == Init => BrowseInv
<1> SUFFICES ASSUME Init PROVE BrowseInv
  OBVIOUS
<1>1. <<>> \in Seq(ReadRow)
  BY EmptySeq
<1>2. WalkType
  BY <1>1 DEF Init, WalkType
<1>3. PageInHand /\ WalkIsOnCourse
  BY DEF Init, PageInHand, WalkIsOnCourse
<1> QED BY <1>2, <1>3 DEF BrowseInv

\* The page in hand, row by row.
LEMMA PageRows ==
  ASSUME WalkType
  PROVE  /\ walk.page \in Seq(ReadRow) /\ Len(walk.page) \in Nat /\ DOMAIN walk.page = 1 .. Len(walk.page)
         /\ walk.size \in Nat /\ walk.token \in Position \cup {None}
         /\ \A i \in 1 .. Len(walk.page) :
              /\ walk.page[i] \in ReadRow /\ walk.page[i].id \in Products
              /\ walk.page[i].row \in Row
<1>1. walk.page \in Seq(ReadRow) /\ walk.size \in Nat /\ walk.token \in Position \cup {None}
  BY DEF WalkType
<1>2. \A i \in 1 .. Len(walk.page) : walk.page[i] \in ReadRow
  BY <1>1, ElementOfSeq
<1>3. \A x \in ReadRow : x.id \in Products /\ x.row \in Row
  BY DEF ReadRow
<1> QED BY <1>1, <1>2, <1>3, LenProperties

\* Edits that commit between two statements of a browse leave it on course: times of
\* creation do not change, so what was before the token still is.
LEMMA ReaderUndisturbed ==
  ASSUME BrowseInv, walk' = walk, shown' = shown, TablesAdvance,
         steady' \subseteq steady, \A p \in steady' : Matches(rows'[p], walk.filter)
  PROVE  BrowseInv'
<1>1. WalkType /\ PageInHand /\ WalkIsOnCourse
  BY DEF BrowseInv
<1>2. WalkType'
  BY <1>1 DEF WalkType
<1>3. \A p \in Products : \A after : rows[p] # None => (Before(p, after)' <=> Before(p, after))
  BY DEF TablesAdvance, Before
<1>4. \A p, q \in Products : rows[p] # None /\ rows[q] # None => (Newer(p, q)' <=> Newer(p, q))
  BY DEF TablesAdvance, Newer
<1>5. \A i \in 1 .. Len(walk.page) : walk.page[i].id \in Products /\ walk.page[i].row \in Row
  BY <1>1, PageRows
<1>6. ASSUME walk.at = "variants", NEW i \in 1 .. Len(walk.page)
      PROVE  rows[walk.page[i].id] # None /\ StillThere(walk.page[i])'
  <2>1. StillThere(walk.page[i])
    BY <1>1, <1>6 DEF PageInHand
  <2> DEFINE x == walk.page[i]
  <2>2. x.id \in Products /\ rows[x.id] # None /\ rows[x.id].created = x.row.created
        /\ (x.row.status = "active" => rows[x.id].status \in {"active", "archived"} /\ DOMAIN Of(x.id) # {})
    BY <1>5, <2>1 DEF StillThere
  <2> HIDE DEF x
  <2>3. \A p \in Products : rows[p] # None =>
          /\ rows'[p] # None /\ rows'[p].created = rows[p].created
          /\ (DOMAIN Of(p) # {} => DOMAIN Of(p)' # {})
          /\ rows[p].status \in {"active", "archived"} => rows'[p].status \in {"active", "archived"}
    BY DEF TablesAdvance
  <2>4. PICK p \in Products : p = x.id
    BY <2>2
  <2>5. /\ rows'[p] # None /\ rows'[p].created = x.row.created
        /\ x.row.status = "active" => rows'[p].status \in {"active", "archived"} /\ DOMAIN Of(p)' # {}
    BY <2>2, <2>3, <2>4
  <2>6. x' = x
    BY DEF x
  <2> QED BY <2>2, <2>4, <2>5, <2>6 DEF StillThere, x, Of
<1>7. PageInHand'
  <2> SUFFICES ASSUME walk.at = "variants"
               PROVE  /\ \A i \in 1 .. Len(walk.page) : StillThere(walk.page[i])'
                      /\ walk.size > 0 =>
                           /\ Len(walk.page) <= walk.size + 1
                           /\ \A i \in 1 .. Len(walk.page) : Before(walk.page[i].id, walk.token)'
                           /\ \A i, j \in 1 .. Len(walk.page) : i < j => Newer(walk.page[i].id, walk.page[j].id)'
    BY DEF PageInHand
  <2>1. \A i \in 1 .. Len(walk.page) : rows[walk.page[i].id] # None /\ StillThere(walk.page[i])'
    BY <1>6
  <2> QED BY <1>1, <1>3, <1>4, <1>5, <2>1 DEF PageInHand
<1>8. \A p \in steady : p \in Products /\ rows[p] # None
  BY <1>1 DEF WalkType, WalkIsOnCourse, Matches
<1>9. ASSUME walk.at = "variants", NEW p \in steady' PROVE OnPageOrBelow(p)'
  <2>1. OnPageOrBelow(p) /\ p \in Products /\ rows[p] # None
    BY <1>1, <1>8, <1>9 DEF WalkIsOnCourse
  <2>2. CASE ~Before(p, walk.token)
    BY <1>3, <2>1, <2>2 DEF OnPageOrBelow
  <2>3. CASE \E i \in 1 .. Len(walk.page) : walk.page[i].id = p
    BY <2>3 DEF OnPageOrBelow
  <2>4. CASE Len(walk.page) = walk.size + 1 /\ Newer(walk.page[walk.size + 1].id, p)
    <3>1. walk.size + 1 \in 1 .. Len(walk.page)
      BY <1>1, <2>4, PageRows
    <3>2. rows[walk.page[walk.size + 1].id] # None /\ walk.page[walk.size + 1].id \in Products
      BY <1>5, <1>6, <1>9, <3>1
    <3>3. Newer(walk.page[walk.size + 1].id, p)'
      BY <1>4, <2>1, <2>4, <3>2
    <3> QED BY <2>4, <3>3 DEF OnPageOrBelow
  <2> QED BY <2>1, <2>2, <2>3, <2>4 DEF OnPageOrBelow
<1>10. WalkIsOnCourse'
  <2>1. walk.at \in {"idle", "list", "variants"} =>
          /\ \A p \in Products : shown[p] = 1 => rows'[p] # None /\ ~Before(p, walk.token)'
          /\ \A p \in steady' : shown[p] = 1 <=> ~Before(p, walk.token)'
    <3>1. ASSUME walk.at \in {"idle", "list", "variants"}, NEW p \in Products, shown[p] = 1
          PROVE  rows'[p] # None /\ ~Before(p, walk.token)'
      <4>1. rows[p] # None /\ ~Before(p, walk.token)
        BY <1>1, <3>1 DEF WalkIsOnCourse
      <4> QED BY <1>3, <4>1 DEF TablesAdvance
    <3>2. ASSUME walk.at \in {"idle", "list", "variants"}, NEW p \in steady'
          PROVE  shown[p] = 1 <=> ~Before(p, walk.token)'
      <4>1. shown[p] = 1 <=> ~Before(p, walk.token)
        BY <1>1, <3>2 DEF WalkIsOnCourse
      <4> QED BY <1>3, <1>8, <4>1
    <3> QED BY <3>1, <3>2
  <2>2. walk.size = 0 => walk.token = None /\ steady' = {}
    BY <1>1 DEF WalkIsOnCourse
  <2> QED BY <1>1, <1>9, <2>1, <2>2 DEF WalkIsOnCourse
<1> QED BY <1>2, <1>7, <1>10 DEF BrowseInv

\* A commit is one that the reader does not mind.
LEMMA CommitUndisturbs ==
  ASSUME EditsInv, BrowseInv, NEW c \in Calls, Commit(c)
  PROVE  BrowseInv'
<1>1. PICK p : p = edit[c].product
  OBVIOUS
<1>2. Advances(c, p) /\ CatalogType
  BY <1>1, CommitAdvances DEF EditsInv
<1>3. /\ walk' = walk /\ shown' = shown /\ steady' = {q \in steady : Matches(rows'[q], walk.filter)}
  BY DEF Commit
<1>4. None \notin Row
  BY ConstantsAreSound
<1>5. TablesAdvance
  <2>1. SUFFICES ASSUME NEW q \in Products, rows[q] # None
                 PROVE  /\ rows'[q] # None /\ rows'[q].created = rows[q].created
                        /\ DOMAIN Of(q) \subseteq DOMAIN Of(q)'
                        /\ rows[q].status \in {"active", "archived"} => rows'[q].status \in {"active", "archived"}
    BY DEF TablesAdvance
  <2>2. CASE q = p
    BY <1>2, <1>4, <2>1, <2>2 DEF Advances, IsProduct
  <2>3. CASE q # p
    BY <1>2, <2>1, <2>3 DEF Advances
  <2> QED BY <2>2, <2>3
<1> QED BY <1>3, <1>5, ReaderUndisturbed

\* Nothing of the tables changes.
LEMMA TablesStay ==
  ASSUME BrowseInv, UNCHANGED <<tables, browse>>
  PROVE  BrowseInv'
<1>1. rows' = rows /\ variants' = variants /\ walk' = walk /\ shown' = shown /\ steady' = steady
  BY DEF tables, browse
<1>2. TablesAdvance
  BY <1>1 DEF TablesAdvance, Of
<1>3. \A p \in steady' : Matches(rows'[p], walk.filter)
  BY <1>1 DEF BrowseInv, WalkIsOnCourse, Matches
<1> QED BY <1>1, <1>2, <1>3, ReaderUndisturbed

\* A page size the service accepts is one at least.
LEMMA PagesHoldSome ==
  ASSUME NEW requested \in AskedSizes
  PROVE  pageSize(requested) \in Nat \ {0}
<1>1. requested \in Nat /\ DefaultPageSize \in Nat \ {0} /\ MaxPageSize \in Nat \ {0}
  BY ConstantsAreSound
<1> QED BY <1>1 DEF pageSize

\* A browse begins: nothing has been shown.
LEMMA ListProductsKeeps ==
  ASSUME BrowseInv, ListProducts
  PROVE  BrowseInv'
<1>1. PICK status \in AskedStatuses, category \in Categories \cup {None}, size \in AskedSizes :
        /\ walk' = [walk EXCEPT !.at = "list", !.filter = Filter(status, category), !.size = pageSize(size)]
        /\ steady' = {p \in Products : Matches(rows[p], Filter(status, category))}
  BY DEF ListProducts
<1> DEFINE filter == Filter(status, category)
<1>f. filter \in Filters
  <2>1. status \in Statuses \cup {None}
    BY ConstantsAreSound
  <2> QED BY <2>1 DEF Filter, Filters, Statuses
<1> HIDE DEF filter
<1>2. walk.at = "idle" /\ rows' = rows /\ shown' = shown /\ WalkType /\ WalkIsOnCourse
  BY DEF ListProducts, tables, BrowseInv
<1>3. walk.token = None /\ \A p \in Products : shown[p] # 1
  <2>1. walk.token = None
    BY <1>2 DEF WalkIsOnCourse
  <2>2. \A p \in Products : Before(p, None)
    BY DEF Before
  <2> QED BY <1>2, <2>1, <2>2 DEF WalkIsOnCourse
<1>4. walk' = [at |-> "list", filter |-> filter, size |-> pageSize(size), token |-> None, page |-> walk.page]
  BY <1>1, <1>2, <1>3 DEF WalkType, filter
<1>5. pageSize(size) \in Nat \ {0}
  BY PagesHoldSome
<1>6. WalkType'
  <2>1. walk'.page \in Seq(ReadRow) /\ walk.page = walk'.page
    BY <1>2, <1>4, PageRows
  <2> DEFINE S == Seq(ReadRow)
  <2>2. walk'.page \in S
    BY <2>1
  <2> HIDE DEF S
  <2>3. walk' \in [at : {"idle", "list", "variants", "done", "refused"}, filter : Filters \cup {None},
               size : Nat, token : Position \cup {None}, page : S]
    BY <1>4, <1>5, <1>f, <2>1, <2>2
  <2> QED BY <1>1, <1>2, <2>3 DEF WalkType, S
<1>7. PageInHand'
  BY <1>4 DEF PageInHand
<1>8. WalkIsOnCourse'
  <2>1. \A p \in steady' : Matches(rows'[p], walk'.filter) /\ p \in Products
    BY <1>1, <1>2, <1>4 DEF filter
  <2>2. \A p \in Products : Before(p, walk.token)' /\ shown'[p] # 1
    BY <1>2, <1>3, <1>4 DEF Before
  <2> QED BY <1>4, <1>5, <2>1, <2>2 DEF WalkIsOnCourse
<1> QED BY <1>6, <1>7, <1>8 DEF BrowseInv

\* A token that names no position ends the browse.
LEMMA ListRefusedKeeps ==
  ASSUME BrowseInv, ListRefused
  PROVE  BrowseInv'
<1>1. /\ walk' = [walk EXCEPT !.at = "refused"] /\ shown' = shown /\ steady' = steady /\ rows' = rows
      /\ WalkType /\ WalkIsOnCourse
  BY DEF ListRefused, tables, BrowseInv
<1>2. walk' = [at |-> "refused", filter |-> walk.filter, size |-> walk.size, token |-> walk.token,
               page |-> walk.page]
  BY <1>1 DEF WalkType
<1>3. WalkType'
  <2> DEFINE S == Seq(ReadRow)
  <2>1. walk' \in [at : {"idle", "list", "variants", "done", "refused"}, filter : Filters \cup {None},
               size : Nat, token : Position \cup {None}, page : S]
    BY <1>1, <1>2 DEF WalkType
  <2> QED BY <1>1, <2>1 DEF WalkType
<1>4. PageInHand'
  BY <1>2 DEF PageInHand
<1>5. WalkIsOnCourse'
  BY <1>1, <1>2 DEF WalkIsOnCourse, Matches
<1> QED BY <1>3, <1>4, <1>5 DEF BrowseInv

\* A row as it is read.
LEMMA RowRead ==
  ASSUME EditsInv, NEW p \in Products, rows[p] # None
  PROVE  AsRead(p) \in ReadRow /\ AsRead(p).id = p /\ StillThere(AsRead(p))
<1>1. rows[p] \in Row /\ IsProduct(rows[p], Of(p), p)
  BY DEF EditsInv, CatalogType, TablesAreSound
<1>2. AsRead(p) = [id |-> p, row |-> rows[p]]
  BY DEF AsRead
<1> HIDE DEF AsRead
<1>3. AsRead(p) \in ReadRow /\ AsRead(p).id = p /\ AsRead(p).row = rows[p]
  BY <1>1, <1>2 DEF ReadRow
<1> QED BY <1>1, <1>3 DEF IsProduct, StillThere

\* A read of named products is outside of any browse.
LEMMA GetProductsKeeps ==
  ASSUME EditsInv, BrowseInv, GetProducts
  PROVE  BrowseInv'
<1>1. PICK ids \in {{p} : p \in Products} \cup {Products} :
        walk' = [walk EXCEPT !.at = "variants", !.size = 0, !.page = FindByIDs(ids)]
  BY DEF GetProducts
<1>2. /\ walk.at = "idle" /\ shown' = shown /\ steady' = steady /\ rows' = rows /\ variants' = variants
      /\ WalkType /\ WalkIsOnCourse
  BY DEF GetProducts, tables, BrowseInv
<1> DEFINE there == {p \in ids : rows[p] # None}  found == SetToSeq(there)  page == FindByIDs(ids)
<1>3. there \subseteq Products /\ IsFiniteSet(there)
  <2>1. there \subseteq Products
    BY <1>1
  <2> QED BY <2>1, ConstantsAreSound, FS_Subset
<1>4. found \in Seq(there) /\ page = [i \in DOMAIN found |-> AsRead(found[i])]
  BY <1>3, InARow DEF FindByIDs
<1>5. \A p \in there : p \in Products /\ rows[p] # None
  BY <1>3
<1> HIDE DEF there, found, page
<1>6. page \in Seq(ReadRow) /\ \A i \in 1 .. Len(page) : StillThere(page[i])
  <2>1. Len(found) \in Nat /\ DOMAIN found = 1 .. Len(found) /\ \A i \in 1 .. Len(found) : found[i] \in there
    BY <1>4, LenProperties, ElementOfSeq
  <2>2. \A i \in 1 .. Len(found) : page[i] \in ReadRow /\ StillThere(page[i])
    BY <1>4, <1>5, <2>1, RowRead
  <2>3. page \in [1 .. Len(found) -> ReadRow]
    BY <1>4, <2>1, <2>2
  <2>4. page \in Seq(ReadRow)
    BY <2>1, <2>3, SeqDef
  <2>5. Len(page) \in Nat /\ DOMAIN page = 1 .. Len(page)
    BY <2>4, LenProperties
  <2>6. 1 .. Len(page) = 1 .. Len(found)
    BY <2>3, <2>5
  <2> QED BY <2>2, <2>4, <2>6
<1>7. walk.token = None /\ steady = {}
  BY <1>2 DEF WalkIsOnCourse
<1>8. walk' = [at |-> "variants", filter |-> walk.filter, size |-> 0, token |-> None, page |-> page]
  BY <1>1, <1>2, <1>7 DEF WalkType, page
<1>9. WalkType'
  <2> DEFINE S == Seq(ReadRow)
  <2>1. page \in S
    BY <1>6
  <2> HIDE DEF S
  <2>2. walk' \in [at : {"idle", "list", "variants", "done", "refused"}, filter : Filters \cup {None},
               size : Nat, token : Position \cup {None}, page : S]
    BY <1>2, <1>8, <2>1 DEF WalkType
  <2> QED BY <1>2, <2>2 DEF WalkType, S
<1>10. PageInHand'
  <2>1. walk'.page = page /\ walk'.size = 0
    BY <1>8
  <2>2. ASSUME NEW i \in 1 .. Len(page) PROVE StillThere(walk.page[i])'
    <3>1. StillThere(page[i]) /\ walk'.page[i] = page[i]
      BY <1>6, <2>1
    <3> QED BY <1>2, <3>1 DEF StillThere, Of
  <2> QED BY <2>1, <2>2 DEF PageInHand
<1>11. WalkIsOnCourse'
  <2>1. \A p \in Products : Before(p, walk.token)' /\ (shown[p] = 1 => ~Before(p, walk.token))
    BY <1>2, <1>8 DEF Before, WalkIsOnCourse
  <2>2. \A p \in Products : Before(p, walk.token)
    BY <1>7 DEF Before
  <2> QED BY <1>2, <1>7, <1>8, <2>1, <2>2 DEF WalkIsOnCourse
<1> QED BY <1>9, <1>10, <1>11 DEF BrowseInv

\* A page is the newest of what is on sale after the token, one row more than a page
\* holds: what matched all along and is still to come is on it or below it.
LEMMA ListKeeps ==
  ASSUME EditsInv, BrowseInv, List
  PROVE  BrowseInv'
<1> DEFINE limit == walk.size + 1
           P == {p \in Products : Matches(rows[p], walk.filter) /\ Before(p, walk.token)}
           found == Sorted(P)
           n == Cardinality(P)
           m == IF n < limit THEN n ELSE limit
           cut == ListRows(walk.filter, walk.token, limit)
           page == [i \in DOMAIN cut |-> AsRead(cut[i])]
<1>1. /\ walk.at = "list" /\ walk' = [walk EXCEPT !.at = "variants", !.page = page]
      /\ shown' = shown /\ steady' = steady /\ rows' = rows /\ variants' = variants
      /\ WalkType /\ WalkIsOnCourse /\ CatalogType
  BY DEF List, tables, BrowseInv, EditsInv
<1>2. P \subseteq Products /\ \A p \in P : rows[p] # None
  BY DEF Matches
<1>3. n \in Nat /\ IsNewestFirst(found, P) /\ \A p \in P : \E k \in 1 .. n : found[k] = p
  <2> HIDE DEF P
  <2> QED BY <1>1, <1>2, SortedHasAll
<1>4. walk.size \in Nat \ {0} /\ limit \in Nat \ {0} /\ m \in 0 .. n /\ m <= limit
      /\ (m # n => m = limit)
  <2>1. walk.size \in Nat \ {0}
    BY <1>1 DEF WalkType, WalkIsOnCourse
  <2> QED BY <1>3, <2>1
<1>5. cut = SubSeq(found, 1, IF Len(found) < limit THEN Len(found) ELSE limit)
  BY DEF ListRows
<1>6. \A p \in P : p \in Products /\ rows[p] # None /\ Before(p, walk.token)
  BY <1>2
<1>7. \A p \in steady : p \in Products /\ (~Before(p, walk.token) \/ p \in P)
  BY <1>1 DEF WalkIsOnCourse, WalkType
<1> HIDE DEF P, found, n, limit, cut
<1>8. found \in [1 .. n -> P] /\ \A j, k \in 1 .. n : j < k => Newer(found[j], found[k])
  BY <1>3 DEF IsNewestFirst, n
<1>9. found \in Seq(P) /\ Len(found) = n
  <2>1. found \in Seq(P)
    BY <1>3, <1>8, SeqDef
  <2>2. Len(found) \in Nat /\ DOMAIN found = 1 .. Len(found) /\ DOMAIN found = 1 .. n
    BY <1>8, <2>1, LenProperties
  <2>3. \A a, b \in Nat : 1 .. a = 1 .. b => a = b
    OBVIOUS
  <2> QED BY <1>3, <2>1, <2>2, <2>3
<1>10. cut = SubSeq(found, 1, m)
  BY <1>5, <1>9
<1> HIDE DEF m
<1>11. cut \in Seq(P) /\ Len(cut) = m /\ DOMAIN cut = 1 .. m /\ \A i \in 1 .. m : cut[i] = found[i] /\ cut[i] \in P
  <2>1. \A i \in 1 .. m : found[i] \in P
    BY <1>3, <1>4, <1>8
  <2>2. m \in Nat
    BY <1>3, <1>4
  <2>3. /\ cut \in Seq(P)
        /\ Len(cut) = IF 1 <= m THEN m - 1 + 1 ELSE 0
        /\ \A i \in 1 .. m - 1 + 1 : cut[i] = found[1 + i - 1]
    BY <1>9, <1>10, <2>1, <2>2, SubSeqProperties
  <2>4. Len(cut) = m
    BY <2>2, <2>3
  <2>5. \A i \in 1 .. m : cut[i] = found[i]
    BY <2>2, <2>3
  <2> QED BY <2>1, <2>3, <2>4, <2>5, LenProperties
<1>12. DOMAIN page = 1 .. m /\ \A i \in 1 .. m : page[i] = AsRead(found[i])
  BY <1>11
<1>13. \A i \in 1 .. m : /\ page[i] \in ReadRow /\ page[i].id = found[i] /\ StillThere(page[i])
                         /\ found[i] \in Products /\ rows[found[i]] # None /\ Before(found[i], walk.token)
  <2> SUFFICES ASSUME NEW i \in 1 .. m
               PROVE  /\ page[i] \in ReadRow /\ page[i].id = found[i] /\ StillThere(page[i])
                      /\ found[i] \in Products /\ rows[found[i]] # None /\ Before(found[i], walk.token)
    OBVIOUS
  <2>1. found[i] \in Products /\ rows[found[i]] # None /\ Before(found[i], walk.token)
    BY <1>6, <1>11
  <2> QED BY <1>12, <2>1, RowRead
<1>14. page \in Seq(ReadRow) /\ Len(page) = m
  <2>1. page \in [1 .. m -> ReadRow]
    BY <1>11, <1>13
  <2> HIDE DEF page
  <2>2. page \in Seq(ReadRow)
    BY <1>3, <1>4, <2>1, SeqDef
  <2>3. Len(page) \in Nat /\ DOMAIN page = 1 .. Len(page)
    BY <2>2, LenProperties
  <2>4. \A a, b \in Nat : 1 .. a = 1 .. b => a = b
    OBVIOUS
  <2> QED BY <1>3, <1>4, <1>12, <2>2, <2>3, <2>4
<1> HIDE DEF page
<1>15. walk' = [at |-> "variants", filter |-> walk.filter, size |-> walk.size, token |-> walk.token,
                page |-> page]
  BY <1>1 DEF WalkType
<1>16. WalkType'
  <2> DEFINE S == Seq(ReadRow)
  <2>1. page \in S
    BY <1>14
  <2> HIDE DEF S
  <2>2. walk' \in [at : {"idle", "list", "variants", "done", "refused"}, filter : Filters \cup {None},
               size : Nat, token : Position \cup {None}, page : S]
    BY <1>1, <1>15, <2>1 DEF WalkType
  <2> QED BY <1>1, <2>2 DEF WalkType, S
<1>17. PageInHand'
  <2>1. /\ walk'.page = page /\ walk'.size = walk.size /\ walk'.token = walk.token
    BY <1>15
  <2>2. ASSUME NEW i \in 1 .. Len(page) PROVE StillThere(walk.page[i])'
    BY <1>1, <1>13, <1>14, <2>1 DEF StillThere, Of
  <2>3. ASSUME NEW i \in 1 .. Len(page) PROVE Before(walk.page[i].id, walk.token)'
    BY <1>1, <1>13, <1>14, <2>1 DEF Before
  <2>4. ASSUME NEW i \in 1 .. Len(page), NEW j \in 1 .. Len(page), i < j
        PROVE  Newer(walk.page[i].id, walk.page[j].id)'
    <3>1. i \in 1 .. n /\ j \in 1 .. n
      BY <1>3, <1>4, <1>14
    <3>2. Newer(page[i].id, page[j].id)
      BY <1>8, <1>13, <1>14, <2>4, <3>1
    <3> QED BY <1>1, <2>1, <3>2 DEF Newer
  <2>5. Len(walk'.page) <= walk'.size + 1
    BY <1>4, <1>14, <2>1 DEF limit
  <2> QED BY <2>1, <2>2, <2>3, <2>4, <2>5 DEF PageInHand
<1>18. ASSUME NEW p \in steady PROVE OnPageOrBelow(p)'
  <2>1. /\ walk'.page = page /\ walk'.size = walk.size /\ walk'.token = walk.token
    BY <1>15
  <2>2. CASE ~Before(p, walk.token)
    <3>1. ~Before(p, walk.token)'
      BY <1>1, <2>1, <2>2 DEF Before
    <3> QED BY <3>1 DEF OnPageOrBelow
  <2>3. CASE p \in P
    <3>1. PICK k \in 1 .. n : found[k] = p
      BY <1>3, <2>3
    <3>2. CASE k <= m
      <4>1. k \in 1 .. Len(page) /\ page[k].id = p
        BY <1>3, <1>4, <1>13, <1>14, <3>1, <3>2
      <4> QED BY <2>1, <4>1 DEF OnPageOrBelow
    <3>3. CASE ~(k <= m)
      <4>1. m = limit /\ m < k /\ m \in 1 .. n /\ m \in 1 .. m
        BY <1>3, <1>4, <3>1, <3>3
      <4>2. Newer(page[limit].id, p)
        BY <1>8, <1>13, <3>1, <4>1
      <4>3. Len(page) = walk.size + 1
        BY <1>14, <4>1 DEF limit
      <4>4. Newer(walk.page[walk.size + 1].id, p)'
        BY <1>1, <2>1, <4>2 DEF Newer, limit
      <4> QED BY <2>1, <4>3, <4>4 DEF OnPageOrBelow
    <3> QED BY <3>2, <3>3
  <2> QED BY <1>7, <2>2, <2>3
<1>19. WalkIsOnCourse'
  <2>1. /\ walk'.at = "variants" /\ walk'.size = walk.size /\ walk'.token = walk.token
        /\ walk'.filter = walk.filter
    BY <1>15
  <2>2. \A p : Before(p, walk.token)' <=> Before(p, walk.token)
    BY <1>1, <2>1 DEF Before
  <2>3. \A p \in Products : shown'[p] = 1 => rows'[p] # None /\ ~Before(p, walk.token)'
    BY <1>1, <2>2 DEF WalkIsOnCourse
  <2>4. \A p \in steady' : shown'[p] = 1 <=> ~Before(p, walk.token)'
    BY <1>1, <2>2 DEF WalkIsOnCourse
  <2>5. (walk'.size = 0 => walk'.token = None /\ steady' = {}) /\ \A p \in steady' : Matches(rows'[p], walk'.filter)
    BY <1>1, <2>1 DEF WalkIsOnCourse
  <2> QED BY <1>1, <1>18, <2>1, <2>3, <2>4, <2>5 DEF WalkIsOnCourse
<1> QED BY <1>16, <1>17, <1>19 DEF BrowseInv

\* Where a product is among the first m rows of the page in hand.
Places(m, p) == {i \in 1 .. m : walk.page[i].id = p}

\* The history after the first m rows are answered.
Counted(m) == [p \in Products |-> shown[p] + Cardinality(Places(m, p))]

\* The page in hand of a browse: rows of stored products in order, after the token,
\* none of which has been shown.
LEMMA PageInOrder ==
  ASSUME EditsInv, BrowseInv, walk.at = "variants", walk.size > 0
  PROVE  /\ Len(walk.page) \in 0 .. walk.size + 1
         /\ \A i \in 1 .. Len(walk.page) :
              /\ walk.page[i].id \in Products /\ rows[walk.page[i].id] # None
              /\ Before(walk.page[i].id, walk.token) /\ shown[walk.page[i].id] = 0
         /\ \A i, j \in 1 .. Len(walk.page) : i < j => Newer(walk.page[i].id, walk.page[j].id)
<1>1. WalkType /\ PageInHand /\ WalkIsOnCourse
  BY DEF BrowseInv
<1>2. Len(walk.page) \in Nat /\ walk.size \in Nat /\ Len(walk.page) <= walk.size + 1
  BY <1>1, PageRows DEF PageInHand
<1>3. ASSUME NEW i \in 1 .. Len(walk.page)
      PROVE  /\ walk.page[i].id \in Products /\ rows[walk.page[i].id] # None
             /\ Before(walk.page[i].id, walk.token) /\ shown[walk.page[i].id] = 0
  <2>1. walk.page[i].id \in Products /\ StillThere(walk.page[i]) /\ Before(walk.page[i].id, walk.token)
    BY <1>1, PageRows DEF PageInHand
  <2>2. shown[walk.page[i].id] \in {0, 1} /\ shown[walk.page[i].id] # 1
    BY <1>1, <2>1 DEF WalkType, WalkIsOnCourse
  <2> QED BY <2>1, <2>2 DEF StillThere
<1> QED BY <1>1, <1>2, <1>3 DEF PageInHand

\* Of a page in order a product has one row at most, and what is answered is counted
\* once.
LEMMA ShownIsCounted ==
  ASSUME EditsInv, BrowseInv, walk.at = "variants", walk.size > 0, NEW m \in 0 .. Len(walk.page),
         shown' = Counted(m)
  PROVE  /\ shown' \in [Products -> {0, 1}]
         /\ \A p \in Products : IF \E i \in 1 .. m : walk.page[i].id = p
                                THEN shown'[p] = 1 ELSE shown'[p] = shown[p]
<1> DEFINE page == walk.page
<1>1. /\ Len(page) \in Nat /\ m \in Nat /\ 1 .. m \subseteq 1 .. Len(page)
      /\ \A i \in 1 .. m : page[i].id \in Products /\ rows[page[i].id] # None /\ shown[page[i].id] = 0
      /\ \A i, j \in 1 .. m : i < j => Newer(page[i].id, page[j].id)
  <2>1. WalkType
    BY DEF BrowseInv
  <2>2. Len(page) \in Nat
    BY <2>1, PageRows
  <2>3. m \in Nat /\ 1 .. m \subseteq 1 .. Len(page)
    BY <2>2
  <2> QED BY <2>2, <2>3, PageInOrder
<1>2. CatalogType
  BY DEF EditsInv
<1> HIDE DEF page
<1>3. ASSUME NEW p \in Products
      PROVE  Cardinality({i \in 1 .. m : page[i].id = p}) = IF \E i \in 1 .. m : page[i].id = p THEN 1 ELSE 0
  <2>1. CASE \E i \in 1 .. m : page[i].id = p
    <3>1. PICK i \in 1 .. m : page[i].id = p
      BY <2>1
    <3>2. ASSUME NEW j \in 1 .. m, page[j].id = p, j # i PROVE FALSE
      <4>1. j < i \/ i < j
        BY <1>1, <3>2
      <4>2. Newer(p, p)
        BY <1>1, <3>1, <3>2, <4>1
      <4>3. rows[p] # None
        BY <1>1, <3>1
      <4> QED BY <1>2, <4>2, <4>3, NewerIsAnOrder
    <3>3. {k \in 1 .. m : page[k].id = p} = {i}
      BY <3>1, <3>2
    <3> QED BY <2>1, <3>3, FS_Singleton
  <2>2. CASE ~\E i \in 1 .. m : page[i].id = p
    <3>1. {i \in 1 .. m : page[i].id = p} = {}
      BY <2>2
    <3> QED BY <2>2, <3>1, FS_EmptySet
  <2> QED BY <2>1, <2>2
<1>4. \A p \in Products : shown[p] \in {0, 1} /\ shown'[p] = shown[p] + Cardinality({i \in 1 .. m : page[i].id = p})
  <2>1. shown \in [Products -> {0, 1}]
    BY DEF BrowseInv, WalkType
  <2> QED BY <2>1 DEF Counted, Places, page
<1>5. ASSUME NEW p \in Products
      PROVE  /\ shown'[p] \in {0, 1}
             /\ IF \E i \in 1 .. m : page[i].id = p THEN shown'[p] = 1 ELSE shown'[p] = shown[p]
  <2>1. CASE \E i \in 1 .. m : page[i].id = p
    <3>1. shown[p] = 0 /\ shown'[p] = 0 + 1
      BY <1>1, <1>3, <1>4, <2>1
    <3>2. shown'[p] = 1
      BY <3>1
    <3> QED BY <2>1, <3>2
  <2>2. CASE ~\E i \in 1 .. m : page[i].id = p
    <3>1. shown'[p] = shown[p] + 0 /\ shown[p] \in {0, 1}
      BY <1>3, <1>4, <2>2
    <3>2. shown'[p] = shown[p]
      BY <3>1
    <3> QED BY <2>2, <3>1, <3>2
  <2> QED BY <2>1, <2>2
<1>6. shown' = [p \in Products |-> shown'[p]]
  BY DEF Counted
<1> QED BY <1>5, <1>6 DEF page

\* A page that is not full is the last: everything on sale all along has been shown.
LEMMA LastPage ==
  ASSUME EditsInv, BrowseInv, walk.at = "variants", walk.size > 0, Len(walk.page) <= walk.size,
         UNCHANGED <<tables, steady>>, walk' = [walk EXCEPT !.at = "done", !.page = <<>>],
         shown' = Counted(Len(walk.page))
  PROVE  BrowseInv'
<1> DEFINE page == walk.page
<1>1. WalkType /\ WalkIsOnCourse /\ rows' = rows /\ steady' = steady
  BY DEF BrowseInv, tables
<1>2. Len(page) \in Nat /\ walk.size \in Nat
  BY <1>1, PageRows
<1>3. /\ shown' \in [Products -> {0, 1}]
      /\ \A p \in Products : IF \E i \in 1 .. Len(page) : page[i].id = p
                             THEN shown'[p] = 1 ELSE shown'[p] = shown[p]
  <2>1. Len(walk.page) \in 0 .. Len(walk.page)
    BY <1>2
  <2> QED BY <2>1, ShownIsCounted
<1>4. walk' = [at |-> "done", filter |-> walk.filter, size |-> walk.size, token |-> walk.token, page |-> <<>>]
  BY <1>1 DEF WalkType
<1>5. WalkType'
  <2> DEFINE S == Seq(ReadRow)
  <2>1. <<>> \in S
    BY EmptySeq
  <2> HIDE DEF S
  <2>2. walk' \in [at : {"idle", "list", "variants", "done", "refused"}, filter : Filters \cup {None},
               size : Nat, token : Position \cup {None}, page : S]
    BY <1>1, <1>4, <2>1 DEF WalkType
  <2> QED BY <1>1, <1>3, <2>2 DEF WalkType, S
<1>6. PageInHand'
  BY <1>4 DEF PageInHand
<1>7. ASSUME NEW p \in steady PROVE shown'[p] = 1
  <2>1. p \in Products /\ OnPageOrBelow(p) /\ (shown[p] = 1 <=> ~Before(p, walk.token))
    BY <1>1 DEF WalkType, WalkIsOnCourse
  <2>2. ~(Len(page) = walk.size + 1)
    BY <1>2
  <2>3. ~Before(p, walk.token) \/ \E i \in 1 .. Len(page) : page[i].id = p
    BY <2>1, <2>2 DEF OnPageOrBelow
  <2> QED BY <1>3, <2>1, <2>3
<1>8. WalkIsOnCourse'
  <2>1. \A p \in steady' : Matches(rows'[p], walk'.filter)
    BY <1>1, <1>4 DEF WalkIsOnCourse
  <2> QED BY <1>1, <1>4, <1>7, <2>1 DEF WalkIsOnCourse
<1> QED BY <1>5, <1>6, <1>8 DEF BrowseInv

\* A full page is cut, and its token divides what has been shown from what has not.
LEMMA NextPage ==
  ASSUME EditsInv, BrowseInv, walk.at = "variants", walk.size > 0, Len(walk.page) > walk.size,
         UNCHANGED <<tables, steady>>,
         walk' = [walk EXCEPT !.at = "list", !.page = <<>>, !.token = encodeCursor(walk.page[walk.size])],
         shown' = Counted(walk.size)
  PROVE  BrowseInv'
<1> DEFINE page == walk.page  size == walk.size
<1>1. WalkType /\ WalkIsOnCourse /\ rows' = rows /\ steady' = steady /\ CatalogType
  BY DEF BrowseInv, EditsInv, tables
<1>2. /\ size \in Nat /\ size > 0 /\ Len(page) = size + 1 /\ size \in 1 .. Len(page) /\ 1 .. size \subseteq 1 .. Len(page)
  <2>1. size \in Nat
    BY <1>1, PageRows
  <2> QED BY <2>1, PageInOrder
<1>3. /\ shown' \in [Products -> {0, 1}]
      /\ \A p \in Products : IF \E i \in 1 .. size : page[i].id = p
                             THEN shown'[p] = 1 ELSE shown'[p] = shown[p]
  <2>1. walk.size \in 0 .. Len(walk.page)
    BY <1>2
  <2> QED BY <2>1, ShownIsCounted
<1>4. PICK last : last = page[size].id
  OBVIOUS
<1>5. /\ last \in Products /\ rows[last] # None /\ Before(last, walk.token)
      /\ \A i \in 1 .. Len(page) : page[i].id \in Products /\ rows[page[i].id] # None
      /\ \A i, j \in 1 .. Len(page) : i < j => Newer(page[i].id, page[j].id)
  BY <1>2, <1>4, PageInOrder
<1>6. PICK next : next = encodeCursor(page[size])
  OBVIOUS
<1>7. next = [created |-> rows[last].created, id |-> last]
  <2>1. StillThere(page[size])
    BY <1>2 DEF BrowseInv, PageInHand
  <2> QED BY <1>4, <1>6, <2>1 DEF encodeCursor, StillThere
<1>8. rows[last] \in Row /\ last \in Nat /\ rows[last].created \in 0 .. MaxClock
      /\ \A p \in Products : p \in Nat /\ (rows[p] # None => rows[p] \in Row /\ rows[p].created \in 0 .. MaxClock)
  BY <1>1, <1>5, ConstantsAreSound DEF CatalogType, Row
<1>9. next \in Position /\ next # None
  <2>1. next \in Position
    BY <1>5, <1>7, <1>8 DEF Position
  <2> QED BY <2>1, ConstantsAreSound
<1>10. ASSUME NEW p \in Products, rows[p] # None
       PROVE  /\ Before(p, next) <=> Newer(last, p)
              /\ Newer(last, p) => Before(p, walk.token)
  <2>1. /\ p \in Nat /\ last \in Nat /\ rows[p].created \in Nat /\ rows[last].created \in Nat
        /\ next.created = rows[last].created /\ next.id = last
    BY <1>7, <1>8, <1>10, ConstantsAreSound
  <2>2. Before(p, next) <=> Newer(last, p)
    BY <1>9, <2>1 DEF Before, Newer
  <2>3. ASSUME Newer(last, p) PROVE Before(p, walk.token)
    <3>1. CASE walk.token = None
      BY <3>1 DEF Before
    <3>2. CASE walk.token # None
      <4>1. walk.token.created \in Nat /\ walk.token.id \in Nat
        BY <1>1, <3>2, PageRows, ConstantsAreSound DEF Position
      <4> QED BY <1>5, <2>1, <2>3, <3>2, <4>1 DEF Before, Newer
    <3> QED BY <3>1, <3>2
  <2> QED BY <2>2, <2>3
<1>11. walk' = [at |-> "list", filter |-> walk.filter, size |-> size, token |-> next, page |-> <<>>]
  BY <1>1, <1>6 DEF WalkType
<1> HIDE DEF page, size
<1>12. WalkType'
  <2> DEFINE S == Seq(ReadRow)
  <2>1. <<>> \in S
    BY EmptySeq
  <2> HIDE DEF S
  <2>2. walk' \in [at : {"idle", "list", "variants", "done", "refused"}, filter : Filters \cup {None},
               size : Nat, token : Position \cup {None}, page : S]
    BY <1>1, <1>2, <1>9, <1>11, <2>1 DEF WalkType
  <2> QED BY <1>1, <1>3, <2>2 DEF WalkType, S
<1>13. PageInHand'
  BY <1>11 DEF PageInHand
<1>14. \A p \in Products : Before(p, walk.token)' <=> Before(p, next)
  <2>1. walk'.token = next
    BY <1>1, <1>4, <1>6 DEF WalkType, page, size
  <2> QED BY <1>1, <2>1 DEF Before
<1>15. ASSUME NEW i \in 1 .. size PROVE ~Newer(last, page[i].id)
  <2>1. i \in 1 .. Len(page) /\ page[i].id \in Products /\ rows[page[i].id] # None
    BY <1>2, <1>5
  <2>2. i = size \/ i < size
    BY <1>2
  <2>3. page[i].id = last \/ Newer(page[i].id, last)
    BY <1>2, <1>4, <1>5, <2>1, <2>2
  <2> QED BY <1>1, <1>5, <2>1, <2>3, NewerIsAnOrder
<1>16. ASSUME NEW p \in Products, shown'[p] = 1
       PROVE  rows[p] # None /\ ~Before(p, next)
  <2>1. CASE \E i \in 1 .. size : page[i].id = p
    <3>1. PICK i \in 1 .. size : page[i].id = p
      BY <2>1
    <3>2. rows[p] # None /\ ~Newer(last, p)
      BY <1>2, <1>5, <1>15, <3>1
    <3> QED BY <1>10, <3>2
  <2>2. CASE ~\E i \in 1 .. size : page[i].id = p
    <3>1. shown[p] = 1
      BY <1>3, <1>16, <2>2
    <3>2. rows[p] # None /\ ~Before(p, walk.token)
      BY <1>1, <3>1 DEF WalkIsOnCourse
    <3> QED BY <1>10, <3>2
  <2> QED BY <2>1, <2>2
<1>17. ASSUME NEW p \in steady, ~Before(p, next) PROVE shown'[p] = 1
  <2>1. p \in Products /\ rows[p] # None /\ OnPageOrBelow(p) /\ (shown[p] = 1 <=> ~Before(p, walk.token))
    BY <1>1 DEF WalkType, WalkIsOnCourse, Matches
  <2>2. ~Newer(last, p)
    BY <1>10, <1>17, <2>1
  <2>3. CASE ~Before(p, walk.token)
    BY <1>3, <2>1, <2>3
  <2>4. CASE \E i \in 1 .. Len(page) : page[i].id = p
    <3>1. PICK i \in 1 .. Len(page) : page[i].id = p
      BY <2>4
    <3>2. ~(size < i)
      BY <1>2, <1>4, <1>5, <2>2, <3>1
    <3>3. i \in 1 .. size
      BY <1>2, <3>2
    <3> QED BY <1>3, <2>1, <3>1, <3>3
  <2>5. CASE Newer(page[size + 1].id, p)
    <3>1. size + 1 \in 1 .. Len(page) /\ size < size + 1
      BY <1>2
    <3>2. Newer(last, page[size + 1].id) /\ page[size + 1].id \in Products /\ rows[page[size + 1].id] # None
      BY <1>2, <1>4, <1>5, <3>1
    <3> QED BY <1>1, <1>5, <2>1, <2>2, <2>5, <3>2, NewerIsAnOrder
  <2> QED BY <2>1, <2>3, <2>4, <2>5 DEF OnPageOrBelow, page, size
<1>18. WalkIsOnCourse'
  <2>1. \A p \in Products : shown'[p] = 1 => rows'[p] # None /\ ~Before(p, walk.token)'
    BY <1>1, <1>14, <1>16
  <2>2. \A p \in steady' : shown'[p] = 1 <=> ~Before(p, walk.token)'
    BY <1>1, <1>14, <1>16, <1>17 DEF WalkType
  <2>3. \A p \in steady' : Matches(rows'[p], walk'.filter)
    BY <1>1, <1>11 DEF WalkIsOnCourse
  <2>4. walk'.size # 0 /\ walk'.at = "list" /\ walk'.size > 0
    BY <1>2, <1>11
  <2> QED BY <2>1, <2>2, <2>3, <2>4 DEF WalkIsOnCourse
<1> QED BY <1>12, <1>13, <1>18 DEF BrowseInv

\* The first rows of the page in hand.
LEMMA CutAt ==
  ASSUME WalkType, NEW m \in 0 .. Len(walk.page)
  PROVE  /\ DOMAIN SubSeq(walk.page, 1, m) = 1 .. m
         /\ \A i \in 1 .. m : SubSeq(walk.page, 1, m)[i] = walk.page[i]
         /\ \A p : {i \in DOMAIN SubSeq(walk.page, 1, m) : SubSeq(walk.page, 1, m)[i].id = p} = Places(m, p)
<1> DEFINE cut == SubSeq(walk.page, 1, m)
<1>1. walk.page \in Seq(ReadRow) /\ Len(walk.page) \in Nat /\ m \in Nat /\ 1 .. m \subseteq 1 .. Len(walk.page)
  BY PageRows
<1>2. \A i \in 1 .. m : walk.page[i] \in ReadRow
  BY <1>1, PageRows
<1>3. /\ cut \in Seq(ReadRow)
      /\ Len(cut) = IF 1 <= m THEN m - 1 + 1 ELSE 0
      /\ \A i \in 1 .. m - 1 + 1 : cut[i] = walk.page[1 + i - 1]
  BY <1>1, <1>2, SubSeqProperties
<1> HIDE DEF cut
<1>4. Len(cut) = m /\ \A i \in 1 .. m : cut[i] = walk.page[i]
  BY <1>1, <1>3
<1>5. DOMAIN cut = 1 .. m
  BY <1>3, <1>4, LenProperties
<1>6. \A p : {i \in DOMAIN cut : cut[i].id = p} = Places(m, p)
  BY <1>4, <1>5 DEF Places
<1> QED BY <1>4, <1>5, <1>6 DEF cut

\* A page is answered and the walk goes on, or ends.
LEMMA AnswerKeeps ==
  ASSUME EditsInv, BrowseInv, Answer
  PROVE  BrowseInv'
<1> DEFINE more == Len(walk.page) > walk.size
           m == IF more THEN walk.size ELSE Len(walk.page)
           cut == SubSeq(walk.page, 1, m)
<1>1. /\ walk.at = "variants" /\ UNCHANGED <<tables, steady>>
      /\ shown' = [p \in Products |-> shown[p] + Cardinality({i \in DOMAIN cut : cut[i].id = p})]
      /\ walk' = CASE walk.size = 0 -> [walk EXCEPT !.at = "idle", !.page = <<>>]
                   [] walk.size > 0 /\ more ->
                        [walk EXCEPT !.at = "list", !.page = <<>>, !.token = encodeCursor(cut[walk.size])]
                   [] OTHER -> [walk EXCEPT !.at = "done", !.page = <<>>]
  BY DEF Answer
<1>2. WalkType /\ WalkIsOnCourse
  BY DEF BrowseInv
<1>3. Len(walk.page) \in Nat /\ walk.size \in Nat /\ m \in 0 .. Len(walk.page)
  BY <1>2, PageRows
<1> HIDE DEF m
<1>4. DOMAIN cut = 1 .. m /\ (\A i \in 1 .. m : cut[i] = walk.page[i])
      /\ (\A p : {i \in DOMAIN cut : cut[i].id = p} = Places(m, p))
  BY <1>2, <1>3, CutAt
<1> HIDE DEF cut
<1>5. shown' = Counted(m)
  BY <1>1, <1>4 DEF Counted
<1>6. CASE walk.size = 0
  <2>1. m = 0
    BY <1>3, <1>6 DEF m
  <2>2. \A p : Places(m, p) = {}
    BY <2>1 DEF Places
  <2>3. shown' = shown
    <3>1. shown \in [Products -> {0, 1}] /\ Cardinality({}) = 0
      BY <1>2, FS_EmptySet DEF WalkType
    <3>2. shown' = [p \in Products |-> shown[p] + 0]
      BY <1>5, <2>2, <3>1 DEF Counted
    <3>3. \A p \in Products : shown[p] + 0 = shown[p]
      BY <3>1
    <3> QED BY <3>1, <3>2, <3>3
  <2>4. walk.token = None /\ steady = {} /\ rows' = rows /\ steady' = steady
    BY <1>1, <1>2, <1>6 DEF WalkIsOnCourse, tables
  <2>5. walk' = [at |-> "idle", filter |-> walk.filter, size |-> 0, token |-> None, page |-> <<>>]
    <3>1. walk' = [walk EXCEPT !.at = "idle", !.page = <<>>]
      BY <1>1, <1>6
    <3> QED BY <1>2, <1>6, <2>4, <3>1 DEF WalkType
  <2>6. WalkType'
    <3> DEFINE S == Seq(ReadRow)
    <3>1. <<>> \in S
      BY EmptySeq
    <3> HIDE DEF S
    <3>2. walk' \in [at : {"idle", "list", "variants", "done", "refused"}, filter : Filters \cup {None},
                 size : Nat, token : Position \cup {None}, page : S]
      BY <1>2, <2>5, <3>1 DEF WalkType
    <3> QED BY <1>2, <2>3, <2>4, <3>2 DEF WalkType, S
  <2>7. PageInHand'
    BY <2>5 DEF PageInHand
  <2>8. WalkIsOnCourse'
    <3>1. \A p : Before(p, walk.token)' <=> Before(p, walk.token)
      BY <2>4, <2>5 DEF Before
    <3>2. \A p \in Products : shown[p] = 1 => rows[p] # None /\ ~Before(p, walk.token)
      BY <1>1, <1>2 DEF WalkIsOnCourse
    <3> QED BY <2>3, <2>4, <2>5, <3>1, <3>2 DEF WalkIsOnCourse
  <2> QED BY <2>6, <2>7, <2>8 DEF BrowseInv
<1>7. CASE walk.size > 0 /\ more
  <2>1. m = walk.size /\ walk.size \in 1 .. m
    BY <1>3, <1>7 DEF m
  <2>2. cut[walk.size] = walk.page[walk.size]
    BY <1>4, <2>1
  <2>3. walk' = [walk EXCEPT !.at = "list", !.page = <<>>, !.token = encodeCursor(walk.page[walk.size])]
    BY <1>1, <1>3, <1>7, <2>2
  <2> QED BY <1>1, <1>5, <1>7, <2>1, <2>3, NextPage
<1>8. CASE walk.size > 0 /\ ~more
  <2>1. m = Len(walk.page) /\ Len(walk.page) <= walk.size
    BY <1>3, <1>8 DEF m
  <2>2. walk' = [walk EXCEPT !.at = "done", !.page = <<>>]
    BY <1>1, <1>3, <1>8
  <2> QED BY <1>1, <1>5, <1>8, <2>1, <2>2, LastPage
<1> QED BY <1>3, <1>6, <1>7, <1>8

\* Every step of the catalog keeps what is claimed of the browse.
LEMMA BrowseStep ==
  ASSUME EditsInv, BrowseInv, [Next]_vars
  PROVE  BrowseInv'
<1>1. CASE UNCHANGED <<tables, browse>>
  BY <1>1, TablesStay
<1>2. CASE ~ UNCHANGED <<tables, browse>>
  <2>1. \/ \E c \in Calls : Commit(c)
        \/ ListProducts \/ ListRefused \/ List \/ Answer \/ GetProducts
    BY <1>2 DEF Next, vars, Begin, CreateProduct, FindNothing, FindRow, FindVariants, Change,
       UpdateProduct, UpdateVariants, InsertVariant, StatementFails, Tick
  <2> QED BY <2>1, CommitUndisturbs, ListProductsKeeps, ListRefusedKeeps, ListKeeps, AnswerKeeps, GetProductsKeeps
<1> QED BY <1>1, <1>2
-----------------------------------------------------------------------------
(* The theorems.                                                           *)

\* Edits and the browse run as they should in every run of the catalog.
THEOREM CatalogInvariant == Spec => []CatalogInv
<1>1. Init => CatalogInv
  BY InitEdits, InitBrowse DEF CatalogInv
<1>2. CatalogInv /\ [Next]_vars => CatalogInv'
  BY EditsStep, BrowseStep DEF CatalogInv
<1> QED BY <1>1, <1>2, PTL DEF Spec

\* Rows and variants belong together, the variants of a product are priced in one
\* currency and no edit that passed the version of the row is refused by a variant's:
\* UpdateProduct serialises what ensureCurrency and UpdateVariant rely on.
THEOREM ProductsSound == Spec => []ProductsAreSound
<1>1. ASSUME CatalogInv PROVE ProductsAreSound
  <2>1. CatalogType /\ TablesAreSound /\ WalkType
    BY <1>1 DEF CatalogInv, EditsInv, BrowseInv
  <2>2. TypeOK
    <3>1. outcome \in [Calls -> {None, "ok", "internal"} \cup Refusals \cup Conflicts]
      BY <2>1 DEF CatalogType, Conflicts
    <3>2. walk.at \in {"idle", "list", "variants", "done", "refused"} /\ steady \subseteq Products
      BY <2>1 DEF WalkType
    <3> QED BY <2>1, <3>1, <3>2 DEF TypeOK, CatalogType, TablesAreSound
  <2>3. OneCurrency
    <3>1. SUFFICES ASSUME NEW s \in SKUs, NEW t \in SKUs, variants[s] # None, variants[t] # None,
                          variants[s].product = variants[t].product
                   PROVE  variants[s].currency = variants[t].currency
      BY DEF OneCurrency
    <3>2. PICK p \in Products : p = variants[s].product /\ rows[p] # None
      BY <2>1, <3>1 DEF CatalogType, Variant, TablesAreSound
    <3>3. AreVariants(Of(p), p)
      BY <2>1, <3>2 DEF TablesAreSound, IsProduct
    <3>4. s \in DOMAIN Of(p) /\ t \in DOMAIN Of(p) /\ Of(p)[s] = variants[s] /\ Of(p)[t] = variants[t]
      BY <3>1, <3>2 DEF Of, GetVariantsByProductIDs
    <3> QED BY <3>3, <3>4 DEF AreVariants
  <2>4. RowGuardsVariants
    <3>1. \A c \in Calls : outcome[c] \in {None, "ok", "internal", "product modified", "sku exists"} \cup Refusals
      BY <2>1 DEF CatalogType
    <3>2. "variant modified" \notin {"ok", "internal", "product modified", "sku exists"} \cup Refusals
      BY DEF Refusals
    <3>3. None # "variant modified"
      BY CatalogAssumption, Zenon DEF CatalogAssumption, Conflicts
    <3> QED BY <3>1, <3>2, <3>3 DEF RowGuardsVariants
  <2> QED BY <2>2, <2>3, <2>4 DEF ProductsAreSound
<1>2. CatalogInv => ProductsAreSound
  BY <1>1
<1> QED BY <1>2, CatalogInvariant, PTL

\* What is on sale in a page that has been read can be bought with the variants read
\* after it.
LEMMA PagesAreSellable == CatalogInv => ShownIsSellable
<1> SUFFICES ASSUME CatalogInv, walk.at = "variants", NEW x \in withVariants, x.row.status = "active"
             PROVE  /\ DOMAIN x.variants # {}
                    /\ \A s, t \in DOMAIN x.variants : x.variants[s].currency = x.variants[t].currency
                    /\ rows[x.id].status = "archived" \/ GetVariantsBySKUs(DOMAIN x.variants) = DOMAIN x.variants
  BY DEF ShownIsSellable
<1>1. TablesAreSound /\ WalkType /\ PageInHand /\ CatalogType
  BY DEF CatalogInv, EditsInv, BrowseInv
<1>2. PICK i \in 1 .. Len(walk.page) :
        x = [id |-> walk.page[i].id, row |-> walk.page[i].row, variants |-> Of(walk.page[i].id)]
  BY <1>1, PageRows DEF withVariants, Of
<1>3. x.id = walk.page[i].id /\ x.row = walk.page[i].row /\ x.variants = Of(x.id)
  BY <1>2
<1>4. StillThere(walk.page[i]) /\ walk.page[i].id \in Products
  BY <1>1, PageRows DEF PageInHand
<1>5. PICK p \in Products : p = x.id
  BY <1>3, <1>4
<1>6. rows[p] # None /\ rows[p].status \in {"active", "archived"} /\ DOMAIN Of(p) # {}
  BY <1>3, <1>4, <1>5 DEF StillThere
<1>7. AreVariants(Of(p), p)
  BY <1>1, <1>6 DEF TablesAreSound, IsProduct
<1>8. ASSUME rows[p].status # "archived" PROVE GetVariantsBySKUs(DOMAIN Of(p)) = DOMAIN Of(p)
  <2>1. \A s \in DOMAIN Of(p) : variants[s] # None /\ variants[s].product = p
    BY DEF Of, GetVariantsByProductIDs
  <2> QED BY <1>6, <1>8, <2>1 DEF GetVariantsBySKUs
<1> QED BY <1>3, <1>5, <1>6, <1>7, <1>8 DEF AreVariants

\* What a shopper is shown can be bought, and a browse shows all that was on sale all
\* along, and nothing twice: ListProducts reads a row more than it shows, and its
\* cursor holds the time and the identifier.
THEOREM BrowseTrue == Spec => []BrowseIsTrue
<1>1. ASSUME CatalogInv PROVE WalkIsComplete
  <2>1. WalkType /\ WalkIsOnCourse
    BY <1>1 DEF CatalogInv, BrowseInv
  <2>2. \A p \in Products : shown[p] <= 1
    <3>1. \A n \in {0, 1} : n <= 1
      OBVIOUS
    <3> QED BY <2>1, <3>1 DEF WalkType
  <2> QED BY <2>1, <2>2 DEF WalkIsOnCourse, WalkIsComplete
<1>2. CatalogInv => BrowseIsTrue
  BY <1>1, PagesAreSellable DEF BrowseIsTrue
<1> QED BY <1>2, CatalogInvariant, PTL
=============================================================================
