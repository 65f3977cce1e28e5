------------------------------ MODULE Catalog ------------------------------
(***************************************************************************)
(* The catalog service: products with their variants, edited by concurrent *)
(* calls and browsed page by page.                                         *)
(*                                                                         *)
(* An edit reads the product's row, then its variants, applies one change  *)
(* of the domain to the aggregate, and writes the row under its version    *)
(* and then every variant, in one READ COMMITTED transaction.  A browse    *)
(* reads a page of rows and then their variants, in no transaction at all, *)
(* and so does every other read of whole products.                         *)
(* Products are numbered in the order of their identifiers; a SKU is       *)
(* unique, and names its variant.                                          *)
(***************************************************************************)
EXTENDS Naturals, FiniteSets, Sequences, SequencesExt

CONSTANTS Calls,       \* edits made at once (bound)
          Products,    \* product identifiers
          SKUs, Categories, Currencies,
          Canonical,   \* what each text a client may send is normalised to, None if malformed
          EditsOf,     \* the edits each call may be
          StoredRows, StoredVariants,   \* what the tables hold at first
          AskedSizes,  \* page sizes clients ask for
          AskedStatuses,  \* the states of products they ask for, None if they name none
          DefaultPageSize, MaxPageSize,
          MaxClock,    \* bound on time
          None

Statuses == {"draft", "active", "archived"}
Row      == [status : Statuses, category : Categories, created : 0 .. MaxClock, version : Nat \ {0}]
Variant  == [product : Products, currency : Currencies, version : Nat \ {0}]

Refusals == {"invalid", "not found", "archived", "duplicate sku", "currency mismatch",
             "no variants", "no such variant"}
Conflicts == {"product modified", "variant modified", "sku exists"}

\* Texts that are one of these once normalised, or nothing.
Texts(canonical) == {t \in DOMAIN Canonical : Canonical[t] \in canonical \cup {None}}

\* A variant as a create command lists it.
Priced == [sku : Texts(SKUs), currency : Texts(Currencies)]

\* What a client may ask for.  The catalog gives a new product its identifier.
Requests ==
  [kind : {"publish", "archive"}, product : Products]
  \cup [kind : {"details"}, product : Products, category : Texts(Categories)]
  \cup [kind : {"add"}, product : Products, sku : Texts(SKUs), currency : Texts(Currencies)]
  \cup [kind : {"reprice"}, product : Products, sku : SKUs, currency : Texts(Currencies)]
  \cup [kind : {"create"}, product : Products, category : Texts(Categories), variants : Seq(Priced)]

\* The variants of a product, by SKU.
GetVariantsByProductIDs(vs, p) == [s \in {t \in SKUs : vs[t] # None /\ vs[t].product = p} |-> vs[s]]

\* What the tables hold at first: variants of products there are, those of one
\* product in one currency, and something to sell of each that is on sale.
SoundTables(rs, vs) ==
  /\ rs \in [Products -> Row \cup {None}] /\ vs \in [SKUs -> Variant \cup {None}]
  /\ \A s \in SKUs : vs[s] # None => rs[vs[s].product] # None
  /\ \A s, t \in SKUs : vs[s] # None /\ vs[t] # None /\ vs[s].product = vs[t].product
                        => vs[s].currency = vs[t].currency
  /\ \A p \in Products : rs[p] # None /\ rs[p].status = "active"
                        => DOMAIN GetVariantsByProductIDs(vs, p) # {}

ASSUME CatalogAssumption ==
  /\ IsFiniteSet(Calls) /\ IsFiniteSet(Products) /\ Products \subseteq Nat
  /\ AskedSizes \subseteq Nat /\ AskedStatuses \subseteq Statuses \cup {None} /\ MaxClock \in Nat \ {0}
  /\ DefaultPageSize \in Nat \ {0} /\ MaxPageSize \in Nat \ {0}
  /\ None \notin Calls \cup SKUs \cup Categories \cup Row \cup Variant \cup Conflicts
  /\ None \notin [created : 0 .. MaxClock, id : Products]
  /\ \A c \in Calls : EditsOf[c] \subseteq Requests
  /\ SoundTables(StoredRows, StoredVariants)

VARIABLES pc,         \* the statement each call makes next
          edit,       \* what a call was asked to do
          started,    \* when its transaction began: created_at of the row it inserts
          base,       \* the aggregate it loaded
          work,       \* ... and the one it is writing
          fresh,      \* SKUs it has still to insert
          rows,       \* products rows
          variants,   \* variants rows
          rowLock,    \* who has updated a product's row and not committed
          skuLock,    \* who has inserted a SKU and not committed
          outcome,
          clock,
          walk,       \* a read: where it is, its filter, page size and page token, the rows it read
          shown,      \* history: how often the browse answered each product
          steady      \* history: products that matched the filter since it began

tables  == <<rows, variants>>
locks   == <<rowLock, skuLock>>
call    == <<edit, started, base, work, fresh>>
browse  == <<walk, shown, steady>>
vars == <<pc, call, tables, locks, outcome, clock, browse>>

NoAggregate == [row |-> None, variants |-> [s \in {} |-> None]]

\* A product as it is stored.
Stored(p) == [row |-> rows[p], variants |-> GetVariantsByProductIDs(variants, p)]

Init ==
  /\ pc       = [c \in Calls |-> "idle"]
  /\ edit     = [c \in Calls |-> None]
  /\ started  = [c \in Calls |-> 0]
  /\ base     = [c \in Calls |-> NoAggregate]
  /\ work     = [c \in Calls |-> NoAggregate]
  /\ fresh    = [c \in Calls |-> <<>>]
  /\ rows     = StoredRows
  /\ variants = StoredVariants
  /\ rowLock  = [p \in Products |-> None]
  /\ skuLock  = [s \in SKUs |-> None]
  /\ outcome  = [c \in Calls |-> None]
  /\ clock    = 1
  /\ walk     = [at |-> "idle", filter |-> None, size |-> 0, token |-> None, page |-> <<>>]
  /\ shown    = [p \in Products |-> 0]
  /\ steady   = {}

-----------------------------------------------------------------------------
(* The aggregate.  A change answers why it refuses, or "ok"; Changed is what *)
(* it leaves.                                                                *)

NewSKU(s)          == Canonical[s]
NewCategory(s)     == Canonical[s]
NewCurrencyCode(s) == Canonical[s]

NewProduct(e, at) ==
  [status |-> "draft", category |-> e.category, created |-> at, version |-> 1]

NewVariant(p, currency) == [product |-> p, currency |-> currency, version |-> 1]

ensureWritable(a) == a.row.status # "archived"

\* Every variant but one is priced in a currency.
ensureCurrency(vs, currency, except) ==
  \A s \in DOMAIN vs \ {except} : vs[s].currency = currency

AddVariantRefusal(vs, sku, currency) ==
  CASE sku \in DOMAIN vs -> "duplicate sku"
    [] sku \notin DOMAIN vs /\ ~ensureCurrency(vs, currency, None) -> "currency mismatch"
    [] OTHER -> "ok"

UpdateVariantRefusal(vs, sku, currency) ==
  CASE sku \notin DOMAIN vs -> "no such variant"
    [] sku \in DOMAIN vs /\ ~ensureCurrency(vs, currency, sku) -> "currency mismatch"
    [] OTHER -> "ok"

\* A product with nothing to sell is not put on sale.
PublishRefusal(vs) == IF DOMAIN vs = {} THEN "no variants" ELSE "ok"

Refusal(e, a) ==
  IF e.kind # "archive" /\ ~ensureWritable(a) THEN "archived"
  ELSE CASE e.kind \in {"archive", "details"} -> "ok"
         [] e.kind = "add"     -> AddVariantRefusal(a.variants, e.sku, e.currency)
         [] e.kind = "reprice" -> UpdateVariantRefusal(a.variants, e.sku, e.currency)
         [] e.kind = "publish" -> PublishRefusal(a.variants)

UpdateDetails(a, e) == [a EXCEPT !.row.category = e.category]
AddVariant(a, e) ==
  [a EXCEPT !.variants = [s \in DOMAIN @ \cup {e.sku} |->
                            IF s = e.sku THEN NewVariant(e.product, e.currency) ELSE @[s]]]
UpdateVariant(a, e) == [a EXCEPT !.variants[e.sku].currency = e.currency]
Publish(a) == [a EXCEPT !.row.status = "active"]
Archive(a) == [a EXCEPT !.row.status = "archived"]

Changed(e, a) ==
  CASE e.kind = "details" -> UpdateDetails(a, e)
    [] e.kind = "add"     -> AddVariant(a, e)
    [] e.kind = "reprice" -> UpdateVariant(a, e)
    [] e.kind = "publish" -> Publish(a)
    [] e.kind = "archive" -> Archive(a)

\* Writing bumps the version of the row and of every variant that was there.
Written(old, new) ==
  [row |-> [new.row EXCEPT !.version = @ + 1],
   variants |-> [s \in DOMAIN new.variants |->
                   IF s \in DOMAIN old.variants
                   THEN [new.variants[s] EXCEPT !.version = @ + 1]
                   ELSE new.variants[s]]]

\* The first variants of a create command, as they are added one by one.
Added(p, list, n) ==
  [s \in {list[i].sku : i \in 1 .. n} |->
     NewVariant(p, list[CHOOSE i \in 1 .. n : list[i].sku = s].currency)]

\* The aggregate a create command describes; the first variant that those before it
\* make the aggregate refuse is why it is refused.
WithVariants(p, list) ==
  LET why(n) == AddVariantRefusal(Added(p, list, n - 1), list[n].sku, list[n].currency)
      refused == {n \in DOMAIN list : why(n) # "ok"}
  IN [refusal |-> IF refused = {} THEN "ok" ELSE why(CHOOSE n \in refused : \A m \in refused : n <= m),
      variants |-> Added(p, list, Len(list))]

-----------------------------------------------------------------------------
(* An edit. *)

Ends(c, o) ==
  /\ outcome' = [outcome EXCEPT ![c] = o]
  /\ pc'      = [pc EXCEPT ![c] = "done"]
  /\ edit'    = [edit EXCEPT ![c] = None]
  /\ started' = [started EXCEPT ![c] = 0]
  /\ base'    = [base EXCEPT ![c] = NoAggregate]
  /\ work'    = [work EXCEPT ![c] = NoAggregate]
  /\ fresh'   = [fresh EXCEPT ![c] = <<>>]

\* What the transaction did is undone.
RollBack(c) ==
  /\ rowLock' = [p \in Products |-> IF rowLock[p] = c THEN None ELSE rowLock[p]]
  /\ skuLock' = [s \in SKUs |-> IF skuLock[s] = c THEN None ELSE skuLock[s]]

\* A command with its texts normalised.
Normalised(e) ==
  CASE e.kind = "details" -> [e EXCEPT !.category = NewCategory(@)]
    [] e.kind = "add" -> [e EXCEPT !.sku = NewSKU(@), !.currency = NewCurrencyCode(@)]
    [] e.kind = "reprice" -> [e EXCEPT !.currency = NewCurrencyCode(@)]
    [] e.kind = "create" ->
         [e EXCEPT !.category = NewCategory(@),
                   !.variants = [i \in DOMAIN @ |-> [sku |-> NewSKU(@[i].sku),
                                                     currency |-> NewCurrencyCode(@[i].currency)]]]
    [] OTHER -> e

Malformed(e) ==
  \/ e.kind \in {"details", "create"} /\ e.category = None
  \/ e.kind \in {"add", "reprice"} /\ None \in {e.sku, e.currency}
  \/ e.kind = "create" /\ \E i \in DOMAIN e.variants : None \in {e.variants[i].sku, e.variants[i].currency}

\* Why a malformed command is refused: of a creation, the variants before the first
\* malformed one are added first.
MalformedRefusal(e) ==
  LET bad == {i \in DOMAIN e.variants : None \in {e.variants[i].sku, e.variants[i].currency}}
      first == CHOOSE i \in bad : \A j \in bad : i <= j
      before == WithVariants(e.product, SubSeq(e.variants, 1, first - 1)).refusal
  IN IF e.kind # "create" \/ e.category = None \/ before = "ok" THEN "invalid" ELSE before

\* What is malformed is refused before a transaction opens.
Begin(c) ==
  /\ pc[c] = "idle"
  /\ \E e \in EditsOf[c] :
       LET n == Normalised(e) IN
       IF Malformed(n) THEN Ends(c, MalformedRefusal(n))
       ELSE /\ edit'    = [edit EXCEPT ![c] = n]
            /\ started' = [started EXCEPT ![c] = IF n.kind = "create" THEN clock ELSE 0]
            /\ pc' = [pc EXCEPT ![c] = IF n.kind = "create" THEN "create" ELSE "load row"]
            /\ UNCHANGED <<outcome, base, work, fresh>>
  /\ UNCHANGED <<tables, locks, clock, browse>>

\* A product's identifier is new.
Insertable(p) == rows[p] = None /\ rowLock[p] = None

\* The row is inserted; the variants follow in the order of the command.
Create(c, p, vs) ==
  /\ rowLock' = [rowLock EXCEPT ![p] = c]
  /\ work' = [work EXCEPT ![c] = [row |-> NewProduct(edit[c], started[c]), variants |-> vs]]
  /\ fresh' = [fresh EXCEPT ![c] = [i \in DOMAIN edit[c].variants |-> edit[c].variants[i].sku]]
  /\ pc' = [pc EXCEPT ![c] = "insert variants"]
  /\ UNCHANGED <<edit, started, outcome, base>>

\* CreateProduct builds the aggregate and, if it may be built, inserts its row.
CreateProduct(c) ==
  /\ pc[c] = "create"
  /\ LET p == edit[c].product
         built == WithVariants(p, edit[c].variants)
     IN /\ Insertable(p)
        /\ IF built.refusal # "ok" THEN Ends(c, built.refusal) /\ UNCHANGED rowLock
           ELSE Create(c, p, built.variants)
  /\ UNCHANGED <<tables, skuLock, clock, browse>>

\* Bug variant: the variants are read before the row whose version guards them.
VariantsFirst(n) == IF n = 1 THEN "variants" ELSE "row"

\* FindByID reads the row, then withVariants its variants.
LoadOrder(n) == IF n = 1 THEN "row" ELSE "variants"

Load(c, part) == base' = [base EXCEPT ![c][part] = Stored(edit[c].product)[part]]

FindNothing(c) ==
  /\ pc[c] = "load row"
  /\ rows[edit[c].product] = None
  /\ Ends(c, "not found")
  /\ UNCHANGED <<tables, locks, clock, browse>>

FindRow(c) ==
  /\ pc[c] = "load row"
  /\ rows[edit[c].product] # None
  /\ Load(c, LoadOrder(1))
  /\ pc' = [pc EXCEPT ![c] = "load variants"]
  /\ UNCHANGED <<edit, started, work, fresh, tables, locks, outcome, clock, browse>>

FindVariants(c) ==
  /\ pc[c] = "load variants"
  /\ Load(c, LoadOrder(2))
  /\ pc' = [pc EXCEPT ![c] = "change"]
  /\ UNCHANGED <<edit, started, work, fresh, tables, locks, outcome, clock, browse>>

\* mutate applies the change to the aggregate; what it refuses ends the call.
Change(c) ==
  /\ pc[c] = "change"
  /\ LET why == Refusal(edit[c], base[c]) IN
     IF why # "ok" THEN Ends(c, why)
     ELSE /\ work' = [work EXCEPT ![c] = Changed(edit[c], base[c])]
          /\ pc' = [pc EXCEPT ![c] = "update row"]
          /\ UNCHANGED <<edit, started, outcome, base, fresh>>
  /\ UNCHANGED <<tables, locks, clock, browse>>

\* UPDATE products ... WHERE id = p AND version = the one that was read.
SameVersion(c) == rows[edit[c].product].version = base[c].row.version

\* The statement waits for whoever updated the row before it; no row left that
\* matches means it was modified since it was read.
UpdateProduct(c) ==
  LET p == edit[c].product IN
  /\ pc[c] = "update row"
  /\ rowLock[p] = None
  /\ IF SameVersion(c)
     THEN /\ rowLock' = [rowLock EXCEPT ![p] = c]
          /\ pc' = [pc EXCEPT ![c] = "update variants"]
          /\ UNCHANGED <<call, outcome>>
     ELSE Ends(c, "product modified") /\ UNCHANGED rowLock
  /\ UNCHANGED <<tables, skuLock, clock, browse>>

\* UPDATE variants ... WHERE id = v AND version = the one that was read.
SameVariant(c, s) == variants[s].version = base[c].variants[s].version

\* Each variant that was loaded is written, under its own version; the one that
\* was added has no created_at and is inserted after them.
UpdateVariants(c) ==
  /\ pc[c] = "update variants"
  /\ IF \A s \in DOMAIN base[c].variants : SameVariant(c, s)
     THEN /\ fresh' = [fresh EXCEPT ![c] =
                         SetToSeq(DOMAIN work[c].variants \ DOMAIN base[c].variants)]
          /\ work' = [work EXCEPT ![c] = Written(base[c], @)]
          /\ pc' = [pc EXCEPT ![c] = "insert variants"]
          /\ UNCHANGED <<edit, started, outcome, base, locks>>
     ELSE RollBack(c) /\ Ends(c, "variant modified")
  /\ UNCHANGED <<tables, clock, browse>>

\* Bug variant: the insert goes to the pool and not to the transaction.
InsertOutsideTx(c) ==
  /\ pc[c] = "insert variants" /\ fresh[c] # <<>>
  /\ LET s == Head(fresh[c]) IN
     /\ skuLock[s] = None /\ variants[s] = None
     /\ variants' = [variants EXCEPT ![s] = work[c].variants[s]]
     /\ fresh' = [fresh EXCEPT ![c] = Tail(@)]
  /\ UNCHANGED <<pc, edit, started, base, work, rows, locks, outcome, clock, browse>>

\* INSERT INTO variants: waits for whoever inserted the SKU, and is refused if
\* they committed.
InsertVariant(c) ==
  /\ pc[c] = "insert variants" /\ fresh[c] # <<>>
  /\ LET s == Head(fresh[c]) IN
     /\ skuLock[s] = None
     /\ IF variants[s] # None THEN RollBack(c) /\ Ends(c, "sku exists")
        ELSE /\ skuLock' = [skuLock EXCEPT ![s] = c]
             /\ fresh' = [fresh EXCEPT ![c] = Tail(@)]
             /\ UNCHANGED <<pc, edit, started, outcome, base, work, rowLock>>
  /\ UNCHANGED <<tables, clock, browse>>

\* Whether a row is in a browse's listing.
Matches(row, filter) ==
  /\ row # None
  /\ row.status = filter.status
  /\ filter.category # None => row.category = filter.category

\* The row and its variants become visible together.
Commit(c) ==
  LET p == edit[c].product IN
  /\ pc[c] = "insert variants" /\ fresh[c] = <<>>
  /\ rows' = [rows EXCEPT ![p] = work[c].row]
  /\ variants' = [s \in SKUs |-> IF s \in DOMAIN work[c].variants THEN work[c].variants[s]
                                                                  ELSE variants[s]]
  /\ steady' = {q \in steady : Matches(rows'[q], walk.filter)}
  /\ RollBack(c)
  /\ \E o \in {"ok", "internal"} : Ends(c, o)
  /\ UNCHANGED <<clock, walk, shown>>

\* A statement fails, the caller gives up, or the database ends a deadlock of
\* two calls that insert the same SKUs in different orders.
StatementFails(c) ==
  /\ pc[c] \notin {"idle", "done"}
  /\ RollBack(c)
  /\ Ends(c, "internal")
  /\ UNCHANGED <<tables, clock, browse>>

-----------------------------------------------------------------------------
(* A browse: pages of products in one state, newest first. *)

\* Bug variant: the cursor is compared by its time alone.
BeforeTime(p, after) == after = None \/ rows[p].created < after.created

\* (created_at, id) < the cursor.
Before(p, after) ==
  \/ after = None
  \/ rows[p].created < after.created
  \/ rows[p].created = after.created /\ p < after.id

Newer(p, q) == rows[p].created > rows[q].created \/ (rows[p].created = rows[q].created /\ p > q)

\* ORDER BY created_at DESC, id DESC
Sorted(products) ==
  CHOOSE found \in [1 .. Cardinality(products) -> products] :
    \A j, k \in DOMAIN found : j < k => Newer(found[j], found[k])

\* The rows a page is read from, cut at the limit.
ListRows(filter, after, limit) ==
  LET found == Sorted({p \in Products : Matches(rows[p], filter) /\ Before(p, after)})
  IN SubSeq(found, 1, IF Len(found) < limit THEN Len(found) ELSE limit)

\* What a client asks for, within the service's limits.
pageSize(requested) ==
  CASE requested = 0 -> DefaultPageSize
    [] requested > MaxPageSize -> MaxPageSize
    [] OTHER -> requested

\* The token that asks for what follows a product.
encodeCursor(p) == [created |-> p.row.created, id |-> p.id]

\* A token that names no position is refused; none asks for the first page.
decodeCursor(token) == token # None => token.created # None

Mangled == [created |-> None, id |-> None]

\* Products on sale are listed unless another state is asked for.
Filter(status, category) ==
  [status |-> IF status = None THEN "active" ELSE status, category |-> category]

\* A browse begins with the first page, or with a token of the client's own.
ListProducts ==
  /\ walk.at = "idle"
  /\ \E status \in AskedStatuses, category \in Categories \cup {None}, size \in AskedSizes :
       /\ walk' = [walk EXCEPT !.at = "list", !.filter = Filter(status, category), !.size = pageSize(size)]
       /\ steady' = {p \in Products : Matches(rows[p], Filter(status, category))}
  /\ UNCHANGED <<pc, call, tables, locks, outcome, clock, shown>>

\* The page token is what the last page gave, or is mangled on the way.
ListRefused ==
  /\ walk.at = "list"
  /\ \E token \in {walk.token, Mangled} : ~decodeCursor(token)
  /\ walk' = [walk EXCEPT !.at = "refused"]
  /\ UNCHANGED <<pc, call, tables, locks, outcome, clock, shown, steady>>

AsRead(p) == [id |-> p, row |-> rows[p]]

\* FindByIDs: the rows there are of these; a product that is missing is no error.
FindByIDs(ids) ==
  LET found == SetToSeq({p \in ids : rows[p] # None}) IN [i \in DOMAIN found |-> AsRead(found[i])]

\* One row more than a page holds is asked for.
List ==
  /\ walk.at = "list"
  /\ decodeCursor(walk.token)
  /\ LET page == ListRows(walk.filter, walk.token, walk.size + 1) IN
     walk' = [walk EXCEPT !.at = "variants", !.page = [i \in DOMAIN page |-> AsRead(page[i])]]
  /\ UNCHANGED <<pc, call, tables, locks, outcome, clock, shown, steady>>

\* GetProduct and GetProductsByIDs read as a page is read: the first shows a
\* product on sale only, the second products in any state, those that exist.
GetProducts ==
  /\ walk.at = "idle"
  /\ \E ids \in {{p} : p \in Products} \cup {Products} :
       walk' = [walk EXCEPT !.at = "variants", !.size = 0, !.page = FindByIDs(ids)]
  /\ UNCHANGED <<pc, call, tables, locks, outcome, clock, shown, steady>>

\* The products a read answers: rows it has read with the variants stored now.
withVariants ==
  {[id |-> walk.page[i].id, row |-> walk.page[i].row,
    variants |-> GetVariantsByProductIDs(variants, walk.page[i].id)] : i \in DOMAIN walk.page}

\* The units of a cart that can be priced: those of products on sale, in one
\* statement.
GetVariantsBySKUs(skus) ==
  {s \in skus : variants[s] # None /\ rows[variants[s].product].status = "active"}

\* The page is cut to its size and ends in a token if there was one row more; a
\* read of named products has no size and ends with its answer.
Answer ==
  /\ walk.at = "variants"
  /\ LET more == Len(walk.page) > walk.size
         page == SubSeq(walk.page, 1, IF more THEN walk.size ELSE Len(walk.page))
     IN /\ shown' = [p \in Products |->
                       shown[p] + Cardinality({i \in DOMAIN page : page[i].id = p})]
        /\ walk' = CASE walk.size = 0 -> [walk EXCEPT !.at = "idle", !.page = <<>>]
                     [] walk.size > 0 /\ more ->
                          [walk EXCEPT !.at = "list", !.page = <<>>, !.token = encodeCursor(page[walk.size])]
                     [] OTHER -> [walk EXCEPT !.at = "done", !.page = <<>>]
  /\ UNCHANGED <<pc, call, tables, locks, outcome, clock, steady>>

Tick ==
  /\ clock < MaxClock
  /\ clock' = clock + 1
  /\ UNCHANGED <<pc, call, tables, locks, outcome, browse>>

Next ==
  \/ \E c \in Calls :
       \/ Begin(c) \/ CreateProduct(c) \/ FindNothing(c) \/ FindRow(c) \/ FindVariants(c)
       \/ Change(c) \/ UpdateProduct(c) \/ UpdateVariants(c) \/ InsertVariant(c) \/ Commit(c)
       \/ StatementFails(c)
  \/ ListProducts \/ ListRefused \/ List \/ Answer \/ GetProducts
  \/ Tick

Spec == Init /\ [][Next]_vars

-----------------------------------------------------------------------------
(* Properties. *)

\* The type invariant.
TypeOK ==
  /\ rows \in [Products -> Row \cup {None}]
  /\ variants \in [SKUs -> Variant \cup {None}]
  /\ \A s \in SKUs : variants[s] # None => rows[variants[s].product] # None
  /\ rowLock \in [Products -> Calls \cup {None}]
  /\ skuLock \in [SKUs -> Calls \cup {None}]
  /\ outcome \in [Calls -> {None, "ok", "internal"} \cup Refusals \cup Conflicts]
  /\ walk.at \in {"idle", "list", "variants", "done", "refused"}
  /\ steady \subseteq Products

\* The variants of one product are priced in one currency, however edits that
\* each saw a consistent product overlap.  No constraint of the schema holds it:
\* the domain checks it against variants read after the row.
OneCurrency ==
  \A s, t \in SKUs :
    variants[s] # None /\ variants[t] # None /\ variants[s].product = variants[t].product
      => variants[s].currency = variants[t].currency

\* The version of the row guards the aggregate: an edit that passed it finds no
\* variant changed, and the variants' own versions never refuse anybody.
RowGuardsVariants == \A c \in Calls : outcome[c] # "variant modified"

\* What is stored is sound after any interleaving of edits: rows and variants
\* belong together, one currency a product, and nobody lost on a variant.
ProductsAreSound == TypeOK /\ OneCurrency /\ RowGuardsVariants

\* No edit is lost and none is half made: whenever a stored product changes, it
\* changes by one whole edit applied to what was stored until then.
EditsAreSerial ==
  [][\A p \in Products :
       rows[p] # None /\ Stored(p)' # Stored(p)
         => \E c \in Calls :
              /\ pc[c] = "insert variants" /\ edit[c].kind # "create" /\ edit[c].product = p
              /\ Refusal(edit[c], Stored(p)) = "ok"
              /\ Stored(p)' = Written(Stored(p), Changed(edit[c], Stored(p)))]_vars

\* What a shopper is shown on sale can be bought: every active product that is
\* answered has a variant, its variants have one currency, and a cart of them is
\* priced whole unless the product was archived since, though its row and its
\* variants were read at different times with edits committing in between.
ShownIsSellable ==
  walk.at = "variants" => \A x \in withVariants : x.row.status = "active" =>
    /\ DOMAIN x.variants # {}
    /\ \A s, t \in DOMAIN x.variants : x.variants[s].currency = x.variants[t].currency
    /\ rows[x.id].status = "archived" \/ GetVariantsBySKUs(DOMAIN x.variants) = DOMAIN x.variants

\* A browse shows every product that was in the listing all along exactly once, and no
\* product twice, whatever is created, published, moved or archived between its
\* pages, and with products created at the same instant on either side of a page.
WalkIsComplete ==
  /\ \A p \in Products : shown[p] <= 1
  /\ walk.at = "done" => \A p \in steady : shown[p] = 1

\* What a shopper sees is what can be bought, all of it and once.
BrowseIsTrue == ShownIsSellable /\ WalkIsComplete
=============================================================================
