-------------------------------- MODULE Api --------------------------------
(***************************************************************************)
(* The gRPC methods of the five services, the REST routes of bff-web and   *)
(* the calls the services make of each other, and what an error becomes on *)
(* its way out: a kind, a code, a status.                                  *)
(*                                                                         *)
(* A method is what the path of a request tells apart: whether its name    *)
(* has a read-only prefix, whether it has an effect, what the handler      *)
(* makes of a repeat of it, and whose call it has to be.                   *)
(***************************************************************************)
EXTENDS Naturals

CONSTANTS Users,              \* users with a valid token
          Owner,              \* the one the objects asked about belong to
          IdempotentMethods,  \* names the clients are configured to repeat
          Timeout             \* the clients' Config.Timeout

ASSUME ApiAssumption == Owner \in Users /\ Timeout \in Nat

\* A method whose name begins with a read-only prefix.
Read(service, name, for) ==
  [service |-> service, name |-> name, reads |-> TRUE, effect |-> FALSE,
   again |-> "repeats", for |-> for]

\* A method with an effect.  A second one like it is refused, answered with the
\* first one's result, or has its effect again.
Write(service, name, again, for) ==
  [service |-> service, name |-> name, reads |-> FALSE, effect |-> TRUE,
   again |-> again, for |-> for]

Register      == Write("identity", "Register", "refuses", "anyone")
GetUser       == Read("identity", "GetUser", "anyone")
GetUsersByIDs == Read("identity", "GetUsersByIDs", "anyone")
Login         == Write("identity", "Login", "repeats", "anyone")
\* A second presentation of a token is refused and ends its family.
RefreshToken  == Write("identity", "RefreshToken", "repeats", "anyone")
Logout        == Write("identity", "Logout", "replays", "anyone")

IdentityMethods == {Register, GetUser, GetUsersByIDs, Login, RefreshToken, Logout}

GetProduct        == Read("catalog", "GetProduct", "anyone")
GetProductsByIDs  == Read("catalog", "GetProductsByIDs", "anyone")
GetVariantsBySKUs == Read("catalog", "GetVariantsBySKUs", "anyone")
ListProducts      == Read("catalog", "ListProducts", "anyone")
CreateProduct     == Write("catalog", "CreateProduct", "refuses", "anyone")
UpdateProduct     == Write("catalog", "UpdateProduct", "replays", "anyone")
AddVariant        == Write("catalog", "AddVariant", "refuses", "anyone")
UpdateVariant     == Write("catalog", "UpdateVariant", "replays", "anyone")
PublishProduct    == Write("catalog", "PublishProduct", "replays", "anyone")
ArchiveProduct    == Write("catalog", "ArchiveProduct", "replays", "anyone")

CatalogMethods ==
  {GetProduct, GetProductsByIDs, GetVariantsBySKUs, ListProducts, CreateProduct, UpdateProduct,
   AddVariant, UpdateVariant, PublishProduct, ArchiveProduct}

GetStockBySKUs     == Read("inventory", "GetStockBySKUs", "anyone")
CreateStockItem    == Write("inventory", "CreateStockItem", "refuses", "anyone")
AdjustStock        == Write("inventory", "AdjustStock", "repeats", "anyone")
GetReservation     == Read("inventory", "GetReservation", "anyone")
ReserveStock       == Write("inventory", "ReserveStock", "replays", "anyone")
CommitReservation  == Write("inventory", "CommitReservation", "replays", "anyone")
ReleaseReservation == Write("inventory", "ReleaseReservation", "replays", "anyone")

InventoryMethods ==
  {GetStockBySKUs, CreateStockItem, AdjustStock, GetReservation, ReserveStock,
   CommitReservation, ReleaseReservation}

\* An order and its payments are the caller's own.
Checkout   == Write("order", "Checkout", "replays", "caller")
GetOrder   == Read("order", "GetOrder", "owner")
ListOrders == Read("order", "ListOrders", "caller")

OrderMethods == {Checkout, GetOrder, ListOrders}

InitiatePayment        == Write("payment", "InitiatePayment", "replays", "owner")
GetPayment             == Read("payment", "GetPayment", "owner")
GetPaymentsByOrderIDs  == Read("payment", "GetPaymentsByOrderIDs", "caller")
HandleProviderCallback == Write("payment", "HandleProviderCallback", "replays", "anyone")

PaymentMethods == {InitiatePayment, GetPayment, GetPaymentsByOrderIDs, HandleProviderCallback}

Methods ==
  IdentityMethods \cup CatalogMethods \cup InventoryMethods \cup OrderMethods \cup PaymentMethods

\* What the clients are configured to repeat is safe to.
ASSUME RepeatsAssumption ==
  \A m \in Methods : m.effect /\ m.name \in IdempotentMethods => m.again = "replays"

\* Bug variant: a method is repeated unless it is known to be unsafe.
repeatable(m) == m.name \notin {"Checkout", "InitiatePayment"}

idempotent(m) == m.reads \/ m.name \in IdempotentMethods
-----------------------------------------------------------------------------
(* Routes of bff-web, and calls the services make of each other.           *)

\* `budget' is whether the caller's context has a deadline already.
Route(method, public, optional, budget) ==
  [method |-> method, public |-> public, optional |-> optional, budget |-> budget]
Public(method)        == Route(method, TRUE, FALSE, TRUE)
Authenticated(method) == Route(method, FALSE, FALSE, TRUE)
Background(method)    == Route(method, TRUE, FALSE, FALSE)

register              == Public(Register)
login                 == Public(Login)
refresh               == Public(RefreshToken)
logout                == Public(Logout)
listProducts          == Public(ListProducts)
getProduct            == Public(GetProduct)
availableBySKU        == Route(GetStockBySKUs, TRUE, TRUE, TRUE)
handleProviderWebhook == Public(HandleProviderCallback)
me                    == Authenticated(GetUser)
checkout              == Authenticated(Checkout)
listOrders            == Authenticated(ListOrders)
getOrder              == Authenticated(GetOrder)
startPayment          == Authenticated(InitiatePayment)

\* The order service's calls in a checkout, the worker's, the payment service's.
reserve    == Public(ReserveStock)
commit     == Background(CommitReservation)
release    == Background(ReleaseReservation)
quotePrice == Public(GetVariantsBySKUs)
findOrder  == Public(GetOrder)

\* Methods nobody in the system calls yet: an operator does.
ByHand == {Background(m) : m \in Methods}

Routes ==
  {register, login, refresh, logout, listProducts, getProduct, availableBySKU,
   handleProviderWebhook, me, checkout, listOrders, getOrder, startPayment,
   reserve, commit, release, quotePrice, findOrder} \cup ByHand

\* Bug variant: a call has the deadline it came with.
deadlineInherited(r) == r.budget

\* Whether a call has a deadline in the end.
deadlineUnary(r) == r.budget \/ Timeout > 0

\* A request: what it asks, the user its token names, if it has a good one, and
\* how its form fares: it fits, the edge refuses it, or only the service does.
Requests ==
  [route : Routes, user : Users \cup {"none"}, form : {"fits", "misfit", "odd"}]

\* Authenticate, then Bind: what the edge answers without a call.
EdgeCode(r) ==
  IF ~r.route.public /\ r.user = "none" THEN "Unauthenticated"
  ELSE IF r.form = "misfit" THEN "InvalidArgument"
  ELSE "OK"
-----------------------------------------------------------------------------
(* Errors.                                                                 *)

Kinds == {"NotFound", "InvalidInput", "Conflict", "Unauthenticated", "Unauthorized", "Internal"}

codeForKind ==
  [k \in Kinds |->
     CASE k = "InvalidInput" -> "InvalidArgument"
       [] k = "Conflict"     -> "FailedPrecondition"
       [] k = "Unauthorized" -> "PermissionDenied"
       [] OTHER              -> k]

HTTPStatus(code_) ==
  CASE code_ = "OK"                 -> 200
    [] code_ = "NotFound"           -> 404
    [] code_ = "InvalidArgument"    -> 400
    [] code_ = "FailedPrecondition" -> 409
    [] code_ = "PermissionDenied"   -> 403
    [] code_ = "Unauthenticated"    -> 401
    [] code_ = "Unavailable"        -> 503
    [] code_ = "DeadlineExceeded"   -> 504
    [] code_ = "Canceled"           -> 499
    [] OTHER                        -> 500
=============================================================================
