------------------------------ MODULE Identity ------------------------------
(***************************************************************************)
(* The identity service: accounts, and the chains of refresh tokens that   *)
(* keep a client signed in.                                                *)
(*                                                                         *)
(* Each call is one of the four operations.  A call mints at most one      *)
(* identifier, so the call names the user it registers, the refresh token  *)
(* it issues and, for a login, the family it opens.  Statements are steps  *)
(* of their own: a rotation spends the old link and stores the new one in  *)
(* one transaction, and everything else commits statement by statement.    *)
(***************************************************************************)
EXTENDS Naturals, FiniteSets

CONSTANTS Calls,       \* the calls made (bound)
          KindsOf,     \* which of the four operations each may be
          Forms,       \* what a register or login may carry: an address and a password
          Spellings,   \* addresses as clients type them
          Address,     \* the trimmed, lowercased address of each, or None if malformed
          Passwords,
          RefreshTTL,  \* how long a chain lives
          AccessTTL,   \* how long an access token lives
          Leeway,      \* clock difference a verifier allows for
          MaxClock,    \* bound on time
          None

Kinds == {"register", "login", "refresh", "logout"}

ASSUME IdentityAssumption ==
  /\ IsFiniteSet(Calls) /\ None \notin Calls
  /\ KindsOf \in [Calls -> SUBSET Kinds]
  /\ Forms \in [Calls -> SUBSET [spelling : Spellings, password : Passwords]]
  /\ {RefreshTTL, AccessTTL} \subseteq Nat \ {0}
  /\ {Leeway, MaxClock} \subseteq Nat

VARIABLES pc,         \* the statement each call makes next
          typed,      \* the address and password a register or login carries
          presented,  \* the refresh token a refresh or logout carries
          hand,       \* what a call has in hand: the time it read, the row and
                      \* the access token it is about to hand out
          users,      \* users rows, by the call that registered them
          announced,  \* UserRegistered events in the outbox
          tokens,     \* refresh_tokens rows, by the call that issued them
          spending,   \* who holds a token's row, updated and not committed
          todo,       \* rows a family revocation has still to update
          missed,     \* history: it found a row changed under it
          outcome,    \* how a call ended
          held,       \* the access token of each pair that reached a client
          clock,
          endedAt     \* history: when a family was revoked, no row missed

request   == <<typed, presented>>
accounts  == <<users, announced>>
chain     == <<tokens, spending>>
revoking  == <<todo, missed, endedAt>>
vars == <<pc, request, accounts, chain, hand, revoking, outcome, held, clock>>

Time == 0 .. MaxClock

User   == [email : {Address[s] : s \in Spellings} \ {None}, hash : Passwords]
Token  == [family : Calls, user : Calls, expires : Nat, revoked : Time \cup {None}]
Access == [user : Calls, issued : Time, expires : Nat]
Hand   == [now : Time, token : Token \cup {None}, access : Access \cup {None}]
Empty  == [now |-> 0, token |-> None, access |-> None]

Results  == {"ok", "registered", "signed out", "email invalid", "email registered",
             "invalid credentials", "expired", "revoked", "internal"}
Outcomes == Results \cup {None}

\* None is none of them.
ASSUME NoneAssumption ==
  None \notin [spelling : Spellings, password : Passwords]
                \cup User \cup Token \cup Access \cup Time \cup Results

Steps == {"idle", "insert user", "write event", "find user", "store",
          "find to refresh", "find to log out", "sign", "spend", "store next", "commit",
          "revoke", "revoking", "done"}

\* A link that can still be spent.
Live(t) == /\ tokens[t] # None
           /\ tokens[t].revoked = None

Family(f) == {t \in Calls : tokens[t] # None /\ tokens[t].family = f}

\* The refresh tokens some client holds.
Known == {c \in Calls : held[c] # None}

Init ==
  /\ pc        = [c \in Calls |-> "idle"]
  /\ typed     = [c \in Calls |-> None]
  /\ presented = [c \in Calls |-> None]
  /\ hand      = [c \in Calls |-> Empty]
  /\ users     = [c \in Calls |-> None]
  /\ announced = {}
  /\ tokens    = [c \in Calls |-> None]
  /\ spending  = [c \in Calls |-> None]
  /\ todo      = [c \in Calls |-> {}]
  /\ missed    = [c \in Calls |-> FALSE]
  /\ outcome   = [c \in Calls |-> None]
  /\ held      = [c \in Calls |-> None]
  /\ clock     = 0
  /\ endedAt   = [f \in Calls |-> None]

-----------------------------------------------------------------------------
(* What the steps are made of. *)

\* The login identity an address is stored and looked up under.
NewEmail(s) == Address[s]

\* The hash of a password: what is stored says which password it was.
Hash(p) == p

\* Whether p is the password behind h.
VerifyPassword(h, p) == h = p

\* A user that has never been persisted.
NewUser(e, h) == [email |-> e, hash |-> h]

\* The account an address signs in to.
GetUserByEmail(e) == {u \in Calls : users[u] # None /\ users[u].email = e}

\* ... as the domain spells it.
FindByEmail(s) == GetUserByEmail(NewEmail(s))

\* INSERT INTO users: refused by UNIQUE (email).
CreateUser(u, user) ==
  /\ GetUserByEmail(user.email) = {}
  /\ users' = [users EXCEPT ![u] = user]
  /\ UNCHANGED request

\* The head of a new chain.
IssueRefreshToken(c, u, at) ==
  [family |-> c, user |-> u, expires |-> at + RefreshTTL, revoked |-> None]

\* The next link of t's chain: same family, same end.
Rotate(t, at) == [tokens[t] EXCEPT !.revoked = None]

\* Whether t can be presented at a time; expiry is asked about first.
EnsureUsable(t, at) == IF at >= tokens[t].expires THEN "expired"
                       ELSE IF tokens[t].revoked # None THEN "revoked" ELSE "ok"

\* A signed access token.
Sign(u) == [user |-> u, issued |-> clock, expires |-> clock + AccessTTL]

\* Whether any service accepts an access token now.
Verify(a) == /\ clock < a.expires + Leeway
             /\ clock + Leeway >= a.issued

\* A call that has nothing to hand out ends.
Ends(c, o) == /\ outcome' = [outcome EXCEPT ![c] = o]
              /\ pc' = [pc EXCEPT ![c] = "done"]
              /\ hand' = [hand EXCEPT ![c] = Empty]

\* A call answers with the pair it has in hand.  The answer may be lost, and then
\* nobody ever holds a token that is stored and live.
Answers(c) == /\ Ends(c, "ok")
              /\ \/ held' = [held EXCEPT ![c] = hand[c].access]
                 \/ UNCHANGED held

\* A call goes on, with nothing new in hand.
GoTo(c, step) == pc' = [pc EXCEPT ![c] = step] /\ UNCHANGED <<outcome, hand>>

-----------------------------------------------------------------------------
(* Register. *)

\* The address is checked before the password is hashed; a malformed one ends it.
CheckAddress(c, s) ==
  IF NewEmail(s) = None THEN Ends(c, "email invalid") ELSE GoTo(c, "insert user")

Register(c) ==
  /\ pc[c] = "idle" /\ "register" \in KindsOf[c]
  /\ \E form \in Forms[c] :
       /\ typed' = [typed EXCEPT ![c] = form]
       /\ CheckAddress(c, form.spelling)
  /\ UNCHANGED <<presented, accounts, chain, revoking, held, clock>>

\* The row is inserted and committed: Register opens no transaction.
InsertUser(c) ==
  /\ pc[c] = "insert user"
  /\ CreateUser(c, NewUser(NewEmail(typed[c].spelling), Hash(typed[c].password)))
  /\ GoTo(c, "write event")
  /\ UNCHANGED <<announced, chain, revoking, held, clock>>

\* The unique address refuses it.
InsertUserConflict(c) ==
  /\ pc[c] = "insert user"
  /\ FindByEmail(typed[c].spelling) # {}
  /\ Ends(c, "email registered")
  /\ UNCHANGED <<request, accounts, chain, revoking, held, clock>>

\* The event the aggregate raised is written, by a statement of its own.
WriteEvents(c) ==
  /\ pc[c] = "write event"
  /\ announced' = announced \cup {c}
  /\ Ends(c, "registered")
  /\ UNCHANGED <<request, users, chain, revoking, held, clock>>

-----------------------------------------------------------------------------
(* Login. *)

Login(c) ==
  /\ pc[c] = "idle" /\ "login" \in KindsOf[c]
  /\ \E form \in Forms[c] :
       /\ typed' = [typed EXCEPT ![c] = form]
       /\ IF NewEmail(form.spelling) = None THEN Ends(c, "invalid credentials") ELSE GoTo(c, "find user")
  /\ UNCHANGED <<presented, accounts, chain, revoking, held, clock>>

\* A pair for a user: the access token is signed before the row is stored.
issue(c, u) ==
  /\ hand' = [hand EXCEPT ![c].token = IssueRefreshToken(c, u, clock), ![c].access = Sign(u)]
  /\ pc' = [pc EXCEPT ![c] = "store"]
  /\ UNCHANGED outcome

\* The account is read and the password verified against it; nobody's address
\* and somebody's wrong password end alike.  What passes is signed and minted.
VerifyCredentials(c) ==
  /\ pc[c] = "find user"
  /\ LET found == {u \in FindByEmail(typed[c].spelling) :
                     VerifyPassword(users[u].hash, typed[c].password)}
     IN IF found = {}
        THEN Ends(c, "invalid credentials")
        ELSE \E u \in found : issue(c, u)
  /\ UNCHANGED <<request, accounts, chain, revoking, held, clock>>

\* INSERT INTO refresh_tokens.
CreateRefreshToken(rows, c) == [rows EXCEPT ![c] = hand[c].token]

\* Outside any transaction: the row is committed at once.
StoreHead(c) ==
  /\ pc[c] = "store"
  /\ tokens' = CreateRefreshToken(tokens, c)
  /\ Answers(c)
  /\ UNCHANGED <<request, accounts, spending, revoking, clock>>

-----------------------------------------------------------------------------
(* Refresh and Logout.  Whoever holds a token may present it, as often as   *)
(* they like, and anybody may present one nobody issued (None).             *)

Present(c) ==
  /\ pc[c] = "idle"
  /\ \E t \in Known \cup {None} : presented' = [presented EXCEPT ![c] = t]
  /\ hand' = [hand EXCEPT ![c].now = clock]
  /\ UNCHANGED <<typed, accounts, chain, revoking, outcome, held, clock>>

\* refresh reads the time before the token.
Refresh(c) == "refresh" \in KindsOf[c] /\ Present(c) /\ pc' = [pc EXCEPT ![c] = "find to refresh"]
Logout(c)  == "logout" \in KindsOf[c] /\ Present(c) /\ pc' = [pc EXCEPT ![c] = "find to log out"]

\* Bug variant: a token spent twice is refused and nothing more.
RefuseOnly(c, cause) == Ends(c, cause)

\* What follows a link that could not be used: only one that was spent already
\* is evidence of a second holder, and ends the family.
endChainOnReuse(c, cause) ==
  IF cause = "revoked"
  THEN /\ outcome' = [outcome EXCEPT ![c] = cause]
       /\ pc' = [pc EXCEPT ![c] = "revoke"]
       /\ UNCHANGED hand
  ELSE Ends(c, cause)

\* The row a token is found in by its hash: nobody's token hashes to none.
GetRefreshTokenByHash(t) == IF t = None THEN {} ELSE {r \in Calls : r = t /\ tokens[r] # None}

FindByHash(c) == GetRefreshTokenByHash(presented[c])

\* The token presented is looked up by its hash, and asked whether it is usable.
\* What nobody issued is answered like what was revoked.
FindToRefresh(c) ==
  /\ pc[c] = "find to refresh"
  /\ IF FindByHash(c) = {} THEN Ends(c, "revoked")
     ELSE LET cause == EnsureUsable(presented[c], hand[c].now) IN
          IF cause = "ok" THEN GoTo(c, "sign")
          ELSE endChainOnReuse(c, cause)
  /\ UNCHANGED <<request, accounts, chain, revoking, held, clock>>

\* The user is read for their roles, the successor minted, the access token signed.
SignNext(c) ==
  /\ pc[c] = "sign"
  /\ hand' = [hand EXCEPT ![c].token = Rotate(presented[c], hand[c].now),
                          ![c].access = Sign(tokens[presented[c]].user)]
  /\ pc' = [pc EXCEPT ![c] = "spend"]
  /\ UNCHANGED outcome
  /\ UNCHANGED <<request, accounts, chain, revoking, held, clock>>

\* Bug variant: the update does not ask whether the token is still live.
SpendAnything(t) == TRUE

\* UPDATE ... WHERE id = t AND revoked_at IS NULL, on the row as it is
\* once nobody holds it.
SpendRefreshToken(t) == tokens[t].revoked = None

\* The transaction opens and spends the link.  No row means another caller has
\* spent it: the transaction rolls back and the chain is ended.
Spend(c) ==
  /\ pc[c] = "spend"
  /\ spending[presented[c]] = None
  /\ IF SpendRefreshToken(presented[c])
     THEN /\ spending' = [spending EXCEPT ![presented[c]] = c]
          /\ GoTo(c, "store next")
     ELSE /\ endChainOnReuse(c, "revoked")
          /\ UNCHANGED spending
  /\ UNCHANGED <<request, accounts, tokens, revoking, held, clock>>

\* The successor is inserted, in the same transaction.
StoreNext(c) ==
  /\ pc[c] = "store next"
  /\ GoTo(c, "commit")
  /\ UNCHANGED <<request, accounts, chain, revoking, held, clock>>

\* Bug variant: the pair is answered though the transaction was rolled back.
AnswerAnyway(c) ==
  /\ pc[c] = "commit"
  /\ spending' = [spending EXCEPT ![presented[c]] = None]
  /\ Answers(c)
  /\ UNCHANGED <<request, accounts, tokens, revoking, clock>>

\* Both rows become visible.  The answer to COMMIT may be lost.
Commit(c) ==
  /\ pc[c] = "commit"
  /\ tokens' = CreateRefreshToken([tokens EXCEPT ![presented[c]].revoked = hand[c].now], c)
  /\ spending' = [spending EXCEPT ![presented[c]] = None]
  /\ Answers(c) \/ (Ends(c, "internal") /\ UNCHANGED held)
  /\ UNCHANGED <<request, accounts, revoking, clock>>

\* Logout reads only which family the token belongs to, and the time again.
FindToLogout(c) ==
  /\ pc[c] = "find to log out"
  /\ IF FindByHash(c) = {} THEN Ends(c, "signed out")
     ELSE /\ hand' = [hand EXCEPT ![c].now = clock]
          /\ outcome' = [outcome EXCEPT ![c] = "signed out"]
          /\ pc' = [pc EXCEPT ![c] = "revoke"]
  /\ UNCHANGED <<request, accounts, chain, revoking, held, clock>>

\* Bug variant: only the token presented is revoked.
OnlyPresented(f) == {t \in Family(f) : Live(t) /\ t = f}

\* UPDATE ... WHERE family_id = f AND revoked_at IS NULL: the rows its snapshot
\* matches.  A successor not yet committed is not among them.
RevokeRefreshTokenFamily(f) == {t \in Family(f) : Live(t)}

\* The statement begins.
RevokeFamily(c) ==
  /\ pc[c] = "revoke"
  /\ todo' = [todo EXCEPT ![c] = RevokeRefreshTokenFamily(tokens[presented[c]].family)]
  /\ GoTo(c, "revoking")
  /\ UNCHANGED <<request, accounts, chain, missed, endedAt, held, clock>>

\* It waits for whoever holds a row and looks at it again: one that is no
\* longer live is passed over.
RevokeRow(c) ==
  /\ pc[c] = "revoking"
  /\ \E t \in todo[c] :
       /\ spending[t] = None
       /\ todo' = [todo EXCEPT ![c] = @ \ {t}]
       /\ missed' = [missed EXCEPT ![c] = @ \/ ~Live(t)]
       /\ spending' = IF Live(t) THEN [spending EXCEPT ![t] = c] ELSE spending
  /\ UNCHANGED <<pc, hand, request, accounts, tokens, endedAt, outcome, held, clock>>

\* Every row updated is committed.
RevokeEnds(c) ==
  /\ pc[c] = "revoking" /\ todo[c] = {}
  /\ tokens' = [t \in Calls |-> IF spending[t] = c THEN [tokens[t] EXCEPT !.revoked = hand[c].now]
                                                   ELSE tokens[t]]
  /\ spending' = [t \in Calls |-> IF spending[t] = c THEN None ELSE spending[t]]
  /\ LET f == tokens[presented[c]].family IN
     endedAt' = IF missed[c] \/ endedAt[f] # None THEN endedAt
                ELSE [endedAt EXCEPT ![f] = clock]
  /\ Ends(c, outcome[c])
  /\ UNCHANGED <<request, accounts, todo, missed, held, clock>>

-----------------------------------------------------------------------------
(* Ends, failures, time. *)

Undo(c) == spending' = [t \in Calls |-> IF spending[t] = c THEN None ELSE spending[t]]

\* A statement fails, or the caller's deadline cancels it; what the transaction
\* did is rolled back.
StatementFails(c) ==
  /\ pc[c] \in Steps \ {"idle", "done"}
  /\ Undo(c)
  /\ todo' = [todo EXCEPT ![c] = {}]
  /\ Ends(c, "internal")
  /\ UNCHANGED <<request, accounts, tokens, missed, endedAt, held, clock>>

Tick ==
  /\ clock < MaxClock
  /\ clock' = clock + 1
  /\ UNCHANGED <<pc, request, accounts, chain, hand, revoking, outcome, held>>

Step(c) ==
  \/ InsertUser(c) \/ InsertUserConflict(c) \/ WriteEvents(c)
  \/ VerifyCredentials(c) \/ StoreHead(c)
  \/ FindToRefresh(c) \/ SignNext(c) \/ Spend(c) \/ StoreNext(c) \/ Commit(c)
  \/ FindToLogout(c) \/ RevokeFamily(c) \/ RevokeRow(c) \/ RevokeEnds(c)

Next ==
  \/ \E c \in Calls : Register(c) \/ Login(c) \/ Refresh(c) \/ Logout(c)
                      \/ Step(c) \/ StatementFails(c)
  \/ Tick

Spec == Init /\ [][Next]_vars

-----------------------------------------------------------------------------
(* Properties. *)

\* The type invariant.
TypeOK ==
  /\ pc \in [Calls -> Steps]
  /\ presented \in [Calls -> Calls \cup {None}]
  /\ hand \in [Calls -> Hand]
  /\ users \in [Calls -> User \cup {None}]
  /\ announced \subseteq Calls
  /\ tokens \in [Calls -> Token \cup {None}]
  /\ spending \in [Calls -> Calls \cup {None}]
  /\ todo \in [Calls -> SUBSET Calls]
  /\ missed \in [Calls -> BOOLEAN]
  /\ outcome \in [Calls -> Outcomes]
  /\ held \in [Calls -> Access \cup {None}]
  /\ clock \in Time
  /\ endedAt \in [Calls -> Time \cup {None}]

\* Two people cannot own one mailbox: however two registrations spell an address
\* and however they interleave, one account has it (Register reads nothing first
\* and leaves it to the constraint, which sees only what NewEmail normalised).
OneAccountPerAddress ==
  \A u, v \in Calls :
    users[u] # None /\ users[v] # None /\ Address[typed[u].spelling] = Address[typed[v].spelling]
      => u = v

\* A chain never forks: a link is exchanged for one successor at most and a
\* family has at most one live link, however many callers present the same
\* token at once (the guarded UPDATE behind SessionService.refresh).
NeverForks ==
  /\ \A c, d \in Calls :
       /\ tokens[c] # None /\ tokens[d] # None
       /\ presented[c] # None /\ presented[c] = presented[d]
       => c = d
  /\ \A c, d \in Calls :
       Live(c) /\ Live(d) /\ tokens[c].family = tokens[d].family => c = d

\* A revocation that found no row changed under it is final: a rotation that had
\* read its link before, and finishes after, does not bring the session back.
EndedStaysEnded ==
  \A f \in Calls : endedAt[f] # None => \A t \in Family(f) : ~Live(t)

\* A token presented twice, by whoever, ends its chain by the time both were
\* answered, unless the revocation raced a rotation of the newest link.
ReuseEndsChain ==
  \A c, d \in Calls :
    /\ c # d /\ pc[c] = "done" /\ pc[d] = "done"
    /\ presented[c] # None /\ presented[c] = presented[d]
    /\ {outcome[c], outcome[d]} \subseteq {"ok", "revoked"}
    => LET f == tokens[presented[c]].family IN
       \/ endedAt[f] # None
       \/ \E r \in Calls : /\ missed[r] /\ presented[r] # None
                           /\ tokens[presented[r]].family = f

\* Every link of a chain belongs to the account whose password opened it, and
\* ends when the login said it would: refreshing for ever does not extend it.
ChainsAreOwned ==
  \A t \in Calls : tokens[t] # None =>
    LET head == tokens[t].family
        owner == tokens[t].user
    IN /\ tokens[head] # None /\ typed[head] # None
       /\ tokens[t].expires = tokens[head].expires
       /\ tokens[head].user = owner
       /\ users[owner].hash = typed[head].password
       /\ users[owner].email = Address[typed[head].spelling]

\* Access tokens cannot be revoked, only waited for: once a family is ended,
\* nothing it handed out is accepted anywhere for longer than one access TTL and
\* the verifier's leeway.
EndedWithinOneTTL ==
  \A c \in Known :
    LET f == tokens[c].family IN
    endedAt[f] # None /\ Verify(held[c]) => clock < endedAt[f] + AccessTTL + Leeway

\* What a client holds was committed: a pair is answered only when its refresh
\* token is a row, and a registration only when its event is.
AnsweredIsStored ==
  /\ \A c \in Known : tokens[c] # None
  /\ \A c \in Calls : outcome[c] = "registered" => c \in announced /\ users[c] # None

\* Rotations and revocations never wait for each other in a circle: who waits
\* for a row holds none (a family's UPDATE locks its rows one after the other,
\* in no stated order).
WaitersHoldNothing ==
  \A c \in Calls :
    (pc[c] = "revoking" /\ \E t \in todo[c] : spending[t] # None)
      => \A t \in Calls : spending[t] # c

\* Accounts and chains are sound whatever races: one account an address, chains
\* that never fork and have one owner, and nobody waiting in a circle.
ChainsAreSound ==
  TypeOK /\ OneAccountPerAddress /\ NeverForks /\ ChainsAreOwned /\ WaitersHoldNothing

\* A session that ended is over: no link of it comes to life again, and what it
\* handed out dies with its time.
EndedIsOver == EndedStaysEnded /\ EndedWithinOneTTL
=============================================================================
