--------------------------- MODULE IdentityProofs ---------------------------
(***************************************************************************)
(* One account per address, chains of refresh tokens that never fork and   *)
(* end when they should, for every number of calls, whatever they carry,   *)
(* and every pair of lifetimes.                                            *)
(***************************************************************************)
EXTENDS Identity, TLAPS

AnyForm == [spelling : Spellings, password : Passwords]
FamilyOf(c) == tokens[presented[c]].family

\* How far a call has come tells what it has stored.
Begun(c) ==
  /\ pc[c] # "done" => tokens[c] = None /\ held[c] = None
  /\ pc[c] \in {"idle", "insert user"} => users[c] = None
  /\ pc[c] = "idle" => typed[c] = None /\ presented[c] = None
  /\ pc[c] \notin {"revoke", "revoking", "done"} => outcome[c] = None
  /\ pc[c] \in {"revoke", "revoking"} => outcome[c] \in {"revoked", "signed out"}
  /\ pc[c] \in {"insert user", "find user", "store"} => typed[c] # None /\ presented[c] = None
  /\ pc[c] = "insert user" => Address[typed[c].spelling] # None
  /\ pc[c] = "write event" => users[c] # None
  /\ presented[c] # None => tokens[presented[c]] # None
  /\ pc[c] \in {"sign", "spend", "store next", "commit", "revoke", "revoking"} => presented[c] # None

GoodAccess(a) == a.issued <= clock /\ a.expires = a.issued + AccessTTL

\* Who opened the chain this row heads.
OpenedBy(row, c) ==
  /\ users[row.user] # None
  /\ users[row.user].hash = typed[c].password
  /\ users[row.user].email = Address[typed[c].spelling]

\* What a call is about to store: the head of its own chain, or the successor of
\* the link it presented, which it holds from the moment it has spent it.
InHand(c) ==
  /\ hand[c].access # None => GoodAccess(hand[c].access)
  /\ pc[c] \in {"store", "spend", "store next", "commit"} =>
       hand[c].token # None /\ hand[c].access # None /\ hand[c].token.revoked = None
  /\ pc[c] = "store" => hand[c].token.family = c /\ OpenedBy(hand[c].token, c)
  /\ pc[c] \in {"spend", "store next", "commit"} =>
       /\ hand[c].token.family = FamilyOf(c)
       /\ hand[c].token.user = tokens[presented[c]].user
       /\ hand[c].token.expires = tokens[presented[c]].expires
  /\ pc[c] \in {"store next", "commit"} => spending[presented[c]] = c

\* A family's UPDATE has at most the one live link to update.  Until it is known to
\* have missed something, what is still live is before it, in its hands, or was
\* exchanged for its successor since.
Revoking(c) ==
  pc[c] = "revoking" =>
    /\ \A t \in todo[c] : tokens[t] # None
    /\ \A t, u \in todo[c] : t = u
    /\ ~missed[c] => \A t \in Family(FamilyOf(c)) : Live(t) =>
         t \in todo[c] \/ spending[t] = c \/ \E p \in todo[c] : ~Live(p)

\* What a call that has ended, or is about to, leaves behind.
Over(c) ==
  /\ outcome[c] = "ok" /\ presented[c] # None => tokens[c] # None
  /\ pc[c] = "done" /\ outcome[c] = "revoked" /\ presented[c] # None =>
       endedAt[FamilyOf(c)] # None \/ missed[c]

\* A client holds the access token that was signed before its family ended.
Holds(c) ==
  held[c] # None =>
    /\ tokens[c] # None
    /\ GoodAccess(held[c])
    /\ endedAt[tokens[c].family] # None => held[c].issued <= endedAt[tokens[c].family]

CallOK(c) == Begun(c) /\ InHand(c) /\ Revoking(c) /\ Over(c) /\ Holds(c)

\* An account is the one its registration asked for, and no other has its address.
AccountsAreSound ==
  /\ \A u \in Calls : users[u] # None => typed[u] # None /\ users[u].email = Address[typed[u].spelling]
  /\ \A u, v \in Calls : users[u] # None /\ users[v] # None /\ users[u].email = users[v].email => u = v
  /\ \A c \in Calls : outcome[c] = "registered" => c \in announced /\ users[c] # None

\* A row that somebody holds is live, and held for an open transaction.
RowsAreHeld ==
  \A t \in Calls : spending[t] # None =>
    /\ Live(t)
    /\ \/ pc[spending[t]] \in {"store next", "commit"} /\ presented[spending[t]] = t
       \/ pc[spending[t]] = "revoking" /\ todo[spending[t]] = {}

\* A chain has a head, an owner and an end, and a link with a successor is spent.
LinksAreSound ==
  \A t \in Calls : tokens[t] # None =>
    /\ tokens[tokens[t].family] # None /\ typed[tokens[t].family] # None
    /\ tokens[t].expires = tokens[tokens[t].family].expires
    /\ tokens[tokens[t].family].user = tokens[t].user
    /\ OpenedBy(tokens[t], tokens[t].family)
    /\ presented[t] # None => tokens[presented[t]].revoked # None

EndedHaveHeads == \A f \in Calls : endedAt[f] # None => tokens[f] # None

IdentityInv ==
  /\ TypeOK
  /\ typed \in [Calls -> AnyForm \cup {None}]
  /\ \A c \in Calls : CallOK(c)
  /\ AccountsAreSound
  /\ RowsAreHeld
  /\ LinksAreSound
  /\ NeverForks
  /\ EndedHaveHeads
  /\ EndedStaysEnded
-----------------------------------------------------------------------------
(* Initial states, and steps that change no row.                           *)

\* None is not the name of a result.
LEMMA NoneNames == None \notin {"ok", "registered", "revoked", "signed out"}
BY NoneAssumption DEF NoneAssumption, Results

\* An empty hand is one.
LEMMA EmptyHand == 0 \in Time /\ Empty \in Hand /\ Empty.access = None
<1>1. 0 \in Time
  BY IdentityAssumption DEF IdentityAssumption, Time
<1> QED BY <1>1 DEF Empty, Hand

\* Nothing is stored, held or ended yet.
LEMMA InitIdentity == Init => IdentityInv
<1> SUFFICES ASSUME Init PROVE IdentityInv
  OBVIOUS
<1>1. /\ pc = [c \in Calls |-> "idle"] /\ typed = [c \in Calls |-> None]
      /\ presented = [c \in Calls |-> None] /\ hand = [c \in Calls |-> Empty]
      /\ users = [c \in Calls |-> None] /\ announced = {} /\ tokens = [c \in Calls |-> None]
      /\ spending = [c \in Calls |-> None] /\ todo = [c \in Calls |-> {}]
      /\ missed = [c \in Calls |-> FALSE] /\ outcome = [c \in Calls |-> None]
      /\ held = [c \in Calls |-> None] /\ clock = 0 /\ endedAt = [f \in Calls |-> None]
  BY DEF Init
<1>2. 0 \in Time
  BY EmptyHand
<1>3. Empty \in Hand /\ Empty.access = None
  BY EmptyHand
<1>4. TypeOK /\ typed \in [Calls -> AnyForm \cup {None}]
  BY <1>1, <1>2, <1>3 DEF TypeOK, Steps, Outcomes
<1>5. ASSUME NEW c \in Calls PROVE CallOK(c)
  <2>1. /\ pc[c] = "idle" /\ typed[c] = None /\ presented[c] = None /\ hand[c].access = None
        /\ users[c] = None /\ tokens[c] = None /\ outcome[c] = None /\ held[c] = None
    BY <1>1, <1>3
  <2> QED BY <2>1 DEF CallOK, Begun, InHand, Revoking, Over, Holds
<1>6. AccountsAreSound /\ RowsAreHeld /\ LinksAreSound /\ EndedHaveHeads /\ EndedStaysEnded
  <2>1. \A c \in Calls : outcome[c] # "registered"
    <3>1. None # "registered"
      BY NoneAssumption DEF NoneAssumption, Results
    <3> QED BY <1>1, <3>1
  <2> QED BY <1>1, <2>1 DEF AccountsAreSound, RowsAreHeld, LinksAreSound, EndedHaveHeads, EndedStaysEnded
<1>7. NeverForks
  BY <1>1 DEF NeverForks, Live
<1> QED BY <1>4, <1>5, <1>6, <1>7 DEF IdentityInv

\* A step of one call that changes no row, holds none and gives none up: the call
\* alone has to be looked at.
LEMMA QuietStep ==
  ASSUME IdentityInv, NEW c \in Calls, NEW to \in Steps,
         pc' = [pc EXCEPT ![c] = to], pc[c] # "done",
         UNCHANGED <<users, announced, tokens, held, clock, endedAt, missed, spending>>,
         typed' \in [Calls -> AnyForm \cup {None}], presented' \in [Calls -> Calls \cup {None}],
         hand' \in [Calls -> Hand], outcome' \in [Calls -> Outcomes],
         todo' \in [Calls -> SUBSET Calls],
         \A d \in Calls : d # c => /\ typed'[d] = typed[d] /\ presented'[d] = presented[d]
                                   /\ hand'[d] = hand[d] /\ outcome'[d] = outcome[d]
                                   /\ todo'[d] = todo[d],
         pc[c] = "idle" \/ (typed'[c] = typed[c] /\ presented'[c] = presented[c]),
         pc[c] \notin {"store next", "commit", "revoking"} \/ (pc[c] = "store next" /\ to = "commit"),
         outcome'[c] # "registered",
         CallOK(c)'
  PROVE  IdentityInv'
<1>1. /\ users' = users /\ announced' = announced /\ tokens' = tokens /\ held' = held
      /\ clock' = clock /\ endedAt' = endedAt /\ missed' = missed /\ spending' = spending
  OBVIOUS
<1>2. pc' \in [Calls -> Steps] /\ pc'[c] = to /\ \A d \in Calls : d # c => pc'[d] = pc[d]
  BY DEF IdentityInv, TypeOK
<1>3. TypeOK'
  BY <1>1, <1>2 DEF IdentityInv, TypeOK
<1>L. (\A t \in Calls : Live(t)' <=> Live(t)) /\ (\A f : Family(f)' = Family(f))
  BY <1>1 DEF Live, Family
<1>4. ASSUME NEW d \in Calls PROVE CallOK(d)'
  <2> SUFFICES ASSUME d # c PROVE CallOK(d)'
    OBVIOUS
  <2>1. /\ pc'[d] = pc[d] /\ typed'[d] = typed[d] /\ presented'[d] = presented[d]
        /\ hand'[d] = hand[d] /\ outcome'[d] = outcome[d] /\ todo'[d] = todo[d]
    BY <1>2
  <2>2. CallOK(d)
    BY DEF IdentityInv
  <2>3. Begun(d)' /\ Over(d)' /\ Holds(d)'
    BY <1>1, <2>1, <2>2 DEF CallOK, Begun, Over, Holds, GoodAccess, FamilyOf
  <2>4. InHand(d)'
    BY <1>1, <2>1, <2>2 DEF CallOK, InHand, GoodAccess, FamilyOf, OpenedBy
  <2>5. Revoking(d)'
    <3>1. Revoking(d)
      BY <2>2 DEF CallOK
    <3>2. todo[d] \subseteq Calls /\ \A g : Family(g) \subseteq Calls
      BY DEF IdentityInv, TypeOK, Family
    <3>3. FamilyOf(d)' = FamilyOf(d)
      BY <1>1, <2>1 DEF FamilyOf
    <3> QED BY <1>1, <1>L, <2>1, <3>1, <3>2, <3>3 DEF Revoking
  <2> QED BY <2>3, <2>4, <2>5 DEF CallOK
<1>5. tokens[c] = None /\ (pc[c] = "idle" => users[c] = None)
  BY DEF IdentityInv, CallOK, Begun
<1>6. \A u \in Calls : users[u] # None \/ tokens[u] # None => typed'[u] = typed[u]
  BY <1>5
<1>7. \A u \in Calls : tokens[u] # None => presented'[u] = presented[u]
  BY <1>5
<1>8. AccountsAreSound'
  <2>1. \A d \in Calls : outcome'[d] = "registered" => outcome[d] = "registered"
    OBVIOUS
  <2>2. \A u \in Calls : users[u] # None => typed'[u] # None /\ users[u].email = Address[typed'[u].spelling]
    BY <1>6 DEF IdentityInv, AccountsAreSound
  <2>3. \A u, v \in Calls : users[u] # None /\ users[v] # None /\ users[u].email = users[v].email => u = v
    BY DEF IdentityInv, AccountsAreSound
  <2>4. \A d \in Calls : outcome'[d] = "registered" => d \in announced /\ users[d] # None
    BY <2>1 DEF IdentityInv, AccountsAreSound
  <2>5. \A u \in Calls : users'[u] # None => typed'[u] # None /\ users'[u].email = Address[typed'[u].spelling]
    BY <1>1, <2>2
  <2>6. \A u, v \in Calls : users'[u] # None /\ users'[v] # None /\ users'[u].email = users'[v].email => u = v
    <3> SUFFICES ASSUME NEW u \in Calls, NEW v \in Calls, users'[u] # None, users'[v] # None,
                        users'[u].email = users'[v].email
                 PROVE  u = v
      OBVIOUS
    <3>1. users[u] # None /\ users[v] # None /\ users[u].email = users[v].email
      BY <1>1
    <3> QED BY <3>1, <2>3
  <2>7. \A d \in Calls : outcome'[d] = "registered" => d \in announced' /\ users'[d] # None
    BY <1>1, <2>4
  <2> QED BY <2>5, <2>6, <2>7 DEF AccountsAreSound
<1>9. RowsAreHeld'
  <2> SUFFICES ASSUME NEW t \in Calls, spending[t] # None
               PROVE  /\ Live(t)'
                      /\ \/ pc'[spending[t]] \in {"store next", "commit"} /\ presented'[spending[t]] = t
                         \/ pc'[spending[t]] = "revoking" /\ todo'[spending[t]] = {}
    BY <1>1 DEF RowsAreHeld
  <2>1. spending[t] \in Calls
    BY DEF IdentityInv, TypeOK
  <2>2. /\ Live(t)
        /\ \/ pc[spending[t]] \in {"store next", "commit"} /\ presented[spending[t]] = t
           \/ pc[spending[t]] = "revoking" /\ todo[spending[t]] = {}
    BY DEF IdentityInv, RowsAreHeld
  <2>3. Live(t)'
    BY <1>1, <2>2 DEF Live
  <2>4. CASE spending[t] = c
    BY <1>2, <2>2, <2>3, <2>4
  <2>5. CASE spending[t] # c
    BY <1>2, <2>1, <2>2, <2>3, <2>5
  <2> QED BY <2>4, <2>5
<1>10. LinksAreSound'
  <2> SUFFICES ASSUME NEW t \in Calls, tokens[t] # None
               PROVE  /\ tokens[tokens[t].family] # None /\ typed'[tokens[t].family] # None
                      /\ tokens[t].expires = tokens[tokens[t].family].expires
                      /\ tokens[tokens[t].family].user = tokens[t].user
                      /\ OpenedBy(tokens[t], tokens[t].family)'
                      /\ presented'[t] # None => tokens[presented'[t]].revoked # None
    BY <1>1 DEF LinksAreSound
  <2>1. tokens[t].family \in Calls
    BY DEF IdentityInv, TypeOK, Token
  <2>2. /\ tokens[tokens[t].family] # None /\ typed[tokens[t].family] # None
        /\ tokens[t].expires = tokens[tokens[t].family].expires
        /\ tokens[tokens[t].family].user = tokens[t].user
        /\ OpenedBy(tokens[t], tokens[t].family)
        /\ presented[t] # None => tokens[presented[t]].revoked # None
    BY DEF IdentityInv, LinksAreSound
  <2> QED BY <1>1, <1>6, <1>7, <2>1, <2>2 DEF OpenedBy
<1>11. NeverForks'
  <2>1. \A u, v \in Calls :
          /\ tokens[u] # None /\ tokens[v] # None
          /\ presented'[u] # None /\ presented'[u] = presented'[v]
          => u = v
    <3> SUFFICES ASSUME NEW u \in Calls, NEW v \in Calls, tokens[u] # None, tokens[v] # None,
                        presented'[u] # None, presented'[u] = presented'[v]
                 PROVE  u = v
      OBVIOUS
    <3>1. presented'[u] = presented[u] /\ presented'[v] = presented[v]
      BY <1>7
    <3> QED BY <3>1 DEF IdentityInv, NeverForks
  <2>2. \A u, v \in Calls : Live(u)' /\ Live(v)' /\ tokens[u].family = tokens[v].family => u = v
    BY <1>L DEF IdentityInv, NeverForks
  <2>3. \A u, v \in Calls :
          /\ tokens'[u] # None /\ tokens'[v] # None
          /\ presented'[u] # None /\ presented'[u] = presented'[v]
          => u = v
    <3> SUFFICES ASSUME NEW u \in Calls, NEW v \in Calls, tokens'[u] # None, tokens'[v] # None,
                        presented'[u] # None, presented'[u] = presented'[v]
                 PROVE  u = v
      OBVIOUS
    <3> QED BY <1>1, <2>1
  <2>4. \A u, v \in Calls : Live(u)' /\ Live(v)' /\ tokens'[u].family = tokens'[v].family => u = v
    <3> SUFFICES ASSUME NEW u \in Calls, NEW v \in Calls, Live(u)', Live(v)',
                        tokens'[u].family = tokens'[v].family
                 PROVE  u = v
      OBVIOUS
    <3> QED BY <1>1, <2>2
  <2> QED BY <2>3, <2>4 DEF NeverForks
<1>12. EndedHaveHeads' /\ EndedStaysEnded'
  <2>1. \A f \in Calls : endedAt[f] # None => \A t \in Family(f) : ~Live(t)
    BY DEF IdentityInv, EndedStaysEnded
  <2>2. \A f \in Calls : Family(f) \subseteq Calls
    BY DEF Family
  <2> QED BY <1>1, <1>L, <2>1, <2>2 DEF IdentityInv, EndedHaveHeads, EndedStaysEnded
<1> QED BY <1>3, <1>4, <1>8, <1>9, <1>10, <1>11, <1>12 DEF IdentityInv

\* A call that has nothing to hand out ends, or goes on with nothing new in hand.
LEMMA EndsQuietly ==
  ASSUME IdentityInv, NEW c \in Calls, NEW o \in Outcomes, NEW to \in Steps,
         pc[c] \notin {"store next", "commit", "revoke", "revoking", "done"},
         UNCHANGED <<accounts, chain, revoking, held, clock>>,
         typed' \in [Calls -> AnyForm \cup {None}], presented' \in [Calls -> Calls \cup {None}],
         \A d \in Calls : d # c => typed'[d] = typed[d] /\ presented'[d] = presented[d],
         pc[c] = "idle" \/ (typed'[c] = typed[c] /\ presented'[c] = presented[c]),
         presented'[c] # None => tokens[presented'[c]] # None,
         \/ /\ Ends(c, o) /\ o \notin {"ok", "registered"}
            /\ o = "revoked" => presented'[c] = None
         \/ /\ GoTo(c, to)
            /\ \/ to \in {"insert user", "find user"} /\ pc[c] = "idle" /\ typed'[c] # None
                    /\ presented'[c] = None /\ Address[typed'[c].spelling] # None
               \/ to = "sign" /\ presented'[c] # None
  PROVE  IdentityInv'
<1>1. /\ users' = users /\ announced' = announced /\ tokens' = tokens /\ held' = held
      /\ clock' = clock /\ endedAt' = endedAt /\ missed' = missed /\ spending' = spending /\ todo' = todo
  BY DEF accounts, chain, revoking
<1>2. /\ pc \in [Calls -> Steps] /\ hand \in [Calls -> Hand] /\ outcome \in [Calls -> Outcomes]
      /\ todo \in [Calls -> SUBSET Calls] /\ "done" \in Steps
  BY DEF IdentityInv, TypeOK, Steps
<1>3. CallOK(c)
  BY DEF IdentityInv
<1>e. Empty \in Hand /\ Empty.access = None
  BY EmptyHand
<1>n. None \notin {"ok", "registered", "revoked"}
  BY NoneNames
<1>4. CASE Ends(c, o) /\ o \notin {"ok", "registered"} /\ (o = "revoked" => presented'[c] = None)
  <2>1. /\ pc' = [pc EXCEPT ![c] = "done"] /\ hand' = [hand EXCEPT ![c] = Empty]
        /\ outcome' = [outcome EXCEPT ![c] = o]
    BY <1>4 DEF Ends
  <2>2. pc'[c] = "done" /\ hand'[c] = Empty /\ outcome'[c] = o
    BY <1>2, <2>1
  <2>3. Begun(c)' /\ InHand(c)' /\ Revoking(c)'
    BY <1>1, <1>e, <2>2 DEF Begun, InHand, Revoking
  <2>4. Over(c)' /\ Holds(c)'
    BY <1>1, <1>3, <1>4, <2>2 DEF CallOK, Begun, Over, Holds
  <2> QED BY <1>1, <1>2, <1>e, <1>4, <2>1, <2>2, <2>3, <2>4, QuietStep DEF CallOK
<1>5. CASE /\ GoTo(c, to)
           /\ \/ to \in {"insert user", "find user"} /\ pc[c] = "idle" /\ typed'[c] # None
                   /\ presented'[c] = None /\ Address[typed'[c].spelling] # None
              \/ to = "sign" /\ presented'[c] # None
  <2>1. pc' = [pc EXCEPT ![c] = to] /\ hand' = hand /\ outcome' = outcome
    BY <1>5 DEF GoTo
  <2>2. pc'[c] = to /\ to \in {"insert user", "find user", "sign"}
    BY <1>2, <1>5, <2>1
  <2>o. outcome[c] \notin {"ok", "registered", "revoked"}
    BY <1>3, <1>5, <1>n DEF CallOK, Begun
  <2>3. Begun(c)'
    <3>1. tokens'[c] = None /\ held'[c] = None /\ outcome'[c] = None
      BY <1>1, <1>3, <2>1 DEF CallOK, Begun
    <3>2. presented'[c] # None => tokens'[presented'[c]] # None
      BY <1>1
    <3>3. CASE to = "sign"
      BY <1>5, <2>2, <3>1, <3>2, <3>3 DEF Begun
    <3>4. CASE to \in {"insert user", "find user"}
      <4>1. pc[c] = "idle" /\ typed'[c] # None /\ presented'[c] = None /\ Address[typed'[c].spelling] # None
        BY <1>5, <3>4
      <4>2. users'[c] = None
        BY <1>1, <1>3, <4>1 DEF CallOK, Begun
      <4> QED BY <2>2, <3>1, <3>4, <4>1, <4>2 DEF Begun
    <3> QED BY <2>2, <3>3, <3>4
  <2>4. InHand(c)' /\ Revoking(c)'
    BY <1>1, <1>3, <2>1, <2>2 DEF CallOK, InHand, Revoking, GoodAccess
  <2>5. Over(c)' /\ Holds(c)'
    BY <1>1, <1>3, <2>1, <2>2, <2>o DEF CallOK, Begun, Over, Holds
  <2> QED BY <1>1, <1>2, <2>1, <2>2, <2>o, <2>3, <2>4, <2>5, QuietStep DEF CallOK
<1> QED BY <1>4, <1>5

\* Noting the time leaves what is in hand.
LEMMA HandNotes ==
  ASSUME hand \in [Calls -> Hand], NEW c \in Calls, NEW at \in Time, hand' = [hand EXCEPT ![c].now = at]
  PROVE  /\ hand' \in [Calls -> Hand] /\ hand'[c].now = at /\ hand'[c].access = hand[c].access
         /\ \A d \in Calls : d # c => hand'[d] = hand[d]
<1> DEFINE new == [hand[c] EXCEPT !.now = at]
<1>1. new \in Hand /\ new.now = at /\ new.access = hand[c].access
  BY DEF Hand
<1>2. hand' = [hand EXCEPT ![c] = new]
  OBVIOUS
<1> HIDE DEF new
<1> QED BY <1>1, <1>2

\* A call that has found its link spent, or is to log out, turns to ending the chain.
LEMMA TurnsToRevoke ==
  ASSUME IdentityInv, NEW c \in Calls, NEW o \in {"revoked", "signed out"}, NEW at \in Time,
         pc[c] \in {"find to refresh", "find to log out", "spend"}, presented[c] # None,
         pc' = [pc EXCEPT ![c] = "revoke"], outcome' = [outcome EXCEPT ![c] = o],
         hand' = hand \/ hand' = [hand EXCEPT ![c].now = at],
         UNCHANGED <<request, accounts, chain, revoking, held, clock>>
  PROVE  IdentityInv'
<1>1. /\ users' = users /\ announced' = announced /\ tokens' = tokens /\ held' = held
      /\ clock' = clock /\ endedAt' = endedAt /\ missed' = missed /\ spending' = spending /\ todo' = todo
      /\ typed' = typed /\ presented' = presented
  BY DEF request, accounts, chain, revoking
<1>2. /\ pc \in [Calls -> Steps] /\ hand \in [Calls -> Hand] /\ outcome \in [Calls -> Outcomes]
      /\ todo \in [Calls -> SUBSET Calls] /\ presented \in [Calls -> Calls \cup {None}]
      /\ typed \in [Calls -> AnyForm \cup {None}] /\ "revoke" \in Steps /\ o \in Outcomes
  BY DEF IdentityInv, TypeOK, Steps, Outcomes, Results
<1>3. CallOK(c)
  BY DEF IdentityInv
<1>4. /\ hand' \in [Calls -> Hand] /\ hand'[c].access = hand[c].access
      /\ \A d \in Calls : d # c => hand'[d] = hand[d]
  BY <1>2, HandNotes
<1>5. pc'[c] = "revoke" /\ outcome'[c] = o /\ o \notin {"ok", "registered"}
  BY <1>2
<1>6. Begun(c)' /\ InHand(c)'
  <2>1. Begun(c)'
    BY <1>1, <1>3, <1>5 DEF CallOK, Begun
  <2>2. InHand(c)'
    BY <1>1, <1>3, <1>4, <1>5 DEF CallOK, InHand, GoodAccess
  <2> QED BY <2>1, <2>2
<1>7. Revoking(c)' /\ Over(c)' /\ Holds(c)'
  BY <1>1, <1>3, <1>5 DEF CallOK, Begun, Revoking, Over, Holds
<1> QED BY <1>1, <1>2, <1>4, <1>5, <1>6, <1>7, QuietStep DEF CallOK
-----------------------------------------------------------------------------
(* Register and Login, up to the row.                                      *)

\* What is typed is checked before anything else.
LEMMA EntryPreserves ==
  ASSUME IdentityInv, NEW c \in Calls, Register(c) \/ Login(c)
  PROVE  IdentityInv'
<1>1. PICK form \in Forms[c], o \in {"email invalid", "invalid credentials"},
           to \in {"insert user", "find user"} :
        /\ pc[c] = "idle" /\ typed' = [typed EXCEPT ![c] = form]
        /\ \/ Ends(c, o)
           \/ Address[form.spelling] # None /\ GoTo(c, to)
  <2>1. CASE Register(c)
    BY <2>1 DEF Register, CheckAddress, NewEmail
  <2>2. CASE Login(c)
    BY <2>2 DEF Login, NewEmail
  <2> QED BY <2>1, <2>2
<1>2. presented' = presented /\ UNCHANGED <<accounts, chain, revoking, held, clock>>
  BY DEF Register, Login
<1>3. form \in AnyForm /\ form # None
  <2>1. Forms[c] \subseteq AnyForm
    BY IdentityAssumption DEF IdentityAssumption, AnyForm
  <2>2. None \notin AnyForm
    BY NoneAssumption DEF NoneAssumption, AnyForm
  <2> QED BY <2>1, <2>2
<1>4. presented[c] = None /\ typed \in [Calls -> AnyForm \cup {None}] /\ presented \in [Calls -> Calls \cup {None}]
  BY <1>1 DEF IdentityInv, CallOK, Begun, TypeOK
<1>5. /\ typed' \in [Calls -> AnyForm \cup {None}] /\ typed'[c] = form
      /\ \A d \in Calls : d # c => typed'[d] = typed[d]
  BY <1>1, <1>3, <1>4
<1>6. o \in Outcomes /\ to \in Steps
  BY DEF Outcomes, Results, Steps
<1> QED BY <1>1, <1>2, <1>3, <1>4, <1>5, <1>6, EndsQuietly

\* The constraint refuses a second account for an address.
LEMMA ConflictPreserves ==
  ASSUME IdentityInv, NEW c \in Calls, InsertUserConflict(c)
  PROVE  IdentityInv'
<1>1. /\ pc[c] = "insert user" /\ Ends(c, "email registered")
      /\ typed' = typed /\ presented' = presented /\ UNCHANGED <<accounts, chain, revoking, held, clock>>
  BY DEF InsertUserConflict, request
<1>2. /\ presented[c] = None /\ typed \in [Calls -> AnyForm \cup {None}]
      /\ presented \in [Calls -> Calls \cup {None}]
  BY <1>1 DEF IdentityInv, CallOK, Begun, TypeOK
<1>3. "email registered" \in Outcomes /\ "sign" \in Steps
  BY DEF Outcomes, Results, Steps
<1> QED BY <1>1, <1>2, <1>3, EndsQuietly

\* An access token is signed now and lives for its TTL.
LEMMA SignIsGood ==
  ASSUME IdentityInv, NEW u \in Calls
  PROVE  Sign(u) \in Access /\ Sign(u) # None /\ GoodAccess(Sign(u))
<1>1. clock \in Time /\ clock \in Nat /\ AccessTTL \in Nat
  BY IdentityAssumption DEF IdentityInv, TypeOK, IdentityAssumption, Time
<1>2. Sign(u) \in Access /\ GoodAccess(Sign(u))
  BY <1>1 DEF Sign, Access, GoodAccess
<1> QED BY <1>2, NoneAssumption DEF NoneAssumption

\* Credentials that verify are answered with a chain of the account they belong to.
LEMMA VerifyPreserves ==
  ASSUME IdentityInv, NEW c \in Calls, VerifyCredentials(c)
  PROVE  IdentityInv'
<1>1. /\ pc[c] = "find user"
      /\ typed' = typed /\ presented' = presented /\ UNCHANGED <<accounts, chain, revoking, held, clock>>
      /\ users' = users /\ announced' = announced /\ tokens' = tokens /\ held' = held
      /\ clock' = clock /\ endedAt' = endedAt /\ missed' = missed /\ spending' = spending /\ todo' = todo
  BY DEF VerifyCredentials, request, accounts, chain, revoking
<1>2. /\ presented[c] = None /\ typed \in [Calls -> AnyForm \cup {None}]
      /\ presented \in [Calls -> Calls \cup {None}]
      /\ pc \in [Calls -> Steps] /\ hand \in [Calls -> Hand] /\ outcome \in [Calls -> Outcomes]
      /\ todo \in [Calls -> SUBSET Calls]
  BY <1>1 DEF IdentityInv, CallOK, Begun, TypeOK
<1>3. CASE Ends(c, "invalid credentials")
  <2>1. "invalid credentials" \in Outcomes /\ "sign" \in Steps
    BY DEF Outcomes, Results, Steps
  <2> QED BY <1>1, <1>2, <1>3, <2>1, EndsQuietly
<1>4. CASE ~Ends(c, "invalid credentials")
  <2>1. PICK u \in Calls :
          /\ users[u] # None /\ users[u].email = Address[typed[c].spelling]
          /\ users[u].hash = typed[c].password /\ issue(c, u)
    BY <1>4 DEF VerifyCredentials, FindByEmail, GetUserByEmail, NewEmail, VerifyPassword
  <2>2. PICK row \in Token, access \in Access :
          /\ row.family = c /\ row.user = u /\ row.revoked = None /\ row # None
          /\ access # None /\ GoodAccess(access)
          /\ hand' = [hand EXCEPT ![c].token = row, ![c].access = access]
    <3>1. clock \in Nat /\ RefreshTTL \in Nat
      BY IdentityAssumption DEF IdentityInv, TypeOK, IdentityAssumption, Time
    <3>2. /\ IssueRefreshToken(c, u, clock) \in Token
          /\ IssueRefreshToken(c, u, clock).family = c /\ IssueRefreshToken(c, u, clock).user = u
          /\ IssueRefreshToken(c, u, clock).revoked = None
      BY <3>1 DEF IssueRefreshToken, Token
    <3>3. IssueRefreshToken(c, u, clock) # None
      BY <3>2, NoneAssumption DEF NoneAssumption
    <3> QED BY <2>1, <3>2, <3>3, SignIsGood DEF issue
  <2>3. pc' = [pc EXCEPT ![c] = "store"] /\ outcome' = outcome
    BY <2>1 DEF issue
  <2>4. /\ hand' \in [Calls -> Hand] /\ hand'[c].token = row /\ hand'[c].access = access
        /\ \A d \in Calls : d # c => hand'[d] = hand[d]
    <3> DEFINE new == [hand[c] EXCEPT !.token = row, !.access = access]
    <3>1. hand[c] \in Hand
      BY <1>2
    <3>2. new \in Hand /\ new.token = row /\ new.access = access
      BY ONLY <3>1, row \in Token, access \in Access DEF Hand
    <3>3. hand' = [hand EXCEPT ![c] = new]
      BY <2>2
    <3> HIDE DEF new
    <3> QED BY <1>2, <3>2, <3>3
  <2>5. pc'[c] = "store" /\ "store" \in Steps
    BY <1>2, <2>3 DEF Steps
  <2>6. CallOK(c)
    BY DEF IdentityInv
  <2>7. Begun(c)' /\ Revoking(c)' /\ Over(c)' /\ Holds(c)'
    BY <1>1, <1>2, <2>3, <2>5, <2>6 DEF CallOK, Begun, Revoking, Over, Holds
  <2>8. InHand(c)'
    <3>1. OpenedBy(row, c)'
      BY <1>1, <2>1, <2>2 DEF OpenedBy
    <3>2. GoodAccess(access)'
      BY <1>1, <2>2 DEF GoodAccess
    <3> QED BY <2>2, <2>4, <2>5, <3>1, <3>2 DEF InHand
  <2>9. outcome[c] # "registered"
    BY <1>1, <2>6, NoneNames DEF CallOK, Begun
  <2> QED BY <1>1, <1>2, <2>3, <2>4, <2>5, <2>7, <2>8, <2>9, QuietStep DEF CallOK
<1> QED BY <1>3, <1>4
-----------------------------------------------------------------------------
(* Refresh and Logout, up to the transaction.                              *)

\* Only what a client holds is presented, and what a client holds is a row.
LEMMA PresentPreserves ==
  ASSUME IdentityInv, NEW c \in Calls, Refresh(c) \/ Logout(c)
  PROVE  IdentityInv'
<1>1. PICK t \in Known \cup {None}, to \in {"find to refresh", "find to log out"} :
        /\ presented' = [presented EXCEPT ![c] = t] /\ pc' = [pc EXCEPT ![c] = to]
  BY DEF Refresh, Logout, Present
<1>2. /\ pc[c] = "idle" /\ hand' = [hand EXCEPT ![c].now = clock]
      /\ users' = users /\ announced' = announced /\ tokens' = tokens /\ held' = held
      /\ clock' = clock /\ endedAt' = endedAt /\ missed' = missed /\ spending' = spending /\ todo' = todo
      /\ typed' = typed /\ outcome' = outcome
  BY DEF Refresh, Logout, Present, accounts, chain, revoking
<1>3. /\ pc \in [Calls -> Steps] /\ hand \in [Calls -> Hand] /\ outcome \in [Calls -> Outcomes]
      /\ todo \in [Calls -> SUBSET Calls] /\ presented \in [Calls -> Calls \cup {None}]
      /\ typed \in [Calls -> AnyForm \cup {None}] /\ clock \in Time /\ to \in Steps
  BY DEF IdentityInv, TypeOK, Steps
<1>4. t \in Calls \cup {None} /\ (t # None => tokens[t] # None)
  <2>1. \A d \in Calls : held[d] # None => tokens[d] # None
    BY DEF IdentityInv, CallOK, Holds
  <2> QED BY <1>1, <2>1 DEF Known
<1>5. /\ presented' \in [Calls -> Calls \cup {None}] /\ presented'[c] = t /\ pc'[c] = to
      /\ \A d \in Calls : d # c => presented'[d] = presented[d]
  BY <1>1, <1>3, <1>4
<1>6. /\ hand' \in [Calls -> Hand] /\ hand'[c].access = hand[c].access
      /\ \A d \in Calls : d # c => hand'[d] = hand[d]
  BY <1>2, <1>3, HandNotes
<1>7. CallOK(c)
  BY DEF IdentityInv
<1>8. Begun(c)' /\ InHand(c)'
  <2>1. Begun(c)'
    BY <1>1, <1>2, <1>4, <1>5, <1>7 DEF CallOK, Begun
  <2>2. InHand(c)'
    BY <1>1, <1>2, <1>5, <1>6, <1>7 DEF CallOK, InHand, GoodAccess
  <2> QED BY <2>1, <2>2
<1>9. outcome[c] \notin {"ok", "registered"}
  BY <1>2, <1>7, NoneNames DEF CallOK, Begun
<1>10. Revoking(c)' /\ Over(c)' /\ Holds(c)'
  <2>1. held'[c] = None /\ outcome'[c] # "ok" /\ pc'[c] \notin {"revoking", "done"}
    BY <1>1, <1>2, <1>5, <1>7, <1>9 DEF CallOK, Begun
  <2> QED BY <2>1 DEF Revoking, Over, Holds
<1> QED BY <1>1, <1>2, <1>3, <1>5, <1>6, <1>8, <1>9, <1>10, QuietStep DEF CallOK

\* What is presented is looked up: nobody's is answered, a spent one ends its chain,
\* and a live one goes on.
LEMMA FindPreserves ==
  ASSUME IdentityInv, NEW c \in Calls, FindToRefresh(c) \/ FindToLogout(c)
  PROVE  IdentityInv'
<1>1. /\ pc[c] \in {"find to refresh", "find to log out"} /\ typed' = typed /\ presented' = presented
      /\ UNCHANGED <<request, accounts, chain, revoking, held, clock>>
  BY DEF FindToRefresh, FindToLogout, request
<1>2. /\ typed \in [Calls -> AnyForm \cup {None}] /\ presented \in [Calls -> Calls \cup {None}]
      /\ clock \in Time /\ (presented[c] # None => tokens[presented[c]] # None)
  BY DEF IdentityInv, TypeOK, CallOK, Begun
<1>3. FindByHash(c) = {} <=> presented[c] = None
  BY <1>2 DEF FindByHash, GetRefreshTokenByHash
<1>4. {"revoked", "expired", "signed out"} \subseteq Outcomes /\ "sign" \in Steps
  BY DEF Outcomes, Results, Steps
<1>5. \/ Ends(c, "revoked") /\ presented[c] = None
      \/ Ends(c, "expired") \/ Ends(c, "signed out")
      \/ GoTo(c, "sign") /\ presented[c] # None
      \/ /\ presented[c] # None /\ pc' = [pc EXCEPT ![c] = "revoke"]
         /\ \E o \in {"revoked", "signed out"} : outcome' = [outcome EXCEPT ![c] = o]
         /\ hand' = hand \/ hand' = [hand EXCEPT ![c].now = clock]
  BY <1>3 DEF FindToRefresh, FindToLogout, EnsureUsable, endChainOnReuse
<1>6. CASE Ends(c, "revoked") /\ presented[c] = None
  BY <1>1, <1>2, <1>4, <1>6, EndsQuietly
<1>7. CASE Ends(c, "expired") \/ Ends(c, "signed out")
  BY <1>1, <1>2, <1>4, <1>7, EndsQuietly
<1>8. CASE GoTo(c, "sign") /\ presented[c] # None
  BY <1>1, <1>2, <1>4, <1>8, EndsQuietly
<1>9. CASE /\ presented[c] # None /\ pc' = [pc EXCEPT ![c] = "revoke"]
           /\ \E o \in {"revoked", "signed out"} : outcome' = [outcome EXCEPT ![c] = o]
           /\ hand' = hand \/ hand' = [hand EXCEPT ![c].now = clock]
  BY <1>1, <1>2, <1>9, TurnsToRevoke
<1> QED BY <1>5, <1>6, <1>7, <1>8, <1>9

\* The successor is minted of the link that was found: its family, owner and end.
LEMMA SignPreserves ==
  ASSUME IdentityInv, NEW c \in Calls, SignNext(c)
  PROVE  IdentityInv'
<1>1. /\ pc[c] = "sign" /\ pc' = [pc EXCEPT ![c] = "spend"]
      /\ users' = users /\ announced' = announced /\ tokens' = tokens /\ held' = held
      /\ clock' = clock /\ endedAt' = endedAt /\ missed' = missed /\ spending' = spending /\ todo' = todo
      /\ typed' = typed /\ presented' = presented /\ outcome' = outcome
  BY DEF SignNext, request, accounts, chain, revoking
<1>2. /\ pc \in [Calls -> Steps] /\ hand \in [Calls -> Hand] /\ outcome \in [Calls -> Outcomes]
      /\ todo \in [Calls -> SUBSET Calls] /\ presented \in [Calls -> Calls \cup {None}]
      /\ typed \in [Calls -> AnyForm \cup {None}] /\ "spend" \in Steps
      /\ tokens \in [Calls -> Token \cup {None}]
  BY DEF IdentityInv, TypeOK, Steps
<1>3. CallOK(c)
  BY DEF IdentityInv
<1>4. PICK link \in Token : link = tokens[presented[c]] /\ presented[c] \in Calls /\ presented[c] # None
  BY <1>1, <1>2, <1>3 DEF CallOK, Begun
<1>5. PICK row \in Token, access \in Access :
        /\ row.family = link.family /\ row.user = link.user /\ row.expires = link.expires
        /\ row.revoked = None /\ row # None
        /\ access # None /\ GoodAccess(access)
        /\ hand' = [hand EXCEPT ![c].token = row, ![c].access = access]
  <2>1. /\ Rotate(presented[c], hand[c].now) \in Token
        /\ Rotate(presented[c], hand[c].now).family = link.family
        /\ Rotate(presented[c], hand[c].now).user = link.user
        /\ Rotate(presented[c], hand[c].now).expires = link.expires
        /\ Rotate(presented[c], hand[c].now).revoked = None
    BY <1>4 DEF Rotate, Token
  <2>2. Rotate(presented[c], hand[c].now) # None
    BY <2>1, NoneAssumption DEF NoneAssumption
  <2>3. link.user \in Calls
    BY DEF Token
  <2> QED BY <1>4, <2>1, <2>2, <2>3, SignIsGood DEF SignNext
<1>6. /\ hand' \in [Calls -> Hand] /\ hand'[c].token = row /\ hand'[c].access = access
      /\ \A d \in Calls : d # c => hand'[d] = hand[d]
  <2> DEFINE new == [hand[c] EXCEPT !.token = row, !.access = access]
  <2>1. hand[c] \in Hand
    BY <1>2
  <2>2. new \in Hand /\ new.token = row /\ new.access = access
    BY ONLY <2>1, row \in Token, access \in Access DEF Hand
  <2>3. hand' = [hand EXCEPT ![c] = new]
    BY <1>5
  <2> HIDE DEF new
  <2> QED BY <1>2, <2>2, <2>3
<1>7. pc'[c] = "spend"
  BY <1>1, <1>2
<1>8. Begun(c)' /\ Revoking(c)' /\ Over(c)' /\ Holds(c)'
  <2>1. Begun(c)'
    BY <1>1, <1>3, <1>4, <1>7 DEF CallOK, Begun
  <2>2. held'[c] = None /\ outcome'[c] # "ok"
    BY <1>1, <1>3, NoneNames DEF CallOK, Begun
  <2> QED BY <1>7, <2>1, <2>2 DEF Revoking, Over, Holds
<1>9. InHand(c)'
  <2>1. GoodAccess(access)'
    BY <1>1, <1>5 DEF GoodAccess
  <2> QED BY <1>1, <1>4, <1>5, <1>6, <1>7, <2>1 DEF InHand, FamilyOf
<1>10. outcome[c] # "registered"
  BY <1>1, <1>3, NoneNames DEF CallOK, Begun
<1> QED BY <1>1, <1>2, <1>6, <1>7, <1>8, <1>9, <1>10, QuietStep DEF CallOK

\* The insert of the successor is seen by nobody before the commit.
LEMMA StoreNextPreserves ==
  ASSUME IdentityInv, NEW c \in Calls, StoreNext(c)
  PROVE  IdentityInv'
<1>1. /\ pc[c] = "store next" /\ pc' = [pc EXCEPT ![c] = "commit"]
      /\ users' = users /\ announced' = announced /\ tokens' = tokens /\ held' = held
      /\ clock' = clock /\ endedAt' = endedAt /\ missed' = missed /\ spending' = spending /\ todo' = todo
      /\ typed' = typed /\ presented' = presented /\ outcome' = outcome /\ hand' = hand
  BY DEF StoreNext, GoTo, request, accounts, chain, revoking
<1>2. /\ pc \in [Calls -> Steps] /\ hand \in [Calls -> Hand] /\ outcome \in [Calls -> Outcomes]
      /\ todo \in [Calls -> SUBSET Calls] /\ presented \in [Calls -> Calls \cup {None}]
      /\ typed \in [Calls -> AnyForm \cup {None}] /\ "commit" \in Steps
  BY DEF IdentityInv, TypeOK, Steps
<1>3. CallOK(c)
  BY DEF IdentityInv
<1>4. pc'[c] = "commit"
  BY <1>1, <1>2
<1>5. Begun(c)'
  BY <1>1, <1>3, <1>4 DEF CallOK, Begun
<1>6. InHand(c)'
  BY <1>1, <1>3, <1>4 DEF CallOK, InHand, GoodAccess, FamilyOf
<1>7. outcome[c] \notin {"ok", "registered"} /\ held[c] = None
  BY <1>1, <1>3, NoneNames DEF CallOK, Begun
<1>8. Revoking(c)' /\ Over(c)' /\ Holds(c)'
  BY <1>1, <1>4, <1>7 DEF Revoking, Over, Holds
<1> QED BY <1>1, <1>2, <1>4, <1>5, <1>6, <1>7, <1>8, QuietStep DEF CallOK
-----------------------------------------------------------------------------
(* Steps that hold rows, or let them go, and store none.                   *)

\* What depends on the rows alone stands when no row changes.
LEMMA SameRows ==
  ASSUME IdentityInv, NEW c \in Calls,
         UNCHANGED <<users, tokens, held, clock, endedAt, typed, presented>>,
         announced \subseteq announced',
         \A d \in Calls : outcome'[d] = "registered" =>
           outcome[d] = "registered" \/ (d \in announced' /\ users[d] # None),
         \A d \in Calls : d # c => /\ pc'[d] = pc[d] /\ hand'[d] = hand[d] /\ outcome'[d] = outcome[d]
                                   /\ todo'[d] = todo[d] /\ missed'[d] = missed[d],
         \A x \in Calls : spending[x] # None /\ spending[x] # c => spending'[x] = spending[x]
  PROVE  /\ AccountsAreSound' /\ LinksAreSound' /\ NeverForks' /\ EndedHaveHeads' /\ EndedStaysEnded'
         /\ \A d \in Calls : d # c => CallOK(d)'
         /\ (\A x \in Calls : Live(x)' <=> Live(x)) /\ (\A f : Family(f)' = Family(f))
<1>1. /\ users' = users /\ tokens' = tokens /\ held' = held /\ clock' = clock /\ endedAt' = endedAt
      /\ typed' = typed /\ presented' = presented
  OBVIOUS
<1>L. (\A x \in Calls : Live(x)' <=> Live(x)) /\ (\A f : Family(f)' = Family(f))
  BY <1>1 DEF Live, Family
<1>2. ASSUME NEW d \in Calls, d # c PROVE CallOK(d)'
  <2>1. /\ pc'[d] = pc[d] /\ hand'[d] = hand[d] /\ outcome'[d] = outcome[d] /\ todo'[d] = todo[d]
        /\ missed'[d] = missed[d]
    BY <1>2
  <2>2. CallOK(d)
    BY DEF IdentityInv
  <2>3. \A x \in Calls : spending[x] = d => spending'[x] = d
    BY <1>2, IdentityAssumption DEF IdentityAssumption
  <2>4. Begun(d)' /\ Over(d)' /\ Holds(d)'
    BY <1>1, <2>1, <2>2 DEF CallOK, Begun, Over, Holds, GoodAccess, FamilyOf
  <2>5. InHand(d)'
    <3>1. InHand(d) /\ (pc[d] \in {"store next", "commit"} => presented[d] # None)
      BY <2>2 DEF CallOK, Begun
    <3>2. presented[d] \in Calls \cup {None}
      BY DEF IdentityInv, TypeOK
    <3> QED BY <1>1, <2>1, <2>3, <3>1, <3>2 DEF InHand, GoodAccess, FamilyOf, OpenedBy
  <2>6. Revoking(d)'
    <3>1. Revoking(d)
      BY <2>2 DEF CallOK
    <3>2. todo[d] \subseteq Calls /\ \A g : Family(g) \subseteq Calls
      BY DEF IdentityInv, TypeOK, Family
    <3>3. FamilyOf(d)' = FamilyOf(d)
      BY <1>1 DEF FamilyOf
    <3> QED BY <1>1, <1>L, <2>1, <2>3, <3>1, <3>2, <3>3 DEF Revoking
  <2> QED BY <2>4, <2>5, <2>6 DEF CallOK
<1>3. AccountsAreSound'
  <2>1. \A u \in Calls : users'[u] # None => typed'[u] # None /\ users'[u].email = Address[typed'[u].spelling]
    BY <1>1 DEF IdentityInv, AccountsAreSound
  <2>2. \A u, v \in Calls : users'[u] # None /\ users'[v] # None /\ users'[u].email = users'[v].email => u = v
    <3> SUFFICES ASSUME NEW u \in Calls, NEW v \in Calls, users'[u] # None, users'[v] # None,
                        users'[u].email = users'[v].email
                 PROVE  u = v
      OBVIOUS
    <3>1. users[u] # None /\ users[v] # None /\ users[u].email = users[v].email
      BY <1>1
    <3> QED BY <3>1 DEF IdentityInv, AccountsAreSound
  <2>3. \A d \in Calls : outcome'[d] = "registered" => d \in announced' /\ users'[d] # None
    BY <1>1 DEF IdentityInv, AccountsAreSound
  <2> QED BY <2>1, <2>2, <2>3 DEF AccountsAreSound
<1>4. LinksAreSound'
  BY <1>1 DEF IdentityInv, LinksAreSound, OpenedBy
<1>5. NeverForks'
  <2>1. \A u, v \in Calls :
          /\ tokens'[u] # None /\ tokens'[v] # None
          /\ presented'[u] # None /\ presented'[u] = presented'[v]
          => u = v
    <3> SUFFICES ASSUME NEW u \in Calls, NEW v \in Calls, tokens'[u] # None, tokens'[v] # None,
                        presented'[u] # None, presented'[u] = presented'[v]
                 PROVE  u = v
      OBVIOUS
    <3>1. tokens[u] # None /\ tokens[v] # None /\ presented[u] # None /\ presented[u] = presented[v]
      BY <1>1
    <3> QED BY <3>1 DEF IdentityInv, NeverForks
  <2>2. \A u, v \in Calls : Live(u)' /\ Live(v)' /\ tokens'[u].family = tokens'[v].family => u = v
    <3> SUFFICES ASSUME NEW u \in Calls, NEW v \in Calls, Live(u)', Live(v)',
                        tokens'[u].family = tokens'[v].family
                 PROVE  u = v
      OBVIOUS
    <3>1. Live(u) /\ Live(v) /\ tokens[u].family = tokens[v].family
      BY <1>1, <1>L
    <3> QED BY <3>1 DEF IdentityInv, NeverForks
  <2> QED BY <2>1, <2>2 DEF NeverForks
<1>6. EndedHaveHeads' /\ EndedStaysEnded'
  <2>1. \A f \in Calls : Family(f) \subseteq Calls
    BY DEF Family
  <2> QED BY <1>1, <1>L, <2>1 DEF IdentityInv, EndedHaveHeads, EndedStaysEnded
<1> QED BY <1>L, <1>2, <1>3, <1>4, <1>5, <1>6

\* The link is spent by one caller, and whoever comes after it ends the chain.
LEMMA SpendPreserves ==
  ASSUME IdentityInv, NEW c \in Calls, Spend(c)
  PROVE  IdentityInv'
<1>1. /\ pc[c] = "spend" /\ spending[presented[c]] = None
      /\ users' = users /\ announced' = announced /\ tokens' = tokens /\ held' = held
      /\ clock' = clock /\ endedAt' = endedAt /\ missed' = missed /\ todo' = todo
      /\ typed' = typed /\ presented' = presented
  BY DEF Spend, request, accounts, revoking
<1>2. /\ pc \in [Calls -> Steps] /\ hand \in [Calls -> Hand] /\ outcome \in [Calls -> Outcomes]
      /\ presented \in [Calls -> Calls \cup {None}] /\ spending \in [Calls -> Calls \cup {None}]
      /\ "store next" \in Steps /\ None \notin Calls /\ clock \in Time
  BY IdentityAssumption DEF IdentityAssumption, IdentityInv, TypeOK, Steps
<1>3. CallOK(c)
  BY DEF IdentityInv
<1>4. PICK t \in Calls : t = presented[c] /\ tokens[t] # None /\ t # None
  BY <1>1, <1>2, <1>3 DEF CallOK, Begun
<1>5. CASE ~SpendRefreshToken(presented[c])
  BY <1>1, <1>2, <1>4, <1>5, TurnsToRevoke DEF Spend, endChainOnReuse, request, accounts, chain, revoking
<1>6. CASE SpendRefreshToken(presented[c])
  <2>1. /\ spending' = [spending EXCEPT ![t] = c] /\ pc' = [pc EXCEPT ![c] = "store next"]
        /\ outcome' = outcome /\ hand' = hand
    BY <1>4, <1>6 DEF Spend, GoTo
  <2>2. /\ pc'[c] = "store next" /\ \A d \in Calls : d # c => pc'[d] = pc[d]
        /\ spending'[t] = c /\ \A x \in Calls : x # t => spending'[x] = spending[x]
    BY <1>2, <2>1
  <2>3. /\ AccountsAreSound' /\ LinksAreSound' /\ NeverForks' /\ EndedHaveHeads' /\ EndedStaysEnded'
        /\ \A d \in Calls : d # c => CallOK(d)'
        /\ (\A x \in Calls : Live(x)' <=> Live(x))
    <3>1. \A x \in Calls : spending[x] # None /\ spending[x] # c => spending'[x] = spending[x]
      BY <1>1, <1>4, <2>2
    <3> QED BY <1>1, <2>1, <2>2, <3>1, SameRows
  <2>4. Live(t)'
    BY <1>1, <1>4, <1>6 DEF Live, SpendRefreshToken
  <2>5. RowsAreHeld'
    <3> SUFFICES ASSUME NEW x \in Calls, spending'[x] # None
                 PROVE  /\ Live(x)'
                        /\ \/ pc'[spending'[x]] \in {"store next", "commit"} /\ presented'[spending'[x]] = x
                           \/ pc'[spending'[x]] = "revoking" /\ todo'[spending'[x]] = {}
      BY DEF RowsAreHeld
    <3>1. CASE x = t
      BY <1>1, <1>4, <2>2, <2>4, <3>1
    <3>2. CASE x # t
      <4>1. PICK d \in Calls : d = spending[x] /\ spending'[x] = d
        BY <1>2, <2>2, <3>2
      <4>2. /\ Live(x)
            /\ \/ pc[d] \in {"store next", "commit"} /\ presented[d] = x
               \/ pc[d] = "revoking" /\ todo[d] = {}
        BY <1>2, <4>1 DEF IdentityInv, RowsAreHeld
      <4>3. d # c
        BY <1>1, <4>2
      <4> QED BY <1>1, <2>2, <2>3, <4>1, <4>2, <4>3
    <3> QED BY <3>1, <3>2
  <2>6. CallOK(c)'
    <3>1. Begun(c)'
      BY <1>1, <1>3, <2>1, <2>2 DEF CallOK, Begun
    <3>2. InHand(c)'
      BY <1>1, <1>3, <1>4, <2>1, <2>2 DEF CallOK, InHand, GoodAccess, FamilyOf
    <3>3. held'[c] = None /\ outcome'[c] # "ok"
      BY <1>1, <1>3, <2>1, NoneNames DEF CallOK, Begun
    <3> QED BY <2>2, <3>1, <3>2, <3>3 DEF CallOK, Revoking, Over, Holds
  <2>7. TypeOK'
    <3>1. pc' \in [Calls -> Steps] /\ spending' \in [Calls -> Calls \cup {None}]
      BY <1>2, <2>1
    <3> QED BY <1>1, <2>1, <3>1 DEF IdentityInv, TypeOK
  <2> QED BY <1>1, <2>3, <2>5, <2>6, <2>7 DEF IdentityInv
<1> QED BY <1>5, <1>6

\* A family's UPDATE begins with the one live link its snapshot has, if any.
LEMMA RevokeFamilyPreserves ==
  ASSUME IdentityInv, NEW c \in Calls, RevokeFamily(c)
  PROVE  IdentityInv'
<1>1. /\ pc[c] = "revoke" /\ pc' = [pc EXCEPT ![c] = "revoking"]
      /\ users' = users /\ announced' = announced /\ tokens' = tokens /\ held' = held
      /\ clock' = clock /\ endedAt' = endedAt /\ missed' = missed /\ spending' = spending
      /\ typed' = typed /\ presented' = presented /\ outcome' = outcome /\ hand' = hand
      /\ todo' = [todo EXCEPT ![c] = {x \in Family(FamilyOf(c)) : Live(x)}]
  BY DEF RevokeFamily, GoTo, RevokeRefreshTokenFamily, FamilyOf, request, accounts, chain
<1>2. /\ pc \in [Calls -> Steps] /\ todo \in [Calls -> SUBSET Calls]
      /\ spending \in [Calls -> Calls \cup {None}] /\ "revoking" \in Steps
      /\ Family(FamilyOf(c)) \subseteq Calls
  BY DEF IdentityInv, TypeOK, Steps, Family
<1>3. CallOK(c)
  BY DEF IdentityInv
<1>4. /\ pc'[c] = "revoking" /\ todo'[c] = {x \in Family(FamilyOf(c)) : Live(x)}
      /\ \A d \in Calls : d # c => pc'[d] = pc[d] /\ todo'[d] = todo[d]
  BY <1>1, <1>2
<1>5. /\ AccountsAreSound' /\ LinksAreSound' /\ NeverForks' /\ EndedHaveHeads' /\ EndedStaysEnded'
      /\ \A d \in Calls : d # c => CallOK(d)'
      /\ (\A x \in Calls : Live(x)' <=> Live(x)) /\ (\A f : Family(f)' = Family(f))
  BY <1>1, <1>4, SameRows
<1>6. RowsAreHeld'
  <2> SUFFICES ASSUME NEW x \in Calls, spending'[x] # None
               PROVE  /\ Live(x)'
                      /\ \/ pc'[spending'[x]] \in {"store next", "commit"} /\ presented'[spending'[x]] = x
                         \/ pc'[spending'[x]] = "revoking" /\ todo'[spending'[x]] = {}
    BY DEF RowsAreHeld
  <2>1. PICK d \in Calls : d = spending[x] /\ spending'[x] = d
    BY <1>1, <1>2
  <2>2. /\ Live(x)
        /\ \/ pc[d] \in {"store next", "commit"} /\ presented[d] = x
           \/ pc[d] = "revoking" /\ todo[d] = {}
    BY <1>1, <2>1 DEF IdentityInv, RowsAreHeld
  <2>3. d # c
    BY <1>1, <2>2
  <2> QED BY <1>1, <1>4, <1>5, <2>1, <2>2, <2>3
<1>7. CallOK(c)'
  <2>1. Begun(c)' /\ InHand(c)' /\ Over(c)' /\ Holds(c)'
    BY <1>1, <1>3, <1>4 DEF CallOK, Begun, InHand, GoodAccess, FamilyOf, Over, Holds
  <2>2. Revoking(c)'
    <3>1. FamilyOf(c)' = FamilyOf(c)
      BY <1>1 DEF FamilyOf
    <3>2. \A x \in todo'[c] : tokens'[x] # None
      BY <1>1, <1>4 DEF Live
    <3>3. ASSUME NEW x \in todo'[c], NEW y \in todo'[c] PROVE x = y
      <4>1. /\ x \in Calls /\ y \in Calls /\ Live(x) /\ Live(y)
            /\ tokens[x].family = FamilyOf(c) /\ tokens[y].family = FamilyOf(c)
        BY <1>2, <1>4 DEF Family
      <4> QED BY <4>1 DEF IdentityInv, NeverForks
    <3>4. \A x \in Family(FamilyOf(c))' : Live(x)' => x \in todo'[c]
      BY <1>2, <1>4, <1>5, <3>1
    <3> QED BY <3>2, <3>3, <3>4 DEF Revoking
  <2> QED BY <2>1, <2>2 DEF CallOK
<1>8. TypeOK'
  <2>1. pc' \in [Calls -> Steps] /\ todo' \in [Calls -> SUBSET Calls]
    BY <1>1, <1>2
  <2> QED BY <1>1, <2>1 DEF IdentityInv, TypeOK
<1> QED BY <1>1, <1>5, <1>6, <1>7, <1>8 DEF IdentityInv

\* It takes that row once nobody holds it, or finds that it is live no longer.
LEMMA RevokeRowPreserves ==
  ASSUME IdentityInv, NEW c \in Calls, RevokeRow(c)
  PROVE  IdentityInv'
<1>1. /\ pc[c] = "revoking" /\ pc' = pc
      /\ users' = users /\ announced' = announced /\ tokens' = tokens /\ held' = held
      /\ clock' = clock /\ endedAt' = endedAt
      /\ typed' = typed /\ presented' = presented /\ outcome' = outcome /\ hand' = hand
  BY DEF RevokeRow, request, accounts
<1>2. PICK t \in todo[c] :
        /\ spending[t] = None /\ todo' = [todo EXCEPT ![c] = @ \ {t}]
        /\ missed' = [missed EXCEPT ![c] = @ \/ ~Live(t)]
        /\ spending' = IF Live(t) THEN [spending EXCEPT ![t] = c] ELSE spending
  BY DEF RevokeRow
<1>3. /\ todo \in [Calls -> SUBSET Calls] /\ missed \in [Calls -> BOOLEAN]
      /\ spending \in [Calls -> Calls \cup {None}] /\ None \notin Calls /\ t \in Calls
  BY IdentityAssumption DEF IdentityAssumption, IdentityInv, TypeOK
<1>4. CallOK(c)
  BY DEF IdentityInv
<1>5. /\ \A x \in todo[c] : x = t
      /\ todo'[c] = {} /\ \A d \in Calls : d # c => todo'[d] = todo[d]
  <2>1. \A x \in todo[c] : x = t
    BY <1>1, <1>2, <1>4 DEF CallOK, Revoking
  <2> QED BY <1>2, <1>3, <2>1
<1>6. /\ missed'[c] = (missed[c] \/ ~Live(t)) /\ \A d \in Calls : d # c => missed'[d] = missed[d]
      /\ missed' \in [Calls -> BOOLEAN]
  BY <1>2, <1>3, Zenon
<1>7. /\ Live(t) => spending'[t] = c
      /\ ~Live(t) => spending'[t] = None
      /\ \A x \in Calls : x # t => spending'[x] = spending[x]
      /\ spending' \in [Calls -> Calls \cup {None}]
  BY <1>2, <1>3
<1>8. /\ AccountsAreSound' /\ LinksAreSound' /\ NeverForks' /\ EndedHaveHeads' /\ EndedStaysEnded'
      /\ \A d \in Calls : d # c => CallOK(d)'
      /\ (\A x \in Calls : Live(x)' <=> Live(x)) /\ (\A f : Family(f)' = Family(f))
  <2>1. \A x \in Calls : spending[x] # None /\ spending[x] # c => spending'[x] = spending[x]
    BY <1>2, <1>7
  <2> QED BY <1>1, <1>5, <1>6, <2>1, SameRows
<1>9. RowsAreHeld'
  <2> SUFFICES ASSUME NEW x \in Calls, spending'[x] # None
               PROVE  /\ Live(x)'
                      /\ \/ pc'[spending'[x]] \in {"store next", "commit"} /\ presented'[spending'[x]] = x
                         \/ pc'[spending'[x]] = "revoking" /\ todo'[spending'[x]] = {}
    BY DEF RowsAreHeld
  <2>1. CASE x = t
    BY <1>1, <1>5, <1>7, <1>8, <2>1
  <2>2. CASE x # t
    <3>1. PICK d \in Calls : d = spending[x] /\ spending'[x] = d
      BY <1>3, <1>7, <2>2
    <3>2. /\ Live(x)
          /\ \/ pc[d] \in {"store next", "commit"} /\ presented[d] = x
             \/ pc[d] = "revoking" /\ todo[d] = {}
      BY <1>3, <3>1 DEF IdentityInv, RowsAreHeld
    <3>3. CASE d = c
      BY <1>2, <1>1, <3>2, <3>3
    <3>4. CASE d # c
      BY <1>1, <1>5, <1>8, <3>1, <3>2, <3>4
    <3> QED BY <3>3, <3>4
  <2> QED BY <2>1, <2>2
<1>10. CallOK(c)'
  <2>1. Begun(c)' /\ InHand(c)' /\ Over(c)' /\ Holds(c)'
    BY <1>1, <1>4 DEF CallOK, Begun, InHand, GoodAccess, FamilyOf, Over, Holds
  <2>2. Revoking(c)'
    <3>1. FamilyOf(c)' = FamilyOf(c) /\ Family(FamilyOf(c)) \subseteq Calls
      BY <1>1 DEF FamilyOf, Family
    <3>2. ASSUME ~missed'[c], NEW x \in Family(FamilyOf(c)), Live(x) PROVE spending'[x] = c
      <4>1. Live(t) /\ ~missed[c]
        BY <1>6, <3>2
      <4>2. x \in todo[c] \/ spending[x] = c
        <5>1. \A p \in todo[c] : Live(p)
          BY <1>5, <4>1
        <5> QED BY <1>1, <1>4, <3>2, <4>1, <5>1 DEF CallOK, Revoking
      <4> QED BY <1>5, <1>7, <3>1, <4>1, <4>2
    <3> QED BY <1>5, <1>8, <3>1, <3>2 DEF Revoking
  <2> QED BY <2>1, <2>2 DEF CallOK
<1>11. TypeOK'
  <2>1. todo' \in [Calls -> SUBSET Calls]
    BY <1>2, <1>3
  <2> QED BY <1>1, <1>6, <1>7, <2>1 DEF IdentityInv, TypeOK
<1> QED BY <1>1, <1>8, <1>9, <1>10, <1>11 DEF IdentityInv

\* A statement that fails lets go of what its call held.
LEMMA FailPreserves ==
  ASSUME IdentityInv, NEW c \in Calls, StatementFails(c)
  PROVE  IdentityInv'
<1>1. /\ pc[c] \notin {"idle", "done"} /\ pc' = [pc EXCEPT ![c] = "done"]
      /\ users' = users /\ announced' = announced /\ tokens' = tokens /\ held' = held
      /\ clock' = clock /\ endedAt' = endedAt /\ missed' = missed
      /\ typed' = typed /\ presented' = presented
      /\ outcome' = [outcome EXCEPT ![c] = "internal"] /\ hand' = [hand EXCEPT ![c] = Empty]
      /\ todo' = [todo EXCEPT ![c] = {}]
      /\ spending' = [x \in Calls |-> IF spending[x] = c THEN None ELSE spending[x]]
  BY DEF StatementFails, Ends, Undo, request, accounts
<1>2. /\ pc \in [Calls -> Steps] /\ hand \in [Calls -> Hand] /\ outcome \in [Calls -> Outcomes]
      /\ todo \in [Calls -> SUBSET Calls] /\ spending \in [Calls -> Calls \cup {None}]
      /\ "done" \in Steps /\ "internal" \in Outcomes
  BY DEF IdentityInv, TypeOK, Steps, Outcomes, Results
<1>3. CallOK(c)
  BY DEF IdentityInv
<1>e. Empty \in Hand /\ Empty.access = None
  BY EmptyHand
<1>4. /\ pc'[c] = "done" /\ hand'[c] = Empty /\ outcome'[c] = "internal" /\ todo'[c] = {}
      /\ \A d \in Calls : d # c => /\ pc'[d] = pc[d] /\ hand'[d] = hand[d]
                                   /\ outcome'[d] = outcome[d] /\ todo'[d] = todo[d]
      /\ \A x \in Calls : spending'[x] = IF spending[x] = c THEN None ELSE spending[x]
  BY <1>1, <1>2
<1>5. /\ AccountsAreSound' /\ LinksAreSound' /\ NeverForks' /\ EndedHaveHeads' /\ EndedStaysEnded'
      /\ \A d \in Calls : d # c => CallOK(d)'
      /\ (\A x \in Calls : Live(x)' <=> Live(x))
  BY <1>1, <1>4, SameRows
<1>6. RowsAreHeld'
  <2> SUFFICES ASSUME NEW x \in Calls, spending'[x] # None
               PROVE  /\ Live(x)'
                      /\ \/ pc'[spending'[x]] \in {"store next", "commit"} /\ presented'[spending'[x]] = x
                         \/ pc'[spending'[x]] = "revoking" /\ todo'[spending'[x]] = {}
    BY DEF RowsAreHeld
  <2>1. PICK d \in Calls : d = spending[x] /\ spending'[x] = d /\ d # c /\ spending[x] # None
    BY <1>2, <1>4
  <2>2. /\ Live(x)
        /\ \/ pc[d] \in {"store next", "commit"} /\ presented[d] = x
           \/ pc[d] = "revoking" /\ todo[d] = {}
    BY <2>1 DEF IdentityInv, RowsAreHeld
  <2> QED BY <1>1, <1>4, <1>5, <2>1, <2>2
<1>7. CallOK(c)'
  <2>1. presented'[c] # None => tokens'[presented'[c]] # None
    BY <1>1, <1>3 DEF CallOK, Begun
  <2>2. Begun(c)' /\ InHand(c)' /\ Revoking(c)'
    BY <1>4, <1>e, <2>1 DEF Begun, InHand, Revoking
  <2>3. Over(c)' /\ Holds(c)'
    BY <1>1, <1>3, <1>4 DEF CallOK, Over, Holds, GoodAccess
  <2> QED BY <2>2, <2>3 DEF CallOK
<1>8. TypeOK'
  <2>1. /\ pc' \in [Calls -> Steps] /\ hand' \in [Calls -> Hand] /\ outcome' \in [Calls -> Outcomes]
        /\ todo' \in [Calls -> SUBSET Calls] /\ spending' \in [Calls -> Calls \cup {None}]
    BY <1>1, <1>2, <1>e
  <2> QED BY <1>1, <2>1 DEF IdentityInv, TypeOK
<1> QED BY <1>1, <1>5, <1>6, <1>7, <1>8 DEF IdentityInv

\* The event of a registration is written for a row that is there.
LEMMA AnnouncePreserves ==
  ASSUME IdentityInv, NEW c \in Calls, WriteEvents(c)
  PROVE  IdentityInv'
<1>1. /\ pc[c] = "write event" /\ pc' = [pc EXCEPT ![c] = "done"]
      /\ users' = users /\ announced' = announced \cup {c} /\ tokens' = tokens /\ held' = held
      /\ clock' = clock /\ endedAt' = endedAt /\ missed' = missed /\ spending' = spending /\ todo' = todo
      /\ typed' = typed /\ presented' = presented
      /\ outcome' = [outcome EXCEPT ![c] = "registered"] /\ hand' = [hand EXCEPT ![c] = Empty]
  BY DEF WriteEvents, Ends, request, chain, revoking
<1>2. /\ pc \in [Calls -> Steps] /\ hand \in [Calls -> Hand] /\ outcome \in [Calls -> Outcomes]
      /\ spending \in [Calls -> Calls \cup {None}] /\ announced \subseteq Calls
      /\ "done" \in Steps /\ "registered" \in Outcomes
  BY DEF IdentityInv, TypeOK, Steps, Outcomes, Results
<1>3. CallOK(c)
  BY DEF IdentityInv
<1>e. Empty \in Hand /\ Empty.access = None
  BY EmptyHand
<1>4. /\ pc'[c] = "done" /\ hand'[c] = Empty /\ outcome'[c] = "registered"
      /\ \A d \in Calls : d # c => /\ pc'[d] = pc[d] /\ hand'[d] = hand[d] /\ outcome'[d] = outcome[d]
  BY <1>1, <1>2
<1>5. /\ AccountsAreSound' /\ LinksAreSound' /\ NeverForks' /\ EndedHaveHeads' /\ EndedStaysEnded'
      /\ \A d \in Calls : d # c => CallOK(d)'
      /\ (\A x \in Calls : Live(x)' <=> Live(x))
  <2>1. c \in announced' /\ users[c] # None
    BY <1>1, <1>3 DEF CallOK, Begun
  <2>2. \A d \in Calls : outcome'[d] = "registered" =>
          outcome[d] = "registered" \/ (d \in announced' /\ users[d] # None)
    BY <1>4, <2>1
  <2> QED BY <1>1, <1>4, <2>2, SameRows
<1>6. RowsAreHeld'
  <2> SUFFICES ASSUME NEW x \in Calls, spending[x] # None
               PROVE  /\ Live(x)'
                      /\ \/ pc'[spending[x]] \in {"store next", "commit"} /\ presented[spending[x]] = x
                         \/ pc'[spending[x]] = "revoking" /\ todo[spending[x]] = {}
    BY <1>1 DEF RowsAreHeld
  <2>1. PICK d \in Calls : d = spending[x]
    BY <1>2
  <2>2. /\ Live(x)
        /\ \/ pc[d] \in {"store next", "commit"} /\ presented[d] = x
           \/ pc[d] = "revoking" /\ todo[d] = {}
    BY <2>1 DEF IdentityInv, RowsAreHeld
  <2>3. d # c
    BY <1>1, <2>2
  <2> QED BY <1>4, <1>5, <2>1, <2>2, <2>3
<1>7. CallOK(c)'
  <2>1. presented'[c] # None => tokens'[presented'[c]] # None
    BY <1>1, <1>3 DEF CallOK, Begun
  <2>2. Begun(c)' /\ InHand(c)' /\ Revoking(c)'
    BY <1>4, <1>e, <2>1 DEF Begun, InHand, Revoking
  <2>3. Over(c)' /\ Holds(c)'
    BY <1>1, <1>3, <1>4 DEF CallOK, Over, Holds, GoodAccess
  <2> QED BY <2>2, <2>3 DEF CallOK
<1>8. TypeOK'
  <2>1. /\ pc' \in [Calls -> Steps] /\ hand' \in [Calls -> Hand] /\ outcome' \in [Calls -> Outcomes]
        /\ announced' \subseteq Calls
    BY <1>1, <1>2, <1>e
  <2> QED BY <1>1, <2>1 DEF IdentityInv, TypeOK
<1> QED BY <1>1, <1>5, <1>6, <1>7, <1>8 DEF IdentityInv
-----------------------------------------------------------------------------
(* Steps that store rows.                                                  *)

\* What a step of c that stores rows leaves alone: a row keeps its family, its owner and
\* its end, and is never live again; the other calls keep what they hold.
KeepsRows(c) ==
  /\ UNCHANGED <<users, announced, typed, presented, clock>>
  /\ \A x \in Calls : tokens[x] # None =>
       /\ tokens'[x] # None /\ tokens'[x].family = tokens[x].family
       /\ tokens'[x].user = tokens[x].user /\ tokens'[x].expires = tokens[x].expires
       /\ tokens[x].revoked # None => tokens'[x].revoked # None
  /\ \A d \in Calls : d # c => /\ pc'[d] = pc[d] /\ hand'[d] = hand[d] /\ outcome'[d] = outcome[d]
                               /\ todo'[d] = todo[d] /\ missed'[d] = missed[d] /\ held'[d] = held[d]
                               /\ tokens[d] = None => tokens'[d] = None
  /\ outcome'[c] # "registered"
  /\ \A f \in Calls : /\ endedAt[f] # None => endedAt'[f] = endedAt[f]
                      /\ endedAt'[f] # None => endedAt'[f] \in {endedAt[f], clock}
  /\ \A x \in Calls : spending'[x] = IF spending[x] = c THEN None ELSE spending[x]
  /\ \A x \in Calls : Live(x) /\ spending[x] # c /\ spending[x] # None => Live(x)'

\* What the calls that do not act rely on still stands after it.
LEMMA RowsStay ==
  ASSUME IdentityInv, NEW c \in Calls, KeepsRows(c)
  PROVE  /\ AccountsAreSound' /\ RowsAreHeld'
         /\ \A d \in Calls : d # c => Begun(d)' /\ InHand(d)' /\ Over(d)' /\ Holds(d)'
         /\ \A t \in Calls : tokens[t] # None =>
              /\ tokens'[tokens'[t].family] # None /\ typed'[tokens'[t].family] # None
              /\ tokens'[t].expires = tokens'[tokens'[t].family].expires
              /\ tokens'[tokens'[t].family].user = tokens'[t].user
              /\ OpenedBy(tokens[t], tokens[t].family)'
              /\ presented'[t] # None => tokens'[presented'[t]].revoked # None
<1> USE DEF KeepsRows
<1>1. users' = users /\ announced' = announced /\ typed' = typed /\ presented' = presented /\ clock' = clock
  OBVIOUS
<1>2. ASSUME NEW d \in Calls, d # c PROVE Begun(d)' /\ InHand(d)' /\ Over(d)' /\ Holds(d)'
  <2>1. /\ pc'[d] = pc[d] /\ hand'[d] = hand[d] /\ outcome'[d] = outcome[d] /\ held'[d] = held[d]
        /\ missed'[d] = missed[d] /\ (tokens[d] = None => tokens'[d] = None)
    BY <1>2
  <2>2. Begun(d) /\ InHand(d) /\ Over(d) /\ Holds(d)
    BY DEF IdentityInv, CallOK
  <2>3. presented[d] \in Calls \cup {None} /\ tokens \in [Calls -> Token \cup {None}]
    BY DEF IdentityInv, TypeOK
  <2>4. presented[d] # None =>
          /\ tokens[presented[d]] # None /\ tokens'[presented[d]] # None
          /\ tokens'[presented[d]].family = tokens[presented[d]].family
          /\ tokens'[presented[d]].user = tokens[presented[d]].user
          /\ tokens'[presented[d]].expires = tokens[presented[d]].expires
          /\ tokens[presented[d]].family \in Calls
    <3>1. presented[d] # None => tokens[presented[d]] # None
      BY <2>2 DEF Begun
    <3> QED BY <2>3, <3>1 DEF Token
  <2>5. Begun(d)'
    BY <1>1, <2>1, <2>2, <2>4 DEF Begun
  <2>6. InHand(d)'
    <3>1. pc[d] \in {"spend", "store next", "commit"} => presented[d] # None
      BY <2>2 DEF Begun
    <3>2. pc[d] \in {"store next", "commit"} => spending'[presented[d]] = d
      BY <1>2, <2>2, <2>3, <3>1 DEF InHand
    <3>3. pc'[d] \in {"spend", "store next", "commit"} =>
            /\ hand'[d].token.family = FamilyOf(d)'
            /\ hand'[d].token.user = tokens'[presented'[d]].user
            /\ hand'[d].token.expires = tokens'[presented'[d]].expires
      BY ONLY <1>1, <2>1, <2>2, <2>4, <3>1 DEF InHand, FamilyOf
    <3>4. /\ hand'[d].access # None => GoodAccess(hand[d].access)'
          /\ pc'[d] \in {"store", "spend", "store next", "commit"} =>
               hand'[d].token # None /\ hand'[d].access # None /\ hand'[d].token.revoked = None
          /\ pc'[d] = "store" => hand'[d].token.family = d /\ OpenedBy(hand[d].token, d)'
      BY ONLY <1>1, <2>1, <2>2 DEF InHand, GoodAccess, OpenedBy
    <3>5. pc'[d] \in {"store next", "commit"} => spending'[presented'[d]] = d
      BY <1>1, <2>1, <3>2
    <3> QED BY ONLY <3>3, <3>4, <3>5 DEF InHand
  <2>7. Over(d)'
    <3>1. tokens[d] # None => tokens'[d] # None
      OBVIOUS
    <3>2. presented[d] # None /\ endedAt[FamilyOf(d)] # None => endedAt'[tokens'[presented[d]].family] # None
      BY <2>4 DEF FamilyOf
    <3> QED BY <1>1, <2>1, <2>2, <3>1, <3>2 DEF Over, FamilyOf
  <2>8. Holds(d)'
    <3> SUFFICES ASSUME held'[d] # None PROVE Holds(d)'
      BY DEF Holds
    <3>1. /\ tokens[d] # None /\ GoodAccess(held[d])
          /\ endedAt[tokens[d].family] # None => held[d].issued <= endedAt[tokens[d].family]
      BY <2>1, <2>2 DEF Holds
    <3>2. tokens'[d] # None /\ tokens'[d].family = tokens[d].family /\ tokens[d].family \in Calls
      BY <2>3, <3>1 DEF Token
    <3>3. GoodAccess(held[d])' /\ held[d].issued <= clock
      BY <1>1, <2>1, <3>1 DEF GoodAccess
    <3>4. endedAt'[tokens[d].family] # None => held[d].issued <= endedAt'[tokens[d].family]
      BY <3>1, <3>2, <3>3
    <3> QED BY <2>1, <3>2, <3>3, <3>4 DEF Holds
  <2> QED BY <2>5, <2>6, <2>7, <2>8
<1>3. AccountsAreSound'
  <2>1. \A u \in Calls : users'[u] # None => typed'[u] # None /\ users'[u].email = Address[typed'[u].spelling]
    BY <1>1 DEF IdentityInv, AccountsAreSound
  <2>2. \A u, v \in Calls : users'[u] # None /\ users'[v] # None /\ users'[u].email = users'[v].email => u = v
    <3> SUFFICES ASSUME NEW u \in Calls, NEW v \in Calls, users'[u] # None, users'[v] # None,
                        users'[u].email = users'[v].email
                 PROVE  u = v
      OBVIOUS
    <3>1. users[u] # None /\ users[v] # None /\ users[u].email = users[v].email
      BY <1>1
    <3> QED BY <3>1 DEF IdentityInv, AccountsAreSound
  <2>3. \A d \in Calls : outcome'[d] = "registered" => outcome[d] = "registered"
    OBVIOUS
  <2>4. \A d \in Calls : outcome'[d] = "registered" => d \in announced' /\ users'[d] # None
    BY <1>1, <2>3 DEF IdentityInv, AccountsAreSound
  <2> QED BY <2>1, <2>2, <2>4 DEF AccountsAreSound
<1>4. RowsAreHeld'
  <2> SUFFICES ASSUME NEW x \in Calls, spending'[x] # None
               PROVE  /\ Live(x)'
                      /\ \/ pc'[spending'[x]] \in {"store next", "commit"} /\ presented'[spending'[x]] = x
                         \/ pc'[spending'[x]] = "revoking" /\ todo'[spending'[x]] = {}
    BY DEF RowsAreHeld
  <2>1. PICK d \in Calls : d = spending[x] /\ spending'[x] = d /\ d # c /\ spending[x] # None
    BY DEF IdentityInv, TypeOK
  <2>2. /\ Live(x)
        /\ \/ pc[d] \in {"store next", "commit"} /\ presented[d] = x
           \/ pc[d] = "revoking" /\ todo[d] = {}
    <3>1. RowsAreHeld
      BY DEF IdentityInv
    <3> QED BY ONLY <2>1, <3>1, x \in Calls DEF RowsAreHeld
  <2>3. Live(x)' /\ pc'[d] = pc[d] /\ todo'[d] = todo[d]
    BY <2>1, <2>2
  <2> QED BY <1>1, <2>1, <2>2, <2>3
<1>5. ASSUME NEW t \in Calls, tokens[t] # None
      PROVE  /\ tokens'[tokens'[t].family] # None /\ typed'[tokens'[t].family] # None
             /\ tokens'[t].expires = tokens'[tokens'[t].family].expires
             /\ tokens'[tokens'[t].family].user = tokens'[t].user
             /\ OpenedBy(tokens[t], tokens[t].family)'
             /\ presented'[t] # None => tokens'[presented'[t]].revoked # None
  <2>1. /\ tokens[tokens[t].family] # None /\ typed[tokens[t].family] # None
        /\ tokens[t].expires = tokens[tokens[t].family].expires
        /\ tokens[tokens[t].family].user = tokens[t].user
        /\ OpenedBy(tokens[t], tokens[t].family)
        /\ presented[t] # None => tokens[presented[t]].revoked # None
    BY <1>5 DEF IdentityInv, LinksAreSound
  <2>2. tokens[t].family \in Calls /\ presented[t] \in Calls \cup {None}
    BY <1>5 DEF IdentityInv, TypeOK, Token
  <2>3. presented[t] # None => tokens[presented[t]] # None
    BY DEF IdentityInv, CallOK, Begun
  <2>4. /\ tokens'[t].family = tokens[t].family /\ tokens'[t].user = tokens[t].user
        /\ tokens'[t].expires = tokens[t].expires
    BY <1>5
  <2>5. /\ tokens'[tokens[t].family] # None
        /\ tokens'[tokens[t].family].user = tokens[tokens[t].family].user
        /\ tokens'[tokens[t].family].expires = tokens[tokens[t].family].expires
    BY <2>1, <2>2
  <2>6. presented[t] # None => tokens'[presented[t]].revoked # None
    BY <2>1, <2>2, <2>3
  <2>7. presented'[t] # None => tokens'[presented'[t]].revoked # None
    BY <1>1, <2>6
  <2>8. OpenedBy(tokens[t], tokens[t].family)'
    BY ONLY <1>1, <2>1, <2>4 DEF OpenedBy
  <2>9. /\ tokens'[tokens'[t].family] # None /\ typed'[tokens'[t].family] # None
        /\ tokens'[t].expires = tokens'[tokens'[t].family].expires
        /\ tokens'[tokens'[t].family].user = tokens'[t].user
    BY ONLY <1>1, <2>1, <2>4, <2>5
  <2> QED BY <2>7, <2>8, <2>9
<1> QED BY <1>2, <1>3, <1>4, <1>5

\* The head of a new chain is the only row of its family.
LEMMA StoreHeadPreserves ==
  ASSUME IdentityInv, NEW c \in Calls, StoreHead(c)
  PROVE  IdentityInv'
<1>1. /\ pc[c] = "store" /\ pc' = [pc EXCEPT ![c] = "done"]
      /\ users' = users /\ announced' = announced /\ tokens' = [tokens EXCEPT ![c] = hand[c].token]
      /\ clock' = clock /\ endedAt' = endedAt /\ missed' = missed /\ spending' = spending /\ todo' = todo
      /\ typed' = typed /\ presented' = presented
      /\ outcome' = [outcome EXCEPT ![c] = "ok"] /\ hand' = [hand EXCEPT ![c] = Empty]
      /\ held' = [held EXCEPT ![c] = hand[c].access] \/ held' = held
  BY DEF StoreHead, Answers, Ends, CreateRefreshToken, request, accounts, revoking
<1>2. /\ pc \in [Calls -> Steps] /\ hand \in [Calls -> Hand] /\ outcome \in [Calls -> Outcomes]
      /\ held \in [Calls -> Access \cup {None}] /\ tokens \in [Calls -> Token \cup {None}]
      /\ spending \in [Calls -> Calls \cup {None}] /\ presented \in [Calls -> Calls \cup {None}]
      /\ "done" \in Steps /\ "ok" \in Outcomes
  BY DEF IdentityInv, TypeOK, Steps, Outcomes, Results
<1>3. /\ CallOK(c) /\ tokens[c] = None /\ held[c] = None /\ presented[c] = None /\ typed[c] # None
  BY <1>1 DEF IdentityInv, CallOK, Begun
<1>4. PICK row \in Token, access \in Access :
        /\ row = hand[c].token /\ row # None /\ row.family = c /\ row.revoked = None
        /\ OpenedBy(row, c) /\ access = hand[c].access /\ access # None /\ GoodAccess(access)
  <2>1. /\ hand[c].token # None /\ hand[c].access # None
        /\ hand[c].token \in Token \cup {None} /\ hand[c].access \in Access \cup {None}
    BY <1>1, <1>2, <1>3 DEF CallOK, InHand, Hand
  <2> QED BY <1>1, <1>3, <2>1 DEF CallOK, InHand
<1>e. Empty \in Hand /\ Empty.access = None
  BY EmptyHand
<1>5. /\ pc'[c] = "done" /\ hand'[c] = Empty /\ outcome'[c] = "ok" /\ tokens'[c] = row
      /\ held'[c] \in {access, None}
      /\ \A d \in Calls : d # c => /\ pc'[d] = pc[d] /\ hand'[d] = hand[d] /\ outcome'[d] = outcome[d]
                                   /\ held'[d] = held[d] /\ tokens'[d] = tokens[d]
  BY <1>1, <1>2, <1>3, <1>4
<1>6. /\ \A x \in Calls : tokens[x] # None => tokens[x].family # c
      /\ endedAt[c] = None
      /\ \A x \in Calls : spending[x] # c
      /\ \A d \in Calls : presented[d] # c
  <2>1. \A x \in Calls : tokens[x] # None => tokens[tokens[x].family] # None
    BY DEF IdentityInv, LinksAreSound
  <2>2. endedAt[c] = None
    BY <1>3 DEF IdentityInv, EndedHaveHeads
  <2>3. \A x \in Calls : spending[x] # c
    BY <1>1, IdentityAssumption DEF IdentityInv, RowsAreHeld, IdentityAssumption
  <2>4. \A d \in Calls : presented[d] # None => tokens[presented[d]] # None
    BY DEF IdentityInv, CallOK, Begun
  <2>5. c # None
    BY IdentityAssumption DEF IdentityAssumption
  <2> QED BY <1>3, <2>1, <2>2, <2>3, <2>4, <2>5
<1>7. /\ Live(c)' /\ ~Live(c)
      /\ \A x \in Calls : x # c => (Live(x)' <=> Live(x))
      /\ \A f \in Calls : f # c => Family(f)' = Family(f)
      /\ \A x \in Calls : x # c /\ Live(x)' => tokens'[x].family # c
  <2>1. Live(c)' /\ ~Live(c) /\ \A x \in Calls : x # c => (Live(x)' <=> Live(x))
    BY <1>3, <1>4, <1>5 DEF Live
  <2>2. \A f \in Calls : f # c => Family(f)' = Family(f)
    BY <1>3, <1>4, <1>5 DEF Family
  <2>3. \A x \in Calls : x # c /\ Live(x)' => tokens'[x].family # c
    BY <1>5, <1>6 DEF Live
  <2> QED BY <2>1, <2>2, <2>3
<1>8. /\ AccountsAreSound' /\ RowsAreHeld'
      /\ \A d \in Calls : d # c => Begun(d)' /\ InHand(d)' /\ Over(d)' /\ Holds(d)'
      /\ \A t \in Calls : tokens[t] # None =>
           /\ tokens'[tokens'[t].family] # None /\ typed'[tokens'[t].family] # None
           /\ tokens'[t].expires = tokens'[tokens'[t].family].expires
           /\ tokens'[tokens'[t].family].user = tokens'[t].user
           /\ OpenedBy(tokens[t], tokens[t].family)'
           /\ presented'[t] # None => tokens'[presented'[t]].revoked # None
  <2>1. \A x \in Calls : tokens[x] # None =>
           /\ tokens'[x] # None /\ tokens'[x].family = tokens[x].family
           /\ tokens'[x].user = tokens[x].user /\ tokens'[x].expires = tokens[x].expires
           /\ tokens[x].revoked # None => tokens'[x].revoked # None
    BY <1>3, <1>5
  <2>2. \A x \in Calls : spending'[x] = IF spending[x] = c THEN None ELSE spending[x]
    BY <1>1, <1>6
  <2>3. \A x \in Calls : Live(x) /\ spending[x] # c /\ spending[x] # None => Live(x)'
    BY <1>7
  <2>4. outcome'[c] # "registered"
    BY <1>5
  <2>5. KeepsRows(c)
    BY <1>1, <1>5, <2>1, <2>2, <2>3, <2>4 DEF KeepsRows
  <2> QED BY <2>5, RowsStay
<1>9. ASSUME NEW d \in Calls, d # c PROVE Revoking(d)'
  <2>1. Revoking(d) /\ (pc[d] = "revoking" => presented[d] # None)
    BY DEF IdentityInv, CallOK, Begun
  <2>2. pc'[d] = pc[d] /\ todo'[d] = todo[d] /\ missed'[d] = missed[d] /\ todo[d] \subseteq Calls
    BY <1>1, <1>5, <1>9 DEF IdentityInv, TypeOK
  <2>3. ASSUME pc[d] = "revoking" PROVE Revoking(d)'
    <3>1. PICK p \in Calls : p = presented[d] /\ p # c /\ tokens[p] # None
      BY <1>2, <1>3, <2>1, <2>3 DEF IdentityInv, CallOK, Begun
    <3>2. FamilyOf(d)' = FamilyOf(d) /\ FamilyOf(d) \in Calls /\ FamilyOf(d) # c
      BY <1>1, <1>2, <1>5, <1>6, <3>1 DEF FamilyOf, Token
    <3>3. Family(FamilyOf(d))' = Family(FamilyOf(d)) /\ c \notin Family(FamilyOf(d))
          /\ Family(FamilyOf(d)) \subseteq Calls
      BY <1>3, <1>7, <3>2 DEF Family
    <3>4. \A x \in todo[d] : tokens[x] # None /\ x # c
      BY <1>3, <2>1, <2>3 DEF Revoking
    <3> QED BY <1>1, <1>5, <1>7, <2>1, <2>2, <2>3, <3>2, <3>3, <3>4 DEF Revoking
  <2> QED BY <2>2, <2>3 DEF Revoking
<1>10. CallOK(c)'
  <2>1. Begun(c)' /\ InHand(c)' /\ Revoking(c)' /\ Over(c)'
    BY <1>1, <1>3, <1>5, <1>e DEF Begun, InHand, Revoking, Over
  <2>2. Holds(c)'
    BY <1>1, <1>4, <1>5, <1>6 DEF Holds, GoodAccess
  <2> QED BY <2>1, <2>2 DEF CallOK
<1>11. LinksAreSound'
  <2>1. OpenedBy(row, c)'
    BY <1>1, <1>4 DEF OpenedBy
  <2> SUFFICES ASSUME NEW t \in Calls, tokens'[t] # None
               PROVE  /\ tokens'[tokens'[t].family] # None /\ typed'[tokens'[t].family] # None
                      /\ tokens'[t].expires = tokens'[tokens'[t].family].expires
                      /\ tokens'[tokens'[t].family].user = tokens'[t].user
                      /\ OpenedBy(tokens[t], tokens[t].family)'
                      /\ presented'[t] # None => tokens'[presented'[t]].revoked # None
    BY DEF LinksAreSound
  <2>2. CASE t = c
    BY <1>1, <1>3, <1>4, <1>5, <2>1, <2>2 DEF OpenedBy
  <2>3. CASE t # c
    BY <1>5, <1>8, <2>3
  <2> QED BY <2>2, <2>3
<1>12. NeverForks'
  <2>1. \A u, v \in Calls :
          /\ tokens'[u] # None /\ tokens'[v] # None
          /\ presented'[u] # None /\ presented'[u] = presented'[v]
          => u = v
    <3> SUFFICES ASSUME NEW u \in Calls, NEW v \in Calls, tokens'[u] # None, tokens'[v] # None,
                        presented'[u] # None, presented'[u] = presented'[v]
                 PROVE  u = v
      OBVIOUS
    <3>1. u # c /\ v # c
      BY <1>1, <1>3
    <3>2. tokens[u] # None /\ tokens[v] # None /\ presented[u] # None /\ presented[u] = presented[v]
      BY <1>1, <1>5, <3>1
    <3> QED BY <3>2 DEF IdentityInv, NeverForks
  <2>2. \A u, v \in Calls : Live(u)' /\ Live(v)' /\ tokens'[u].family = tokens'[v].family => u = v
    <3> SUFFICES ASSUME NEW u \in Calls, NEW v \in Calls, Live(u)', Live(v)',
                        tokens'[u].family = tokens'[v].family, u # v
                 PROVE  FALSE
      OBVIOUS
    <3>1. u # c /\ v # c
      BY <1>4, <1>5, <1>7
    <3>2. Live(u) /\ Live(v) /\ tokens[u].family = tokens[v].family
      BY <1>5, <1>7, <3>1
    <3> QED BY <3>2 DEF IdentityInv, NeverForks
  <2> QED BY <2>1, <2>2 DEF NeverForks
<1>13. EndedHaveHeads' /\ EndedStaysEnded'
  <2>1. \A f \in Calls : Family(f) \subseteq Calls /\ (endedAt[f] # None => f # c /\ c \notin Family(f))
    BY <1>3, <1>6 DEF Family
  <2>2. EndedHaveHeads'
    BY <1>1, <1>4, <1>5 DEF IdentityInv, EndedHaveHeads
  <2>3. EndedStaysEnded'
    <3> SUFFICES ASSUME NEW f \in Calls, endedAt[f] # None, NEW t \in Family(f)' PROVE ~Live(t)'
      BY <1>1 DEF EndedStaysEnded
    <3>1. t \in Family(f) /\ t \in Calls /\ t # c
      BY <1>7, <2>1
    <3>2. ~Live(t)
      BY <3>1 DEF IdentityInv, EndedStaysEnded
    <3> QED BY <1>7, <3>1, <3>2
  <2> QED BY <2>2, <2>3
<1>14. TypeOK'
  <2>1. /\ pc' \in [Calls -> Steps] /\ hand' \in [Calls -> Hand] /\ outcome' \in [Calls -> Outcomes]
        /\ tokens' \in [Calls -> Token \cup {None}] /\ held' \in [Calls -> Access \cup {None}]
    BY <1>1, <1>2, <1>4, <1>e
  <2> QED BY <1>1, <2>1 DEF IdentityInv, TypeOK
<1>15. \A d \in Calls : CallOK(d)'
  BY <1>8, <1>9, <1>10 DEF CallOK
<1> QED BY <1>1, <1>8, <1>11, <1>12, <1>13, <1>14, <1>15 DEF IdentityInv

\* The link presented is exchanged for its successor: the one live link of the family
\* becomes another, and whoever is ending the family has the one it replaced before it.
LEMMA CommitPreserves ==
  ASSUME IdentityInv, NEW c \in Calls, Commit(c)
  PROVE  IdentityInv'
<1>1. PICK o \in {"ok", "internal"} :
      /\ pc[c] = "commit" /\ pc' = [pc EXCEPT ![c] = "done"]
      /\ users' = users /\ announced' = announced
      /\ tokens' = [[tokens EXCEPT ![presented[c]].revoked = hand[c].now] EXCEPT ![c] = hand[c].token]
      /\ clock' = clock /\ endedAt' = endedAt /\ missed' = missed /\ todo' = todo
      /\ spending' = [spending EXCEPT ![presented[c]] = None]
      /\ typed' = typed /\ presented' = presented
      /\ outcome' = [outcome EXCEPT ![c] = o] /\ hand' = [hand EXCEPT ![c] = Empty]
      /\ held' = [held EXCEPT ![c] = hand[c].access] \/ held' = held
  BY DEF Commit, Answers, Ends, CreateRefreshToken, request, accounts, revoking
<1>2. /\ pc \in [Calls -> Steps] /\ hand \in [Calls -> Hand] /\ outcome \in [Calls -> Outcomes]
      /\ held \in [Calls -> Access \cup {None}] /\ tokens \in [Calls -> Token \cup {None}]
      /\ spending \in [Calls -> Calls \cup {None}] /\ presented \in [Calls -> Calls \cup {None}]
      /\ "done" \in Steps /\ o \in Outcomes /\ None \notin Calls /\ None \notin Time
  BY IdentityAssumption, NoneAssumption
     DEF IdentityAssumption, NoneAssumption, IdentityInv, TypeOK, Steps, Outcomes, Results
<1>3. CallOK(c) /\ tokens[c] = None /\ held[c] = None
  BY <1>1 DEF IdentityInv, CallOK, Begun
<1>4. PICK p \in Calls : p = presented[c] /\ tokens[p] # None /\ spending[p] = c /\ p # c
  BY <1>1, <1>2, <1>3 DEF CallOK, Begun, InHand
<1>5. PICK old \in Token, row \in Token, access \in Access, now \in Time :
        /\ old = tokens[p] /\ old.revoked = None
        /\ row = hand[c].token /\ row # None /\ row.revoked = None /\ row.family = old.family
        /\ row.user = old.user /\ row.expires = old.expires
        /\ access = hand[c].access /\ access # None /\ GoodAccess(access) /\ now = hand[c].now
  <2>1. /\ hand[c].token # None /\ hand[c].access # None /\ hand[c].now \in Time
        /\ hand[c].token \in Token \cup {None} /\ hand[c].access \in Access \cup {None}
    BY <1>1, <1>2, <1>3 DEF CallOK, InHand, Hand
  <2>2. tokens[p] \in Token
    BY <1>2, <1>4
  <2>3. Live(p)
    <3>1. RowsAreHeld
      BY DEF IdentityInv
    <3> QED BY ONLY <1>2, <1>4, <3>1, c \in Calls, p \in Calls DEF RowsAreHeld
  <2>4. /\ hand[c].token.revoked = None /\ hand[c].token.family = tokens[p].family
        /\ hand[c].token.user = tokens[p].user /\ hand[c].token.expires = tokens[p].expires
        /\ GoodAccess(hand[c].access)
    BY <1>1, <1>3, <1>4, <2>1 DEF CallOK, InHand, FamilyOf
  <2> QED BY <2>1, <2>2, <2>3, <2>4 DEF Live
<1>e. Empty \in Hand /\ Empty.access = None
  BY EmptyHand
<1>6. PICK spent \in Token :
        /\ spent # None /\ spent.revoked = now /\ spent.family = old.family
        /\ spent.user = old.user /\ spent.expires = old.expires
        /\ tokens' = [tokens EXCEPT ![p] = spent, ![c] = row]
  <2> DEFINE new == [old EXCEPT !.revoked = now]
  <2>1. /\ new \in Token /\ new.revoked = now /\ new.family = old.family
        /\ new.user = old.user /\ new.expires = old.expires
    BY ONLY old \in Token, now \in Time DEF Token
  <2>2. tokens' = [tokens EXCEPT ![p] = new, ![c] = row]
    BY <1>1, <1>4, <1>5
  <2>3. new # None
    BY <2>1, NoneAssumption DEF NoneAssumption
  <2> HIDE DEF new
  <2> QED BY <2>1, <2>2, <2>3
<1>7. /\ tokens'[c] = row /\ tokens'[p] = spent /\ (\A x \in Calls : x \notin {c, p} => tokens'[x] = tokens[x])
      /\ tokens' \in [Calls -> Token \cup {None}]
  BY <1>2, <1>4, <1>6
<1>8. /\ pc'[c] = "done" /\ hand'[c] = Empty /\ outcome'[c] = o /\ held'[c] \in {access, None}
      /\ \A d \in Calls : d # c => /\ pc'[d] = pc[d] /\ hand'[d] = hand[d] /\ outcome'[d] = outcome[d]
                                   /\ held'[d] = held[d]
  BY <1>1, <1>2, <1>3, <1>5
<1>9. \A x \in Calls : spending'[x] = IF spending[x] = c THEN None ELSE spending[x]
  <2>1. \A x \in Calls : spending[x] = c => x = p
    <3>1. RowsAreHeld
      BY DEF IdentityInv
    <3> QED BY ONLY <1>1, <1>2, <1>4, <3>1, c \in Calls DEF RowsAreHeld
  <2> QED BY <1>1, <1>2, <1>4, <2>1
<1>10. /\ Live(p) /\ ~Live(p)' /\ Live(c)' /\ ~Live(c)
       /\ \A x \in Calls : x \notin {c, p} => (Live(x)' <=> Live(x))
  <2>1. Live(p) /\ ~Live(p)'
    BY <1>2, <1>4, <1>5, <1>6, <1>7 DEF Live
  <2>2. Live(c)' /\ ~Live(c)
    BY <1>3, <1>5, <1>7 DEF Live
  <2> QED BY <1>7, <2>1, <2>2 DEF Live
<1>11. /\ \A f : Family(f)' = IF f = old.family THEN Family(f) \cup {c} ELSE Family(f)
       /\ p \in Family(old.family) /\ \A f : c \notin Family(f) /\ Family(f) \subseteq Calls
  <2>1. p \in Family(old.family) /\ \A f : c \notin Family(f) /\ Family(f) \subseteq Calls
    BY <1>3, <1>4, <1>5 DEF Family
  <2>2. \A x \in Calls : x # c => /\ tokens'[x] # None <=> tokens[x] # None
                                  /\ tokens[x] # None => tokens'[x].family = tokens[x].family
    BY <1>4, <1>5, <1>6, <1>7
  <2>3. tokens'[c] # None /\ tokens'[c].family = old.family /\ tokens[c] = None
    BY <1>3, <1>5, <1>7
  <2> QED BY <2>1, <2>2, <2>3 DEF Family
<1>12. /\ \A x \in Family(old.family) : Live(x) => x = p
       /\ \A x \in Calls : tokens[x] # None => presented[x] # p
       /\ endedAt[old.family] = None
  <2>1. \A x \in Family(old.family) : Live(x) => x = p
    BY <1>4, <1>5, <1>10 DEF IdentityInv, NeverForks, Family
  <2>2. \A x \in Calls : tokens[x] # None => presented[x] # p
    BY <1>2, <1>4, <1>5 DEF IdentityInv, LinksAreSound
  <2>3. endedAt[old.family] = None
    <3>1. old.family \in Calls
      BY DEF Token
    <3> QED BY <1>10, <1>11, <3>1 DEF IdentityInv, EndedStaysEnded
  <2> QED BY <2>1, <2>2, <2>3
<1>13. \A x \in Calls : tokens[x] # None =>
         /\ tokens'[x] # None /\ tokens'[x].family = tokens[x].family
         /\ tokens'[x].user = tokens[x].user /\ tokens'[x].expires = tokens[x].expires
         /\ tokens[x].revoked # None => tokens'[x].revoked # None
  BY <1>2, <1>3, <1>4, <1>5, <1>6, <1>7
<1>14. /\ AccountsAreSound' /\ RowsAreHeld'
       /\ \A d \in Calls : d # c => Begun(d)' /\ InHand(d)' /\ Over(d)' /\ Holds(d)'
       /\ \A t \in Calls : tokens[t] # None =>
            /\ tokens'[tokens'[t].family] # None /\ typed'[tokens'[t].family] # None
            /\ tokens'[t].expires = tokens'[tokens'[t].family].expires
            /\ tokens'[tokens'[t].family].user = tokens'[t].user
            /\ OpenedBy(tokens[t], tokens[t].family)'
            /\ presented'[t] # None => tokens'[presented'[t]].revoked # None
  <2>1. \A x \in Calls : Live(x) /\ spending[x] # c /\ spending[x] # None => Live(x)'
    BY <1>4, <1>10
  <2>2. outcome'[c] # "registered"
    BY <1>8
  <2>3. \A d \in Calls : d # c /\ tokens[d] = None => tokens'[d] = None
    BY <1>4, <1>7
  <2>4. /\ UNCHANGED <<users, announced, typed, presented, clock>>
        /\ \A f \in Calls : /\ endedAt[f] # None => endedAt'[f] = endedAt[f]
                            /\ endedAt'[f] # None => endedAt'[f] \in {endedAt[f], clock}
        /\ todo' = todo /\ missed' = missed
    BY <1>1
  <2>5. \A d \in Calls : d # c => /\ pc'[d] = pc[d] /\ hand'[d] = hand[d] /\ outcome'[d] = outcome[d]
                                  /\ todo'[d] = todo[d] /\ missed'[d] = missed[d] /\ held'[d] = held[d]
                                  /\ tokens[d] = None => tokens'[d] = None
    BY <1>8, <2>3, <2>4
  <2>6. KeepsRows(c)
    BY ONLY <1>9, <1>13, <2>1, <2>2, <2>4, <2>5 DEF KeepsRows
  <2> QED BY <2>6, RowsStay
<1>15. ASSUME NEW d \in Calls, d # c PROVE Revoking(d)'
  <2>1. Revoking(d) /\ pc'[d] = pc[d] /\ todo'[d] = todo[d] /\ missed'[d] = missed[d] /\ todo[d] \subseteq Calls
    BY <1>1, <1>8, <1>15 DEF IdentityInv, TypeOK, CallOK
  <2>2. ASSUME pc[d] = "revoking" PROVE Revoking(d)'
    <3>1. PICK q \in Calls : q = presented[d] /\ tokens[q] # None
      BY <1>2, <2>2 DEF IdentityInv, CallOK, Begun
    <3>2. FamilyOf(d)' = FamilyOf(d)
      BY <1>1, <1>13, <3>1 DEF FamilyOf
    <3>3. \A x \in todo[d] : tokens[x] # None /\ tokens'[x] # None /\ x # c
      BY <1>3, <1>13, <2>1, <2>2 DEF Revoking
    <3>4. \A x \in todo[d] : ~Live(x) => ~Live(x)'
      BY <1>10, <2>1, <3>3
    <3>5. ASSUME ~missed[d], NEW x \in Family(FamilyOf(d))', Live(x)'
          PROVE  x \in todo[d] \/ spending'[x] = d \/ \E y \in todo[d] : ~Live(y)'
      <4>1. CASE FamilyOf(d) = old.family
        <5>1. p \in todo[d] \/ spending[p] = d \/ \E y \in todo[d] : ~Live(y)
          BY <1>10, <1>11, <2>1, <2>2, <3>5, <4>1 DEF Revoking
        <5> QED BY <1>4, <1>10, <1>15, <3>4, <5>1
      <4>2. CASE FamilyOf(d) # old.family
        <5>1. x \in Family(FamilyOf(d)) /\ x # c /\ x \in Calls
          BY <1>11, <3>2, <3>5, <4>2
        <5>2. x # p
          BY <1>5, <4>2, <5>1 DEF Family
        <5>3. x \in todo[d] \/ spending[x] = d \/ \E y \in todo[d] : ~Live(y)
          BY <1>10, <2>1, <2>2, <3>5, <5>1, <5>2 DEF Revoking
        <5> QED BY <1>9, <1>15, <3>4, <5>1, <5>3
      <4> QED BY <4>1, <4>2
    <3>6. \A x, y \in todo[d] : x = y
      BY <2>1, <2>2 DEF Revoking
    <3> QED BY <2>1, <3>3, <3>5, <3>6 DEF Revoking
  <2> QED BY <2>1, <2>2 DEF Revoking
<1>16. CallOK(c)'
  <2>1. Begun(c)' /\ InHand(c)' /\ Revoking(c)'
    BY <1>1, <1>4, <1>6, <1>7, <1>8, <1>e DEF Begun, InHand, Revoking
  <2>2. Over(c)'
    BY <1>1, <1>5, <1>7, <1>8 DEF Over
  <2>3. Holds(c)'
    BY <1>1, <1>5, <1>7, <1>8, <1>12 DEF Holds, GoodAccess
  <2> QED BY <2>1, <2>2, <2>3 DEF CallOK
<1>17. LinksAreSound'
  <2> SUFFICES ASSUME NEW t \in Calls, tokens'[t] # None
               PROVE  /\ tokens'[tokens'[t].family] # None /\ typed'[tokens'[t].family] # None
                      /\ tokens'[t].expires = tokens'[tokens'[t].family].expires
                      /\ tokens'[tokens'[t].family].user = tokens'[t].user
                      /\ OpenedBy(tokens[t], tokens[t].family)'
                      /\ presented'[t] # None => tokens'[presented'[t]].revoked # None
    BY DEF LinksAreSound
  <2>1. /\ tokens'[p].family = tokens'[c].family /\ tokens'[p].user = tokens'[c].user
        /\ tokens'[p].expires = tokens'[c].expires /\ presented'[c] = p /\ tokens'[p].revoked # None
    BY <1>1, <1>2, <1>4, <1>5, <1>6, <1>7
  <2>2. /\ tokens'[tokens'[p].family] # None /\ typed'[tokens'[p].family] # None
        /\ tokens'[p].expires = tokens'[tokens'[p].family].expires
        /\ tokens'[tokens'[p].family].user = tokens'[p].user
        /\ OpenedBy(tokens[p], tokens[p].family)'
    BY <1>4, <1>14
  <2>3. CASE t = c
    BY ONLY <2>1, <2>2, <2>3 DEF OpenedBy
  <2>4. CASE t # c
    BY <1>4, <1>7, <1>14, <2>4
  <2> QED BY <2>3, <2>4
<1>18. NeverForks'
  <2>1. \A u, v \in Calls :
          /\ tokens'[u] # None /\ tokens'[v] # None
          /\ presented'[u] # None /\ presented'[u] = presented'[v]
          => u = v
    <3> SUFFICES ASSUME NEW u \in Calls, NEW v \in Calls, tokens'[u] # None, tokens'[v] # None,
                        presented'[u] # None, presented'[u] = presented'[v], u # v
                 PROVE  FALSE
      OBVIOUS
    <3>1. \A x \in Calls : x # c /\ tokens'[x] # None => tokens[x] # None
      BY <1>4, <1>7
    <3>2. u # c /\ v # c
      BY <1>1, <1>4, <1>12, <3>1
    <3>3. tokens[u] # None /\ tokens[v] # None /\ presented[u] # None /\ presented[u] = presented[v]
      BY <1>1, <3>1, <3>2
    <3> QED BY <3>3 DEF IdentityInv, NeverForks
  <2>2. \A u, v \in Calls : Live(u)' /\ Live(v)' /\ tokens'[u].family = tokens'[v].family => u = v
    <3> SUFFICES ASSUME NEW u \in Calls, NEW v \in Calls, Live(u)', Live(v)',
                        tokens'[u].family = tokens'[v].family, u # v
                 PROVE  FALSE
      OBVIOUS
    <3>1. \A x \in Calls : Live(x)' => x # p /\ (x # c => Live(x) /\ tokens'[x] = tokens[x])
      BY <1>7, <1>10
    <3>2. \A x \in Calls : x # c /\ Live(x)' => tokens[x].family # old.family
      BY <1>12, <3>1 DEF Family, Live
    <3>3. u # c /\ v # c
      BY <1>5, <1>7, <3>1, <3>2
    <3>4. Live(u) /\ Live(v) /\ tokens[u].family = tokens[v].family
      BY <3>1, <3>3
    <3> QED BY <3>4 DEF IdentityInv, NeverForks
  <2> QED BY <2>1, <2>2 DEF NeverForks
<1>19. EndedHaveHeads' /\ EndedStaysEnded'
  <2>1. EndedHaveHeads'
    BY <1>1, <1>13 DEF IdentityInv, EndedHaveHeads
  <2>2. EndedStaysEnded'
    <3> SUFFICES ASSUME NEW f \in Calls, endedAt[f] # None, NEW t \in Family(f)' PROVE ~Live(t)'
      BY <1>1 DEF EndedStaysEnded
    <3>1. t \in Family(f) /\ t \in Calls /\ t # c
      BY <1>11, <1>12
    <3>2. ~Live(t)
      BY <3>1 DEF IdentityInv, EndedStaysEnded
    <3> QED BY <1>10, <3>1, <3>2
  <2> QED BY <2>1, <2>2
<1>20. TypeOK'
  <2>1. /\ pc' \in [Calls -> Steps] /\ hand' \in [Calls -> Hand] /\ outcome' \in [Calls -> Outcomes]
        /\ held' \in [Calls -> Access \cup {None}] /\ spending' \in [Calls -> Calls \cup {None}]
    BY <1>1, <1>2, <1>5, <1>e
  <2> QED BY <1>1, <1>7, <2>1 DEF IdentityInv, TypeOK
<1>21. \A d \in Calls : CallOK(d)'
  BY <1>14, <1>15, <1>16 DEF CallOK
<1> QED BY <1>1, <1>14, <1>17, <1>18, <1>19, <1>20, <1>21 DEF IdentityInv

\* Every row the UPDATE took is revoked; when it missed none, nothing of the family is
\* live any more.
LEMMA RevokeEndsPreserves ==
  ASSUME IdentityInv, NEW c \in Calls, RevokeEnds(c)
  PROVE  IdentityInv'
<1>1. /\ pc[c] = "revoking" /\ todo[c] = {} /\ pc' = [pc EXCEPT ![c] = "done"]
      /\ users' = users /\ announced' = announced /\ held' = held
      /\ tokens' = [t \in Calls |-> IF spending[t] = c THEN [tokens[t] EXCEPT !.revoked = hand[c].now]
                                                       ELSE tokens[t]]
      /\ clock' = clock /\ missed' = missed /\ todo' = todo
      /\ spending' = [t \in Calls |-> IF spending[t] = c THEN None ELSE spending[t]]
      /\ typed' = typed /\ presented' = presented
      /\ outcome' = [outcome EXCEPT ![c] = outcome[c]] /\ hand' = [hand EXCEPT ![c] = Empty]
  BY DEF RevokeEnds, Ends, request, accounts
<1>2. /\ pc \in [Calls -> Steps] /\ hand \in [Calls -> Hand] /\ outcome \in [Calls -> Outcomes]
      /\ tokens \in [Calls -> Token \cup {None}] /\ endedAt \in [Calls -> Time \cup {None}]
      /\ spending \in [Calls -> Calls \cup {None}] /\ presented \in [Calls -> Calls \cup {None}]
      /\ "done" \in Steps /\ None \notin Calls /\ None \notin Time /\ clock \in Time
  BY IdentityAssumption, NoneAssumption
     DEF IdentityAssumption, NoneAssumption, IdentityInv, TypeOK, Steps
<1>3. /\ CallOK(c) /\ tokens[c] = None /\ held[c] = None
      /\ outcome[c] \in {"revoked", "signed out"}
  BY <1>1 DEF IdentityInv, CallOK, Begun
<1>4. PICK p \in Calls : p = presented[c] /\ tokens[p] # None
  BY <1>1, <1>2, <1>3 DEF CallOK, Begun
<1>5. PICK f \in Calls, now \in Time :
        /\ f = tokens[p].family /\ now = hand[c].now /\ f = FamilyOf(c) /\ tokens[f] # None
  <2>1. tokens[p].family \in Calls /\ hand[c].now \in Time
    BY <1>2, <1>4 DEF Token, Hand
  <2>2. tokens[tokens[p].family] # None
    BY <1>4 DEF IdentityInv, LinksAreSound
  <2> QED BY <1>4, <2>1, <2>2 DEF FamilyOf
<1>6. /\ missed[c] \/ endedAt[f] # None => endedAt' = endedAt
      /\ ~missed[c] /\ endedAt[f] = None => endedAt' = [endedAt EXCEPT ![f] = clock]
  BY <1>4, <1>5 DEF RevokeEnds
<1>e. Empty \in Hand /\ Empty.access = None
  BY EmptyHand
<1>7. /\ pc'[c] = "done" /\ hand'[c] = Empty /\ outcome' = outcome
      /\ \A d \in Calls : d # c => pc'[d] = pc[d] /\ hand'[d] = hand[d]
      /\ \A x \in Calls : spending'[x] = IF spending[x] = c THEN None ELSE spending[x]
  BY <1>1, <1>2
<1>8. /\ \A x \in Calls : spending[x] # c => tokens'[x] = tokens[x]
      /\ \A x \in Calls : spending[x] = c =>
           /\ tokens'[x] \in Token /\ tokens'[x] # None /\ tokens'[x].revoked = now
           /\ tokens'[x].family = tokens[x].family /\ tokens'[x].user = tokens[x].user
           /\ tokens'[x].expires = tokens[x].expires /\ tokens[x] # None
      /\ tokens' \in [Calls -> Token \cup {None}]
  <2>1. \A x \in Calls : spending[x] # c => tokens'[x] = tokens[x]
    BY <1>1
  <2>2. ASSUME NEW x \in Calls, spending[x] = c
        PROVE  /\ tokens'[x] \in Token /\ tokens'[x] # None /\ tokens'[x].revoked = now
               /\ tokens'[x].family = tokens[x].family /\ tokens'[x].user = tokens[x].user
               /\ tokens'[x].expires = tokens[x].expires /\ tokens[x] # None
    <3> DEFINE new == [tokens[x] EXCEPT !.revoked = now]
    <3>1. tokens[x] # None
      <4>1. RowsAreHeld
        BY DEF IdentityInv
      <4> QED BY ONLY <1>2, <2>2, <4>1, c \in Calls DEF RowsAreHeld, Live
    <3>2. tokens[x] \in Token
      BY <1>2, <3>1
    <3>3. /\ new \in Token /\ new.revoked = now /\ new.family = tokens[x].family
          /\ new.user = tokens[x].user /\ new.expires = tokens[x].expires
      BY ONLY <3>2, now \in Time DEF Token
    <3>4. tokens'[x] = new
      BY <1>1, <1>5, <2>2
    <3>5. new # None
      BY <3>3, NoneAssumption DEF NoneAssumption
    <3> HIDE DEF new
    <3> QED BY <3>1, <3>3, <3>4, <3>5
  <2>3. tokens' \in [Calls -> Token \cup {None}]
    <3>1. \A x \in Calls : tokens'[x] \in Token \cup {None}
      BY <1>2, <2>1, <2>2
    <3>2. tokens' = [x \in Calls |-> tokens'[x]]
      BY <1>1
    <3> QED BY <3>1, <3>2
  <2> QED BY <2>1, <2>2, <2>3
<1>9. /\ \A x \in Calls : Live(x)' <=> Live(x) /\ spending[x] # c
      /\ \A g : Family(g)' = Family(g) /\ Family(g) \subseteq Calls
  <2>1. \A x \in Calls : Live(x)' <=> Live(x) /\ spending[x] # c
    BY <1>2, <1>8 DEF Live
  <2>2. \A g : Family(g)' = Family(g) /\ Family(g) \subseteq Calls
    BY <1>8 DEF Family
  <2> QED BY <2>1, <2>2
<1>10. \A x \in Calls : tokens[x] # None =>
         /\ tokens'[x] # None /\ tokens'[x].family = tokens[x].family
         /\ tokens'[x].user = tokens[x].user /\ tokens'[x].expires = tokens[x].expires
         /\ tokens[x].revoked # None => tokens'[x].revoked # None
  BY <1>2, <1>8
<1>11. \A g \in Calls : /\ endedAt[g] # None => endedAt'[g] = endedAt[g]
                        /\ endedAt'[g] # None => endedAt'[g] \in {endedAt[g], clock}
                        /\ endedAt'[g] # None /\ endedAt[g] = None => g = f /\ ~missed[c]
  BY <1>2, <1>6
<1>12. KeepsRows(c)
  <2>1. /\ UNCHANGED <<users, announced, typed, presented, clock>>
        /\ todo' = todo /\ missed' = missed /\ held' = held
    BY <1>1
  <2>2. \A d \in Calls : tokens[d] = None => tokens'[d] = None
    BY <1>8
  <2>3. outcome'[c] # "registered"
    BY <1>3, <1>7
  <2> QED BY <1>7, <1>9, <1>10, <1>11, <2>1, <2>2, <2>3 DEF KeepsRows
<1>13. /\ AccountsAreSound' /\ RowsAreHeld'
       /\ \A d \in Calls : d # c => Begun(d)' /\ InHand(d)' /\ Over(d)' /\ Holds(d)'
       /\ \A t \in Calls : tokens[t] # None =>
            /\ tokens'[tokens'[t].family] # None /\ typed'[tokens'[t].family] # None
            /\ tokens'[t].expires = tokens'[tokens'[t].family].expires
            /\ tokens'[tokens'[t].family].user = tokens'[t].user
            /\ OpenedBy(tokens[t], tokens[t].family)'
            /\ presented'[t] # None => tokens'[presented'[t]].revoked # None
  BY <1>12, RowsStay
<1>14. ASSUME NEW d \in Calls, d # c PROVE Revoking(d)'
  <2>1. Revoking(d) /\ pc'[d] = pc[d] /\ todo'[d] = todo[d] /\ missed'[d] = missed[d] /\ todo[d] \subseteq Calls
    BY <1>1, <1>7, <1>14 DEF IdentityInv, TypeOK, CallOK
  <2>2. ASSUME pc[d] = "revoking" PROVE Revoking(d)'
    <3>1. PICK q \in Calls : q = presented[d] /\ tokens[q] # None
      BY <1>2, <2>2 DEF IdentityInv, CallOK, Begun
    <3>2. FamilyOf(d)' = FamilyOf(d)
      BY <1>1, <1>10, <3>1 DEF FamilyOf
    <3>3. \A x \in todo[d] : tokens'[x] # None
      BY <1>10, <2>1, <2>2 DEF Revoking
    <3>4. \A x, y \in todo[d] : x = y
      BY <2>1, <2>2 DEF Revoking
    <3>5. ASSUME ~missed[d], NEW x \in Family(FamilyOf(d)), Live(x)'
          PROVE  x \in todo[d] \/ spending'[x] = d \/ \E y \in todo[d] : ~Live(y)'
      <4>1. x \in Calls /\ Live(x)
        BY <1>9, <3>5
      <4>2. x \in todo[d] \/ spending[x] = d \/ \E y \in todo[d] : ~Live(y)
        BY <2>1, <2>2, <3>5, <4>1 DEF Revoking
      <4> QED BY <1>7, <1>9, <1>14, <2>1, <4>1, <4>2
    <3> QED BY <1>9, <2>1, <3>2, <3>3, <3>4, <3>5 DEF Revoking
  <2> QED BY <2>1, <2>2 DEF Revoking
<1>15. ~missed[c] => \A x \in Family(f) : ~Live(x)'
  BY <1>1, <1>3, <1>5, <1>9 DEF CallOK, Revoking
<1>16. CallOK(c)'
  <2>1. Begun(c)' /\ InHand(c)' /\ Revoking(c)' /\ Holds(c)'
    BY <1>1, <1>3, <1>4, <1>7, <1>10, <1>e DEF Begun, InHand, Revoking, Holds
  <2>2. endedAt'[f] # None \/ missed'[c]
    BY <1>1, <1>2, <1>6, Zenon
  <2>3. FamilyOf(c)' = f
    BY <1>1, <1>4, <1>5, <1>10 DEF FamilyOf
  <2>4. Over(c)'
    BY <1>3, <1>7, <2>2, <2>3, NoneNames DEF Over
  <2> QED BY <2>1, <2>4 DEF CallOK
<1>17. LinksAreSound'
  <2>1. \A t \in Calls : tokens'[t] # None => tokens[t] # None
    BY <1>8
  <2> QED BY <1>13, <2>1 DEF LinksAreSound
<1>18. NeverForks'
  <2>1. \A u, v \in Calls :
          /\ tokens'[u] # None /\ tokens'[v] # None
          /\ presented'[u] # None /\ presented'[u] = presented'[v]
          => u = v
    <3> SUFFICES ASSUME NEW u \in Calls, NEW v \in Calls, tokens'[u] # None, tokens'[v] # None,
                        presented'[u] # None, presented'[u] = presented'[v]
                 PROVE  u = v
      OBVIOUS
    <3>1. tokens[u] # None /\ tokens[v] # None /\ presented[u] # None /\ presented[u] = presented[v]
      BY <1>1, <1>8
    <3> QED BY <3>1 DEF IdentityInv, NeverForks
  <2>2. \A u, v \in Calls : Live(u)' /\ Live(v)' /\ tokens'[u].family = tokens'[v].family => u = v
    <3> SUFFICES ASSUME NEW u \in Calls, NEW v \in Calls, Live(u)', Live(v)',
                        tokens'[u].family = tokens'[v].family
                 PROVE  u = v
      OBVIOUS
    <3>1. Live(u) /\ Live(v) /\ tokens[u].family = tokens[v].family
      BY <1>8, <1>9
    <3> QED BY <3>1 DEF IdentityInv, NeverForks
  <2> QED BY <2>1, <2>2 DEF NeverForks
<1>19. EndedHaveHeads' /\ EndedStaysEnded'
  <2>1. EndedHaveHeads'
    BY <1>5, <1>10, <1>11 DEF IdentityInv, EndedHaveHeads
  <2>2. EndedStaysEnded'
    <3> SUFFICES ASSUME NEW g \in Calls, endedAt'[g] # None, NEW t \in Family(g)' PROVE ~Live(t)'
      BY DEF EndedStaysEnded
    <3>1. t \in Family(g) /\ t \in Calls
      BY <1>9
    <3>2. CASE endedAt[g] # None
      BY <1>9, <3>1, <3>2 DEF IdentityInv, EndedStaysEnded
    <3>3. CASE endedAt[g] = None
      BY <1>11, <1>15, <3>1, <3>3
    <3> QED BY <3>2, <3>3
  <2> QED BY <2>1, <2>2
<1>20. TypeOK'
  <2>1. /\ pc' \in [Calls -> Steps] /\ hand' \in [Calls -> Hand]
        /\ spending' \in [Calls -> Calls \cup {None}] /\ endedAt' \in [Calls -> Time \cup {None}]
    BY <1>1, <1>2, <1>6, <1>e
  <2> QED BY <1>1, <1>7, <1>8, <2>1 DEF IdentityInv, TypeOK
<1>21. \A d \in Calls : CallOK(d)'
  BY <1>13, <1>14, <1>16 DEF CallOK
<1> QED BY <1>1, <1>13, <1>17, <1>18, <1>19, <1>20, <1>21 DEF IdentityInv

\* An account is inserted when no other has its address, and nobody's rows change.
LEMMA InsertUserPreserves ==
  ASSUME IdentityInv, NEW c \in Calls, InsertUser(c)
  PROVE  IdentityInv'
<1> DEFINE email == Address[typed[c].spelling]
           user  == [email |-> email, hash |-> typed[c].password]
<1>1. /\ pc[c] = "insert user" /\ pc' = [pc EXCEPT ![c] = "write event"]
      /\ announced' = announced /\ tokens' = tokens /\ held' = held
      /\ clock' = clock /\ endedAt' = endedAt /\ missed' = missed /\ spending' = spending /\ todo' = todo
      /\ typed' = typed /\ presented' = presented /\ outcome' = outcome /\ hand' = hand
      /\ users' = [users EXCEPT ![c] = user]
      /\ \A u \in Calls : users[u] # None => users[u].email # email
  BY DEF InsertUser, CreateUser, NewUser, NewEmail, Hash, GetUserByEmail, GoTo, request, chain, revoking
<1>2. /\ pc \in [Calls -> Steps] /\ users \in [Calls -> User \cup {None}] /\ "write event" \in Steps
      /\ spending \in [Calls -> Calls \cup {None}] /\ typed \in [Calls -> AnyForm \cup {None}]
  BY DEF IdentityInv, TypeOK, Steps
<1>3. /\ CallOK(c) /\ typed[c] # None /\ email # None /\ users[c] = None /\ presented[c] = None
      /\ held[c] = None /\ outcome[c] = None
  BY <1>1 DEF IdentityInv, CallOK, Begun
<1>4. user \in User /\ user # None /\ user.email = email
  <2>1. typed[c] \in AnyForm
    BY <1>2, <1>3
  <2>2. user \in User
    BY <1>3, <2>1 DEF User, AnyForm
  <2>3. user # None
    BY <2>2, NoneAssumption DEF NoneAssumption
  <2> QED BY <2>2, <2>3
<1> HIDE DEF user
<1>5. /\ users'[c] = user /\ pc'[c] = "write event"
      /\ \A d \in Calls : d # c => users'[d] = users[d] /\ pc'[d] = pc[d]
      /\ \A d \in Calls : users[d] # None => users'[d] # None /\ users'[d] = users[d]
  BY <1>1, <1>2, <1>3
<1>L. (\A x \in Calls : Live(x)' <=> Live(x)) /\ (\A f : Family(f)' = Family(f) /\ Family(f) \subseteq Calls)
  BY <1>1 DEF Live, Family
<1>6. ASSUME NEW d \in Calls, d # c PROVE CallOK(d)'
  <2>1. pc'[d] = pc[d] /\ users'[d] = users[d]
    BY <1>5, <1>6
  <2>2. Begun(d) /\ InHand(d) /\ Revoking(d) /\ Over(d) /\ Holds(d)
    BY DEF IdentityInv, CallOK
  <2>3. Begun(d)' /\ Over(d)' /\ Holds(d)'
    BY <1>1, <2>1, <2>2 DEF Begun, Over, Holds, GoodAccess, FamilyOf
  <2>4. InHand(d)'
    <3>1. pc[d] = "store" => hand[d].token \in Token
      BY <2>2 DEF IdentityInv, TypeOK, InHand, Hand
    <3>2. pc[d] = "store" => users'[hand[d].token.user] = users[hand[d].token.user]
      BY <1>5, <2>2, <3>1 DEF InHand, OpenedBy, Token
    <3> QED BY <1>1, <2>1, <2>2, <3>2 DEF InHand, GoodAccess, FamilyOf, OpenedBy
  <2>5. Revoking(d)'
    <3>1. todo[d] \subseteq Calls
      BY DEF IdentityInv, TypeOK
    <3>2. FamilyOf(d)' = FamilyOf(d)
      BY <1>1 DEF FamilyOf
    <3> QED BY <1>1, <1>L, <2>1, <2>2, <3>1, <3>2 DEF Revoking
  <2> QED BY <2>3, <2>4, <2>5 DEF CallOK
<1>7. CallOK(c)'
  <2>1. Begun(c)'
    BY <1>1, <1>3, <1>4, <1>5 DEF CallOK, Begun
  <2>2. InHand(c)'
    BY <1>1, <1>3, <1>5 DEF CallOK, InHand, GoodAccess
  <2>3. Revoking(c)' /\ Over(c)' /\ Holds(c)'
    BY <1>1, <1>3, <1>5 DEF Revoking, Over, Holds
  <2> QED BY <2>1, <2>2, <2>3 DEF CallOK
<1>8. AccountsAreSound'
  <2>0. AccountsAreSound
    BY DEF IdentityInv
  <2>1. \A u \in Calls : users'[u] # None => typed'[u] # None /\ users'[u].email = Address[typed'[u].spelling]
    BY <1>1, <1>3, <1>4, <1>5, <2>0 DEF AccountsAreSound
  <2>2. \A u, v \in Calls : users'[u] # None /\ users'[v] # None /\ users'[u].email = users'[v].email => u = v
    <3> SUFFICES ASSUME NEW u \in Calls, NEW v \in Calls, users'[u] # None, users'[v] # None,
                        users'[u].email = users'[v].email, u # v
                 PROVE  FALSE
      OBVIOUS
    <3>0. ASSUME NEW w \in Calls, w # c, users'[w] # None PROVE users'[w].email # users'[c].email
      <4>1. users'[w] = users[w] /\ users[w] # None
        BY <1>5, <3>0
      <4>2. users[w].email # email
        BY <1>1, <4>1
      <4>3. users'[c].email = email
        BY ONLY <1>4, <1>5
      <4> QED BY ONLY <4>1, <4>2, <4>3
    <3>1. u # c /\ v # c
      BY <3>0
    <3>2. users[u] # None /\ users[v] # None /\ users[u].email = users[v].email
      BY <1>5, <3>1
    <3> QED BY <2>0, <3>2 DEF AccountsAreSound
  <2>3. \A d \in Calls : outcome'[d] = "registered" => d \in announced' /\ users'[d] # None
    BY <1>1, <1>5, <2>0 DEF AccountsAreSound
  <2> QED BY <2>1, <2>2, <2>3 DEF AccountsAreSound
<1>9. RowsAreHeld'
  <2> SUFFICES ASSUME NEW x \in Calls, spending[x] # None
               PROVE  /\ Live(x)'
                      /\ \/ pc'[spending[x]] \in {"store next", "commit"} /\ presented[spending[x]] = x
                         \/ pc'[spending[x]] = "revoking" /\ todo[spending[x]] = {}
    BY <1>1 DEF RowsAreHeld
  <2>1. PICK d \in Calls : d = spending[x]
    BY <1>2
  <2>2. /\ Live(x)
        /\ \/ pc[d] \in {"store next", "commit"} /\ presented[d] = x
           \/ pc[d] = "revoking" /\ todo[d] = {}
    BY <2>1 DEF IdentityInv, RowsAreHeld
  <2>3. d # c
    BY <1>1, <2>2
  <2> QED BY <1>5, <1>L, <2>1, <2>2, <2>3
<1>10. LinksAreSound'
  <2> SUFFICES ASSUME NEW t \in Calls, tokens[t] # None
               PROVE  /\ tokens[tokens[t].family] # None /\ typed[tokens[t].family] # None
                      /\ tokens[t].expires = tokens[tokens[t].family].expires
                      /\ tokens[tokens[t].family].user = tokens[t].user
                      /\ OpenedBy(tokens[t], tokens[t].family)'
                      /\ presented[t] # None => tokens[presented[t]].revoked # None
    BY <1>1 DEF LinksAreSound
  <2>1. /\ tokens[tokens[t].family] # None /\ typed[tokens[t].family] # None
        /\ tokens[t].expires = tokens[tokens[t].family].expires
        /\ tokens[tokens[t].family].user = tokens[t].user
        /\ OpenedBy(tokens[t], tokens[t].family)
        /\ presented[t] # None => tokens[presented[t]].revoked # None
    BY DEF IdentityInv, LinksAreSound
  <2>2. tokens[t].user \in Calls
    BY DEF IdentityInv, TypeOK, Token
  <2>3. OpenedBy(tokens[t], tokens[t].family)'
    BY <1>1, <1>5, <2>1, <2>2 DEF OpenedBy
  <2> QED BY <2>1, <2>3
<1>11. NeverForks'
  <2>1. \A u, v \in Calls :
          /\ tokens'[u] # None /\ tokens'[v] # None
          /\ presented'[u] # None /\ presented'[u] = presented'[v]
          => u = v
    <3> SUFFICES ASSUME NEW u \in Calls, NEW v \in Calls, tokens'[u] # None, tokens'[v] # None,
                        presented'[u] # None, presented'[u] = presented'[v]
                 PROVE  u = v
      OBVIOUS
    <3>1. tokens[u] # None /\ tokens[v] # None /\ presented[u] # None /\ presented[u] = presented[v]
      BY <1>1
    <3> QED BY <3>1 DEF IdentityInv, NeverForks
  <2>2. \A u, v \in Calls : Live(u)' /\ Live(v)' /\ tokens'[u].family = tokens'[v].family => u = v
    <3> SUFFICES ASSUME NEW u \in Calls, NEW v \in Calls, Live(u)', Live(v)',
                        tokens'[u].family = tokens'[v].family
                 PROVE  u = v
      OBVIOUS
    <3>1. Live(u) /\ Live(v) /\ tokens[u].family = tokens[v].family
      BY <1>1, <1>L
    <3> QED BY <3>1 DEF IdentityInv, NeverForks
  <2> QED BY <2>1, <2>2 DEF NeverForks
<1>12. EndedHaveHeads' /\ EndedStaysEnded'
  BY <1>1, <1>L DEF IdentityInv, EndedHaveHeads, EndedStaysEnded
<1>13. TypeOK'
  <2>1. pc' \in [Calls -> Steps] /\ users' \in [Calls -> User \cup {None}]
    BY <1>1, <1>2, <1>4
  <2> QED BY <1>1, <2>1 DEF IdentityInv, TypeOK
<1> QED BY <1>1, <1>6, <1>7, <1>8, <1>9, <1>10, <1>11, <1>12, <1>13 DEF IdentityInv
-----------------------------------------------------------------------------
(* Time, and the theorems.                                                 *)

\* Time passing changes no row.
LEMMA TickPreserves ==
  ASSUME IdentityInv, Tick
  PROVE  IdentityInv'
<1>1. /\ pc' = pc /\ users' = users /\ announced' = announced /\ tokens' = tokens /\ held' = held
      /\ endedAt' = endedAt /\ missed' = missed /\ spending' = spending /\ todo' = todo
      /\ typed' = typed /\ presented' = presented /\ outcome' = outcome /\ hand' = hand
      /\ clock < MaxClock /\ clock' = clock + 1
  BY DEF Tick, request, accounts, chain, revoking
<1>2. clock \in Nat /\ clock' \in Time
  BY <1>1, IdentityAssumption DEF IdentityAssumption, IdentityInv, TypeOK, Time
<1>L. (\A x \in Calls : Live(x)' <=> Live(x)) /\ (\A f : Family(f)' = Family(f) /\ Family(f) \subseteq Calls)
  BY <1>1 DEF Live, Family
<1>3. ASSUME NEW d \in Calls PROVE CallOK(d)'
  <2>1. Begun(d) /\ InHand(d) /\ Revoking(d) /\ Over(d) /\ Holds(d)
    BY DEF IdentityInv, CallOK
  <2>2. Begun(d)' /\ Over(d)'
    BY <1>1, <2>1 DEF Begun, Over, FamilyOf
  <2>3. ASSUME NEW a \in Access, GoodAccess(a) PROVE a.issued <= clock' /\ a.expires = a.issued + AccessTTL
    <3>1. a.issued \in Nat
      BY IdentityAssumption DEF IdentityAssumption, Access, Time
    <3> QED BY <1>1, <1>2, <2>3, <3>1 DEF GoodAccess
  <2>4. hand[d].access \in Access \cup {None} /\ held[d] \in Access \cup {None}
    BY DEF IdentityInv, TypeOK, Hand
  <2>5. InHand(d)'
    BY <1>1, <2>1, <2>3, <2>4 DEF InHand, GoodAccess, FamilyOf, OpenedBy
  <2>6. Holds(d)'
    BY <1>1, <2>1, <2>3, <2>4 DEF Holds, GoodAccess
  <2>7. Revoking(d)'
    <3>1. todo[d] \subseteq Calls
      BY DEF IdentityInv, TypeOK
    <3>2. FamilyOf(d)' = FamilyOf(d)
      BY <1>1 DEF FamilyOf
    <3> QED BY <1>1, <1>L, <2>1, <3>1, <3>2 DEF Revoking
  <2> QED BY <2>2, <2>5, <2>6, <2>7 DEF CallOK
<1>4. AccountsAreSound' /\ RowsAreHeld'
  BY <1>1 DEF IdentityInv, AccountsAreSound, RowsAreHeld, Live
<1>5. LinksAreSound' /\ NeverForks'
  BY <1>1 DEF IdentityInv, LinksAreSound, OpenedBy, NeverForks, Live
<1>6. EndedHaveHeads' /\ EndedStaysEnded'
  BY <1>1, <1>L DEF IdentityInv, EndedHaveHeads, EndedStaysEnded
<1>7. TypeOK'
  BY <1>1, <1>2 DEF IdentityInv, TypeOK
<1> QED BY <1>1, <1>3, <1>4, <1>5, <1>6, <1>7 DEF IdentityInv

\* Nor does nothing happening.
LEMMA StutterKeeps == IdentityInv /\ UNCHANGED vars => IdentityInv'
<1> SUFFICES ASSUME IdentityInv, UNCHANGED vars PROVE IdentityInv'
  OBVIOUS
<1>1. /\ pc' = pc /\ users' = users /\ announced' = announced /\ tokens' = tokens /\ held' = held
      /\ endedAt' = endedAt /\ missed' = missed /\ spending' = spending /\ todo' = todo
      /\ typed' = typed /\ presented' = presented /\ outcome' = outcome /\ hand' = hand
      /\ clock' = clock
  BY DEF vars, request, accounts, chain, revoking
<1>2. \A d \in Calls : CallOK(d)'
  <2> SUFFICES ASSUME NEW d \in Calls PROVE CallOK(d)'
    OBVIOUS
  <2>1. CallOK(d)
    BY DEF IdentityInv
  <2>2. Begun(d)' /\ InHand(d)'
    BY <1>1, <2>1 DEF CallOK, Begun, InHand, GoodAccess, FamilyOf, OpenedBy
  <2>3. Over(d)' /\ Holds(d)'
    BY <1>1, <2>1 DEF CallOK, Over, Holds, GoodAccess, FamilyOf
  <2>4. Revoking(d)'
    BY <1>1, <2>1 DEF CallOK, Revoking, FamilyOf, Family, Live
  <2> QED BY <2>2, <2>3, <2>4 DEF CallOK
<1>3. AccountsAreSound' /\ RowsAreHeld' /\ LinksAreSound' /\ NeverForks'
  <2>1. AccountsAreSound' /\ RowsAreHeld'
    BY <1>1 DEF IdentityInv, AccountsAreSound, RowsAreHeld, Live
  <2>2. LinksAreSound' /\ NeverForks'
    BY <1>1 DEF IdentityInv, LinksAreSound, OpenedBy, NeverForks, Live
  <2> QED BY <2>1, <2>2
<1>4. EndedHaveHeads' /\ EndedStaysEnded' /\ TypeOK'
  BY <1>1 DEF IdentityInv, EndedHaveHeads, EndedStaysEnded, Family, Live, TypeOK
<1> QED BY <1>1, <1>2, <1>3, <1>4 DEF IdentityInv

\* However calls interleave, are cancelled or lose their answers, what is stored, held
\* and ended stays sound.
THEOREM IdentityInvariant == Spec => []IdentityInv
<1>1. IdentityInv /\ [Next]_vars => IdentityInv'
  <2> SUFFICES ASSUME IdentityInv, [Next]_vars PROVE IdentityInv'
    OBVIOUS
  <2>1. CASE UNCHANGED vars
    BY <2>1, StutterKeeps
  <2>2. CASE Tick
    BY <2>2, TickPreserves
  <2>3. ASSUME NEW c \in Calls,
               Register(c) \/ Login(c) \/ Refresh(c) \/ Logout(c) \/ Step(c) \/ StatementFails(c)
        PROVE  IdentityInv'
    BY <2>3, EntryPreserves, PresentPreserves, FailPreserves, InsertUserPreserves, ConflictPreserves,
       AnnouncePreserves, VerifyPreserves, StoreHeadPreserves, FindPreserves, SignPreserves,
       SpendPreserves, StoreNextPreserves, CommitPreserves, RevokeFamilyPreserves, RevokeRowPreserves,
       RevokeEndsPreserves DEF Step
  <2> QED BY <2>1, <2>2, <2>3 DEF Next
<1> QED BY <1>1, InitIdentity, PTL DEF Spec

\* One account an address; a chain of one owner and one end, that never forks; and
\* nobody who waits for a row holds one.
THEOREM SessionsAreSound == Spec => []ChainsAreSound
<1>1. IdentityInv => ChainsAreSound
  <2> SUFFICES ASSUME IdentityInv PROVE ChainsAreSound
    OBVIOUS
  <2>1. OneAccountPerAddress
    <3>1. AccountsAreSound
      BY DEF IdentityInv
    <3> SUFFICES ASSUME NEW u \in Calls, NEW v \in Calls, users[u] # None, users[v] # None,
                        Address[typed[u].spelling] = Address[typed[v].spelling]
                 PROVE  u = v
      BY DEF OneAccountPerAddress
    <3>2. users[u].email = users[v].email
      BY <3>1 DEF AccountsAreSound
    <3> QED BY <3>1, <3>2 DEF AccountsAreSound
  <2>2. ChainsAreOwned
    BY DEF IdentityInv, LinksAreSound, OpenedBy, ChainsAreOwned
  <2>3. WaitersHoldNothing
    BY IdentityAssumption DEF IdentityAssumption, IdentityInv, RowsAreHeld, WaitersHoldNothing
  <2> QED BY <2>1, <2>2, <2>3 DEF IdentityInv, ChainsAreSound
<1> QED BY <1>1, IdentityInvariant, PTL

\* A session that ended has no live link, and what it handed out is accepted for one
\* access TTL and the leeway at most.
THEOREM EndIsFinal == Spec => []EndedIsOver
<1>1. IdentityInv => EndedIsOver
  <2> SUFFICES ASSUME IdentityInv PROVE EndedIsOver
    OBVIOUS
  <2>1. EndedWithinOneTTL
    <3> SUFFICES ASSUME NEW c \in Known, endedAt[tokens[c].family] # None, Verify(held[c])
                 PROVE  clock < endedAt[tokens[c].family] + AccessTTL + Leeway
      BY DEF EndedWithinOneTTL
    <3>1. c \in Calls /\ held[c] # None
      BY DEF Known
    <3>2. tokens[c] # None /\ GoodAccess(held[c]) /\ held[c].issued <= endedAt[tokens[c].family]
      BY <3>1 DEF IdentityInv, CallOK, Holds
    <3>3. /\ tokens[c].family \in Calls
          /\ endedAt[tokens[c].family] \in Nat /\ held[c].issued \in Nat /\ clock \in Nat
          /\ AccessTTL \in Nat /\ Leeway \in Nat
      <4>1. tokens[c] \in Token /\ held[c] \in Access /\ clock \in Time
            /\ endedAt \in [Calls -> Time \cup {None}]
        BY <3>1, <3>2 DEF IdentityInv, TypeOK
      <4>2. Time \subseteq Nat /\ AccessTTL \in Nat /\ Leeway \in Nat
        BY IdentityAssumption DEF IdentityAssumption, Time
      <4> QED BY <4>1, <4>2 DEF Token, Access
    <3> QED BY <3>2, <3>3 DEF Verify, GoodAccess
  <2> QED BY <2>1 DEF IdentityInv, EndedIsOver
<1> QED BY <1>1, IdentityInvariant, PTL

\* Of two callers of one token one at least is refused, and the chain is ended, unless
\* its revocation raced a rotation.
THEOREM ReuseIsNoticed == Spec => []ReuseEndsChain
<1>1. IdentityInv => ReuseEndsChain
  <2> SUFFICES ASSUME IdentityInv, NEW c \in Calls, NEW d \in Calls,
                      c # d, pc[c] = "done", pc[d] = "done",
                      presented[c] # None, presented[c] = presented[d],
                      {outcome[c], outcome[d]} \subseteq {"ok", "revoked"}
               PROVE  \/ endedAt[FamilyOf(c)] # None
                      \/ \E r \in Calls : /\ missed[r] /\ presented[r] # None
                                          /\ tokens[presented[r]].family = FamilyOf(c)
    BY DEF ReuseEndsChain, FamilyOf
  <2>1. CallOK(c) /\ CallOK(d) /\ NeverForks
    BY DEF IdentityInv
  <2>2. outcome[c] = "revoked" \/ outcome[d] = "revoked"
    <3> SUFFICES ASSUME outcome[c] = "ok", outcome[d] = "ok" PROVE FALSE
      OBVIOUS
    <3>1. tokens[c] # None /\ tokens[d] # None
      BY <2>1 DEF CallOK, Over
    <3> QED BY <2>1, <3>1 DEF NeverForks
  <2>3. FamilyOf(d) = FamilyOf(c)
    BY DEF FamilyOf
  <2> QED BY <2>1, <2>2, <2>3 DEF CallOK, Over, FamilyOf
<1> QED BY <1>1, IdentityInvariant, PTL

\* What a client holds, or was told, is committed.
THEOREM AnswersAreStored == Spec => []AnsweredIsStored
<1>1. IdentityInv => AnsweredIsStored
  BY DEF IdentityInv, CallOK, Holds, AccountsAreSound, AnsweredIsStored, Known
<1> QED BY <1>1, IdentityInvariant, PTL
=============================================================================
