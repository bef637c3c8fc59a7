-------------------------- MODULE BookmarksProofs ---------------------------
(* Theorems about accounts and bookmarks, for any number of people, names, *)
(* browsers, leagues, requests and calls.                                  *)
EXTENDS Bookmarks, FiniteSetTheorems, TLAPS

-----------------------------------------------------------------------------
(* The users table and its tokens.  Accounts has no specification of its   *)
(* own: these are facts about its initial state and its steps, which the   *)
(* modules that compose it build on.                                       *)

AccNext == (\E r \in Requests, b \in Browsers, g \in Googles : Callback(r, b, g)) \/ AfterCallback

(* A request's op says which fields it has. *)
LEMMA RequestKinds ==
    ASSUME AccTypeOK, NEW r \in Requests
    PROVE  /\ req[r].op = "signin" => req[r] \in SignIns
           /\ req[r].op = "profile" => req[r] \in Profiles
           /\ req[r].op = "answer" => req[r] \in Answers
           /\ req[r] = NoRequest => req[r].op = "none"
  BY DEF AccTypeOK, NoRequest, SignIns, Profiles, Answers

(* Ids are numbers, and there are as many as people. *)
LEMMA RegisteredIsFinite ==
    ASSUME NEW S \in SUBSET Googles
    PROVE  /\ IsFiniteSet(S) /\ Cardinality(S) \in Nat /\ Cardinality(Googles) \in Nat
           /\ Cardinality(S) <= Cardinality(Googles)
           /\ \A g \in Googles \ S : /\ Cardinality(S \cup {g}) = Cardinality(S) + 1
                                     /\ Cardinality(S) + 1 <= Cardinality(Googles)
  <1>1. /\ IsFiniteSet(Googles) /\ IsFiniteSet(S)
        /\ Cardinality(S) \in Nat /\ Cardinality(Googles) \in Nat
        /\ Cardinality(S) <= Cardinality(Googles)
    BY AccountsAssumption, FS_Subset, FS_CardinalityType
  <1>2. ASSUME NEW g \in Googles \ S
        PROVE  /\ Cardinality(S \cup {g}) = Cardinality(S) + 1
               /\ Cardinality(S) + 1 <= Cardinality(Googles)
    <2>1. Cardinality(S \cup {g}) = Cardinality(S) + 1
      BY <1>1, <1>2, FS_AddElement
    <2>2. Cardinality(S \cup {g}) <= Cardinality(Googles)
      <3>1. S \cup {g} \in SUBSET Googles
        OBVIOUS
      <3>2. QED
        BY <1>1, <3>1, FS_Subset
    <2>3. QED
      BY <2>1, <2>2
  <1>3. QED
    BY <1>1, <1>2

(* What a registered person's row is. *)
LEMMA RowType ==
    ASSUME AccTypeOK, NEW g \in Registered
    PROVE  /\ users[g] \in Account /\ users[g].id \in Ids /\ users[g].name \in Names
           /\ g \in Googles
  BY DEF AccTypeOK, Registered, Account

(* A first sign-in whose name is free adds a row with an id nobody has.    *)
LEMMA NewAccountIsNew ==
    ASSUME AccTypeOK, IdsInOrder, NEW g \in Googles \ Registered, NEW n \in Names
    PROVE  /\ NewAccount(n) \in Account
           /\ \A h \in Registered : users[h].id # NewAccount(n).id
           /\ NewAccount(n).id = Cardinality(Registered) + 1
           /\ NewAccount(n).name = n
  <1>1. /\ Registered \in SUBSET Googles
        /\ Cardinality(Registered) \in Nat
        /\ Cardinality(Registered) + 1 <= Cardinality(Googles)
        /\ Cardinality(Googles) \in Nat
    BY RegisteredIsFinite DEF Registered
  <1>2. Cardinality(Registered) + 1 \in Ids
    BY <1>1 DEF Ids
  <1>3. ASSUME NEW h \in Registered
        PROVE  users[h].id # Cardinality(Registered) + 1
    <2>1. users[h].id \in Nat /\ users[h].id <= Cardinality(Registered)
      BY <1>1, RowType DEF IdsInOrder, Ids
    <2>2. QED
      BY <1>1, <2>1
  <1>4. QED
    BY <1>2, <1>3 DEF NewAccount, Account

-----------------------------------------------------------------------------
(* The rows a step leaves: all as they were, or one added by a first       *)
(* sign-in, or one renamed by a profile update of its own token.           *)
Added(g, n) ==
    /\ g \in Googles \ Registered /\ n \in Names /\ ~Taken(n)
    /\ users' = [users EXCEPT ![g] = NewAccount(n)]

Renamed(g, n) ==
    /\ g \in Registered /\ n \in Names /\ ~TakenByAnother(g, n)
    /\ users' = [users EXCEPT ![g] = [users[g] EXCEPT !.name = n]]

LEMMA SignInEffect ==
    ASSUME AccTypeOK, IdsInOrder, NEW r \in Requests, NEW n \in Names, SignIn(r, n)
    PROVE  LET g == req[r].google
           IN  /\ req[r] \in SignIns
               /\ \/ /\ users' = users \/ Added(g, n)
                     /\ g \in Registered' /\ users'[g] \in Account
                     /\ AnswerWith(r, TokenOf(g, users'[g]))
                  \/ users' = users /\ EndRequest(r)
                  \/ /\ users' = users /\ req[r].tries + 1 < MaxAttempts
                     /\ req' = [req EXCEPT ![r].tries = @ + 1]
               /\ jar' = jar
  <1> DEFINE g == req[r].google
  <1>1. req[r] \in SignIns /\ g \in Googles
    BY RequestKinds DEF SignIn, SignIns
  <1>2. CASE g \in Registered
    <2>1. users[g] \in Account /\ users[g] # NoAccount /\ CreateOrGet(g, n) = users[g]
      BY <1>2, RowType DEF CreateOrGet, Registered
    <2>2. users' = users
      BY <2>1 DEF SignIn, AccTypeOK
    <2>3. QED
      BY <1>1, <1>2, <2>1, <2>2 DEF SignIn, Registered
  <1>3. CASE g \notin Registered /\ Taken(n)
    <2>1. CreateOrGet(g, n) = NoAccount
      BY <1>3 DEF CreateOrGet
    <2>2. /\ users' = users /\ jar' = jar
          /\ IF req[r].tries + 1 < MaxAttempts
             THEN req' = [req EXCEPT ![r].tries = @ + 1]
             ELSE EndRequest(r)
      BY <2>1, Zenon DEF SignIn
    <2>3. CASE req[r].tries + 1 < MaxAttempts
      BY <1>1, <2>2, <2>3, Zenon
    <2>4. CASE ~(req[r].tries + 1 < MaxAttempts)
      BY <1>1, <2>2, <2>4, Zenon
    <2>5. QED
      BY <2>3, <2>4
  <1>4. CASE g \notin Registered /\ ~Taken(n)
    <2>1. NewAccount(n) \in Account /\ CreateOrGet(g, n) = NewAccount(n)
      BY <1>1, <1>4, NewAccountIsNew DEF CreateOrGet
    <2>2. NewAccount(n) # NoAccount
      BY <2>1, AccountsAssumption
    <2>3. /\ users' = [users EXCEPT ![g] = NewAccount(n)]
          /\ AnswerWith(r, TokenOf(g, NewAccount(n))) /\ jar' = jar
      BY <2>1, <2>2 DEF SignIn
    <2>4. users'[g] = NewAccount(n)
      BY <1>1, <2>3 DEF AccTypeOK
    <2>5. QED
      BY <1>1, <1>4, <2>1, <2>2, <2>3, <2>4 DEF Added, Registered
  <1>5. QED
    BY <1>2, <1>3, <1>4

LEMMA UpdateEffect ==
    ASSUME AccTypeOK, TokensAreGood, NEW r \in Requests, NEW g \in Googles, UpdateProfile(r, g)
    PROVE  /\ req[r] \in Profiles /\ g \in Registered /\ g = req[r].claims.google
           /\ \/ users' = users /\ EndRequest(r)
              \/ /\ Renamed(g, req[r].name) /\ users'[g] \in Account
                 /\ AnswerWith(r, TokenOf(g, users'[g]))
           /\ jar' = jar
  <1>1. req[r] \in Profiles /\ g \in Registered /\ users[g] \in Account
    BY RequestKinds, RowType DEF UpdateProfile
  <1>2. Good(req[r].claims) /\ users[g].id = req[r].claims.subject
    BY DEF UpdateProfile, TokensAreGood, RowOf
  <1>3. g = req[r].claims.google
    BY <1>1, <1>2 DEF Good, AccTypeOK, UniqueKeys
  <1>4. CASE TakenByAnother(g, req[r].name)
    BY <1>1, <1>3, <1>4 DEF UpdateProfile
  <1>5. CASE ~TakenByAnother(g, req[r].name)
    <2> DEFINE account == [users[g] EXCEPT !.name = req[r].name]
    <2>1. account \in Account /\ req[r].name \in Names
      BY <1>1 DEF Account, Profiles
    <2>2. /\ users' = [users EXCEPT ![g] = account] /\ jar' = jar
          /\ AnswerWith(r, TokenOf(g, account))
      BY <1>3, <1>5 DEF UpdateProfile
    <2>3. users'[g] = account
      BY <2>2 DEF AccTypeOK
    <2>4. QED
      BY <1>1, <1>3, <1>5, <2>1, <2>2, <2>3 DEF Renamed
  <1>6. QED
    BY <1>4, <1>5

LEMMA UsersStep ==
    ASSUME AccInv, AccNext
    PROVE  \/ users' = users
           \/ \E g \in Googles, n \in Names : Added(g, n)
           \/ \E r \in Requests : /\ req[r] \in Profiles
                                  /\ Renamed(req[r].claims.google, req[r].name)
  <1>1. ASSUME NEW r \in Requests, NEW n \in Names, SignIn(r, n)
        PROVE  users' = users \/ \E g \in Googles : Added(g, n)
    BY <1>1, SignInEffect DEF AccInv, SignIns
  <1>2. ASSUME NEW r \in Requests, NEW g \in Googles, UpdateProfile(r, g)
        PROVE  users' = users \/ (req[r] \in Profiles /\ Renamed(req[r].claims.google, req[r].name))
    BY <1>2, UpdateEffect DEF AccInv
  <1>3. ASSUME ~\E r \in Requests : \/ \E n \in Names : SignIn(r, n)
                                    \/ \E g \in Googles : UpdateProfile(r, g)
        PROVE  users' = users
    BY <1>3 DEF AccNext, AfterCallback, Callback, BeginProfile, SetAuthCookie, FailRequest, DropToken
  <1>4. QED
    BY <1>1, <1>2, <1>3

-----------------------------------------------------------------------------
(* The table keeps its types, its keys and the order of its ids; nobody    *)
(* loses an account or gets another id.                                    *)
UsersOK ==
    /\ users \in [Googles -> Account \cup {NoAccount}]
    /\ UniqueKeys
    /\ IdsInOrder

LEMMA UsersKept ==
    ASSUME AccInv, AccNext
    PROVE  /\ UsersOK'
           /\ \A g \in Registered : g \in Registered' /\ users'[g].id = users[g].id
  <1>1. CASE users' = users
    BY <1>1 DEF UsersOK, AccInv, AccTypeOK, UniqueKeys, IdsInOrder, Registered
  <1>2. ASSUME NEW g \in Googles, NEW n \in Names, Added(g, n)
        PROVE  /\ UsersOK'
               /\ \A h \in Registered : h \in Registered' /\ users'[h].id = users[h].id
    <2>1. /\ AccTypeOK /\ IdsInOrder /\ g \in Googles \ Registered /\ ~Taken(n)
          /\ NewAccount(n) \in Account /\ NewAccount(n) # NoAccount
          /\ NewAccount(n).id = Cardinality(Registered) + 1 /\ NewAccount(n).name = n
          /\ \A h \in Registered : users[h].id # NewAccount(n).id
      BY <1>2, NewAccountIsNew, AccountsAssumption DEF AccInv, Added
    <2>2. /\ users' = [users EXCEPT ![g] = NewAccount(n)]
          /\ users' \in [Googles -> Account \cup {NoAccount}]
          /\ users'[g] = NewAccount(n)
          /\ \A h \in Googles \ {g} : users'[h] = users[h]
      BY <1>2, <2>1 DEF AccTypeOK, Added
    <2>3. Registered' = Registered \cup {g}
      BY <2>1, <2>2 DEF Registered
    <2>4. UniqueKeys'
      <3>1. ASSUME NEW h \in Registered
            PROVE  users'[h].id # users'[g].id /\ users'[h].name # users'[g].name
        BY <2>1, <2>2, <3>1, RowType DEF Taken
      <3>2. ASSUME NEW h \in Registered, NEW k \in Registered, h # k
            PROVE  users'[h].id # users'[k].id /\ users'[h].name # users'[k].name
        BY <2>1, <2>2, <3>2, RowType DEF AccTypeOK, UniqueKeys
      <3>3. QED
        BY <2>3, <3>1, <3>2 DEF UniqueKeys
    <2>5. IdsInOrder'
      <3>1. /\ Registered \in SUBSET Googles /\ Cardinality(Registered) \in Nat
            /\ Cardinality(Registered \cup {g}) = Cardinality(Registered) + 1
        BY <2>1, RegisteredIsFinite DEF Registered
      <3>2. ASSUME NEW h \in Registered
            PROVE  users'[h].id <= Cardinality(Registered) + 1
        <4>1. users'[h] = users[h] /\ users[h].id \in Nat /\ users[h].id <= Cardinality(Registered)
          BY <2>1, <2>2, <3>1, RowType, RegisteredIsFinite DEF IdsInOrder, Ids
        <4>2. QED
          BY <3>1, <4>1
      <3>3. QED
        BY <2>1, <2>2, <2>3, <3>1, <3>2 DEF IdsInOrder
    <2>6. QED
      BY <2>1, <2>2, <2>3, <2>4, <2>5, RowType DEF UsersOK
  <1>3. ASSUME NEW r \in Requests, req[r] \in Profiles,
               Renamed(req[r].claims.google, req[r].name)
        PROVE  /\ UsersOK'
               /\ \A h \in Registered : h \in Registered' /\ users'[h].id = users[h].id
    <2> DEFINE g == req[r].claims.google
               n == req[r].name
    <2>1. /\ AccTypeOK /\ IdsInOrder /\ g \in Registered /\ n \in Names
          /\ users[g] \in Account /\ ~TakenByAnother(g, n)
          /\ users' = [users EXCEPT ![g] = [users[g] EXCEPT !.name = n]]
      BY <1>3, RowType DEF AccInv, Renamed
    <2>2. /\ [users[g] EXCEPT !.name = n] \in Account
          /\ [users[g] EXCEPT !.name = n].id = users[g].id
          /\ [users[g] EXCEPT !.name = n].name = n
      BY <2>1 DEF Account
    <2>3. /\ users'[g] = [users[g] EXCEPT !.name = n]
          /\ users' \in [Googles -> Account \cup {NoAccount}]
          /\ \A h \in Googles \ {g} : users'[h] = users[h]
      BY <2>1, <2>2 DEF AccTypeOK, Registered
    <2>4. Registered' = Registered
      BY <2>1, <2>2, <2>3, AccountsAssumption DEF Registered
    <2>5. \A h \in Registered : users'[h].id = users[h].id
      BY <2>2, <2>3 DEF Registered
    <2>6. UniqueKeys'
      <3>1. ASSUME NEW h \in Registered, NEW k \in Registered, h # k
            PROVE  users'[h].name # users'[k].name
        BY <2>1, <2>2, <2>3, <3>1 DEF AccTypeOK, UniqueKeys, TakenByAnother, Registered
      <3>2. QED
        BY <2>1, <2>4, <2>5, <3>1 DEF AccTypeOK, UniqueKeys
    <2>7. QED
      BY <2>1, <2>3, <2>4, <2>5, <2>6 DEF UsersOK, IdsInOrder
  <1>4. QED
    BY <1>1, <1>2, <1>3, UsersStep

-----------------------------------------------------------------------------
(* The requests and the jars keep their types, and every token in them is  *)
(* of the account Google vouched for: an account once named stays so.      *)
StaysGood(token) == token.google \in Registered' /\ token.subject = users'[token.google].id

LEMMA GoodStays ==
    ASSUME AccInv, AccNext
    PROVE  \A token : Good(token) => StaysGood(token)
  BY UsersKept DEF Good, StaysGood

LEMMA RequestsStep ==
    ASSUME AccInv, AccNext
    PROVE  /\ req' \in [Requests -> {NoRequest} \cup SignIns \cup Profiles \cup Answers]
           /\ \A r \in Requests : /\ req'[r].op = "profile" => StaysGood(req'[r].claims)
                                  /\ req'[r].op = "answer" => StaysGood(req'[r].token)
  <1> DEFINE Typed(q) == q \in {NoRequest} \cup SignIns \cup Profiles \cup Answers
             Holds(q) == /\ q.op = "profile" => StaysGood(q.claims)
                         /\ q.op = "answer" => StaysGood(q.token)
  <1>0. AccTypeOK /\ TokensAreGood /\ IdsInOrder
    BY DEF AccInv
  <1>1. ASSUME NEW r \in Requests, NEW q, Typed(q), Holds(q), req' = [req EXCEPT ![r] = q]
        PROVE  /\ req' \in [Requests -> {NoRequest} \cup SignIns \cup Profiles \cup Answers]
               /\ \A t \in Requests : Holds(req'[t])
    <2>1. req' \in [Requests -> {NoRequest} \cup SignIns \cup Profiles \cup Answers]
      BY <1>0, <1>1 DEF AccTypeOK
    <2>2. ASSUME NEW t \in Requests, t # r
          PROVE  Holds(req'[t])
      <3>1. req'[t] = req[t]
        BY <1>0, <1>1, <2>2 DEF AccTypeOK
      <3>2. /\ req[t].op = "profile" => Good(req[t].claims)
            /\ req[t].op = "answer" => Good(req[t].token)
        BY <1>0 DEF TokensAreGood
      <3>3. QED
        BY <3>1, <3>2, GoodStays
    <2>3. Holds(req'[r])
      <3>1. req'[r] = q
        BY <1>0, <1>1 DEF AccTypeOK
      <3>2. QED
        BY <1>1, <3>1
    <2>4. QED
      BY <2>1, <2>2, <2>3
  <1>2. Typed(NoRequest) /\ Holds(NoRequest)
    BY DEF NoRequest
  <1>3. ASSUME NEW r \in Requests, NEW b \in Browsers, NEW g \in Googles, Callback(r, b, g)
        PROVE  \E q : Typed(q) /\ Holds(q) /\ req' = [req EXCEPT ![r] = q]
    <2> DEFINE q == [op |-> "signin", browser |-> b, google |-> g, tries |-> 0]
    <2>1. Typed(q) /\ q.op = "signin"
      BY AccountsAssumption DEF SignIns
    <2>2. req' = [req EXCEPT ![r] = q]
      BY <1>3 DEF Callback
    <2>3. QED
      BY <2>1, <2>2
  <1>4. ASSUME NEW r \in Requests, NEW n \in Names, SignIn(r, n)
        PROVE  \E q : Typed(q) /\ Holds(q) /\ req' = [req EXCEPT ![r] = q]
    <2> DEFINE g == req[r].google
    <2>1. req[r] \in SignIns
      BY <1>0, <1>4, SignInEffect
    <2>2. CASE g \in Registered' /\ users'[g] \in Account /\ AnswerWith(r, TokenOf(g, users'[g]))
      <3> DEFINE q == [op |-> "answer", browser |-> req[r].browser, token |-> TokenOf(g, users'[g])]
      <3>1. TokenOf(g, users'[g]) \in Token /\ StaysGood(TokenOf(g, users'[g]))
        BY <2>1, <2>2 DEF TokenOf, Token, StaysGood, Account, SignIns
      <3>2. Typed(q) /\ Holds(q)
        BY <2>1, <3>1 DEF Answers, SignIns
      <3>3. req' = [req EXCEPT ![r] = q]
        BY <2>2 DEF AnswerWith
      <3>4. QED
        BY <3>2, <3>3
    <2>3. CASE req[r].tries + 1 < MaxAttempts /\ req' = [req EXCEPT ![r].tries = @ + 1]
      <3> DEFINE q == [req[r] EXCEPT !.tries = req[r].tries + 1]
      <3>1. req[r].tries + 1 \in 0 .. MaxAttempts - 1
        BY <2>1, <2>3, AccountsAssumption DEF SignIns
      <3>2. Typed(q) /\ q.op = "signin"
        BY <2>1, <3>1 DEF SignIns
      <3>3. req' = [req EXCEPT ![r] = q]
        BY <2>3
      <3>4. QED
        BY <3>2, <3>3
    <2>4. CASE EndRequest(r)
      BY <1>2, <2>4 DEF EndRequest
    <2>5. QED
      BY <1>0, <1>4, <2>2, <2>3, <2>4, SignInEffect
  <1>5. ASSUME NEW r \in Requests, NEW b \in Browsers, NEW n \in Names, BeginProfile(r, b, n)
        PROVE  \E q : Typed(q) /\ Holds(q) /\ req' = [req EXCEPT ![r] = q]
    <2> DEFINE q == [op |-> "profile", browser |-> b, claims |-> jar[b], name |-> n]
    <2>1. jar[b] \in Token /\ Good(jar[b])
      BY <1>0, <1>5 DEF BeginProfile, AccTypeOK, TokensAreGood
    <2>2. Typed(q) /\ Holds(q)
      BY <2>1, GoodStays DEF Profiles
    <2>3. req' = [req EXCEPT ![r] = q]
      BY <1>5 DEF BeginProfile
    <2>4. QED
      BY <2>2, <2>3
  <1>6. ASSUME NEW r \in Requests, NEW g \in Googles, UpdateProfile(r, g)
        PROVE  \E q : Typed(q) /\ Holds(q) /\ req' = [req EXCEPT ![r] = q]
    <2>1. req[r] \in Profiles /\ g \in Registered
      BY <1>0, <1>6, UpdateEffect
    <2>2. CASE users'[g] \in Account /\ AnswerWith(r, TokenOf(g, users'[g]))
      <3> DEFINE q == [op |-> "answer", browser |-> req[r].browser, token |-> TokenOf(g, users'[g])]
      <3>1. TokenOf(g, users'[g]) \in Token /\ StaysGood(TokenOf(g, users'[g]))
        BY <2>1, <2>2, UsersKept DEF TokenOf, Token, StaysGood, Account
      <3>2. Typed(q) /\ Holds(q)
        BY <2>1, <3>1 DEF Answers, Profiles
      <3>3. req' = [req EXCEPT ![r] = q]
        BY <2>2 DEF AnswerWith
      <3>4. QED
        BY <3>2, <3>3
    <2>3. CASE EndRequest(r)
      BY <1>2, <2>3 DEF EndRequest
    <2>4. QED
      BY <1>0, <1>6, <2>2, <2>3, UpdateEffect
  <1>7. ASSUME NEW r \in Requests, SetAuthCookie(r) \/ FailRequest(r)
        PROVE  \E q : Typed(q) /\ Holds(q) /\ req' = [req EXCEPT ![r] = q]
    BY <1>2, <1>7 DEF SetAuthCookie, FailRequest, EndRequest
  <1>8. ASSUME NEW b \in Browsers, DropToken(b)
        PROVE  /\ req' \in [Requests -> {NoRequest} \cup SignIns \cup Profiles \cup Answers]
               /\ \A t \in Requests : Holds(req'[t])
    <2>1. req' = req
      BY <1>8 DEF DropToken
    <2>2. \A t \in Requests : /\ req[t].op = "profile" => Good(req[t].claims)
                              /\ req[t].op = "answer" => Good(req[t].token)
      BY <1>0 DEF TokensAreGood
    <2>3. QED
      BY <1>0, <2>1, <2>2, GoodStays DEF AccTypeOK
  <1>9. QED
    BY <1>1, <1>3, <1>4, <1>5, <1>6, <1>7, <1>8 DEF AccNext, AfterCallback

LEMMA JarsStep ==
    ASSUME AccInv, AccNext
    PROVE  /\ jar' \in [Browsers -> Token \cup {NoToken}]
           /\ \A b \in Browsers : jar'[b] # NoToken => StaysGood(jar'[b])
  <1>0. AccTypeOK /\ TokensAreGood /\ IdsInOrder
    BY DEF AccInv
  <1>1. CASE jar' = jar
    <2>1. \A b \in Browsers : jar[b] # NoToken => Good(jar[b])
      BY <1>0 DEF TokensAreGood
    <2>2. QED
      BY <1>0, <1>1, <2>1, GoodStays DEF AccTypeOK
  <1>2. ASSUME NEW b \in Browsers, NEW token \in Token \cup {NoToken},
               token # NoToken => Good(token), jar' = [jar EXCEPT ![b] = token]
        PROVE  /\ jar' \in [Browsers -> Token \cup {NoToken}]
               /\ \A c \in Browsers : jar'[c] # NoToken => StaysGood(jar'[c])
    <2>1. \A c \in Browsers : jar[c] # NoToken => Good(jar[c])
      BY <1>0 DEF TokensAreGood
    <2>2. \A c \in Browsers : jar'[c] = IF c = b THEN token ELSE jar[c]
      BY <1>0, <1>2 DEF AccTypeOK
    <2>3. QED
      BY <1>0, <1>2, <2>1, <2>2, GoodStays DEF AccTypeOK
  <1>3. ASSUME NEW r \in Requests, SetAuthCookie(r)
        PROVE  /\ req[r].browser \in Browsers /\ req[r].token \in Token /\ Good(req[r].token)
               /\ jar' = [jar EXCEPT ![req[r].browser] = req[r].token]
    BY <1>0, <1>3, RequestKinds DEF SetAuthCookie, TokensAreGood, Answers
  <1>4. ASSUME NEW b \in Browsers, DropToken(b)
        PROVE  jar' = [jar EXCEPT ![b] = NoToken]
    BY <1>4 DEF DropToken
  <1>5. ASSUME ~\E r \in Requests : SetAuthCookie(r), ~\E b \in Browsers : DropToken(b)
        PROVE  jar' = jar
    BY <1>5
    DEF AccNext, AfterCallback, Callback, SignIn, BeginProfile, UpdateProfile, FailRequest
  <1>6. QED
    BY <1>1, <1>2, <1>3, <1>4, <1>5

-----------------------------------------------------------------------------
LEMMA AccInitInv == AccInit => AccInv
  BY DEF AccInit, AccInv, AccTypeOK, UniqueKeys, IdsInOrder, TokensAreGood, Registered, NoRequest

LEMMA AccNextInv == AccInv /\ AccNext => AccInv'
  BY UsersKept, RequestsStep, JarsStep
  DEF AccInv, AccTypeOK, UsersOK, TokensAreGood, Good, StaysGood

LEMMA AccStutters == AccInv /\ UNCHANGED accVars => AccInv'
  BY DEF accVars, AccInv, AccTypeOK, UniqueKeys, IdsInOrder, TokensAreGood, Registered, Good

(* An account changes only by a profile update of its own token.           *)
LEMMA RenamesAreOwn ==
    ASSUME AccInv, AccNext, NEW g \in Registered, users'[g] # users[g]
    PROVE  \E r \in Requests : /\ req[r].op = "profile"
                               /\ req[r].claims.google = g
                               /\ users'[g] = [users[g] EXCEPT !.name = req[r].name]
  <1>1. g \in Googles /\ users \in [Googles -> Account \cup {NoAccount}]
    BY DEF AccInv, AccTypeOK, Registered
  <1>2. ASSUME NEW h \in Googles, NEW n \in Names, Added(h, n)
        PROVE  FALSE
    BY <1>1, <1>2 DEF Added
  <1>3. ASSUME NEW r \in Requests, req[r] \in Profiles,
               Renamed(req[r].claims.google, req[r].name)
        PROVE  /\ req[r].op = "profile" /\ req[r].claims.google = g
               /\ users'[g] = [users[g] EXCEPT !.name = req[r].name]
    BY <1>1, <1>3 DEF Renamed, Profiles
  <1>4. QED
    BY <1>2, <1>3, UsersStep

-----------------------------------------------------------------------------
(* Bookmarks and the merge. *)

(* A call's op says which fields it has. *)
LEMMA CallKinds ==
    ASSUME BTypeOK, NEW c \in Calls
    PROVE  /\ call[c].op \in {"save", "update"} => call[c] \in Writes
           /\ call[c].op = "delete" => call[c] \in Deletes
           /\ call[c].op = "merge" => call[c] \in Merges
           /\ call[c].op = "merged" => call[c] \in MergesDone
           /\ call[c] = NoCall => call[c].op = "none"
  BY DEF BTypeOK, NoCall, Writes, Deletes, Merges, MergesDone

(* The keys of the table, and what lies under them. *)
LEMMA Keys ==
    ASSUME BTypeOK
    PROVE  /\ DOMAIN bookmarks = Owners \X Leagues
           /\ \A k \in Owners \X Leagues :
                 /\ k = <<k[1], k[2]>> /\ k[1] \in Owners /\ k[2] \in Leagues
                 /\ Present(k) => bookmarks[k] \in Row
           /\ \A u \in Owners, l \in Leagues :
                 <<u, l>> \in Owners \X Leagues /\ <<u, l>>[1] = u /\ <<u, l>>[2] = l
  BY DEF BTypeOK, Table, Present

(* Every step is one of the accounts' or leaves them alone. *)
LEMMA AccountsSteps ==
    ASSUME [BNext]_bVars
    PROVE  AccNext \/ UNCHANGED accVars
  BY DEF BNext, bVars, AccNext, LeaveToSignIn, SendFromPage, SendAs, Send, SaveUserLeague,
         UpdateUserLeague, DeleteUserLeague, RequestMerge, MergeBookmarks, LearnUser, LoseUser,
         MergeAnswered, FailCall, OpenPage

LEMMA AccountsKept == AccInv /\ [BNext]_bVars => AccInv'
  BY AccountsSteps, AccNextInv, AccStutters

(* Whoever Google vouched for gets and keeps the account of that subject,  *)
(* for any number of overlapping sign-ins, updates and tokens              *)
(* (CreateOrGetOAuthUser, UpdateProfile).                                  *)
THEOREM TokensAreOfTheirAccount == BSpec => []TokensNameTheirAccount
  <1>1. BInit => AccInv
    BY AccInitInv DEF BInit
  <1>2. AccInv => TokensNameTheirAccount
    BY DEF AccInv, TokensAreGood, Good, TokensNameTheirAccount
  <1>3. QED
    BY <1>1, <1>2, AccountsKept, PTL DEF BSpec

(* Only a profile update of its own token changes an account that is there *)
(* (HandleGoogleCallback, HandleUpdateProfile).                            *)
THEOREM AccountsAreRenamedByTheirOwn == BSpec => OnlyProfileUpdatesRename
  <1>1. BInit => AccInv
    BY AccInitInv DEF BInit
  <1>2. AccInv /\ [BNext]_bVars =>
          [\A g \in Registered : users'[g] # users[g] =>
              \E r \in Requests : /\ req[r].op = "profile"
                                  /\ req[r].claims.google = g
                                  /\ users'[g] = [users[g] EXCEPT !.name = req[r].name]]_accVars
    BY AccountsSteps, RenamesAreOwn
  <1>3. QED
    BY <1>1, <1>2, AccountsKept, PTL DEF BSpec, OnlyProfileUpdatesRename

-----------------------------------------------------------------------------
(* Types. *)
LEMMA MergeCallType ==
    ASSUME BTypeOK, NEW u \in Ids, NEW a, a \in Anonymous \/ IsRealUser(a),
           NEW from \in Browsers \cup {NoId}
    PROVE  /\ MergeCall(u, a, from) \in Merges \cup MergesDone
           /\ MergeCall(u, a, from).browser = from /\ MergeCall(u, a, from).begun = saves
           /\ MergeCall(u, a, from).op = "merge" =>
                 /\ MergeCall(u, a, from).anon = a /\ a \in Anonymous
                 /\ MergeCall(u, a, from).snapshot = Snapshot(a)
           /\ MergeCall(u, a, from).op # "merge" =>
                 MergeCall(u, a, from).op = "merged" /\ IsRealUser(a)
  <1>1. Snapshot(a) \in Table /\ saves \in 0 .. MaxSaves
    BY Keys DEF BTypeOK, Snapshot, Table
  <1>2. QED
    BY <1>1 DEF MergeCall, Merges, MergesDone

LEMMA WithoutPageType ==
    ASSUME BTypeOK, NEW b \in Browsers
    PROVE  /\ WithoutPage(b) \in
                 [Calls -> {NoCall} \cup Writes \cup Deletes \cup Merges \cup MergesDone]
           /\ \A c \in Calls :
                 /\ WithoutPage(b)[c].op = call[c].op
                 /\ call[c].op = "merge" => /\ WithoutPage(b)[c].anon = call[c].anon
                                            /\ WithoutPage(b)[c].snapshot = call[c].snapshot
                 /\ call[c].op \in {"merge", "merged"} =>
                       /\ WithoutPage(b)[c].begun = call[c].begun
                       /\ WithoutPage(b)[c].browser = IF call[c].browser = b THEN NoId
                                                      ELSE call[c].browser
  <1>1. ASSUME NEW c \in Calls, call[c].op = "merge"
        PROVE  /\ [call[c] EXCEPT !.browser = NoId] \in Merges
               /\ [call[c] EXCEPT !.browser = NoId].browser = NoId
               /\ [call[c] EXCEPT !.browser = NoId].op = "merge"
               /\ [call[c] EXCEPT !.browser = NoId].anon = call[c].anon
               /\ [call[c] EXCEPT !.browser = NoId].begun = call[c].begun
               /\ [call[c] EXCEPT !.browser = NoId].snapshot = call[c].snapshot
    BY <1>1, CallKinds DEF Merges
  <1>2. ASSUME NEW c \in Calls, call[c].op = "merged"
        PROVE  /\ [call[c] EXCEPT !.browser = NoId] \in MergesDone
               /\ [call[c] EXCEPT !.browser = NoId].browser = NoId
               /\ [call[c] EXCEPT !.browser = NoId].op = "merged"
               /\ [call[c] EXCEPT !.browser = NoId].begun = call[c].begun
    BY <1>2, CallKinds DEF MergesDone
  <1>3. QED
    BY <1>1, <1>2 DEF WithoutPage, BTypeOK

(* A save writes its label under its key and keeps the number of a row that *)
(* is there; a new row of an anonymous id is given the next number.         *)
LEMMA SaveEffect ==
    ASSUME BTypeOK, NEW c \in Calls, SaveUserLeague(c)
    PROVE  LET key == call[c].key
           IN  /\ call[c] \in Writes /\ saves' \in 0 .. MaxSaves /\ saves <= saves'
               /\ \E n \in 0 .. MaxSaves :
                     /\ bookmarks' = [bookmarks EXCEPT ![key] = [label |-> call[c].label, number |-> n]]
                     /\ Present(key) => n = bookmarks[key].number
                     /\ ~Present(key) /\ key[1] \in Anonymous => n = saves + 1
  <1> DEFINE key == call[c].key
             fresh == bookmarks[key] = NoRow /\ key[1] \in Anonymous
             n == IF fresh THEN saves + 1
                  ELSE IF bookmarks[key] = NoRow THEN 0 ELSE bookmarks[key].number
  <1>1. call[c] \in Writes /\ key \in Owners \X Leagues /\ saves \in 0 .. MaxSaves
    BY CallKinds DEF SaveUserLeague, Writes, BTypeOK
  <1>2. /\ fresh => saves < MaxSaves
        /\ bookmarks' = [bookmarks EXCEPT ![key] = [label |-> call[c].label, number |-> n]]
        /\ saves' = IF fresh THEN n ELSE saves
    BY Zenon DEF SaveUserLeague
  <1>3. Present(key) => bookmarks[key].number \in 0 .. MaxSaves
    BY <1>1, Keys DEF Row
  <1>4. /\ n \in 0 .. MaxSaves
        /\ Present(key) => n = bookmarks[key].number
        /\ fresh => n = saves + 1
    BY <1>1, <1>2, <1>3, BookmarksAssumption DEF Present
  <1>5. saves' \in 0 .. MaxSaves /\ saves <= saves'
    BY <1>1, <1>2, <1>4
  <1> HIDE DEF n
  <1>6. QED
    BY <1>1, <1>2, <1>4, <1>5 DEF Present

LEMMA InitType == BInit => BTypeOK
  BY AccInitInv, BookmarksAssumption DEF BInit, BTypeOK, AccInv, Table, NoPage

LEMMA NextType == BTypeOK /\ AccInv /\ [BNext]_bVars => BTypeOK'
  <1> SUFFICES ASSUME BTypeOK, AccInv, [BNext]_bVars PROVE BTypeOK'
    OBVIOUS
  <1> DEFINE Kinds == {NoCall} \cup Writes \cup Deletes \cup Merges \cup MergesDone
  <1>0. /\ AccTypeOK' /\ NoCall \in Kinds
        /\ \A b \in Browsers : jar[b] # NoToken => jar[b].subject \in Ids
    BY AccountsKept DEF AccInv, AccTypeOK, Token
  <1>1. CASE AfterCallback /\ UNCHANGED bmVars
    BY <1>0, <1>1 DEF bmVars, BTypeOK
  <1>2. ASSUME NEW r \in Requests, NEW b \in Browsers, NEW g \in Googles, LeaveToSignIn(r, b, g)
        PROVE  BTypeOK'
    BY <1>0, <1>2, WithoutPageType DEF LeaveToSignIn, BTypeOK, NoPage, AccTypeOK
  <1>3. ASSUME NEW c \in Calls, NEW a \in Owners, NEW l \in Leagues, Send(c, a, l)
        PROVE  BTypeOK'
    <2>1. <<a, l>> \in Owners \X Leagues
      OBVIOUS
    <2>2. call' \in [Calls -> Kinds]
      BY <1>3, <2>1 DEF Send, BTypeOK, Writes, Deletes
    <2>3. QED
      BY <1>0, <1>3, <2>2 DEF Send, BTypeOK
  <1>3p. ASSUME NEW c \in Calls, NEW b \in Browsers, NEW l \in Leagues, SendFromPage(c, b, l)
        PROVE  BTypeOK'
    <2>1. ResolveUserID(b) \in Owners
      BY <1>0, <1>3p DEF SendFromPage, ResolveUserID, UserId, Owners, BTypeOK, NoPage, Token
    <2>2. QED
      BY <1>3, <1>3p, <2>1 DEF SendFromPage
  <1>4. ASSUME NEW c \in Calls, SaveUserLeague(c)
        PROVE  BTypeOK'
    <2>1. call[c] \in Writes
      BY <1>4, CallKinds DEF SaveUserLeague
    <2> DEFINE key == call[c].key
    <2>2. key \in Owners \X Leagues /\ call[c].label \in Labels /\ saves \in 0 .. MaxSaves
      BY <2>1 DEF Writes, BTypeOK
    <2>4. PICK n \in 0 .. MaxSaves :
              bookmarks' = [bookmarks EXCEPT ![key] = [label |-> call[c].label, number |-> n]]
      BY <1>4, SaveEffect
    <2>r. saves' \in 0 .. MaxSaves
      BY <1>4, SaveEffect
    <2>5. bookmarks' \in Table /\ saves' \in 0 .. MaxSaves
      BY <2>2, <2>4, <2>r DEF BTypeOK, Table, Row
    <2>6. QED
      BY <1>0, <1>4, <2>5 DEF SaveUserLeague, EndCall, BTypeOK
  <1>5. ASSUME NEW c \in Calls, UpdateUserLeague(c)
        PROVE  BTypeOK'
    <2>1. call[c] \in Writes
      BY <1>5, CallKinds DEF UpdateUserLeague
    <2> DEFINE key == call[c].key
    <2>2. key \in Owners \X Leagues /\ call[c].label \in Labels
      BY <2>1 DEF Writes
    <2>3. Present(key) => [bookmarks[key] EXCEPT !.label = call[c].label] \in Row
      BY <2>2, Keys DEF Row
    <2>4. bookmarks' \in Table
      BY <1>5, <2>2, <2>3 DEF UpdateUserLeague, Present, BTypeOK, Table
    <2>5. QED
      BY <1>0, <1>5, <2>4 DEF UpdateUserLeague, EndCall, BTypeOK
  <1>6. ASSUME NEW c \in Calls, DeleteUserLeague(c)
        PROVE  BTypeOK'
    BY <1>0, <1>6 DEF DeleteUserLeague, EndCall, BTypeOK, Table
  <1>7. ASSUME NEW c \in Calls, FailCall(c)
        PROVE  BTypeOK'
    BY <1>0, <1>7 DEF FailCall, EndCall, BTypeOK
  <1>8. ASSUME NEW c \in Calls, NEW b \in Browsers, NEW a \in Owners, RequestMerge(c, b, a)
        PROVE  BTypeOK'
    <2>1. MergeCall(jar[b].subject, a, NoId) \in Kinds
      BY <1>0, <1>8, MergeCallType DEF RequestMerge
    <2>2. QED
      BY <1>0, <1>8, <2>1 DEF RequestMerge, BTypeOK
  <1>9. ASSUME NEW c \in Calls, MergeBookmarks(c)
        PROVE  BTypeOK'
    <2>1. call[c] \in Merges
      BY <1>9, CallKinds DEF MergeBookmarks
    <2>2. [op |-> "merged", browser |-> call[c].browser, begun |-> call[c].begun] \in Kinds
      BY <2>1 DEF Merges, MergesDone
    <2>3. ASSUME NEW k \in Owners \X Leagues, Moved(call[c], k)
          PROVE  [label |-> Original(call[c], k).label, number |-> 0] \in Row
      <3>1. <<call[c].anon, k[2]>> \in Owners \X Leagues /\ call[c].snapshot \in Table
        BY <2>1, Keys DEF Merges, Owners
      <3>2. Original(call[c], k) \in Row
        BY <2>3, <3>1 DEF Moved, Original, Table
      <3>3. QED
        BY <3>2, BookmarksAssumption DEF Row
    <2>4. bookmarks' \in Table
      BY <1>9, <2>3, Keys DEF MergeBookmarks, BTypeOK, Table
    <2>5. QED
      BY <1>0, <1>9, <2>2, <2>4 DEF MergeBookmarks, BTypeOK
  <1>10. ASSUME NEW c \in Calls, NEW b \in Browsers, LearnUser(b, c)
         PROVE  BTypeOK'
    <2>1. page' \in [Browsers -> [anon: Anonymous \cup {NoId}, user: Token \cup {NoToken}]]
      BY <1>10 DEF LearnUser, BTypeOK, AccTypeOK
    <2>2. CASE jar[b] # NoToken /\ stored[b] # NoId
      <3>1. MergeCall(jar[b].subject, stored[b], b) \in Kinds
        BY <1>0, <2>2, MergeCallType DEF BTypeOK
      <3>2. QED
        BY <1>0, <1>10, <2>1, <2>2, <3>1 DEF LearnUser, BTypeOK
    <2>3. CASE ~(jar[b] # NoToken /\ stored[b] # NoId)
      BY <1>0, <1>10, <2>1, <2>3 DEF LearnUser, BTypeOK
    <2>4. QED
      BY <2>2, <2>3
  <1>11. ASSUME NEW c \in Calls, MergeAnswered(c)
         PROVE  BTypeOK'
    BY <1>0, <1>11 DEF MergeAnswered, EndCall, BTypeOK
  <1>12. ASSUME NEW b \in Browsers, NEW a \in Anonymous, OpenPage(b, a)
         PROVE  BTypeOK'
    BY <1>0, <1>12, WithoutPageType DEF OpenPage, BTypeOK
  <1>13. ASSUME NEW b \in Browsers, LoseUser(b)
         PROVE  BTypeOK'
    BY <1>0, <1>13 DEF LoseUser, BTypeOK
  <1>14. CASE UNCHANGED bVars
    BY <1>0, <1>14 DEF bVars, bmVars, BTypeOK
  <1>15. QED
    BY <1>1, <1>2, <1>3, <1>3p, <1>4, <1>5, <1>6, <1>7, <1>8, <1>9, <1>10, <1>11, <1>12, <1>13,
       <1>14
    DEF BNext, SendAs

-----------------------------------------------------------------------------
(* What a step does to the table: nothing, or what the one call that it    *)
(* ends asked for, or what a merge asked for.                              *)
LEMMA TableStep ==
    ASSUME BTypeOK, [BNext]_bVars
    PROVE  \/ bookmarks' = bookmarks /\ saves' = saves
           \/ \E c \in Calls : SaveUserLeague(c)
           \/ \E c \in Calls : UpdateUserLeague(c)
           \/ \E c \in Calls : DeleteUserLeague(c)
           \/ \E c \in Calls : MergeBookmarks(c)
  BY DEF BNext, bVars, bmVars, LeaveToSignIn, SendFromPage, SendAs, Send, RequestMerge,
         LearnUser, LoseUser, MergeAnswered, FailCall, OpenPage

LEMMA RelabelEffect ==
    ASSUME BTypeOK, NEW c \in Calls, UpdateUserLeague(c)
    PROVE  /\ call[c] \in Writes
           /\ \/ bookmarks' = bookmarks
              \/ /\ Present(call[c].key)
                 /\ bookmarks' = [bookmarks EXCEPT ![call[c].key] =
                                    [label |-> call[c].label,
                                     number |-> bookmarks[call[c].key].number]]
  <1>1. call[c] \in Writes /\ call[c].key \in Owners \X Leagues
    BY CallKinds DEF UpdateUserLeague, Writes
  <1>2. CASE Present(call[c].key)
    <2>1. bookmarks[call[c].key] \in Row
      BY <1>1, <1>2, Keys
    <2>2. [bookmarks[call[c].key] EXCEPT !.label = call[c].label] =
             [label |-> call[c].label, number |-> bookmarks[call[c].key].number]
      BY <2>1 DEF Row
    <2>3. bookmarks' = [bookmarks EXCEPT ![call[c].key] =
                          [bookmarks[call[c].key] EXCEPT !.label = call[c].label]]
      BY <1>2 DEF UpdateUserLeague, Present
    <2>4. QED
      BY <1>1, <1>2, <2>2, <2>3
  <1>3. CASE ~Present(call[c].key)
    BY <1>1, <1>3 DEF UpdateUserLeague, Present
  <1>4. QED
    BY <1>2, <1>3

(* A merge of an anonymous id's rows to an account, row by row: what it    *)
(* deletes was that id's, and a copy of it, or the account's own, is left. *)
LEMMA MergeEffect ==
    ASSUME BTypeOK, SnapshotsOfOne, NEW c \in Calls, MergeBookmarks(c),
           NEW k \in Owners \X Leagues
    PROVE  LET m == call[c]
           IN  /\ m \in Merges
               /\ m.user \in Owners \ Anonymous /\ m.anon \in Anonymous
               /\ Deleted(m, k) => k[1] = m.anon /\ ~Present(k)' /\ bookmarks'[<<m.user, k[2]>>] # NoRow
               /\ ~Deleted(m, k) /\ Present(k) => bookmarks'[k] = bookmarks[k]
               /\ ~Present(k) /\ k[1] \in Anonymous => ~Present(k)'
  <1> DEFINE m == call[c]
             new(j) == IF Deleted(m, j) THEN NoRow
                       ELSE IF Moved(m, j)
                            THEN [label |-> Original(m, j).label, number |-> 0]
                            ELSE bookmarks[j]
  <1>1. /\ m \in Merges /\ m.user \in Ids /\ m.anon \in Anonymous
        /\ m.user \in Owners \ Anonymous /\ m.anon \in Owners
    BY CallKinds, BookmarksAssumption DEF MergeBookmarks, Merges, Owners
  <1>2. \A j \in Owners \X Leagues : bookmarks'[j] = new(j)
    BY Keys DEF MergeBookmarks
  <1>3. ASSUME NEW j \in Owners \X Leagues, m.snapshot[j] # NoRow
        PROVE  j[1] = m.anon
    BY <1>1, <1>3, Keys DEF SnapshotsOfOne, Merges
  <1>4. ASSUME Deleted(m, k)
        PROVE  k[1] = m.anon /\ ~Present(k)' /\ bookmarks'[<<m.user, k[2]>>] # NoRow
    <2> DEFINE own == <<m.user, k[2]>>
    <2>1. k[1] = m.anon /\ m.snapshot[k] # NoRow
      BY <1>3, <1>4 DEF Deleted
    <2>2. own \in Owners \X Leagues /\ own[1] = m.user /\ own[2] = k[2]
      BY <1>1, Keys
    <2>3. m.snapshot[own] = NoRow
      BY <1>1, <1>3, <2>2
    <2>4. Original(m, own) = m.snapshot[k]
      BY <2>1, <2>2, Keys DEF Original
    <2>5. bookmarks'[own] = IF Moved(m, own)
                            THEN [label |-> Original(m, own).label, number |-> 0]
                            ELSE bookmarks[own]
      BY <1>2, <2>2, <2>3 DEF Deleted
    <2>6. ASSUME Present(own)
          PROVE  bookmarks'[own] # NoRow
      BY <2>5, <2>6 DEF Moved, Present
    <2>7. ASSUME ~Present(own)
          PROVE  bookmarks'[own] # NoRow
      <3>1. Moved(m, own)
        BY <2>1, <2>2, <2>4, <2>7 DEF Moved, Present
      <3>2. Original(m, own) \in Row
        BY <1>1, <2>1, <2>4 DEF Merges, Table
      <3>3. [label |-> Original(m, own).label, number |-> 0] \in Row
        BY <3>2, BookmarksAssumption DEF Row
      <3>4. QED
        BY <2>5, <3>1, <3>3, BookmarksAssumption DEF Present
    <2>8. bookmarks'[k] = NoRow
      BY <1>2, <1>4
    <2>9. QED
      BY <2>1, <2>6, <2>7, <2>8 DEF Present
  <1>5. ASSUME ~Deleted(m, k), Present(k)
        PROVE  bookmarks'[k] = bookmarks[k]
    BY <1>2, <1>5 DEF Moved, Present
  <1>6. ASSUME ~Present(k), k[1] \in Anonymous
        PROVE  ~Present(k)'
    BY <1>1, <1>2, <1>6 DEF Moved, Present
  <1>7. QED
    BY <1>1, <1>4, <1>5, <1>6

-----------------------------------------------------------------------------
(* A merge in flight has read rows of its anonymous id alone. *)
LEMMA SnapshotsStep ==
    ASSUME BTypeOK, AccInv, SnapshotsOfOne, [BNext]_bVars
    PROVE  SnapshotsOfOne'
  <1>0. /\ DOMAIN bookmarks = Owners \X Leagues /\ DOMAIN bookmarks' = Owners \X Leagues
        /\ call \in [Calls -> {NoCall} \cup Writes \cup Deletes \cup Merges \cup MergesDone]
        /\ \A b \in Browsers : jar[b] # NoToken => jar[b].subject \in Ids
    BY NextType, Keys DEF BTypeOK, Table, AccTypeOK, Token
  <1>1. ASSUME NEW c \in Calls, call'[c].op = "merge", call'[c] # call[c],
               NEW k \in Owners \X Leagues, call'[c].snapshot[k] # NoRow
        PROVE  k[1] = call'[c].anon
    <2>1. ASSUME NEW u \in Ids, NEW a, a \in Anonymous \/ IsRealUser(a),
                 NEW from \in Browsers \cup {NoId}, call'[c] = MergeCall(u, a, from)
          PROVE  k[1] = call'[c].anon
      <3>1. call'[c].anon = a /\ call'[c].snapshot = Snapshot(a)
        BY <1>1, <2>1, MergeCallType
      <3>2. Snapshot(a)[k] # NoRow => k[1] = a
        BY <1>0 DEF Snapshot
      <3>3. QED
        BY <1>1, <3>1, <3>2
    <2>2. ASSUME NEW d \in Calls, NEW b \in Browsers, NEW a \in Owners, RequestMerge(d, b, a)
          PROVE  k[1] = call'[c].anon
      <3>1. d = c /\ call'[c] = MergeCall(jar[b].subject, a, NoId)
        BY <1>0, <1>1, <2>2 DEF RequestMerge
      <3>2. QED
        BY <1>0, <2>1, <2>2, <3>1 DEF RequestMerge
    <2>3. ASSUME NEW d \in Calls, NEW b \in Browsers, LearnUser(b, d)
          PROVE  k[1] = call'[c].anon
      <3>1. jar[b] # NoToken /\ stored[b] \in Anonymous
        BY <1>1, <2>3 DEF LearnUser, BTypeOK
      <3>2. d = c /\ call'[c] = MergeCall(jar[b].subject, stored[b], b)
        BY <1>0, <1>1, <2>3 DEF LearnUser
      <3>3. QED
        BY <1>0, <2>1, <3>1, <3>2
    <2>4. ASSUME NEW b \in Browsers, call' = WithoutPage(b)
          PROVE  k[1] = call'[c].anon
      <3>1. /\ call[c].op = "merge" /\ call'[c].anon = call[c].anon
            /\ call'[c].snapshot = call[c].snapshot
        BY <1>1, <2>4, WithoutPageType
      <3>2. QED
        BY <1>0, <1>1, <3>1 DEF SnapshotsOfOne
    <2>5. ASSUME NEW d \in Calls, NEW q, q.op # "merge", call' = [call EXCEPT ![d] = q]
          PROVE  FALSE
      BY <1>0, <1>1, <2>5
    <2>6. ASSUME NEW d \in Calls, EndCall(d)
          PROVE  FALSE
      BY <2>5, <2>6 DEF EndCall, NoCall
    <2>7. ASSUME NEW d \in Calls, NEW a, NEW l, Send(d, a, l)
          PROVE  FALSE
      BY <1>0, <1>1, <2>7 DEF Send
    <2>8. ASSUME NEW d \in Calls, MergeBookmarks(d)
          PROVE  FALSE
      BY <1>0, <1>1, <2>8 DEF MergeBookmarks
    <2>9. QED
      BY <1>1, <2>2, <2>3, <2>4, <2>6, <2>7, <2>8
      DEF BNext, bVars, bmVars, LeaveToSignIn, SendFromPage, SendAs, SaveUserLeague,
          UpdateUserLeague, DeleteUserLeague, LoseUser, MergeAnswered, FailCall, OpenPage
  <1>2. QED
    BY <1>0, <1>1 DEF SnapshotsOfOne

(* What the three need of the invariant. *)
SInv == BTypeOK /\ AccInv /\ SnapshotsOfOne

LEMMA InitSInv == BInit => SInv
  BY InitType, AccInitInv DEF BInit, SInv, SnapshotsOfOne, NoCall

LEMMA NextSInv == SInv /\ [BNext]_bVars => SInv'
  BY NextType, AccountsKept, SnapshotsStep DEF SInv

(* Accounts, bookmarks and what calls hold keep their types. *)
THEOREM TypeCorrect == BSpec => []BTypeOK
  <1>1. SInv => BTypeOK
    BY DEF SInv
  <1>2. QED
    BY <1>1, InitSInv, NextSInv, PTL DEF BSpec

(* A bookmark only goes by its owner's delete, or by a merge that leaves   *)
(* an account with one (MergeAnonymousData, DeleteUserLeague).             *)
THEOREM BookmarksAreKept == BSpec => BookmarksNeverVanish
  <1>1. ASSUME SInv, [BNext]_bVars, NEW k \in DOMAIN bookmarks, Present(k), ~Present(k)'
        PROVE  \/ \E c \in Calls : call[c] = [op |-> "delete", key |-> k] /\ call'[c] = NoCall
               \/ k[1] \in Anonymous /\ \E u \in Ids : Present(<<u, k[2]>>)'
    <2>0. BTypeOK /\ SnapshotsOfOne /\ k \in Owners \X Leagues
      BY <1>1, Keys DEF SInv
    <2>1. ASSUME NEW c \in Calls, SaveUserLeague(c)
          PROVE  FALSE
      <3>1. PICK n \in 0 .. MaxSaves :
                bookmarks' = [bookmarks EXCEPT ![call[c].key] = [label |-> call[c].label, number |-> n]]
        BY <2>0, <2>1, SaveEffect
      <3>2. [label |-> call[c].label, number |-> n] \in Row
        BY <2>0, <2>1, SaveEffect DEF Writes, Row
      <3>3. QED
        BY <1>1, <2>0, <3>1, <3>2, BookmarksAssumption DEF Present, BTypeOK, Table
    <2>2. ASSUME NEW c \in Calls, UpdateUserLeague(c)
          PROVE  FALSE
      <3>1. call[c] \in Writes /\ (Present(call[c].key) => bookmarks[call[c].key] \in Row)
        BY <2>0, <2>2, RelabelEffect, Keys DEF Writes
      <3>2. bookmarks' # bookmarks => [label |-> call[c].label,
                                       number |-> bookmarks[call[c].key].number] \in Row
        BY <2>0, <2>2, <3>1, RelabelEffect DEF Writes, Row
      <3>3. QED
        BY <1>1, <2>0, <2>2, <3>2, RelabelEffect, BookmarksAssumption DEF Present, BTypeOK, Table
    <2>3. ASSUME NEW c \in Calls, DeleteUserLeague(c)
          PROVE  call[c] = [op |-> "delete", key |-> k] /\ call'[c] = NoCall
      <3>1. call[c] \in Deletes
        BY <2>0, <2>3, CallKinds DEF DeleteUserLeague
      <3>2. call[c].key = k
        BY <1>1, <2>0, <2>3 DEF DeleteUserLeague, Present, BTypeOK, Table
      <3>3. call'[c] = NoCall
        BY <2>0, <2>3 DEF DeleteUserLeague, EndCall, BTypeOK
      <3>4. QED
        BY <3>1, <3>2, <3>3 DEF Deletes
    <2>4. ASSUME NEW c \in Calls, MergeBookmarks(c)
          PROVE  k[1] \in Anonymous /\ \E u \in Ids : Present(<<u, k[2]>>)'
      <3>1. Deleted(call[c], k)
        BY <1>1, <2>0, <2>4, MergeEffect DEF Present
      <3>2. /\ call[c].user \in Ids /\ k[1] = call[c].anon /\ call[c].anon \in Anonymous
            /\ bookmarks'[<<call[c].user, k[2]>>] # NoRow
        BY <2>0, <2>4, <3>1, MergeEffect DEF Merges
      <3>3. QED
        BY <3>2 DEF Present
    <2>5. QED
      BY <1>1, <2>0, <2>1, <2>2, <2>3, <2>4, TableStep DEF Present
  <1>2. SInv /\ [BNext]_bVars =>
          [\A k \in DOMAIN bookmarks : Present(k) /\ ~Present(k)' =>
              \/ \E c \in Calls : call[c] = [op |-> "delete", key |-> k] /\ call'[c] = NoCall
              \/ k[1] \in Anonymous /\ \E u \in Ids : Present(<<u, k[2]>>)']_bVars
    BY <1>1
  <1>3. QED
    BY <1>2, InitSInv, NextSInv, PTL DEF BSpec, BookmarksNeverVanish

(* A label only becomes that of a save or update of its own key            *)
(* (SaveUserLeague, UpdateUserLeague, MergeAnonymousData).                 *)
THEOREM LabelsAreTheOwners == BSpec => OnlyOwnerRelabels
  <1>1. ASSUME SInv, [BNext]_bVars, NEW k \in DOMAIN bookmarks,
               Present(k), Present(k)', bookmarks'[k].label # bookmarks[k].label
        PROVE  \E c \in Calls : /\ call[c].op \in {"save", "update"}
                                /\ call[c].key = k /\ call[c].label = bookmarks'[k].label
                                /\ call'[c] = NoCall
    <2>0. BTypeOK /\ SnapshotsOfOne /\ k \in Owners \X Leagues
      BY <1>1, Keys DEF SInv
    <2>1. ASSUME NEW c \in Calls, NEW n, call[c] \in Writes, EndCall(c),
                 bookmarks' = [bookmarks EXCEPT ![call[c].key] = [label |-> call[c].label, number |-> n]]
          PROVE  /\ call[c].op \in {"save", "update"}
                 /\ call[c].key = k /\ call[c].label = bookmarks'[k].label
                 /\ call'[c] = NoCall
      BY <1>1, <2>0, <2>1 DEF Writes, EndCall, BTypeOK, Table
    <2>2. ASSUME NEW c \in Calls, SaveUserLeague(c)
          PROVE  /\ call[c] \in Writes /\ EndCall(c)
                 /\ \E n : bookmarks' = [bookmarks EXCEPT ![call[c].key] =
                                            [label |-> call[c].label, number |-> n]]
      <3>1. EndCall(c)
        BY <2>2 DEF SaveUserLeague
      <3>2. QED
        BY <2>0, <2>2, <3>1, SaveEffect
    <2>3. ASSUME NEW c \in Calls, UpdateUserLeague(c), bookmarks' # bookmarks
          PROVE  /\ call[c] \in Writes /\ EndCall(c)
                 /\ \E n : bookmarks' = [bookmarks EXCEPT ![call[c].key] =
                                            [label |-> call[c].label, number |-> n]]
      <3>1. EndCall(c)
        BY <2>3 DEF UpdateUserLeague
      <3>2. QED
        BY <2>0, <2>3, <3>1, RelabelEffect
    <2>4. ASSUME NEW c \in Calls, DeleteUserLeague(c)
          PROVE  FALSE
      BY <1>1, <2>0, <2>4 DEF DeleteUserLeague, Present, BTypeOK, Table
    <2>5. ASSUME NEW c \in Calls, MergeBookmarks(c)
          PROVE  FALSE
      BY <1>1, <2>0, <2>5, MergeEffect DEF Present
    <2>6. QED
      BY <1>1, <2>0, <2>1, <2>2, <2>3, <2>4, <2>5, TableStep
  <1>2. SInv /\ [BNext]_bVars =>
          [\A k \in DOMAIN bookmarks :
              Present(k) /\ Present(k)' /\ bookmarks'[k].label # bookmarks[k].label =>
              \E c \in Calls : /\ call[c].op \in {"save", "update"}
                               /\ call[c].key = k /\ call[c].label = bookmarks'[k].label
                               /\ call'[c] = NoCall]_bVars
    BY <1>1
  <1>3. QED
    BY <1>2, InitSInv, NextSInv, PTL DEF BSpec, OnlyOwnerRelabels
-----------------------------------------------------------------------------
(* A row under an anonymous id is one that was there, with its number, or  *)
(* is new and has the next number.                                         *)
LEMMA NumbersStep ==
    ASSUME SInv, [BNext]_bVars, NEW k \in Owners \X Leagues, k[1] \in Anonymous, Present(k)'
    PROVE  \/ Present(k) /\ bookmarks'[k].number = bookmarks[k].number
           \/ ~Present(k) /\ bookmarks'[k].number = saves + 1
  <1>0. BTypeOK /\ SnapshotsOfOne /\ DOMAIN bookmarks = Owners \X Leagues
    BY Keys DEF SInv
  <1>1. ASSUME NEW c \in Calls, SaveUserLeague(c)
        PROVE  \/ Present(k) /\ bookmarks'[k].number = bookmarks[k].number
               \/ ~Present(k) /\ bookmarks'[k].number = saves + 1
    <2>1. PICK n \in 0 .. MaxSaves :
              /\ bookmarks' = [bookmarks EXCEPT ![call[c].key] = [label |-> call[c].label, number |-> n]]
              /\ Present(call[c].key) => n = bookmarks[call[c].key].number
              /\ ~Present(call[c].key) /\ call[c].key[1] \in Anonymous => n = saves + 1
      BY <1>0, <1>1, SaveEffect
    <2>2. CASE call[c].key = k
      BY <1>0, <2>1, <2>2
    <2>3. CASE call[c].key # k
      BY <1>0, <2>1, <2>3 DEF Present
    <2>4. QED
      BY <2>2, <2>3
  <1>2. ASSUME NEW c \in Calls, UpdateUserLeague(c)
        PROVE  Present(k) /\ bookmarks'[k].number = bookmarks[k].number
    <2>1. call[c].key \in Owners \X Leagues
      BY <1>0, <1>2, RelabelEffect DEF Writes
    <2>2. CASE bookmarks' = bookmarks
      BY <2>2 DEF Present
    <2>3. CASE /\ Present(call[c].key)
               /\ bookmarks' = [bookmarks EXCEPT ![call[c].key] =
                                  [label |-> call[c].label,
                                   number |-> bookmarks[call[c].key].number]]
      <3>1. CASE call[c].key = k
        BY <1>0, <2>3, <3>1
      <3>2. CASE call[c].key # k
        BY <1>0, <2>3, <3>2 DEF Present
      <3>3. QED
        BY <3>1, <3>2
    <2>4. QED
      BY <1>0, <1>2, <2>2, <2>3, RelabelEffect
  <1>3. ASSUME NEW c \in Calls, DeleteUserLeague(c)
        PROVE  Present(k) /\ bookmarks'[k].number = bookmarks[k].number
    <2>1. bookmarks' = [bookmarks EXCEPT ![call[c].key] = NoRow] /\ bookmarks'[k] # NoRow
      BY <1>3 DEF DeleteUserLeague, Present
    <2>2. call[c].key # k
      BY <1>0, <2>1
    <2>3. QED
      BY <1>0, <2>1, <2>2 DEF Present
  <1>4. ASSUME NEW c \in Calls, MergeBookmarks(c)
        PROVE  Present(k) /\ bookmarks'[k].number = bookmarks[k].number
    BY <1>0, <1>4, MergeEffect
  <1>5. QED
    BY <1>0, <1>1, <1>2, <1>3, <1>4, TableStep DEF Present

(* A page's merge after a step is the one it was, or has just been asked   *)
(* for, or has just committed.                                             *)
SameMerge(c, b) ==
    /\ stored'[b] = stored[b] /\ AskedBy(c, b)
    /\ call'[c].op = call[c].op /\ call'[c].begun = call[c].begun
    /\ call[c].op = "merge" => /\ call'[c].anon = call[c].anon
                               /\ call'[c].snapshot = call[c].snapshot

JustAsked(c, b) ==
    /\ jar[b] # NoToken /\ UNCHANGED <<bookmarks, stored, saves>>
    /\ call'[c] = MergeCall(jar[b].subject, stored[b], b)

LEMMA MergeSteps ==
    ASSUME SInv, [BNext]_bVars, NEW c \in Calls, NEW b \in Browsers, AskedBy(c, b)'
    PROVE  SameMerge(c, b) \/ JustAsked(c, b) \/ (MergeBookmarks(c) /\ AskedBy(c, b))
  <1>0. /\ BTypeOK /\ stored \in [Browsers -> Anonymous \cup {NoId}] /\ b # NoId
        /\ call \in [Calls -> {NoCall} \cup Writes \cup Deletes \cup Merges \cup MergesDone]
        /\ \A d \in Browsers : jar[d] # NoToken => jar[d].subject \in Ids
    BY BookmarksAssumption DEF SInv, BTypeOK, AccTypeOK, Token
  <1>1. ASSUME call'[c] = call[c], stored'[b] = stored[b]
        PROVE  SameMerge(c, b)
    BY <1>1 DEF AskedBy, SameMerge
  <1>2. ASSUME NEW d \in Browsers, call' = WithoutPage(d),
               d # b => stored'[b] = stored[b]
        PROVE  SameMerge(c, b)
    <2>1. /\ call'[c].op = call[c].op /\ call'[c].begun = call[c].begun
          /\ call'[c].browser = IF call[c].browser = d THEN NoId ELSE call[c].browser
          /\ call[c].op = "merge" => /\ call'[c].anon = call[c].anon
                                     /\ call'[c].snapshot = call[c].snapshot
      BY <1>0, <1>2, WithoutPageType DEF AskedBy
    <2>2. d # b /\ call[c].browser = b
      BY <1>0, <2>1 DEF AskedBy
    <2>3. QED
      BY <1>2, <2>1, <2>2 DEF AskedBy, SameMerge
  <1>3. ASSUME NEW d \in Calls, NEW q, call' = [call EXCEPT ![d] = q], stored' = stored,
               q.op \notin {"merge", "merged"}
        PROVE  SameMerge(c, b)
    <2>1. DOMAIN call = Calls /\ call'[c].op \in {"merge", "merged"}
      BY <1>0 DEF AskedBy
    <2>2. d # c
      BY <1>3, <2>1
    <2>3. call'[c] = call[c]
      BY <1>3, <2>1, <2>2
    <2>4. QED
      BY <1>1, <1>3, <2>3
  <1>4. NoCall.op \notin {"merge", "merged"}
    BY DEF NoCall
  <1>5. ASSUME NEW d \in Calls, NEW a, NEW l, Send(d, a, l)
        PROVE  SameMerge(c, b)
    <2>1. \E q : q.op \notin {"merge", "merged"} /\ call' = [call EXCEPT ![d] = q]
      BY <1>5 DEF Send
    <2>2. QED
      BY <1>3, <1>5, <2>1 DEF Send
  <1>6. ASSUME NEW d \in Calls, SaveUserLeague(d) \/ UpdateUserLeague(d) \/ DeleteUserLeague(d)
                                  \/ FailCall(d)
        PROVE  SameMerge(c, b)
    BY <1>3, <1>4, <1>6
    DEF SaveUserLeague, UpdateUserLeague, DeleteUserLeague, FailCall, EndCall
  <1>7. ASSUME NEW d \in Calls, NEW e \in Browsers, NEW a \in Owners, RequestMerge(d, e, a)
        PROVE  SameMerge(c, b)
    <2>1. MergeCall(jar[e].subject, a, NoId).browser = NoId
      BY DEF MergeCall
    <2>2. DOMAIN call = Calls /\ call'[c].browser = b
      BY <1>0 DEF AskedBy
    <2>3. d # c /\ call'[c] = call[c]
      BY <1>0, <1>7, <2>1, <2>2 DEF RequestMerge
    <2>4. QED
      BY <1>1, <1>7, <2>3 DEF RequestMerge
  <1>8. ASSUME NEW d \in Calls, MergeBookmarks(d)
        PROVE  SameMerge(c, b) \/ (MergeBookmarks(c) /\ AskedBy(c, b))
    <2>0. /\ DOMAIN call = Calls /\ stored' = stored /\ call[d].op = "merge"
          /\ call' = [call EXCEPT ![d] = [op |-> "merged", browser |-> call[d].browser,
                                           begun |-> call[d].begun]]
      BY <1>0, <1>8 DEF MergeBookmarks
    <2>1. CASE d = c
      BY <1>8, <2>0, <2>1 DEF AskedBy
    <2>2. CASE d # c
      BY <1>1, <2>0, <2>2
    <2>3. QED
      BY <2>1, <2>2
  <1>9. ASSUME NEW d \in Calls, NEW e \in Browsers, LearnUser(e, d)
        PROVE  SameMerge(c, b) \/ JustAsked(c, b)
    <2>1. CASE call'[c] = call[c]
      BY <1>1, <1>9, <2>1 DEF LearnUser
    <2>2. CASE call'[c] # call[c]
      <3>0. DOMAIN call = Calls /\ stored[e] \in Anonymous \cup {NoId}
        BY <1>0
      <3>a. /\ jar[e] # NoToken /\ stored[e] # NoId
            /\ call' = [call EXCEPT ![d] = MergeCall(jar[e].subject, stored[e], e)]
        BY <1>9, <2>2 DEF LearnUser
      <3>1. /\ jar[e] # NoToken /\ stored[e] \in Anonymous /\ d = c
            /\ call'[c] = MergeCall(jar[e].subject, stored[e], e)
        BY <2>2, <3>0, <3>a
      <3>2. e = b
        BY <3>1 DEF MergeCall, AskedBy
      <3>3. QED
        BY <1>9, <3>1, <3>2 DEF JustAsked, LearnUser
    <2>3. QED
      BY <2>1, <2>2
  <1>10. ASSUME NEW d \in Calls, MergeAnswered(d)
         PROVE  SameMerge(c, b)
    <2>1. d # c /\ call'[c] = call[c]
      BY <1>0, <1>4, <1>10 DEF MergeAnswered, EndCall, AskedBy
    <2>2. stored'[b] = stored[b]
      BY <1>0, <1>10 DEF MergeAnswered, AskedBy
    <2>3. QED
      BY <1>1, <2>1, <2>2
  <1>11. ASSUME NEW d \in Browsers, NEW a \in Anonymous, OpenPage(d, a)
         PROVE  SameMerge(c, b)
    <2>1. d # b => stored'[b] = stored[b]
      BY <1>0, <1>11 DEF OpenPage
    <2>2. QED
      BY <1>2, <1>11, <2>1 DEF OpenPage
  <1>12. ASSUME NEW r \in Requests, NEW d \in Browsers, NEW g \in Googles, LeaveToSignIn(r, d, g)
         PROVE  SameMerge(c, b)
    BY <1>2, <1>12 DEF LeaveToSignIn
  <1>13. CASE UNCHANGED <<call, stored>>
    BY <1>1, <1>13
  <1>14. QED
    BY <1>5, <1>6, <1>7, <1>8, <1>9, <1>10, <1>11, <1>12, <1>13
       DEF BNext, bVars, bmVars, SendFromPage, SendAs, LoseUser

(* A merge begins with the number of the latest row, and keeps it.         *)
LEMMA BegunStep == SInv /\ BegunBefore /\ [BNext]_bVars => BegunBefore'
  <1> SUFFICES ASSUME SInv, BegunBefore, [BNext]_bVars,
                      NEW c \in Calls, call'[c].op \in {"merge", "merged"}
               PROVE  call'[c].begun <= saves'
    BY DEF BegunBefore
  <1>0. /\ BTypeOK /\ BTypeOK' /\ DOMAIN call = Calls /\ saves \in Nat /\ saves' \in Nat
        /\ \A d \in Browsers : jar[d] # NoToken => jar[d].subject \in Ids
        /\ \A d \in Browsers : stored[d] # NoId => stored[d] \in Anonymous
    BY NextSInv, BookmarksAssumption DEF SInv, BTypeOK, AccTypeOK, Token
  <1>1. saves <= saves'
    <2>1. ASSUME NEW d \in Calls, SaveUserLeague(d)
          PROVE  saves <= saves'
      BY <1>0, <2>1, SaveEffect
    <2>2. (\E d \in Calls : SaveUserLeague(d)) \/ saves' = saves
      BY <1>0, TableStep DEF UpdateUserLeague, DeleteUserLeague, MergeBookmarks
    <2>3. QED
      BY <1>0, <2>1, <2>2
  <1>2. ASSUME call[c].op \in {"merge", "merged"}, call'[c].begun = call[c].begun
        PROVE  call'[c].begun <= saves'
    <2>1. call[c].begun \in Nat
      BY <1>0, <1>2, CallKinds, BookmarksAssumption DEF Merges, MergesDone
    <2>2. QED
      BY <1>0, <1>1, <1>2, <2>1 DEF BegunBefore
  <1>3. ASSUME NEW u \in Ids, NEW a, a \in Anonymous \/ IsRealUser(a),
               NEW from \in Browsers \cup {NoId}, call'[c] = MergeCall(u, a, from)
        PROVE  call'[c].begun <= saves'
    <2>1. call'[c].begun = saves
      BY <1>0, <1>3, MergeCallType
    <2>2. QED
      BY <1>0, <1>1, <2>1
  <1>4. ASSUME NEW d \in Calls, NEW q, call' = [call EXCEPT ![d] = q],
               q.op \notin {"merge", "merged"}
        PROVE  call'[c].begun <= saves'
    <2>1. call'[c] = call[c]
      BY <1>0, <1>4
    <2>2. QED
      BY <1>2, <2>1
  <1>5. NoCall.op \notin {"merge", "merged"}
    BY DEF NoCall
  <1>6. ASSUME NEW d \in Calls, NEW a, NEW l, Send(d, a, l)
        PROVE  call'[c].begun <= saves'
    <2>1. \E q : q.op \notin {"merge", "merged"} /\ call' = [call EXCEPT ![d] = q]
      BY <1>6 DEF Send
    <2>2. QED
      BY <1>4, <2>1
  <1>7. ASSUME NEW d \in Calls, SaveUserLeague(d) \/ UpdateUserLeague(d) \/ DeleteUserLeague(d)
                                  \/ FailCall(d) \/ MergeAnswered(d)
        PROVE  call'[c].begun <= saves'
    BY <1>4, <1>5, <1>7
    DEF SaveUserLeague, UpdateUserLeague, DeleteUserLeague, FailCall, MergeAnswered, EndCall
  <1>8. ASSUME NEW d \in Calls, NEW e \in Browsers, NEW a \in Owners, RequestMerge(d, e, a)
        PROVE  call'[c].begun <= saves'
    <2>1. /\ jar[e].subject \in Ids /\ (a \in Anonymous \/ IsRealUser(a))
          /\ call' = [call EXCEPT ![d] = MergeCall(jar[e].subject, a, NoId)]
      BY <1>0, <1>8 DEF RequestMerge
    <2>2. CASE d = c
      BY <1>0, <1>3, <2>1, <2>2
    <2>3. CASE d # c
      BY <1>0, <1>2, <2>1, <2>3
    <2>4. QED
      BY <2>2, <2>3
  <1>9. ASSUME NEW d \in Calls, MergeBookmarks(d)
        PROVE  call'[c].begun <= saves'
    <2>1. /\ call[d].op = "merge"
          /\ call' = [call EXCEPT ![d] = [op |-> "merged", browser |-> call[d].browser,
                                           begun |-> call[d].begun]]
      BY <1>9 DEF MergeBookmarks
    <2>2. CASE d = c
      BY <1>0, <1>2, <2>1, <2>2
    <2>3. CASE d # c
      BY <1>0, <1>2, <2>1, <2>3
    <2>4. QED
      BY <2>2, <2>3
  <1>10. ASSUME NEW d \in Calls, NEW e \in Browsers, LearnUser(e, d)
         PROVE  call'[c].begun <= saves'
    <2>1. CASE call'[c] = call[c]
      BY <1>2, <2>1
    <2>2. CASE call'[c] # call[c]
      <3>1. /\ jar[e] # NoToken /\ stored[e] # NoId
            /\ call' = [call EXCEPT ![d] = MergeCall(jar[e].subject, stored[e], e)]
        BY <1>10, <2>2 DEF LearnUser
      <3>2. call'[c] = MergeCall(jar[e].subject, stored[e], e)
        BY <1>0, <2>2, <3>1
      <3>3. QED
        BY <1>0, <1>3, <3>1, <3>2
    <2>3. QED
      BY <2>1, <2>2
  <1>11. ASSUME NEW d \in Browsers, call' = WithoutPage(d)
         PROVE  call'[c].begun <= saves'
    BY <1>0, <1>2, <1>11, WithoutPageType
  <1>12. CASE UNCHANGED call
    BY <1>2, <1>12
  <1>13. QED
    BY <1>6, <1>7, <1>8, <1>9, <1>10, <1>11, <1>12
       DEF BNext, bVars, bmVars, OpenPage, LeaveToSignIn, SendFromPage, SendAs, LoseUser

(* While a page's merge is under way, what there is of its id was there    *)
(* and has been read, or is younger than the merge.                        *)
LEMMA YoungerStep ==
    SInv /\ BegunBefore /\ MergesLeaveYounger /\ [BNext]_bVars => MergesLeaveYounger'
  <1> SUFFICES ASSUME SInv, BegunBefore, MergesLeaveYounger, [BNext]_bVars,
                      NEW c \in Calls, NEW b \in Browsers, AskedBy(c, b)'
               PROVE  /\ call'[c].op = "merge" =>
                            /\ call'[c].anon = stored'[b]
                            /\ \A l \in Leagues :
                                  /\ bookmarks'[<<stored'[b], l>>] # NoRow
                                  /\ ~(bookmarks'[<<stored'[b], l>>].number > call'[c].begun)
                                  => /\ call'[c].snapshot[<<stored'[b], l>>] # NoRow
                                     /\ call'[c].snapshot[<<stored'[b], l>>].number =
                                            bookmarks'[<<stored'[b], l>>].number
                      /\ call'[c].op = "merged" =>
                            \A l \in Leagues :
                               bookmarks'[<<stored'[b], l>>] # NoRow =>
                               bookmarks'[<<stored'[b], l>>].number > call'[c].begun
    BY DEF MergesLeaveYounger, Younger, Present
  <1>0. /\ BTypeOK /\ SnapshotsOfOne /\ DOMAIN call = Calls /\ saves \in Nat
        /\ \A d \in Browsers : jar[d] # NoToken => jar[d].subject \in Ids
        /\ \A d \in Browsers : stored[d] # NoId => stored[d] \in Anonymous
    BY BookmarksAssumption DEF SInv, BTypeOK, AccTypeOK, Token
  <1>1. ASSUME NEW l \in Leagues, stored[b] \in Anonymous
        PROVE  /\ <<stored[b], l>> \in Owners \X Leagues /\ <<stored[b], l>>[1] = stored[b]
    BY <1>0, <1>1, Keys DEF Owners
  <1>2. CASE SameMerge(c, b)
    <2>1. /\ AskedBy(c, b) /\ stored[b] \in Anonymous /\ stored'[b] = stored[b]
          /\ call'[c].begun = call[c].begun
      BY <1>0, <1>2 DEF SameMerge, AskedBy
    <2>2. call[c].begun \in Nat /\ call[c].begun <= saves
      BY <1>0, <2>1, CallKinds, BookmarksAssumption DEF AskedBy, BegunBefore, Merges, MergesDone
    <2>3. ASSUME NEW l \in Leagues, bookmarks'[<<stored[b], l>>] # NoRow
          PROVE  \/ /\ Present(<<stored[b], l>>)
                    /\ bookmarks'[<<stored[b], l>>].number = bookmarks[<<stored[b], l>>].number
                 \/ bookmarks'[<<stored[b], l>>].number > call[c].begun
      <3> DEFINE k == <<stored[b], l>>
      <3>1. k \in Owners \X Leagues /\ k[1] \in Anonymous
        BY <1>1, <2>1
      <3>2. \/ Present(k) /\ bookmarks'[k].number = bookmarks[k].number
            \/ bookmarks'[k].number = saves + 1
        BY <2>3, <3>1, NumbersStep DEF Present
      <3>3. QED
        BY <1>0, <2>2, <3>2
    <2>4. CASE call[c].op = "merge"
      BY <1>2, <2>1, <2>3, <2>4 DEF SameMerge, MergesLeaveYounger, Younger
    <2>5. CASE call[c].op = "merged"
      BY <1>2, <2>1, <2>3, <2>5 DEF SameMerge, MergesLeaveYounger, Younger
    <2>6. QED
      BY <1>2, <2>4, <2>5 DEF SameMerge, AskedBy
  <1>3. CASE JustAsked(c, b)
    <2>1. /\ jar[b].subject \in Ids /\ stored[b] \in Anonymous /\ stored'[b] = stored[b]
          /\ bookmarks' = bookmarks /\ call'[c] = MergeCall(jar[b].subject, stored[b], b)
      BY <1>0, <1>3 DEF JustAsked, AskedBy
    <2>2. ~IsRealUser(stored[b])
      BY <1>0, <2>1, BookmarksAssumption DEF IsRealUser, BTypeOK, AccTypeOK, Account, Registered
    <2>3. /\ call'[c].op = "merge" /\ call'[c].anon = stored[b]
          /\ call'[c].snapshot = Snapshot(stored[b])
      BY <1>0, <2>1, <2>2, MergeCallType
    <2>4. ASSUME NEW l \in Leagues
          PROVE  Snapshot(stored[b])[<<stored[b], l>>] = bookmarks[<<stored[b], l>>]
      BY <1>0, <1>1, <2>1, Keys DEF Snapshot
    <2>5. QED
      BY <2>1, <2>3, <2>4
  <1>4. CASE MergeBookmarks(c) /\ AskedBy(c, b)
    <2>1. /\ call[c].op = "merge" /\ stored' = stored /\ stored[b] \in Anonymous
          /\ call'[c] = [op |-> "merged", browser |-> call[c].browser, begun |-> call[c].begun]
      BY <1>0, <1>4 DEF MergeBookmarks, AskedBy
    <2>2. ASSUME NEW l \in Leagues, bookmarks'[<<stored[b], l>>] # NoRow
          PROVE  bookmarks'[<<stored[b], l>>].number > call[c].begun
      <3> DEFINE k == <<stored[b], l>>
      <3>1. k \in Owners \X Leagues /\ k[1] \in Anonymous
        BY <1>1, <2>1
      <3>2. Present(k) /\ ~Deleted(call[c], k) /\ bookmarks'[k] = bookmarks[k]
        BY <1>0, <1>4, <2>2, <3>1, MergeEffect DEF Present
      <3>3. QED
        BY <1>4, <2>1, <3>2 DEF MergesLeaveYounger, Younger, Deleted, Present
    <2>3. QED
      BY <2>1, <2>2
  <1>5. QED
    BY <1>2, <1>3, <1>4, MergeSteps

LEMMA InitBInv == BInit => BInv
  BY InitSInv DEF BInit, NoCall, SInv, BInv, BegunBefore, MergesLeaveYounger, AskedBy

LEMMA NextBInv == BInv /\ [BNext]_bVars => BInv'
  BY NextSInv, BegunStep, YoungerStep DEF BInv, SInv

(* The inductive invariant of accounts, bookmarks and merges.              *)
THEOREM BookmarksInvariance == BSpec => []BInv
  BY InitBInv, NextBInv, PTL DEF BSpec

(* A browser forgets its anonymous id only when every bookmark that was    *)
(* under it when its merge began has gone over to the account, whatever    *)
(* calls overlap and however often the merge was lost and asked for again  *)
(* (MergeAnonymousData, useAuthState).                                     *)
THEOREM MergesAreComplete == BSpec => NothingMergedIsLeftBehind
  <1>1. ASSUME BInv, [BNext]_bVars, NEW b \in Browsers, stored[b] # NoId, stored'[b] = NoId
        PROVE  \E c \in Calls :
                  /\ call[c].op \in {"merge", "merged"} /\ call[c].browser = b
                  /\ \A l \in Leagues : LET k == <<stored[b], l>>
                                        IN  Present(k) => bookmarks[k].number > call[c].begun
    <2>0. /\ stored \in [Browsers -> Anonymous \cup {NoId}] /\ NoId \notin Anonymous
      BY <1>1, BookmarksAssumption DEF BInv, BTypeOK, Owners
    <2>1. ASSUME NEW d \in Browsers, NEW a \in Anonymous, OpenPage(d, a)
          PROVE  FALSE
      BY <1>1, <2>0, <2>1 DEF OpenPage
    <2>2. PICK c \in Calls : MergeAnswered(c)
      BY <1>1, <2>1 DEF BNext, bVars, bmVars, LeaveToSignIn, SendFromPage, SendAs, Send,
            SaveUserLeague, UpdateUserLeague, DeleteUserLeague, RequestMerge, MergeBookmarks,
            LearnUser, LoseUser, FailCall
    <2>3. call[c].op = "merged" /\ call[c].browser = b
      BY <1>1, <2>0, <2>2 DEF MergeAnswered
    <2>4. QED
      BY <1>1, <2>3 DEF BInv, MergesLeaveYounger, AskedBy, Younger
  <1>2. BInv /\ [BNext]_bVars =>
          [\A b \in Browsers : stored[b] # NoId /\ stored'[b] = NoId =>
              \E c \in Calls :
                 /\ call[c].op \in {"merge", "merged"} /\ call[c].browser = b
                 /\ \A l \in Leagues : LET k == <<stored[b], l>>
                                       IN  Present(k) => bookmarks[k].number > call[c].begun]_bVars
    BY <1>1
  <1>3. QED
    BY <1>2, BookmarksInvariance, PTL DEF BSpec, NothingMergedIsLeftBehind
=============================================================================
