------------------------------ MODULE Accounts ------------------------------
(***************************************************************************)
(* The users table and the auth cookies: Google sign-in, which creates an  *)
(* account under a generated username or finds the one there is, profile   *)
(* updates, logout.  A request's statement and the moment its cookie       *)
(* reaches the browser are separate steps.  A token is a signed copy of    *)
(* the account; the server never looks at users to honour one.             *)
(***************************************************************************)
EXTENDS Naturals, FiniteSets

CONSTANTS
    Googles,      \* external: subjects Google signs in
    Names,        \* usernames, in the lower case the unique index compares
    Browsers,
    Requests,     \* sign-ins and profile updates in flight at once
    MaxAttempts,  \* maxUsernameAttempts
    NoAccount,    \* no row in users
    NoToken       \* no valid auth_token

(* Account ids are random; numbering them as they are created keeps them   *)
(* apart from the Google subject they belong to.                           *)
Ids == 1 .. Cardinality(Googles)

Account == [id: Ids, name: Names]

(* google is auxiliary: whom Google vouched for when the chain of tokens   *)
(* this one came from began.                                               *)
Token == [subject: Ids, name: Names, google: Googles]

ASSUME AccountsAssumption ==
    /\ IsFiniteSet(Googles)
    /\ MaxAttempts \in Nat \ {0}
    /\ NoAccount \notin Account /\ NoToken \notin Token

VARIABLES
    users,  \* the table, by its unique (oauth_provider, oauth_id)
    jar,    \* the auth_token each browser would send
    req     \* what each request in flight holds in memory

accVars == <<users, jar, req>>

NoRequest == [op |-> "none"]

Registered == {g \in Googles : users[g] # NoAccount}

UniqueKeys ==
    \A g, h \in Registered :
        g # h => users[g].id # users[h].id /\ users[g].name # users[h].name

SignIns == [op: {"signin"}, browser: Browsers, google: Googles, tries: 0 .. MaxAttempts - 1]

Profiles == [op: {"profile"}, browser: Browsers, claims: Token, name: Names]

Answers == [op: {"answer"}, browser: Browsers, token: Token]

AccTypeOK ==
    /\ users \in [Googles -> Account \cup {NoAccount}]
    /\ UniqueKeys
    /\ jar \in [Browsers -> Token \cup {NoToken}]
    /\ req \in [Requests -> {NoRequest} \cup SignIns \cup Profiles \cup Answers]

AccInit ==
    /\ users = [g \in Googles |-> NoAccount]
    /\ jar = [b \in Browsers |-> NoToken]
    /\ req = [r \in Requests |-> NoRequest]

-----------------------------------------------------------------------------
TokenOf(g, account) == [subject |-> account.id, name |-> account.name, google |-> g]

AnswerWith(r, token) ==
    req' = [req EXCEPT ![r] = [op |-> "answer", browser |-> @.browser, token |-> token]]

EndRequest(r) == req' = [req EXCEPT ![r] = NoRequest]

(* Google's redirect back, with the state this browser's login set: the    *)
(* code has been exchanged for the Google subject.                         *)
Callback(r, b, g) ==
    /\ req[r] = NoRequest
    /\ req' = [req EXCEPT ![r] = [op |-> "signin", browser |-> b, google |-> g, tries |-> 0]]
    /\ UNCHANGED <<users, jar>>

NewAccount(n) == [id |-> Cardinality(Registered) + 1, name |-> n]

Taken(n) == \E g \in Registered : users[g].name = n

(* Fault: DO UPDATE SET username as well. *)
RenamesOnConflict(g, n) ==
    IF g \in Registered THEN [users[g] EXCEPT !.name = IF Taken(n) THEN @ ELSE n]
    ELSE IF Taken(n) THEN NoAccount ELSE NewAccount(n)

(* INSERT ... ON CONFLICT (oauth_provider, oauth_id) DO UPDATE SET email   *)
(* RETURNING: a row that is there keeps its username, and only an insert   *)
(* can meet the unique index on usernames.                                 *)
CreateOrGet(g, n) ==
    IF g \in Registered THEN users[g]
    ELSE IF Taken(n) THEN NoAccount ELSE NewAccount(n)

(* An attempt with the generated username n; after the last conflict the   *)
(* callback answers 500.                                                   *)
SignIn(r, n) ==
    LET g == req[r].google
        account == CreateOrGet(g, n)
    IN  /\ req[r].op = "signin"
        /\ IF account # NoAccount
           THEN /\ users' = [users EXCEPT ![g] = account]
                /\ AnswerWith(r, TokenOf(g, account))
           ELSE /\ IF req[r].tries + 1 < MaxAttempts
                   THEN req' = [req EXCEPT ![r].tries = @ + 1]
                   ELSE EndRequest(r)
                /\ UNCHANGED users
        /\ UNCHANGED jar

BeginProfile(r, b, n) ==
    /\ req[r] = NoRequest
    /\ jar[b] # NoToken
    /\ req' = [req EXCEPT ![r] = [op |-> "profile", browser |-> b, claims |-> jar[b], name |-> n]]
    /\ UNCHANGED <<users, jar>>

(* Faults: the row found by the username of the claims, and a username     *)
(* that is not unique.                                                     *)
RowByName(claims, g) == users[g].name = claims.name
NeverTaken(g, n) == FALSE

RowOf(claims, g) == users[g].id = claims.subject

TakenByAnother(g, n) == \E h \in Registered \ {g} : users[h].name = n

(* UPDATE users SET username WHERE id; 409 if another account has it.      *)
UpdateProfile(r, g) ==
    LET account == [users[g] EXCEPT !.name = req[r].name]
    IN  /\ req[r].op = "profile"
        /\ g \in Registered
        /\ RowOf(req[r].claims, g)
        /\ IF TakenByAnother(g, req[r].name)
           THEN EndRequest(r) /\ UNCHANGED users
           ELSE /\ users' = [users EXCEPT ![g] = account]
                /\ AnswerWith(r, TokenOf(req[r].claims.google, account))
        /\ UNCHANGED jar

(* The answer reaches the browser, in whatever order answers do. *)
SetAuthCookie(r) ==
    /\ req[r].op = "answer"
    /\ jar' = [jar EXCEPT ![req[r].browser] = req[r].token]
    /\ EndRequest(r)
    /\ UNCHANGED users

(* Google, the database, the deadline or the connection fails it. *)
FailRequest(r) ==
    /\ req[r] # NoRequest
    /\ EndRequest(r)
    /\ UNCHANGED <<users, jar>>

(* Logout, or the end of the cookie's 30 days; the other browsers' tokens  *)
(* stay good.                                                              *)
DropToken(b) ==
    /\ jar[b] # NoToken
    /\ jar' = [jar EXCEPT ![b] = NoToken]
    /\ UNCHANGED <<users, req>>

AfterCallback ==
    \/ \E r \in Requests :
          \/ \E n \in Names : SignIn(r, n)
          \/ \E b \in Browsers, n \in Names : BeginProfile(r, b, n)
          \/ \E g \in Googles : UpdateProfile(r, g)
          \/ SetAuthCookie(r)
          \/ FailRequest(r)
    \/ \E b \in Browsers : DropToken(b)

-----------------------------------------------------------------------------
(* Whoever Google vouched for gets the account of that Google subject and  *)
(* keeps it: first sign-ins that overlap or retry make one account, and a  *)
(* profile update by a token whose username another account has meanwhile  *)
(* taken still is an update of its own account (CreateOrGetOAuthUser,      *)
(* UpdateProfile).                                                         *)
TokensNameTheirAccount ==
    \A b \in Browsers : jar[b] # NoToken =>
        /\ jar[b].google \in Registered
        /\ jar[b].subject = users[jar[b].google].id

(* An account, once there, changes only by a profile update its own token  *)
(* asked for: no sign-in, its own or another's, renames it or makes it     *)
(* anew (HandleGoogleCallback, HandleUpdateProfile).                       *)
OnlyProfileUpdatesRename ==
    [][\A g \in Registered : users'[g] # users[g] =>
          \E r \in Requests : /\ req[r].op = "profile"
                              /\ req[r].claims.google = g
                              /\ users'[g] = [users[g] EXCEPT !.name = req[r].name]]_accVars

(* What makes the two inductive: ids are given out in order, and a token   *)
(* on its way to a browser or held by a request is as good as one in a jar.*)
IdsInOrder == \A g \in Registered : users[g].id <= Cardinality(Registered)

Good(token) == token.google \in Registered /\ token.subject = users[token.google].id

TokensAreGood ==
    /\ \A b \in Browsers : jar[b] # NoToken => Good(jar[b])
    /\ \A r \in Requests : /\ req[r].op = "profile" => Good(req[r].claims)
                           /\ req[r].op = "answer" => Good(req[r].token)

AccInv == AccTypeOK /\ IdsInOrder /\ TokensAreGood
=============================================================================
