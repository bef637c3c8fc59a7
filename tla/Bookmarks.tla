----------------------------- MODULE Bookmarks -----------------------------
(***************************************************************************)
(* The bookmarks table, its three writes and the merge's half of it, and   *)
(* the browser side of the merge: the page's hooks keep an anonymous id in *)
(* localStorage and in their state, and ask for the merge when the page    *)
(* learns who is signed in.  A call that has been sent reaches the table   *)
(* later, or never; so does its answer the page.                           *)
(***************************************************************************)
EXTENDS Accounts

CONSTANTS
    Anonymous,  \* random browser-generated ids, never an account's
    Leagues,    \* (league_id, source) pairs
    Labels,
    Calls,      \* bookmark and merge calls in flight at once
    NoRow,      \* no bookmark
    NoId,       \* nothing in localStorage, nobody signed in, no page
    MaxSaves    \* bound: bookmarks inserted for anonymous ids

Owners == Ids \cup Anonymous

(* number tells the rows inserted for anonymous ids apart: a merge deletes *)
(* the very rows it has read.                                              *)
Row == [label: Labels, number: 0 .. MaxSaves]

Table == [Owners \X Leagues -> Row \cup {NoRow}]

ASSUME BookmarksAssumption ==
    /\ Ids \cap Anonymous = {}
    /\ NoRow \notin Row /\ NoId \notin Owners \cup Browsers
    /\ MaxSaves \in Nat

VARIABLES
    bookmarks,  \* the table
    stored,     \* localStorage: the browser's anonymous id
    page,       \* the open page: its copy of that id, and whom it shows signed in
    call,       \* what each call in flight holds in memory
    saves       \* bookmarks inserted for anonymous ids

bmVars == <<bookmarks, stored, page, call, saves>>
bVars == <<accVars, bmVars>>

NoCall == [op |-> "none"]

Writes == [op: {"save", "update"}, key: Owners \X Leagues, label: Labels]

Deletes == [op: {"delete"}, key: Owners \X Leagues]

Merges == [op: {"merge"}, browser: Browsers \cup {NoId}, begun: 0 .. MaxSaves,
           user: Ids, anon: Anonymous, snapshot: Table]

MergesDone == [op: {"merged"}, browser: Browsers \cup {NoId}, begun: 0 .. MaxSaves]

BTypeOK ==
    /\ AccTypeOK
    /\ bookmarks \in Table
    /\ stored \in [Browsers -> Anonymous \cup {NoId}]
    /\ page \in [Browsers -> [anon: Anonymous \cup {NoId}, user: Token \cup {NoToken}]]
    /\ call \in [Calls -> {NoCall} \cup Writes \cup Deletes \cup Merges \cup MergesDone]
    /\ saves \in 0 .. MaxSaves

NoPage == [anon |-> NoId, user |-> NoToken]

BInit ==
    /\ AccInit
    /\ bookmarks = [k \in Owners \X Leagues |-> NoRow]
    /\ stored = [b \in Browsers |-> NoId]
    /\ page = [b \in Browsers |-> NoPage]
    /\ call = [c \in Calls |-> NoCall]
    /\ saves = 0

-----------------------------------------------------------------------------
EndCall(c) == call' = [call EXCEPT ![c] = NoCall]

IsRealUser(a) == \E g \in Registered : users[g].id = a

(* The page's idea of its user id, and the server's: a valid token wins.   *)
UserId(b) == IF page[b].user # NoToken THEN page[b].user.subject ELSE page[b].anon

ResolveUserID(b) == IF jar[b] # NoToken THEN jar[b].subject ELSE UserId(b)

(* A bookmark call of an owner's arrives.                                  *)
Send(c, owner, l) ==
    LET key == <<owner, l>>
    IN  /\ call[c] = NoCall
        /\ \/ \E op \in {"save", "update"}, label \in Labels :
                 call' = [call EXCEPT ![c] = [op |-> op, key |-> key, label |-> label]]
           \/ call' = [call EXCEPT ![c] = [op |-> "delete", key |-> key]]
        /\ UNCHANGED <<accVars, bookmarks, stored, page, saves>>

SendFromPage(c, b, l) == page[b] # NoPage /\ Send(c, ResolveUserID(b), l)

(* Any client without a session may name any id, an account's included.    *)
SendAs(c, a, l) == (a \in Anonymous \/ IsRealUser(a)) /\ Send(c, a, l)

(* SAVE: an upsert; an existing bookmark is relabelled. *)
SaveUserLeague(c) ==
    LET key == call[c].key
        fresh == bookmarks[key] = NoRow /\ key[1] \in Anonymous
        number == IF fresh THEN saves + 1
                  ELSE IF bookmarks[key] = NoRow THEN 0 ELSE bookmarks[key].number
    IN  /\ call[c].op = "save"
        /\ fresh => saves < MaxSaves
        /\ bookmarks' = [bookmarks EXCEPT ![key] = [label |-> call[c].label, number |-> number]]
        /\ saves' = IF fresh THEN number ELSE saves
        /\ EndCall(c)
        /\ UNCHANGED <<accVars, stored, page>>

(* PATCH and DELETE answer 404 when there is no such bookmark. *)
UpdateUserLeague(c) ==
    /\ call[c].op = "update"
    /\ bookmarks' = IF bookmarks[call[c].key] = NoRow THEN bookmarks
                    ELSE [bookmarks EXCEPT ![call[c].key].label = call[c].label]
    /\ EndCall(c)
    /\ UNCHANGED <<accVars, stored, page, saves>>

DeleteUserLeague(c) ==
    /\ call[c].op = "delete"
    /\ bookmarks' = [bookmarks EXCEPT ![call[c].key] = NoRow]
    /\ EndCall(c)
    /\ UNCHANGED <<accVars, stored, page, saves>>

(* Any call can fail; a merge's transaction then rolls back, and of one    *)
(* that has committed only the answer is lost.                             *)
FailCall(c) ==
    /\ call[c] # NoCall
    /\ EndCall(c)
    /\ UNCHANGED <<accVars, bookmarks, stored, page, saves>>

-----------------------------------------------------------------------------
Snapshot(a) == [k \in DOMAIN bookmarks |-> IF k[1] = a THEN bookmarks[k] ELSE NoRow]

(* MERGE of an id that is an account's, the caller's own included, is      *)
(* answered without touching anything; `from' is the page that asked.      *)
MergeCall(user, a, from) ==
    IF IsRealUser(a)
    THEN [op |-> "merged", browser |-> from, begun |-> saves]
    ELSE [op |-> "merge", browser |-> from, begun |-> saves, user |-> user, anon |-> a,
          snapshot |-> Snapshot(a)]

(* Any client may ask for any id. *)
RequestMerge(c, b, a) ==
    /\ call[c] = NoCall
    /\ jar[b] # NoToken
    /\ a \in Anonymous \/ IsRealUser(a)
    /\ call' = [call EXCEPT ![c] = MergeCall(jar[b].subject, a, NoId)]
    /\ UNCHANGED <<accVars, bookmarks, stored, page, saves>>

Original(m, k) == m.snapshot[<<m.anon, k[2]>>]

(* Faults: ON CONFLICT DO UPDATE, and a DELETE with a snapshot of its own. *)
OverwritesOwnRow(m, k) == k[1] = m.user /\ Original(m, k) # NoRow
DeletesAllNow(m, k) == k[1] = m.anon

(* ON CONFLICT DO NOTHING: the account's own bookmark stays. *)
Moved(m, k) == k[1] = m.user /\ Original(m, k) # NoRow /\ bookmarks[k] = NoRow

(* DELETE takes the rows it has read that are still there, relabelled or   *)
(* not.                                                                    *)
Deleted(m, k) ==
    /\ m.snapshot[k] # NoRow /\ bookmarks[k] # NoRow
    /\ bookmarks[k].number = m.snapshot[k].number

(* The statement over bookmarks and its transaction's commit. *)
MergeBookmarks(c) ==
    LET m == call[c]
    IN  /\ m.op = "merge"
        /\ bookmarks' = [k \in DOMAIN bookmarks |->
                            IF Deleted(m, k) THEN NoRow
                            ELSE IF Moved(m, k)
                                 THEN [label |-> Original(m, k).label, number |-> 0]
                                 ELSE bookmarks[k]]
        /\ call' = [call EXCEPT ![c] =
                        [op |-> "merged", browser |-> m.browser, begun |-> m.begun]]
        /\ UNCHANGED <<accVars, stored, page, saves>>

-----------------------------------------------------------------------------
(* The answers to the calls of a page that is no longer open go nowhere.   *)
WithoutPage(b) ==
    [c \in Calls |-> IF call[c].op \in {"merge", "merged"} /\ call[c].browser = b
                     THEN [call[c] EXCEPT !.browser = NoId] ELSE call[c]]

(* A random id nobody has; the bound on ids lets one be used again once no *)
(* trace of it is left.                                                    *)
Unused(a) ==
    /\ \A b \in Browsers : stored[b] # a
    /\ \A l \in Leagues : bookmarks[<<a, l>>] = NoRow
    /\ \A c \in Calls : /\ call[c].op \in {"save", "update", "delete"} => call[c].key[1] # a
                       /\ call[c].op = "merge" => call[c].anon # a

(* A page is opened: useUserId keeps the stored id, or makes one up, for   *)
(* as long as the page lives.  One page per browser.                       *)
OpenPage(b, a) ==
    /\ IF stored[b] = NoId THEN Unused(a) ELSE a = stored[b]
    /\ stored' = [stored EXCEPT ![b] = a]
    /\ page' = [page EXCEPT ![b] = [anon |-> a, user |-> NoToken]]
    /\ call' = WithoutPage(b)
    /\ UNCHANGED <<accVars, bookmarks, saves>>

(* Signing in takes the browser to Google and back: its page is gone. *)
LeaveToSignIn(r, b, g) ==
    /\ Callback(r, b, g)
    /\ page' = [page EXCEPT ![b] = NoPage]
    /\ call' = WithoutPage(b)
    /\ UNCHANGED <<bookmarks, stored, saves>>

(* GET /auth/me answers from the token.  The effect of useAuth runs when   *)
(* the user it is given changes, not at every render: it asks for the      *)
(* merge of the stored id once, and again only once the page is reopened,  *)
(* the user signs in again or is renamed, or has been lost from sight.     *)
LearnUser(b, c) ==
    /\ page[b] # NoPage
    /\ page[b].user # jar[b]
    /\ page' = [page EXCEPT ![b].user = jar[b]]
    /\ IF jar[b] # NoToken /\ stored[b] # NoId
       THEN /\ call[c] = NoCall
            /\ call' = [call EXCEPT ![c] = MergeCall(jar[b].subject, stored[b], b)]
       ELSE UNCHANGED call
    /\ UNCHANGED <<accVars, bookmarks, stored, saves>>

(* GET /auth/me is asked again and fails: the page shows nobody signed in, *)
(* and the effect runs again when the user is back.                        *)
LoseUser(b) ==
    /\ page[b].user # NoToken
    /\ page' = [page EXCEPT ![b].user = NoToken]
    /\ UNCHANGED <<accVars, bookmarks, stored, call, saves>>

(* Fault: the id is forgotten whether or not the merge went through.       *)
ForgetsAlways(c) ==
    /\ call[c].op \in {"merge", "merged"}
    /\ call[c].browser # NoId
    /\ stored' = [stored EXCEPT ![call[c].browser] = NoId]
    /\ call' = [call EXCEPT ![c] = NoCall]
    /\ UNCHANGED <<accVars, bookmarks, page, saves>>

(* The merge is answered: localStorage forgets the id; the page's state    *)
(* does not.                                                               *)
MergeAnswered(c) ==
    /\ call[c].op = "merged"
    /\ stored' = IF call[c].browser = NoId THEN stored
                 ELSE [stored EXCEPT ![call[c].browser] = NoId]
    /\ EndCall(c)
    /\ UNCHANGED <<accVars, bookmarks, page, saves>>

BNext ==
    \/ \E r \in Requests, b \in Browsers, g \in Googles : LeaveToSignIn(r, b, g)
    \/ AfterCallback /\ UNCHANGED bmVars
    \/ \E c \in Calls :
          \/ \E b \in Browsers, l \in Leagues : SendFromPage(c, b, l)
          \/ \E a \in Owners, l \in Leagues : SendAs(c, a, l)
          \/ SaveUserLeague(c) \/ UpdateUserLeague(c) \/ DeleteUserLeague(c)
          \/ \E b \in Browsers, a \in Owners : RequestMerge(c, b, a)
          \/ MergeBookmarks(c)
          \/ \E b \in Browsers : LearnUser(b, c)
          \/ MergeAnswered(c) \/ FailCall(c)
    \/ \E b \in Browsers : LoseUser(b) \/ \E a \in Anonymous : OpenPage(b, a)

BSpec == BInit /\ [][BNext]_bVars

-----------------------------------------------------------------------------
Present(k) == bookmarks[k] # NoRow

(* A bookmark goes only by a DELETE in its owner's name (the id the server *)
(* resolved, which a client without a session chooses) or, if its owner is *)
(* anonymous, by a merge that leaves one of the same league with an        *)
(* account: whatever is saved or deleted while a merge is on its way,      *)
(* however often it is repeated, and also if the id to be merged is an     *)
(* account's (MergeAnonymousData, DeleteUserLeague).                       *)
BookmarksNeverVanish ==
    [][\A k \in DOMAIN bookmarks : Present(k) /\ ~Present(k)' =>
          \/ \E c \in Calls : call[c] = [op |-> "delete", key |-> k] /\ call'[c] = NoCall
          \/ k[1] \in Anonymous /\ \E u \in Ids : Present(<<u, k[2]>>)']_bVars

(* A bookmark's label changes only to that of a save or an update in its   *)
(* owner's name: no merge, repeated or late, relabels what the account has      *)
(* named (SaveUserLeague, UpdateUserLeague, MergeAnonymousData).           *)
OnlyOwnerRelabels ==
    [][\A k \in DOMAIN bookmarks :
          Present(k) /\ Present(k)' /\ bookmarks'[k].label # bookmarks[k].label =>
          \E c \in Calls : /\ call[c].op \in {"save", "update"}
                           /\ call[c].key = k /\ call[c].label = bookmarks'[k].label
                           /\ call'[c] = NoCall]_bVars

(* When a browser forgets its anonymous id, no bookmark is left under it   *)
(* that was there when the merge began: a merge that failed, or was rolled *)
(* back, or whose answer is lost, leaves the id to be merged again.  What  *)
(* was saved meanwhile is left behind (useAuthState, MergeAnonymousData).  *)
NothingMergedIsLeftBehind ==
    [][\A b \in Browsers : stored[b] # NoId /\ stored'[b] = NoId =>
          \E c \in Calls :
             /\ call[c].op \in {"merge", "merged"} /\ call[c].browser = b
             /\ \A l \in Leagues : LET k == <<stored[b], l>>
                                   IN  Present(k) => bookmarks[k].number > call[c].begun]_bVars

(* What makes these hold from step to step: a merge has read rows of its   *)
(* anonymous id alone; one that a page has asked for is of the id that the *)
(* page's browser has stored, has read whatever of it is not younger, and  *)
(* once it has committed nothing else is left; numbers are given out in    *)
(* order.                                                                  *)
SnapshotsOfOne ==
    \A c \in Calls : call[c].op = "merge" =>
        \A k \in DOMAIN bookmarks : call[c].snapshot[k] # NoRow => k[1] = call[c].anon

Younger(c, k) == bookmarks[k].number > call[c].begun

AskedBy(c, b) ==
    call[c].op \in {"merge", "merged"} /\ call[c].browser = b /\ stored[b] # NoId

MergesLeaveYounger ==
    \A c \in Calls, b \in Browsers : AskedBy(c, b) =>
        /\ call[c].op = "merge" =>
              /\ call[c].anon = stored[b]
              /\ \A l \in Leagues : LET k == <<stored[b], l>>
                                    IN  Present(k) /\ ~Younger(c, k) =>
                                          /\ call[c].snapshot[k] # NoRow
                                          /\ call[c].snapshot[k].number = bookmarks[k].number
        /\ call[c].op = "merged" =>
              \A l \in Leagues : LET k == <<stored[b], l>> IN Present(k) => Younger(c, k)

BegunBefore ==
    \A c \in Calls : call[c].op \in {"merge", "merged"} => call[c].begun <= saves

BInv ==
    /\ BTypeOK
    /\ AccInv
    /\ SnapshotsOfOne
    /\ BegunBefore
    /\ MergesLeaveYounger
=============================================================================
