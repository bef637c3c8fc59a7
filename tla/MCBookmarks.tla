---------------------------- MODULE MCBookmarks ----------------------------
(* Two people, one browser and one league.  Sign-ins and profile updates   *)
(* are explored in every order before the first page is opened or the      *)
(* first bookmark call made; from then on the people sign in in turn,      *)
(* signed out and under their first names.                                 *)
EXTENDS Bookmarks, TLC

CONSTANTS ann, ben, bear, crow, b1, r1, r2, x, l1, lblA, lblB, c1, c2

IsBookmarkCall(c) == call[c].op \in {"save", "update", "delete"}

OnlyAccountsYet ==
    /\ <<page, stored>> = <<[b \in Browsers |-> NoPage], [b \in Browsers |-> NoId]>>
    /\ \A c \in Calls : ~IsBookmarkCall(c)
    /\ saves = 0

InTurn ==
    /\ users[ann] \in {NoAccount, [id |-> 1, name |-> bear]}
    /\ users[ben] \in {NoAccount, [id |-> 2, name |-> crow]}
    /\ req[r2] = NoRequest
    /\ req[r1] # NoRequest => req[r1].op # "profile" /\ jar[b1] = NoToken
    /\ req[r1].op = "signin" => req[r1].tries = 0

OneStory == OnlyAccountsYet \/ InTurn

Symmetry == Permutations({lblA, lblB}) \cup Permutations({c1, c2})
=============================================================================
