CONSTANTS
    ann = ann  ben = ben  bear = bear  crow = crow  b1 = b1  r1 = r1  r2 = r2
    x = x  l1 = l1  lblA = lblA  lblB = lblB  c1 = c1  c2 = c2
    Googles = {ann, ben}
    Names = {bear, crow}
    Browsers = {b1}
    Requests = {r1, r2}
    MaxAttempts = 2
    Anonymous = {x}
    Leagues = {l1}
    Labels = {lblA, lblB}
    Calls = {c1, c2}
    MaxSaves = 2
    NoAccount = NoAccount
    NoToken = NoToken
    NoRow = NoRow
    NoId = NoId
CONSTRAINT OneStory
SYMMETRY Symmetry
SPECIFICATION BSpec
INVARIANTS
    BTypeOK
    TokensNameTheirAccount
PROPERTIES
    OnlyProfileUpdatesRename
    BookmarksNeverVanish
    OnlyOwnerRelabels
    NothingMergedIsLeftBehind
