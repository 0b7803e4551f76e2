\* Two join pages while an admin's card rests, or one while it changes links;
\* a user who deletes the account;
\* an app to connect, with two consent pages; and signing up and in;
\* a browser with the dashboard; and the tab of API keys.
SPECIFICATION RequestsSpec
CONSTANTS
  Tabs = {x, y}
  MaxFailed = 1
  InsertAttempts = 2
  MaxFresh = 3
  Workspaces = {x, y}
  Others = {a, m}
  Me = o
  MaxMoves = 2
  Clients = {"app"}
  ConsentTabs = {x, y}
  Memberships = {"w"}
  MaxRequests = 1
  MaxKeys = 2
  Asks = {x, y}
  MaxSends = 2
  MaxAsks = 4
  SessionUsers = {x, y}
  MaxChanges = 2
  Keys = {x, y}
  KeyMoves = 1
SYMMETRY Symmetry
CONSTRAINT CardRestsOrOnePage
INVARIANTS
  DeadLinksStayOut
  AttemptsBounded
  CardIsCurrent
  RequestsEndAsPromised
CHECK_DEADLOCK FALSE
