----------------------------- MODULE MCRequests -----------------------------
(***************************************************************************)
(* Instances, for TLC, of what takes several calls of the API: joining by  *)
(* an invite, deleting an account, connecting an app, signing in, opening  *)
(* and making workspaces, and creating and revoking keys. One of them goes *)
(* on in a behaviour, as `part` says, and the others rest: joining as it   *)
(* was at first, the rest with all their variables 0.                      *)
(***************************************************************************)
EXTENDS Invites, TLC

CONSTANTS
  Workspaces, Others, Me, MaxMoves,                        \* AccountDeletion
  Clients, ConsentTabs, Memberships, MaxRequests, MaxKeys, \* OAuth
  Asks, MaxSends, MaxAsks,                                 \* Login
  SessionUsers, MaxChanges,                                \* Session
  Keys, KeyMoves                                           \* ApiKeys

(* What the theorems about these parts assume.                             *)
ASSUME PartsAssumption ==
  /\ Me \notin Others
  /\ {MaxMoves, MaxRequests, MaxKeys, MaxAsks, MaxChanges, KeyMoves} \subseteq Nat
  /\ IsFiniteSet(Asks) /\ MaxSends \in Nat \ {0}

VARIABLES
  part,
  roles, owner, charged, filed, user, request, found, heir, troubled, modal, error, signedIn,
  moves,
  registered, authorized, pending, aged, codes, keys, offered, holds, redirects, workspaces,
  consent, call,
  account, mails, rows, open, asked, ask, screen, mode, next, headed, loading, orphan,
  session,
  belongs, made, cookie, stored, page, list, chosen, menu, create, astray, changes,
  home, revoked, selected, keysTab, keyLists, form, creation, newKey, confirm, revoking, told,
  listed, gone, keyMoves

deletionVars == <<roles, owner, charged, filed, user, request, found, heir, troubled, modal, error,
                  signedIn, moves>>
connectVars == <<registered, authorized, pending, aged, codes, keys, offered, holds, redirects,
                 workspaces, consent, call>>
signInVars == <<account, mails, rows, open, asked, ask, screen, mode, next, headed, loading, orphan,
                session>>
browserVars == <<belongs, made, cookie, stored, page, list, chosen, menu, create, astray, changes>>
keyVars == <<home, revoked, selected, keysTab, keyLists, form, creation, newKey, confirm, revoking,
             told, listed, gone, keyMoves>>

Symmetry == Permutations(Workspaces)

Deletion == INSTANCE AccountDeletion WITH member <- roles
Connect == INSTANCE OAuth WITH Tabs <- ConsentTabs, Workspaces <- Memberships,
             asked <- authorized, member <- workspaces, tab <- consent
SignIn == INSTANCE Login
Browser == INSTANCE Session WITH Users <- SessionUsers, MaxMoves <- MaxChanges, session <- cookie,
             troubled <- astray, moves <- changes
KeysTab == INSTANCE ApiKeys WITH MaxMoves <- KeyMoves, tab <- keysTab, keys <- keyLists,
             moves <- keyMoves

NoDeletion ==
  /\ roles = 0 /\ owner = 0 /\ charged = 0 /\ filed = 0 /\ user = 0 /\ request = 0 /\ found = 0
  /\ heir = 0 /\ troubled = 0 /\ modal = 0 /\ error = 0 /\ signedIn = 0 /\ moves = 0

NoConnect ==
  /\ registered = 0 /\ authorized = 0 /\ pending = 0 /\ aged = 0 /\ codes = 0 /\ keys = 0
  /\ offered = 0 /\ holds = 0 /\ redirects = 0 /\ workspaces = 0 /\ consent = 0 /\ call = 0

NoSignIn ==
  /\ account = 0 /\ mails = 0 /\ rows = 0 /\ open = 0 /\ asked = 0 /\ ask = 0
  /\ screen = 0 /\ mode = 0 /\ next = 0 /\ headed = 0 /\ loading = 0
  /\ orphan = 0 /\ session = 0

NoBrowser ==
  /\ belongs = 0 /\ made = 0 /\ cookie = 0 /\ stored = 0 /\ page = 0 /\ list = 0 /\ chosen = 0
  /\ menu = 0 /\ create = 0 /\ astray = 0 /\ changes = 0

NoKeysTab ==
  /\ home = 0 /\ revoked = 0 /\ selected = 0 /\ keysTab = 0 /\ keyLists = 0 /\ form = 0
  /\ creation = 0 /\ newKey = 0 /\ confirm = 0 /\ revoking = 0 /\ told = 0 /\ listed = 0
  /\ gone = 0 /\ keyMoves = 0

(* Bounds: a workspace to delete is charged for every membership; and the  *)
(* card of the invite has a request under way, or has made a code or token *)
(* anew, only while at most one join page is open and no attempt is on     *)
(* record: with MaxFailed = 1 no key is looked at after one. A page left   *)
(* while its join goes on is open until it is answered.                    *)
AllCharged == \A w \in Workspaces : charged[w] = Deletion!Bought

CardRestsOrOnePage ==
  \/ fresh <= 1 /\ ~Unanswered
  \/ attempts = 0 /\ \E t \in Tabs : \A u \in Tabs \ {t} : tab[u] = NoTab

RequestsInit ==
  /\ Init
  /\ \/ part = "joining" /\ NoDeletion /\ NoConnect /\ NoSignIn /\ NoBrowser /\ NoKeysTab
     \/ part = "deletion" /\ Deletion!Init /\ AllCharged /\ NoConnect /\ NoSignIn /\ NoBrowser
        /\ NoKeysTab
     \/ part = "connect" /\ NoDeletion /\ Connect!Init /\ NoSignIn /\ NoBrowser /\ NoKeysTab
     \/ part = "sign-in" /\ NoDeletion /\ NoConnect /\ SignIn!Init /\ NoBrowser /\ NoKeysTab
     \/ part = "browser" /\ NoDeletion /\ NoConnect /\ NoSignIn /\ Browser!Init /\ NoKeysTab
     \/ part = "keys" /\ NoDeletion /\ NoConnect /\ NoSignIn /\ NoBrowser /\ KeysTab!Init

RequestsNext ==
  \/ part = "joining" /\ Next /\ UNCHANGED <<part, deletionVars, connectVars, signInVars, browserVars, keyVars>>
  \/ part = "deletion" /\ Deletion!Next /\ UNCHANGED <<part, vars, connectVars, signInVars, browserVars, keyVars>>
  \/ part = "connect" /\ Connect!Next /\ UNCHANGED <<part, vars, deletionVars, signInVars, browserVars, keyVars>>
  \/ part = "sign-in" /\ SignIn!Next /\ UNCHANGED <<part, vars, deletionVars, connectVars, browserVars, keyVars>>
  \/ part = "browser" /\ Browser!Next /\ UNCHANGED <<part, vars, deletionVars, connectVars, signInVars, keyVars>>
  \/ part = "keys" /\ KeysTab!Next /\ UNCHANGED <<part, vars, deletionVars, connectVars, signInVars, browserVars>>

requestVars == <<part, vars, deletionVars, connectVars, signInVars, browserVars,
                 keyVars>>

RequestsSpec == RequestsInit /\ [][RequestsNext]_requestVars

-----------------------------------------------------------------------------
(* Requests of several calls end as promised, although any call may fail   *)
(* and others come in between: a deleted account leaves every workspace    *)
(* with one owner, and none is erased before what was on file for it has   *)
(* ended (account.py:119-152); a consent request is decided once, and a refusal  *)
(* that ran alone minted no key (mcp_oauth_provider.py:103, oauth.py:79);  *)
(* the limit of mails is overrun only by those counted at the same time    *)
(* (auth_rate_limit.py:47), and who signs in arrives where they were       *)
(* headed (login-view.tsx:108). The workspace shown is one of the user's,  *)
(* if there is any (workspace-context.tsx:27, onboarding.tsx:22). A key    *)
(* that exists was shown, or its answer lost (settings-view.tsx:409), and  *)
(* the tab of keys shows those that it created and revoked, or is about to *)
(* fetch them again (settings-view.tsx:414 and 422).                       *)
RequestsEndAsPromised ==
  /\ part = "deletion" => Deletion!HandedOver /\ Deletion!BillingEndsFirst
  /\ part = "connect" => Connect!DecidedOnce /\ Connect!RefusalLeavesNoKey
  /\ part = "sign-in" => SignIn!MailsBounded /\ SignIn!ArrivesWhereHeaded
  /\ part = "browser" => Browser!ShownIsOnesOwn /\ Browser!SomethingIsShown
  /\ part = "keys" => KeysTab!KeysAreShownOnce /\ KeysTab!OwnChangesAreListed
=============================================================================
