---------------------------- MODULE AccountCards -----------------------------
(***************************************************************************)
(* Name and password on the tab Account of the settings (components/       *)
(* dashboard/settings-view.tsx, ProfileCard and PasswordCard), and the     *)
(* name in the sidebar (shell.tsx, Account), while the same user may       *)
(* change either from another device. Both are kept by Supabase Auth,      *)
(* which is external.                                                      *)
(***************************************************************************)
EXTENDS Naturals, QueryCache

CONSTANTS
  Names,      \* that the user may have, the empty one included
  Passwords,  \* that the user may have, all of MIN_PASSWORD characters
  MaxMoves    \* changes elsewhere and lost answers; bounds the runs

VARIABLES
  fullName,  \* in Supabase Auth
  password,  \* in Supabase Auth
  who,       \* the name in the sidebar, {} before the session is read
  user,      \* the name in the tab's `user`; {} until it has come, or the tab is closed
  field,     \* the name in the field
  save,      \* the request to save it
  typed,     \* what the three fields of the password card hold
  change,    \* the request to change the password
  astray,    \* history: the name was changed elsewhere, or an answer about it was lost
  raced,     \* history: the password was changed elsewhere while a change was under way
  moves      \* history: moves so far

vars == <<fullName, password, who, user, field, save, typed, change, astray, raced, moves>>

Idle == [pc |-> "idle"]
Blank == [current |-> {}, new |-> {}, confirm |-> {}]
Typed == [current : Maybe(Passwords), new : Maybe(Passwords), confirm : Maybe(Passwords)]

TypeOK ==
  /\ fullName \in Names /\ password \in Passwords
  /\ who \in Maybe(Names) /\ user \in Maybe(Names)
  /\ field \in Names
  /\ save \in {Idle} \cup [pc : {"sent", "saved"}, name : Names, here : BOOLEAN]
  /\ typed \in Typed
  /\ change \in {Idle} \cup [pc : {"check", "update", "changed"}, current : Passwords, new : Passwords]
  /\ astray \in BOOLEAN /\ raced \in BOOLEAN
  /\ moves \in 0 .. MaxMoves
  /\ user = {} => typed = Blank /\ change = Idle
  /\ change # Idle => change.current # change.new

Init ==
  /\ fullName \in Names /\ password \in Passwords
  /\ who = {fullName}
  /\ user = {}
  /\ field = fullName
  /\ save = Idle
  /\ typed = Blank
  /\ change = Idle
  /\ astray = FALSE /\ raced = FALSE
  /\ moves = 0

profile == <<user, field, save>>
card == <<typed, change>>
history == <<astray, raced, moves>>

Move == moves < MaxMoves /\ moves' = moves + 1
Dirty == {field} # user

-----------------------------------------------------------------------------
(* The tab. Until the user is known it shows a skeleton.                   *)

OpenTab ==
  /\ user = {}
  /\ user' = {fullName} /\ field' = fullName
  /\ save' = IF save = Idle THEN Idle ELSE [save EXCEPT !.here = FALSE]
  /\ astray' = FALSE
  /\ UNCHANGED <<fullName, password, who, card, raced, moves>>

(* A change of the password under way is waited for, to keep this short.   *)
LeaveTab ==
  /\ user # {} /\ change = Idle
  /\ user' = {}
  /\ typed' = Blank
  /\ save' = IF save = Idle THEN Idle ELSE [save EXCEPT !.here = FALSE]
  /\ UNCHANGED <<fullName, password, who, field, change, history>>

-----------------------------------------------------------------------------
(* The name.                                                               *)

TypeName(n) ==
  /\ user # {} /\ field # n
  /\ field' = n
  /\ UNCHANGED <<fullName, password, who, user, save, card, history>>

(* One left behind by an earlier visit is waited for, too.                 *)
Save ==
  /\ user # {} /\ Dirty /\ save = Idle
  /\ save' = [pc |-> "sent", name |-> field, here |-> TRUE]
  /\ UNCHANGED <<fullName, password, who, user, field, card, history>>

UpdateName ==
  /\ save.pc = "sent"
  /\ fullName' = save.name
  /\ save' = [save EXCEPT !.pc = "saved"]
  /\ astray' = (astray \/ ~save.here)
  /\ UNCHANGED <<password, who, user, field, card, raced, moves>>

\* Mutant of Saved: what the field holds by now counts as saved.
SavedField ==
  /\ save.pc = "saved"
  /\ who' = {save.name}
  /\ user' = IF save.here THEN {field} ELSE user
  /\ save' = Idle
  /\ UNCHANGED <<fullName, password, field, card, history>>

(* The field may hold something else again. The sidebar follows the        *)
(* session that comes with the answer.                                     *)
Saved ==
  /\ save.pc = "saved"
  /\ who' = {save.name}
  /\ user' = IF save.here THEN {save.name} ELSE user
  /\ save' = Idle
  /\ UNCHANGED <<fullName, password, field, card, history>>

SaveFails ==
  /\ save # Idle
  /\ Move
  /\ save' = Idle
  /\ astray' = (astray \/ save.pc = "saved")
  /\ UNCHANGED <<fullName, password, who, user, field, card, raced>>

RenameElsewhere(n) ==
  /\ fullName # n
  /\ Move
  /\ fullName' = n
  /\ astray' = TRUE
  /\ UNCHANGED <<password, who, profile, card, raced>>

-----------------------------------------------------------------------------
(* The password. What the card says of the outcome is left out.            *)

TypeCurrent(p) ==
  /\ user # {}
  /\ typed' = [typed EXCEPT !.current = p]
  /\ UNCHANGED <<fullName, password, who, profile, change, history>>

TypeNew(p) ==
  /\ user # {}
  /\ typed' = [typed EXCEPT !.new = p]
  /\ UNCHANGED <<fullName, password, who, profile, change, history>>

TypeConfirm(p) ==
  /\ user # {}
  /\ typed' = [typed EXCEPT !.confirm = p]
  /\ UNCHANGED <<fullName, password, who, profile, change, history>>

Ready == \A f \in DOMAIN typed : typed[f] # {}

(* Otherwise the card says what is wrong.                                  *)
Submit ==
  /\ Ready /\ change = Idle /\ typed.new = typed.confirm /\ typed.new # typed.current
  /\ \E c \in typed.current, n \in typed.new : change' = [pc |-> "check", current |-> c, new |-> n]
  /\ UNCHANGED <<fullName, password, who, profile, typed, history>>

\* Mutant of CheckPassword: the current password is not checked.
CheckNothing ==
  /\ change.pc = "check"
  /\ change' = [change EXCEPT !.pc = "update"]
  /\ raced' = FALSE
  /\ who' = {fullName}
  /\ UNCHANGED <<fullName, password, profile, typed, astray, moves>>

(* Signing in with the current password also brings a new session.         *)
CheckPassword ==
  /\ change.pc = "check" /\ change.current = password
  /\ change' = [change EXCEPT !.pc = "update"]
  /\ raced' = FALSE
  /\ who' = {fullName}
  /\ UNCHANGED <<fullName, password, profile, typed, astray, moves>>

CheckRefused ==
  /\ change.pc = "check"
  /\ change' = Idle
  /\ UNCHANGED <<fullName, password, who, profile, typed, history>>

UpdatePassword ==
  /\ change.pc = "update"
  /\ password' = change.new
  /\ change' = [change EXCEPT !.pc = "changed"]
  /\ UNCHANGED <<fullName, who, profile, typed, history>>

(* The fields are emptied, whatever they hold by now.                      *)
Changed ==
  /\ change.pc = "changed"
  /\ change' = Idle
  /\ typed' = Blank
  /\ UNCHANGED <<fullName, password, who, profile, history>>

ChangeFails ==
  /\ change.pc \in {"update", "changed"}
  /\ Move
  /\ change' = Idle
  /\ UNCHANGED <<fullName, password, who, profile, typed, astray, raced>>

ChangeElsewhere(p) ==
  /\ password # p
  /\ Move
  /\ password' = p
  /\ raced' = TRUE
  /\ UNCHANGED <<fullName, who, profile, card, astray>>

Next ==
  \/ OpenTab
  \/ LeaveTab
  \/ \E n \in Names : TypeName(n)
  \/ Save
  \/ UpdateName
  \/ Saved
  \/ SaveFails
  \/ \E n \in Names : RenameElsewhere(n)
  \/ \E p \in Maybe(Passwords) : TypeCurrent(p)
  \/ \E p \in Maybe(Passwords) : TypeNew(p)
  \/ \E p \in Maybe(Passwords) : TypeConfirm(p)
  \/ Submit
  \/ CheckPassword
  \/ CheckRefused
  \/ UpdatePassword
  \/ Changed
  \/ ChangeFails
  \/ \E p \in Passwords : ChangeElsewhere(p)

Spec == Init /\ [][Next]_vars

-----------------------------------------------------------------------------
(* When there is nothing to save, the name in the field is the user's,     *)
(* although it can be edited while it is being saved; unless the name was  *)
(* changed elsewhere, or an answer was lost, since the tab was opened      *)
(* (settings-view.tsx:135).                                                *)
FieldIsSaved ==
  user # {} /\ save = Idle /\ ~Dirty /\ ~astray => field = fullName

(* The password changes by this card only if the current one was given,    *)
(* unless it changes elsewhere between the check and the update            *)
(* (settings-view.tsx:179-181).                                            *)
CurrentGiven == UpdatePassword => password = change.current \/ raced
CurrentWasGiven == [][CurrentGiven]_<<password, change>>
=============================================================================
