-------------------------------- MODULE Soc2 --------------------------------
(***************************************************************************)
(* The SOC 2 page (components/dashboard/soc2-view.tsx): the controls, the  *)
(* families and the filter they are narrowed by, and the live evidence     *)
(* that the API computes for them in several queries while events are      *)
(* logged (backend/app/services/soc2_evidence.py).                         *)
(***************************************************************************)
EXTENDS Naturals, FiniteSets, QueryCache

CONSTANTS
  Controls,   \* of SOC 2
  Family,     \* of each control
  Live,       \* the controls that the API has evidence for, not only a note
  MaxEvents   \* bounds the runs

VARIABLES
  logged,    \* events of the month
  failed,    \* those of them with the status "error"
  controls,  \* the query ["soc2-controls", workspace], which the home page reads too
  counting,  \* the failed events counted for the answer to it, {} before
  page,      \* whether the SOC 2 page is open
  focus,     \* the family that it is narrowed to, if any
  filter     \* all controls, those with live evidence, or the others

vars == <<logged, failed, controls, counting, page, focus, filter>>

Families == {Family[c] : c \in Controls}
Figures == [failed : Nat, logged : Nat]

TypeOK ==
  /\ logged \in Nat /\ failed \in 0 .. logged
  /\ controls \in Entry(Figures)
  /\ counting \in Maybe(Nat)
  /\ counting # {} => controls.flight = "sent"
  /\ page \in BOOLEAN
  /\ focus \in Maybe(Families)
  /\ filter \in {"all", "live", "guidance"}

Init ==
  /\ logged = 0 /\ failed = 0
  /\ controls = NoEntry
  /\ counting = {}
  /\ page = FALSE
  /\ focus = {}
  /\ filter = "all"

-----------------------------------------------------------------------------
Log(f) ==
  /\ logged < MaxEvents
  /\ logged' = logged + 1
  /\ failed' = IF f THEN failed + 1 ELSE failed
  /\ UNCHANGED <<controls, counting, page, focus, filter>>

(* The page, or the home page.                                             *)
OpenPage(soc2, aged) ==
  /\ controls' = Mount(controls, aged)
  /\ page' = soc2
  /\ focus' = {} /\ filter' = "all"
  /\ UNCHANGED <<logged, failed, counting>>

(* A tile narrows the list to its family, and widens it again.             *)
Focus(f) ==
  /\ page /\ controls.data # {}
  /\ focus' = IF focus = {f} THEN {} ELSE {f}
  /\ UNCHANGED <<logged, failed, controls, counting, page, filter>>

SetFilter(e) ==
  /\ page /\ filter # e
  /\ filter' = e
  /\ UNCHANGED <<logged, failed, controls, counting, page, focus>>

(* compute_live_evidence: the failed events, then all of them.             *)
CountErrors ==
  /\ controls.flight = "sent" /\ counting = {}
  /\ counting' = {failed}
  /\ UNCHANGED <<logged, failed, controls, page, focus, filter>>

\* Mutant of CountEvents: the events were counted first.
CountEventsFirst ==
  /\ controls.flight = "sent"
  /\ \E n \in counting : controls' = Read(controls, [failed |-> failed, logged |-> n])
  /\ counting' = {}
  /\ UNCHANGED <<logged, failed, page, focus, filter>>

CountEvents ==
  /\ controls.flight = "sent"
  /\ \E n \in counting : controls' = Read(controls, [failed |-> n, logged |-> logged])
  /\ counting' = {}
  /\ UNCHANGED <<logged, failed, page, focus, filter>>

ControlsLand ==
  /\ controls.flight = "read"
  /\ controls' = Landed(controls)
  /\ UNCHANGED <<logged, failed, counting, page, focus, filter>>

ControlsFail ==
  /\ controls.flight # "none"
  /\ controls' = Failed(controls)
  /\ counting' = {}
  /\ UNCHANGED <<logged, failed, page, focus, filter>>

Next ==
  \/ \E f \in BOOLEAN : Log(f)
  \/ \E soc2, aged \in BOOLEAN : OpenPage(soc2, aged)
  \/ \E f \in Families : Focus(f)
  \/ \E e \in {"all", "live", "guidance"} : SetFilter(e)
  \/ CountErrors
  \/ CountEvents
  \/ ControlsLand
  \/ ControlsFail

Spec == Init /\ [][Next]_vars

-----------------------------------------------------------------------------
IsLive(c) == c \in Live

Shown ==
  {c \in Controls : /\ controls.data # {}
                    /\ filter # "all" => (filter = "live") = IsLive(c)
                    /\ \A f \in focus : Family[c] = f}

(* No control that is shown has more failed events than events, although   *)
(* they are counted in two queries while events come in                    *)
(* (soc2_evidence.py:81 and 92).                                           *)
EvidenceAddsUp ==
  \A c \in Shown : IsLive(c) => \A d \in controls.data : d.failed <= d.logged
=============================================================================
