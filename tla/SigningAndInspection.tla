------------------------ MODULE SigningAndInspection ------------------------
(***************************************************************************)
(* The two things that an Agent does beside the commands of its sessions:  *)
(* PendingSigning and Inspection.  They share nothing, not even a clock    *)
(* (one counts what a record has left, the other when a document was last  *)
(* served), so a step of one leaves the other as it is.                    *)
(***************************************************************************)
EXTENDS PendingSigning

CONSTANTS Inspections, Flights, Kinds, Versions, Unbound, Lifetime, MaxTime, MaxRedirects, Controls
VARIABLES now, current, last, cache, promise, flight, kind, step, frame

I == INSTANCE Inspection WITH stage <- step

ASSUME DocumentsAssumption ==
  /\ Versions \subseteq Nat /\ 1 \in Versions /\ Unbound \subseteq Versions
  /\ Lifetime \in Nat /\ MaxTime \in Nat \ {0}

ASSUME MissingAssumption ==
  /\ None \notin Versions \union I!Times /\ None \notin I!Words /\ None \notin Flights
  /\ None \notin I!Entries \union I!Answers /\ None \notin I!Asked

(* An inspection of a session never lacks a promise to make.               *)
ASSUME FlightsAssumption ==
  /\ IsFiniteSet(Inspections) /\ IsFiniteSet(Flights)
  /\ Cardinality(Flights) >= Cardinality(Inspections)

inspecting == <<now, current, last, cache, promise, flight, kind, step, frame>>

BothInit == Init /\ I!Init
Signs == Next /\ UNCHANGED inspecting
Inspects == I!Next /\ UNCHANGED vars
BothSpec == BothInit /\ [][Signs \/ Inspects]_<<vars, inspecting>>

-----------------------------------------------------------------------------
(* Inspection: an inspection returns what was the Service's document no    *)
(* longer before than it may be cached, and a session shares one.          *)
InspectedWasCurrent == I!InspectedWasCurrent
OneInspectionAtATime == I!OneInspectionAtATime
=============================================================================
