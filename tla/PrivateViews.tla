---------------------------- MODULE PrivateViews ----------------------------
(***************************************************************************)
(* What overlays promise to tasks: each sees a private copy of the base.   *)
(* A copy is opened, changed by the whole of a delta at a time, and        *)
(* dropped; nothing else ever changes it.                                  *)
(***************************************************************************)
CONSTANTS Overlay, Delta, NoView, Base, Change(_, _)

VARIABLE view

ViewInit == view = [o \in Overlay |-> NoView]

OpenView(o) ==
    /\ view[o] = NoView
    /\ view' = [view EXCEPT ![o] = Base]

(* the paths a delta names take the value the delta gives them in this view *)
ChangeView(o, d) ==
    /\ view[o] # NoView
    /\ view' = [view EXCEPT ![o] = Change(view[o], d)]

(* one or more views end together *)
DropViews(os) ==
    /\ view' = [o \in Overlay |-> IF o \in os THEN NoView ELSE view[o]]

ViewNext ==
    \/ \E o \in Overlay : OpenView(o)
    \/ \E o \in Overlay, d \in Delta : ChangeView(o, d)
    \/ \E os \in SUBSET Overlay : DropViews(os)

ViewSpec == ViewInit /\ [][ViewNext]_view
=============================================================================
