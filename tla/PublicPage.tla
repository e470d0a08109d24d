----------------------------- MODULE PublicPage -----------------------------
(***************************************************************************)
(* What spectators may rely on of a published tournament, whatever the     *)
(* Director and the network do behind it: its revision only grows, and a   *)
(* section once shown is never replaced by an older one.  The page may be  *)
(* taken down and put back, and deleted for good.                          *)
(***************************************************************************)
EXTENDS Naturals

CONSTANTS Sections

VARIABLE page

Shown == {"live", "final"}

Init == page = [lifecycle |-> "live", revision |-> 0, sections |-> [s \in Sections |-> 0]]

\* A snapshot or a section update.
Publish ==
  /\ page.lifecycle # "gone"
  /\ page'.lifecycle \in Shown
  /\ page'.revision > page.revision
  /\ \A s \in Sections : page'.sections[s] >= page.sections[s]

TakeDown ==
  /\ page.lifecycle # "gone"
  /\ page' = [page EXCEPT !.lifecycle = "unpublished"]

Delete == page' = [page EXCEPT !.lifecycle = "gone"]

Next == Publish \/ TakeDown \/ Delete

Spec == Init /\ [][Next]_page
=============================================================================
