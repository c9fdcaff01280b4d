-------------------------- MODULE PublicationPointer --------------------------
(***************************************************************************)
(* What ingestion promises the readers of analytics_publications: runs are *)
(* published one at a time and the pointer is always at the last one.      *)
(***************************************************************************)
CONSTANTS
  Runs,
  NoRun  \* no run: what the pointer holds before the first publication

VARIABLES published, current

pointer == <<published, current>>

PointerInit == published = {} /\ current = NoRun

Publish(r) ==
  /\ r \notin published
  /\ published' = published \cup {r}
  /\ current' = r

PointerNext == \E r \in Runs : Publish(r)

PointerSpec == PointerInit /\ [][PointerNext]_pointer
===============================================================================
