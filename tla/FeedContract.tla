---------------------------- MODULE FeedContract ----------------------------
(***************************************************************************)
(* What a store promises about Central's changes: it applies them once     *)
(* each, in the order Central made them, none left out; a change it cannot *)
(* accept stops it.  A backup holds the catalog together with the place in *)
(* the order, so a restored store carries on from there.                   *)
(*                                                                         *)
(* ChangeFeed.tla implements this with pages, a cursor and an inbox.       *)
(***************************************************************************)
EXTENDS Projection, Sequences

VARIABLES
  log,      \* the changes Central made, oldest first
  applied,  \* how many of them the store has applied
  catalog,  \* what they made of its catalog
  saved     \* the state in the backup

vars == <<log, applied, catalog, saved>>

Init ==
  /\ log = <<>>
  /\ applied = 0
  /\ catalog = EmptyCatalog
  /\ saved = <<0, EmptyCatalog>>

Publish ==
  /\ Len(log') = Len(log) + 1
  /\ log' = Append(log, log'[Len(log) + 1])
  /\ UNCHANGED <<applied, catalog, saved>>

Apply ==
  /\ applied < Len(log)
  /\ applied' = applied + 1
  /\ catalog' = Effect(catalog, log[applied + 1])
  /\ UNCHANGED <<log, saved>>

Save ==
  /\ saved' = <<applied, catalog>>
  /\ UNCHANGED <<log, applied, catalog>>

Restore ==
  /\ <<applied, catalog>>' = saved
  /\ UNCHANGED <<log, saved>>

Next == Publish \/ Apply \/ Save \/ Restore

Spec == Init /\ [][Next]_vars

=============================================================================
