---------------------------- MODULE ScannerRefinement ----------------------------
(***************************************************************************)
(* What the scanning methods promise, in terms of Scanner: the position of *)
(* MessageItems is where the call in progress began.                       *)
(***************************************************************************)
EXTENDS Scanner

Items == INSTANCE MessageItems WITH
  msg <- buf, pos <- IF astray THEN -1 ELSE IF call = Idle THEN index ELSE idx

\* Scanner implements MessageItems.
ReadsItems == Items!SafeSpec
=============================================================================
