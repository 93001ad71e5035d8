------------------------------- MODULE MCWizard -------------------------------
(* Wizard with three datastores of one server, two of which have tokens of one name. *)
EXTENDS Wizard, TLC

MCTokenName ==
  [s \in Datastore |-> IF s \in {"nas 1", "nas-1"} THEN "joulenap-nas-1" ELSE "joulenap-tank"]
WizardSymmetry == Permutations(Wizards)
=============================================================================
