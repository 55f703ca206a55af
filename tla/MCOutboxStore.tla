---------------------------- MODULE MCOutboxStore ----------------------------
(* Two commands that differ only in name; the digests and the recovery       *)
(* material are one value each, with a second digest to make conflicts.      *)
EXTENDS OutboxStore, TLC

CONSTANTS c1, c2, fp1, fp2, ev1

MCCommands == {c1, c2}
OneCommand == {c1}
MCFingerprints == {fp1, fp2}
MCEvidence == {ev1}
MCSymmetry == Permutations(MCCommands)
=============================================================================
