----------------------------- MODULE MCDlnaPlay -----------------------------
(* The player and one other process at a renderer. *)
EXTENDS DlnaPlay

CONSTANT Other

Both == {Player, Other}
Asked == {[name |-> "Pause"], [name |-> "Stop"],
          [name |-> "SetVolume", level |-> 120]}
Loud == {120}
=============================================================================
