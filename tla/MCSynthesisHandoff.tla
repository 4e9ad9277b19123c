------------------------- MODULE MCSynthesisHandoff -------------------------
(* Two threads of one task (an attempt and its retry), one HTTP connector *)
(* and two CLIs, two handoffs and two HTTP attempts.                        *)
EXTENDS SynthesisHandoff

(* No recognised header, and a window that is used up. *)
MCHeaders == {{}, {[limit |-> 100, remaining |-> 4]}}
=============================================================================
