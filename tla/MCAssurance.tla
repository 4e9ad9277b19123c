---------------------------- MODULE MCAssurance ----------------------------
(* Two chapters, two chunks of which a chapter is given the first or none, *)
(* and a reference that names no chunk; every mode, verdict and defect.    *)
EXTENDS Assurance

Work(manuscript, sections, stated, refs) ==
  Result("completed", manuscript, sections, stated, refs)
TheWorks ==
  { Work("whole", {"c1"}, TRUE, {"c1"}),
    Result("cached", "whole", {"c1"}, TRUE, {"c1"}),
    Work("whole", {"c1"}, FALSE, {"c1"}),       \* a blank claim
    Work("whole", {"c1"}, TRUE, {}),            \* a claim that cites nothing
    Work("whole", {"c2"}, TRUE, {"c2"}),        \* a chunk it was not given
    Work("whole", {"stray"}, TRUE, {"c1"}),
    Work("whole", {"c1"}, TRUE, {"c1", "stray"}),
    Work("malformed", {"c1"}, TRUE, {"c1"}),
    Work("malformed", {"stray"}, TRUE, {"c1"}),
    Work("malformed", {}, TRUE, {}) }
TheGiven == {{}, {"c1"}}
=============================================================================
