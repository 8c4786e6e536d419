---------------------------- MODULE MCSelection -----------------------------
(***************************************************************************)
(* An instance of Selection with a file the plan names, one it does not    *)
(* and one of the configuration; with reviews that differ in severity, in  *)
(* what is confirmed and in what they are about.                           *)
(***************************************************************************)
EXTENDS Selection

CONSTANTS source, extra, config

ThreeFiles == {source, extra, config}
TwoPlans == {[expected |-> {source, config}, forbidden |-> {}],
             [expected |-> {}, forbidden |-> {extra}]}
ThreeGrants == {[label |-> FALSE, body |-> {config}, artifact |-> {}],
                [label |-> TRUE, body |-> {}, artifact |-> {config}],
                [label |-> TRUE, body |-> {source}, artifact |-> {config}]}
OnePolicy == {{config}}

Found(severity, postable, about) ==
  [n |-> 1, severity |-> severity, postable |-> postable, about |-> about]
MildAndStrong == {Found("medium", TRUE, {}), Found("low", FALSE, {"contract"})}
EightReports == {{}, MildAndStrong,
                 {Found("critical", TRUE, {})}, {Found("high", TRUE, {})},
                 {Found("high", FALSE, {})}, {Found("low", TRUE, {})},
                 {Found("low", FALSE, {"contract"})}, {Found("low", FALSE, {"protected"})}}
TwoDurations == {1, 2}
=============================================================================
