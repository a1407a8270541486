------------------------------ MODULE MCDiscovery ------------------------------
(***************************************************************************)
(* Instances of Discovery for TLC: two namespaces, and the selectors.      *)
(***************************************************************************)
EXTENDS Discovery

CONSTANTS n1, n2, h1, h2, s1, a, b

MCHome == [c \in {h1, h2, s1} |-> n1]
MCHomeOfOne == [c \in {h1, s1} |-> n1]

Select(selector, namespaceSelector) ==
  [selector |-> selector, namespaceSelector |-> namespaceSelector, suspend |-> FALSE]

Everything == Select(Labels, Labels)
Somewhere == Select({a}, {a})
AtHome == Select({a}, Own)

MCHubSpecs == {Everything, Somewhere, AtHome, [AtHome EXCEPT !.suspend = TRUE], Select(Invalid, Own)}
MCHomeSpecs == {AtHome, Select(Labels, Own), Select({}, Own)}
MCBrokenSpecs == {AtHome, Select({a}, Invalid)}

===============================================================================
