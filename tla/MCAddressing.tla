---------------------------- MODULE MCAddressing ----------------------------
(* Two brands and four models: a slug that is another model's name, names  *)
(* that differ in case only, a label within another and one used twice.    *)
EXTENDS Addressing

MCTexts == {"", "Fund", "VCV", "vcv", "Bog", "VCO", "vco", "Osc", "LFO", "Freq", "freq",
            "Frequency", "frequency", "osc", "lfo", "fund", "bog"}

MCLower ==
  [s \in MCTexts |->
     CASE s \in {"VCV", "vcv"} -> "vcv" [] s \in {"VCO", "vco"} -> "vco"
       [] s \in {"Freq", "freq"} -> "freq" [] s \in {"Frequency", "frequency"} -> "frequency"
       [] s \in {"Osc", "osc"} -> "osc" [] s \in {"LFO", "lfo"} -> "lfo"
       [] s \in {"Fund", "fund"} -> "fund" [] s \in {"Bog", "bog"} -> "bog"
       [] OTHER -> s]

MCWithin ==
  {<<"freq", "frequency">>} \cup {<<"", s>> : s \in MCTexts} \cup {<<s, s>> : s \in MCTexts}

Model(bs, bn, s, n, h, ls) ==
  [brandSlug |-> bs, brandName |-> bn, slug |-> s, name |-> n, hidden |-> h, labels |-> ls]

A == Model("Fund", "VCV", "VCO", "Osc", FALSE, <<"Frequency", "Freq">>)
B == Model("Fund", "VCV", "Osc", "VCO", FALSE, <<>>)
C == Model("Bog", "Bog", "vco", "VCO", FALSE, <<"Freq", "freq", "">>)
D == Model("Bog", "Bog", "LFO", "Osc", TRUE, <<"Freq">>)

MCModels == {A, B, C, D}

MCKind == [id \in 1 .. 4 |-> <<A, B, A, C>>[id]]

Ref(b, n, k) == [brand |-> b, name |-> n, index |-> k]

MCRefs ==
  {Ref("", "VCO", 0), Ref("", "vco", 1), Ref("", "osc", 0), Ref("", "Osc", 2),
   Ref("Fund", "VCO", 0), Ref("Fund", "VCO", 1), Ref("vcv", "osc", 0),
   Ref("vcv", "VCO", 0), Ref("bog", "vco", 0), Ref("Bog", "LFO", 0),
   Ref("Fund", "vco", -1)}
=============================================================================
