------------------------ MODULE MCCalibrationCorpus ------------------------
(* Banks of a few dozen rows: every axis can be filled for both corpora, some *)
(* strata run out, some rows never fit, one row is in its bank twice.         *)
EXTENDS CalibrationCorpus, SequencesExt

Row(i, d, fam, lang, topic, bank, item, counts) ==
  [row |-> i, domain |-> d, family |-> fam, language |-> lang, topic |-> topic,
   bank |-> bank, item |-> item, text |-> i, counts |-> counts, fenced |-> FALSE,
   plain |-> counts]

Smooth == <<1, 2, 3, 4, 5, 6>>
Jumpy == <<1, 2, 2, 4, 6>>
Uneven == <<1, 2, 2, 3, 6>>
Short == <<1, 2>>
Tiny == <<1>>
Long == <<5, 6>>

Wiki(i, fam, lang, topic, item, counts) == Row(i, "wiki", fam, lang, topic, "", item, counts)
Code(i, lang, item, counts, fenced, plain) ==
  [Row(i, "code", "review", lang, "", "", item, counts) EXCEPT !.fenced = fenced, !.plain = plain]
Math(i, lang, bank, item, n) == Row(i, "math", "proof", lang, "", bank, item, <<n>>)
Structured(i, fam, item, n) == Row(i, "structured", fam, "en", "", "xlam", item, <<n>>)

RowList == <<
  Wiki(1, "mc", "zh", "reasoning", 1, Smooth), Wiki(2, "relate", "fr", "reasoning", 1, Jumpy),
  Wiki(3, "mc", "zh", "reasoning", 2, Jumpy),  Wiki(4, "mc", "de", "reasoning", 2, Short),
  Wiki(5, "sum", "zh", "other", 1, Smooth),    Wiki(6, "sum", "en", "other", 3, Uneven),
  Wiki(7, "qa", "en", "other", 4, Jumpy),      Wiki(8, "sum", "zh", "other", 5, Long),
  Wiki(9, "qa", "zh", "other", 6, Uneven),     Wiki(10, "sum", "fr", "other", 7, Smooth),
  Wiki(11, "sum", "zh", "other", 8, Jumpy),    Wiki(12, "qa", "de", "other", 9, Short),
  Wiki(13, "qa", "en", "legal", 10, Smooth),
  Code(14, "Python", 1, <<3, 4, 5>>, TRUE, Smooth), Code(15, "Rust", 1, Long, TRUE, Smooth),
  Code(16, "Go", 2, <<9>>, FALSE, Smooth),           Code(17, "Python", 3, Smooth, TRUE, Long),
  Code(18, "Go", 3, Smooth, TRUE, Smooth),          Code(19, "Go", 3, Tiny, TRUE, Tiny),
  Math(20, "zh", "cmath", 1, 2), Math(21, "en", "numina", 2, 4), Math(22, "en", "numina", 3, 3),
  Math(23, "en", "numina", 3, 3), Math(24, "en", "numina", 4, 9), Math(25, "en", "numina", 5, 2),
  Code(30, "Go", 2, Jumpy, TRUE, Smooth),
  Structured(26, "call", 1, 3), Structured(27, "call", 2, 4), Structured(28, "pick", 2, 2),
  [Structured(29, "call", 1, 3) EXCEPT !.text = 26] >>

MCPriority == <<"Python", "Rust">>
MCRows == Range(RowList)
MCOrders == {RowList, Reverse(RowList)}
Items(domain, items) == {<<domain, i>> : i \in items}
MCHeldout == {
  Items("wiki", {2, 8, 9}) \cup Items("code", {3}) \cup Items("math", {5}) \cup Items("structured", {2}),
  Items("wiki", {1, 3, 6, 7}) \cup Items("code", {1}) \cup Items("math", {1, 3}) \cup Items("structured", {1}),
  Items("wiki", {2, 4}) }
=============================================================================
