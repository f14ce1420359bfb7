--------------------------- MODULE MCMarkovStream ---------------------------
(***************************************************************************)
(* Small instances of MarkovStream, with the templates of the repository   *)
(* in miniature and others an operator may write.                          *)
(***************************************************************************)
EXTENDS MarkovStream

\* templates/warning.html and templates/generated.html, a word for each text.
WarningHtml ==
  <<"<title>", "{{", " ", "title", " ", "}}", "<h1>", "{{", "title", "}}",
    "<p>", "{{", "main", "}}", "<aside>", "{{", "footer", "}}", "</html>">>
GeneratedHtml ==
  <<"<title>", "{{", "title", "}}", "<h1>", "{{", " ", "title", "}}", "{{",
    "initial", "}}", "{{", "main", " ", "}}", "{{", "extra", "}}", "<aside>",
    "{{", "footer", "}}", "</html>">>

\* The template of the test writes_template_to_buffer.
TitleAndMain ==
  <<"<h1>", "{{", " ", "title", " ", "}}", "</h1>", "{{", "main", "}}", "</p>">>
\* Two MAINs, and text before and after a FOOTER.
TwoMains ==
  <<"{{", "main", "}}", "<p>", "{{", "footer", "}}", "<p>", "{{", "main", "}}">>
\* Accepted for no page, or for one kind only.
Unclosed == <<"<h1>", "{{", "title", "<p>">>
Misspelt == <<"{{", "title", "}}", "{{", "mainz", "}}", "<p>">>
Extras   == <<"{{", "extra", "}}", "<p>", "{{", "title", "}}", "{{", "initial", "}}">>
NoSlots  == <<"<p>", "}}", "<p>">>

Pages == {WarningHtml, GeneratedHtml, TitleAndMain, TwoMains, Unclosed,
          Misspelt, Extras, NoSlots, <<>>}

\* These, every template of up to four tokens, and those of five that open a
\* placeholder.
Alphabet == {"{{", "}}", " ", "title", "initial", "<p>"}

ManyPages ==
  Pages \cup UNION {[1 .. n -> Alphabet] : n \in 0 .. 4}
        \cup {<<"{{">> \o rest : rest \in [1 .. 4 -> Alphabet]}
=============================================================================
