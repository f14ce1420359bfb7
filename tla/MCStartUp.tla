------------------------------ MODULE MCStartUp ------------------------------
(***************************************************************************)
(* A small instance of StartUp: three texts in Strings of two bytes and    *)
(* more, two files, counts of two bits.                                    *)
(***************************************************************************)
EXTENDS StartUp

\* The first String of two bytes is filled exactly, overrun by one, or too
\* small from the start, depending on what comes first.
Sizes == ("a" :> 1) @@ ("b" :> 2) @@ ("big" :> 3)

\* A template for both kinds of page, one for generated pages only, and one
\* that is valid for none.
Files == {<<"<p>", "{{", "title", "}}">>, <<"{{", "extra", "}}">>, <<"{{", "title">>}

File(name, kind, readable) == [name |-> name, kind |-> kind, readable |-> readable]

Lists ==
  { NoPayloads,
    <<File("a.gz", "Gz", TRUE), File("b.br", "Brotli", TRUE), File("c.gz", "Gz", TRUE)>>,
    <<File("a.gz", "Gz", TRUE), File("bad.br", "Brotli", FALSE)>>,
    <<File("bad.txt", "other", FALSE), File("b.br", "Brotli", TRUE)>> }
=============================================================================
