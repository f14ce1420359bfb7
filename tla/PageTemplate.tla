---------------------------- MODULE PageTemplate ----------------------------
(***************************************************************************)
(* The page templates of crates/nailgen/src/template.rs: text with         *)
(* placeholders such as {{ TITLE }}, how the cursor walks from one         *)
(* placeholder to the next, and which templates are accepted at start-up.  *)
(*                                                                         *)
(* A template is a sequence of tokens: "{{", "}}", " " for white space,    *)
(* and words.  A word is a maximal run of letters or a piece of any other  *)
(* text; a placeholder's name stands for it in any case (Caseless).  A     *)
(* cursor is the position of the first token that is not yet written.      *)
(***************************************************************************)
EXTENDS Naturals, Sequences, FiniteSetsExt

Opening == "{{"
Closing == "}}"
Blank   == " "

Placeholders == {"title", "initial", "main", "extra", "footer"}

\* The placeholders WarningTemplate::init and GeneratedTemplate::init accept.
Allowed(kind) ==
  IF kind = "warning" THEN {"title", "main", "footer"} ELSE Placeholders

\* space0: the first position from j on that is no white space.
SkipSpace(t, j) == Min({k \in j .. Len(t) + 2 : k > Len(t) \/ t[k] # Blank})

(***************************************************************************)
(* process_template from cursor i: the state reached, the position `at` up *)
(* to which the text before it runs, and the cursor after it.  Text        *)
(* without another "{{" is "finished", and leaves the cursor alone.        *)
(***************************************************************************)
Process(t, i) ==
  LET opens == {k \in i .. Len(t) : t[k] = Opening}
      open  == Min(opens)
      word  == SkipSpace(t, open + 1)
      close == SkipSpace(t, word + 1)
  IN  IF opens = {}
      THEN [state |-> "finished", at |-> Len(t) + 1, next |-> i]
      ELSE IF /\ close <= Len(t)
              /\ t[word] \in Placeholders
              /\ t[close] = Closing
      THEN [state |-> t[word], at |-> open, next |-> close + 1]
      ELSE [state |-> "error", at |-> i, next |-> i]

\* TemplateCursor::write_template: an error ends the page, and writes nothing.
WriteTemplate(t, i) ==
  LET p == Process(t, i)
  IN  IF p.state = "error" THEN [p EXCEPT !.state = "finished"] ELSE p

\* Slip: a placeholder that does not parse ends the walk, as it does a page.
ValidateLeniently(t, included) ==
  LET ok[i \in 1 .. Len(t) + 1] ==
        LET p == WriteTemplate(t, i)
        IN  \/ p.state = "finished"
            \/ p.state \in included /\ ok[p.next]
  IN  ok[1]

\* TemplateCursor::validate, which walks the whole template.
Validate(t, included) ==
  LET ok[i \in 1 .. Len(t) + 1] ==
        LET p == Process(t, i)
        IN  \/ p.state = "finished"
            \/ p.state \in included /\ ok[p.next]
  IN  ok[1]

-----------------------------------------------------------------------------
(***************************************************************************)
(* What a template says, without a cursor: it is text, except for slots    *)
(* that run from a "{{" to the first "}}" after it.                        *)
(***************************************************************************)
Slots(t) == {k \in 1 .. Len(t) : t[k] = Opening}

SlotEnd(t, k) == Min({e \in k .. Len(t) : t[e] = Closing})

SlotWord(t, k) == t[Min({w \in k + 1 .. Len(t) : t[w] # Blank})]

\* Every "{{" is followed by one of the words allowed and a "}}", and by
\* nothing else but white space.
WellFormed(t, allowed) ==
  \A k \in Slots(t) : \E e \in k + 2 .. Len(t) :
    /\ t[e] = Closing
    /\ \E w \in k + 1 .. e - 1 :
         /\ t[w] \in allowed
         /\ \A x \in (k + 1 .. e - 1) \ {w} : t[x] = Blank

TextOf(t) == (1 .. Len(t)) \ UNION {k .. SlotEnd(t, k) : k \in Slots(t)}
=============================================================================
