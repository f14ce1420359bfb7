---------------------------- MODULE PeerIdentity ----------------------------
(***************************************************************************)
(* Who a request is from: IdentifiedPeer::extract of crates/nailip, with   *)
(* the parser of Forwarded elements in crates/nailfv.  The headers are     *)
(* tried in a fixed order, and the first name found is the peer; failing   *)
(* that it is the address and the port of the connection.                  *)
(*                                                                         *)
(* A header is the sequence of its lines, a line a sequence of symbols:    *)
(* addresses, the separators, a space, a quote, and "for=" in any case.    *)
(* A name that may be missing is a sequence of at most one.                *)
(***************************************************************************)
EXTENDS Naturals, Sequences, SequencesExt

CONSTANT Opaque  \* a line that is not visible ASCII

\* The symbols that are not addresses.
Comma == ","
Semicolon == ";"
Space == " "
Quote == "\""
ForEq == "for="

\* str::split at any of the separators: where the parts of a line begin.
Starts(line, separators) ==
  {1} \cup {i + 1 : i \in {j \in DOMAIN line : line[j] \in separators}}

\* str::trim.
Trim(part) ==
  LET ink == {i \in DOMAIN part : part[i] # Space}
  IN  IF ink = {} THEN <<>> ELSE SubSeq(part, Min(ink), Max(ink))

\* The part that begins at a place, trimmed.
Part(line, separators, start) ==
  LET ends == {i \in start .. Len(line) : line[i] \in separators} \cup {Len(line) + 1}
  IN  Trim(SubSeq(line, start, Min(ends) - 1))

\* extract_identifier: what is in quotes, or everything if no quote is closed.
Identifier(value) ==
  LET closing == {i \in 2 .. Len(value) : value[i] = Quote}
  IN  IF value # <<>> /\ value[1] = Quote /\ closing # {}
      THEN SubSeq(value, 2, Min(closing) - 1)
      ELSE value

\* HeaderMap::get is the first line; header_value_to_str refuses an opaque one.
Readable(lines) == lines # <<>> /\ lines[1] # Opaque

\* Where the parts begin that are not empty.
NamesAt(line) == {i \in Starts(line, {Comma}) : Part(line, {Comma}, i) # <<>>}

\* Slip: the name is taken from the near end of the line.
NearestForwardedFor(lines) ==
  IF Readable(lines) /\ NamesAt(lines[1]) # {}
  THEN << Part(lines[1], {Comma}, Max(NamesAt(lines[1]))) >> ELSE <<>>

XForwardedFor(lines) ==
  IF Readable(lines) /\ NamesAt(lines[1]) # {}
  THEN << Part(lines[1], {Comma}, Min(NamesAt(lines[1]))) >> ELSE <<>>

XRealIp(lines) == IF Readable(lines) THEN << Trim(lines[1]) >> ELSE <<>>

\* extract_for, on the elements of a line; the ones that are no `for=` fail.
Elements == {Comma, Semicolon}
ForElement(line) ==
  LET found == {i \in Starts(line, Elements) : /\ Part(line, Elements, i) # <<>>
                                               /\ Part(line, Elements, i)[1] = ForEq}
  IN  IF found = {} THEN <<>> ELSE << Identifier(Tail(Part(line, Elements, Min(found)))) >>

Forwarded(lines) ==
  LET found == {k \in DOMAIN lines : lines[k] # Opaque /\ ForElement(lines[k]) # <<>>}
  IN  IF found = {} THEN <<>> ELSE ForElement(lines[Min(found)])

OrElse(name, other) == IF name # <<>> THEN name ELSE other

\* Slip: X-Real-IP is asked first.
ExtractRealFirst(headers, connection) ==
  OrElse(XRealIp(headers.real),
         OrElse(XForwardedFor(headers.xff),
                OrElse(Forwarded(headers.forwarded), <<connection>>)))[1]

\* IdentifiedPeer::extract.
Extract(headers, connection) ==
  OrElse(XForwardedFor(headers.xff),
         OrElse(XRealIp(headers.real),
                OrElse(Forwarded(headers.forwarded), <<connection>>)))[1]
=============================================================================
